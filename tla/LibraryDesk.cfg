SPECIFICATION Spec
CONSTANTS
  Books = {b1}
  Copies = {c1, c2}
  Members = {m1}
  MaxBooks <- OneBookEach
  Loans = {l1, l2, l3}
  Reservations = {v1}
  LateDays = {1}
  Rates = {1}
  Caps = {0}
  Requests = {r1, r2}
  None = None
SYMMETRY Symmetry
INVARIANTS
  LibTypeOK
  LimitOverrun
  MarkedAsLent
PROPERTIES
  FinesSettledOnce
  ActsAsDesk
CHECK_DEADLOCK FALSE
