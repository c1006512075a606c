SPECIFICATION Spec
CONSTANTS
  Invoices = {i1}
  Payments = {p1, p2, p3}
  Students = {s1}
  Applications = {}
  Bases = {2}
  Discounts = {0}
  Amounts = {1, 2}
  Requests = {r1, r2}
  MaxCrashes = 0
  Overlap = TRUE
  None = None
SYMMETRY Symmetry
INVARIANTS
  PaidAmountAccurate
CHECK_DEADLOCK FALSE
