SPECIFICATION AdmSpec
CONSTANTS
  Invoices = {i1, i2}
  Payments = {p1}
  Students = {s1}
  Applications = {a1}
  Bases = {2}
  Discounts = {0}
  Amounts = {2}
  Requests = {r1}
  Clerks = {c1}
  MaxCrashes = 1
  Overlap = FALSE
  None = None
SYMMETRY Symmetry
INVARIANTS
  BilledOnce
CHECK_DEADLOCK FALSE
