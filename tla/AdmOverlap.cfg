SPECIFICATION AdmSpec
CONSTANTS
  Invoices = {i1, i2, i3}
  Payments = {p1, p2}
  Students = {s1, s2}
  Applications = {a1}
  Bases = {2}
  Discounts = {0, 3}
  Amounts = {1, 2}
  Requests = {r1, r2}
  Clerks = {c1}
  MaxCrashes = 1
  Overlap = TRUE
  None = None
SYMMETRY Symmetry
INVARIANTS
  AdmTypeOK
  PaidBeforeEnrolled
  DoubledAtMost
PROPERTIES
  NextOneRepairs
CHECK_DEADLOCK FALSE
