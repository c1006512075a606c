SPECIFICATION Spec
CONSTANTS
  Tenants = {t1}
  Requests = {r1}
  Charges = {c1, c2, c3, c4}
  Prices = {p1}
  GraceChoices = {0, 2}
  Month = 2
  MaxTime = 6
  MaxCrashes = 1
  Ops <- LifecycleOps
  Overlap = FALSE
  None = None
INVARIANTS
  ChargePerPeriod
  PaidMeansAccess
PROPERTIES
  ImplementsLifecycle
