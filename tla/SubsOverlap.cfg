SPECIFICATION FairSpec
CONSTANTS
  Tenants = {t1}
  Requests = {r1, r2}
  Charges = {1, 2, 3}
  Prices = {p1}
  GraceChoices = {1}
  Month = 2
  MaxTime = 3
  MaxCrashes = 1
  Ops <- AllOps
  Overlap = TRUE
  None = None
CONSTRAINT IssuedInOrder
INVARIANTS
  TypeOK
  NoFreeMonth
  GraceDeadline
PROPERTIES
  GraceEnds
