SPECIFICATION FairSpec
CONSTANTS
  Tenants = {t1}
  Requests = {r1}
  Charges = {c1}
  Prices = {p1}
  GraceChoices = {1}
  Month = 2
  MaxTime = 4
  MaxCrashes = 1
  Ops <- ProvisionOnly
  Overlap = TRUE
  None = None
PROPERTIES
  SuspensionCompletes
