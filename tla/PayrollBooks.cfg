SPECIFICATION Spec
CONSTANTS
  Employees = {e1}
  Leaves = {l1, l2}
  Periods = {p1}
  LeaveDates <- SomeLeave
  PeriodDates <- FirstMonth
  Structures <- SmallPay
  MaxEvents = 2
  Requests = {r1, r2}
  None = None
SYMMETRY Symmetry
INVARIANTS
  PayTypeOK
  LeaveAccounted
  DraftHasNoPayslips
  HistoryTellsStatus
PROPERTIES
  RunIsComplete
  PublishedStands
CHECK_DEADLOCK FALSE
