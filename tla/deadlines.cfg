SPECIFICATION FairSpec
CONSTANTS
  N = 3
  NumLocks = 0
  TaskSet <- DeadlineTasks
  Scale = 24
  WordMax = 15
  MaxBlocked = 3
  Bins = {1, 2}
  Calls = {"yield"}
  TickAt = {"user"}
  ThreadProtect = TRUE
INVARIANTS
  BudgetKept
PROPERTIES
  ResponseMet
  NoStarvation
CHECK_DEADLOCK FALSE
