SPECIFICATION Spec
CONSTANTS
  N = 3
  NumLocks = 1
  TaskSet <- ThreeTasks
  Scale = 24
  WordMax = 15
  MaxBlocked = 14
  Bins = {0}
  Calls = {"define", "end", "yield", "fault", "exit", "sleep_ms"}
  TickAt = {}
  ThreadProtect = TRUE
INVARIANTS
  CountMatches
  UtilizationMatches
  RateMonotonic
CHECK_DEADLOCK FALSE
