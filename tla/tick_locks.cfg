SPECIFICATION Spec
CONSTANTS
  N = 3
  NumLocks = 2
  TaskSet <- LockTasks
  Scale = 24
  WordMax = 15
  MaxBlocked = 3
  Bins = {1}
  Calls = {"lock", "unlock"}
  TickAt = {"user"}
  ThreadProtect = TRUE
INVARIANTS
  CeilingExact
  DeadlockFree
  SingleBlocker
  OwnerInherits
  PriorityRestored
  MostUrgentRuns
CHECK_DEADLOCK FALSE
