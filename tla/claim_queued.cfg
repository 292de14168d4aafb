SPECIFICATION Spec
CONSTANTS
  N = 3
  NumLocks = 1
  TaskSet <- LockTasks
  Scale = 24
  WordMax = 15
  MaxBlocked = 3
  Bins = {1}
  Calls = {"lock", "unlock"}
  TickAt <- Labels
  ThreadProtect = TRUE
INVARIANT BlockedIsQueued
CHECK_DEADLOCK FALSE
