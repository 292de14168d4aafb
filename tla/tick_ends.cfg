SPECIFICATION ReturningSpec
CONSTANTS
  N = 2
  NumLocks = 2
  TaskSet <- TwoTasks
  Scale = 24
  WordMax = 15
  MaxBlocked = 2
  Bins = {1}
  Calls = {"lock", "unlock", "yield", "end", "fault"}
  TickAt = {"user"}
  ThreadProtect = TRUE
INVARIANTS
  JoinSafety
  BlockedIsQueued
PROPERTIES
  JoinReturns
CHECK_DEADLOCK FALSE
