SPECIFICATION Spec
CONSTANTS
  N = 2
  NumLocks = 1
  TaskSet <- TwoTasks
  Scale = 24
  WordMax = 15
  MaxBlocked = 2
  Bins = {1}
  Calls = {"lock", "unlock", "fault"}
  TickAt <- Labels
  ThreadProtect = TRUE
INVARIANTS
  TypeOK
  MutualExclusion
  SvcBitFollows
PROPERTIES
  LockRefinement
CHECK_DEADLOCK FALSE
