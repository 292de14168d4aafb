SPECIFICATION FairStepper
CONSTANTS
  mover = mover
  user = user
  Movers = {mover}
  Setters = {user}
  Moves <- TurnsBothWays
  Speeds = {1, 10}
  StepsPerRev = 2048
  MaxHandled = 5
INVARIANTS StepperTypeOK ExactMoves StillAtRest DriftBounded
PROPERTIES MoveReturns
