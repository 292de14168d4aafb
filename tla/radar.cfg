\* A ring of two LEDs of three degrees each: the sweep from 0 to 2 degrees shows on
\* the second, and the last degree of the calibration turn lies beyond it.  One degree
\* is 17/3 steps, so that a remainder is carried from move to move; an unsigned angle
\* wraps after 4.  Of the distances one is in range.
SPECIFICATION FairSpec
CONSTANTS
  NUM_RING_LEDS = 2
  DEGREES_PER_LED = 3
  STEP_RATIO = 17
  DEGREE_RATIO = 3
  SweepEnd = 2
  FullTurn = 4
  CalibrationSteps = 5
  zero_degrees_led = 1
  Ranges = {50}
  DefaultRange = 50
  Distances = {0, 60}
  WordMax = 4
  Commands = {"start", "stop", "range", "reset", "calibrate", "exit"}
  Slack = 2
INVARIANTS RadarTypeOK StepsTrackAngle OnlyArcLit
PROPERTY IdleGoesDark
CHECK_DEADLOCK FALSE
