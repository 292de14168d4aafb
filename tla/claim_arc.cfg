\* As radar.cfg: a calibration in the middle of the way back.
SPECIFICATION Spec
CONSTANTS
  NUM_RING_LEDS = 2
  DEGREES_PER_LED = 3
  STEP_RATIO = 17
  DEGREE_RATIO = 3
  SweepEnd = 2
  FullTurn = 4
  CalibrationSteps = 5
  zero_degrees_led = 1
  Ranges = {50}
  DefaultRange = 50
  Distances = {0, 60}
  WordMax = 4
  Commands = {"start", "stop", "range", "reset", "calibrate", "exit"}
  Slack = 2
INVARIANT SweepInArc
CHECK_DEADLOCK FALSE
