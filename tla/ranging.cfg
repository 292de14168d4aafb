\* Pulses of 1 to 40 ms against a timeout of 36 ms, in steps of 1 ms.  A caller
\* whose measurement is overwritten waits for good, and with it this model.
SPECIFICATION FairUltrasonic
CHECK_DEADLOCK FALSE
CONSTANTS
  caller = caller
  Callers = {caller}
  Timeout = 36000
  Unit = 1000
  MaxEcho = 40000
INVARIANTS EdgeParity RangeIsEcho
PROPERTIES RangeReturns
