-------------------------- MODULE UltrasonicProofs --------------------------
(***************************************************************************)
(* Proofs about Ultrasonic, for any number of callers, any timeout and any *)
(* echo.  The invariant follows one pulse from the trigger to the return   *)
(* of its measurement: in each phase of the sensor it says who has still   *)
(* to look at the pulse, and what the counter is worth.                    *)
(***************************************************************************)
EXTENDS Ultrasonic, TLAPS

\* Types, as far as the argument needs them.
UTypes ==
  /\ upc \in [Callers -> {"user", "reset", "trigger", "wait", "return"}]
  /\ pulse \in Nat /\ count \in Nat
  /\ edge \in BOOLEAN /\ compare \in BOOLEAN
  /\ in_measurement \in BOOLEAN /\ counting \in BOOLEAN
  /\ sensor \in {"idle", "triggered", "echo"}

\* Callers take turns.
OneCall == \A t, u \in Callers : UAt(t, "user") \/ UAt(u, "user") \/ t = u

\* A call that has not pulsed the trigger finds the sensor silent.
BeforeTrigger == \A t \in Callers :
  UAt(t, "reset") \/ UAt(t, "trigger") =>
    sensor = "idle" /\ ~Interrupt /\ last_ultrasonic_measurement = 0

\* Nothing is measured yet, and no call returns.
Unmeasured ==
  /\ last_ultrasonic_measurement = 0
  /\ \A t \in Callers : ~UAt(t, "return")

\* The pulse is being timed, or its timeout is over.
Timed == counting /\ count = pulse /\ Unmeasured
TimedOut ==
  /\ ~counting /\ ~compare /\ count = 0
  /\ pulse >= Timeout /\ last_ultrasonic_measurement = Infinite

Measured ==
  \/ last_ultrasonic_measurement = Infinite /\ pulse >= Timeout
  \/ last_ultrasonic_measurement = 0 /\ pulse >= Timeout
  \/ pulse >= Unit /\ last_ultrasonic_measurement = Centimeters(pulse)

Triggered == sensor = "triggered" =>
  ~edge /\ ~compare /\ ~counting /\ ~in_measurement /\ Unmeasured

Rising == sensor = "echo" /\ edge =>
  pulse = 0 /\ ~compare /\ ~counting /\ ~in_measurement /\ Unmeasured

High == sensor = "echo" /\ ~edge => in_measurement /\ (Timed \/ TimedOut)

Falling == sensor = "idle" /\ edge =>
  in_measurement /\ pulse >= Unit /\ (Timed \/ TimedOut)

Low == sensor = "idle" /\ ~edge =>
  /\ ~in_measurement /\ ~counting
  /\ ~compare => \A t \in Callers : UAt(t, "wait") \/ UAt(t, "return") => Measured

Compared == compare =>
  pulse = Timeout /\ \A t \in Callers : ~UAt(t, "return")

WholeUnits == pulse = 0 \/ pulse >= Unit

UInv ==
  /\ UTypes /\ OneCall /\ BeforeTrigger
  /\ Triggered /\ Rising /\ High /\ Falling /\ Low
  /\ Compared /\ WholeUnits

-----------------------------------------------------------------------------

\* A cleared counter is 0 cm; a pulse of a unit or more is not.
LEMMA Conversion ==
  /\ Centimeters(0) = 0
  /\ \A n \in Nat : n >= Unit => Centimeters(n) \in Nat \ {0}
  BY SensorAssumption DEF Centimeters

\* The invariant holds at first.
LEMMA UInitially == UltrasonicInit => UInv
<1> SUFFICES ASSUME UltrasonicInit PROVE UInv
  OBVIOUS
<1>1. UTypes
  BY DEF UltrasonicInit, UTypes
<1>2. \A t \in Callers : upc[t] = "user"
  BY DEF UltrasonicInit
<1> QED
  BY <1>1, <1>2
  DEF UltrasonicInit, UInv, OneCall, BeforeTrigger, Triggered, Rising,
      High, Falling, Low, Compared, WholeUnits, UAt, Interrupt

\* The steps of a call keep the invariant (ultrasonic_range).
LEMMA CallStep ==
  ASSUME UInv, NEW t \in Callers, RangeEnter(t) \/ Range(t)
  PROVE  UInv'
<1> USE DEF UInv, UTypes, UAt, UGoto, Runs, Interrupt
<1>1. CASE RangeEnter(t)
  BY <1>1
  DEF RangeEnter, OneCall, BeforeTrigger, Triggered, Rising, High, Falling, Low,
      Compared, WholeUnits, timer1Vars, sensorVars
<1>2. CASE RangeReset(t)
  BY <1>2
  DEF RangeReset, OneCall, BeforeTrigger, Triggered, Rising, High, Falling, Low,
      Compared, WholeUnits, timer1Vars, sensorVars
<1>3. CASE RangeTrigger(t)
  BY <1>3
  DEF RangeTrigger, OneCall, BeforeTrigger, Triggered, Rising, High, Falling, Low,
      Compared, WholeUnits, Unmeasured, timer1Vars
<1>4. CASE RangeWait(t)
  BY <1>4
  DEF RangeWait, OneCall, BeforeTrigger, Triggered, Rising, High, Falling, Low,
      Compared, WholeUnits, Unmeasured, Timed, TimedOut, Measured, timer1Vars, sensorVars
<1>5. CASE RangeReturn(t)
  BY <1>5
  DEF RangeReturn, OneCall, BeforeTrigger, Triggered, Rising, High, Falling, Low,
      Compared, WholeUnits, Unmeasured, Timed, TimedOut, Measured, timer1Vars, sensorVars
<1> QED BY <1>1, <1>2, <1>3, <1>4, <1>5 DEF Range

\* The interrupts keep the invariant (GPIOTE_Handler, TIMER1_Handler).
LEMMA HandlerStep ==
  ASSUME UInv, GPIOTE_Handler \/ TIMER1_Handler
  PROVE  UInv'
<1> USE DEF UInv, UTypes, UAt, Interrupt
<1>1. CASE GPIOTE_Rise
  BY <1>1
  DEF GPIOTE_Rise, Cleared, OneCall, BeforeTrigger, Triggered, Rising, High, Falling,
      Low, Compared, WholeUnits, Unmeasured, Timed, TimedOut
<1>2. CASE GPIOTE_Fall
  BY <1>2, Conversion
  DEF GPIOTE_Fall, Stopped, OneCall, BeforeTrigger, Triggered, Rising, High, Falling,
      Low, Compared, WholeUnits, Unmeasured, Timed, TimedOut, Measured
<1>3. CASE TIMER1_Handler
  <2>1. compare' = FALSE /\ counting' = FALSE /\ count' = 0 /\ last_ultrasonic_measurement' = Infinite
    BY <1>3 DEF TIMER1_Handler, Cleared, Stopped
  <2>2. UNCHANGED <<upc, edge, sensor, pulse, in_measurement>>
    BY <1>3 DEF TIMER1_Handler, FlagAfterTimeout, sensorVars
  <2>3. pulse = Timeout /\ \A t \in Callers : ~UAt(t, "return")
    BY <1>3 DEF TIMER1_Handler, Compared
  <2>4. UTypes' /\ OneCall' /\ WholeUnits' /\ Compared'
    BY <2>1, <2>2 DEF OneCall, WholeUnits, Compared
  <2>5. BeforeTrigger'
    BY <1>3, <2>2 DEF TIMER1_Handler, BeforeTrigger
  <2>6. TimedOut' /\ Measured'
    BY <2>1, <2>2, <2>3, SensorAssumption DEF TimedOut, Measured
  <2>7. Triggered' /\ Rising'
    BY <1>3, <2>2 DEF TIMER1_Handler, Triggered, Rising
  <2>8. High' /\ Falling' /\ Low'
    BY <2>1, <2>2, <2>6 DEF High, Falling, Low
  <2> QED BY <2>4, <2>5, <2>7, <2>8
<1> QED BY <1>1, <1>2, <1>3 DEF GPIOTE_Handler

\* The sensor and the clock keep the invariant.
LEMMA SensorStep ==
  ASSUME UInv, Sensor \/ Elapse
  PROVE  UInv'
<1> USE DEF UInv, UTypes, UAt, Interrupt
<1>1. CASE EchoRises
  BY <1>1
  DEF EchoRises, OneCall, BeforeTrigger, Triggered, Rising, High, Falling, Low,
      Compared, WholeUnits, Unmeasured, cpuVars, timer1Vars
<1>2. CASE EchoFalls
  BY <1>2
  DEF EchoFalls, OneCall, BeforeTrigger, Triggered, Rising, High, Falling, Low,
      Compared, WholeUnits, Unmeasured, Timed, TimedOut, cpuVars, timer1Vars
<1>3. CASE Elapse
  BY <1>3, SensorAssumption
  DEF Elapse, OneCall, BeforeTrigger, Triggered, Rising, High, Falling, Low,
      Compared, WholeUnits, Unmeasured, Timed, TimedOut, Measured, cpuVars
<1> QED BY <1>1, <1>2, <1>3 DEF Sensor

\* The invariant is inductive.
LEMMA UInductive == UInv /\ [UltrasonicNext]_ultraVars => UInv'
<1> SUFFICES ASSUME UInv, [UltrasonicNext]_ultraVars
             PROVE  UInv'
  OBVIOUS
<1>1. CASE UltrasonicNext
  BY <1>1, CallStep, HandlerStep, SensorStep DEF UltrasonicNext
<1>2. CASE UNCHANGED ultraVars
  BY <1>2
  DEF UInv, UTypes, OneCall, BeforeTrigger, Triggered, Rising, High, Falling, Low,
      Compared, WholeUnits, Unmeasured, Timed, TimedOut, Measured, UAt, Interrupt,
      ultraVars, cpuVars, timer1Vars, sensorVars
<1> QED BY <1>1, <1>2

LEMMA UAlways == UltrasonicSpec => []UInv
  BY UInitially, UInductive, PTL DEF UltrasonicSpec

\* The edge flag follows the pin, timeouts or not (GPIOTE_Handler, TIMER1_Handler).
THEOREM FlagFollowsPin == UltrasonicSpec => []EdgeParity
<1>1. UInv => EdgeParity
  BY DEF UInv, UTypes, EdgeParity, Triggered, High, Low
<1> QED BY <1>1, UAlways, PTL

\* TIMER1 never runs without a pulse to time (timer1_stop).
THEOREM NoStrayTimer == UltrasonicSpec => []TimedPulse
<1>1. UInv => TimedPulse
  BY DEF UInv, UTypes, TimedPulse, Triggered, Rising, High, Falling, Low
<1> QED BY <1>1, UAlways, PTL

\* No call returns the range of another call's pulse (ultrasonic_range).
THEOREM OwnEcho == UltrasonicSpec => []RangeIsEcho
<1>1. UInv => RangeIsEcho
  <2> SUFFICES ASSUME UInv, NEW t \in Callers, UAt(t, "return")
               PROVE  CASE last_ultrasonic_measurement = Infinite -> pulse >= Timeout
                        [] last_ultrasonic_measurement = 0 -> pulse >= Timeout
                        [] OTHER -> last_ultrasonic_measurement = Centimeters(pulse)
    BY DEF RangeIsEcho
  <2>1. Measured \/ TimedOut
    BY DEF UInv, UTypes, Triggered, Rising, High, Falling, Low, Compared,
           Unmeasured, Timed, UAt
  <2>2. Centimeters(pulse) \in Nat \ {0} \/ pulse < Unit
    BY Conversion, SensorAssumption DEF UInv, UTypes
  <2> QED BY <2>1, <2>2, SensorAssumption DEF UInv, UTypes, Measured, TimedOut, Infinite
<1> QED BY <1>1, UAlways, PTL

-----------------------------------------------------------------------------
(* Types. *)

\* A clock of whole units stops at any whole number of units.
LEMMA WholeStep ==
  ASSUME NEW n \in Nat, NEW limit \in Nat,
         n % Unit = 0, limit % Unit = 0, n < limit
  PROVE  n + Unit <= limit /\ (n + Unit) % Unit = 0
<1>1. Unit \in Nat \ {0}
  BY SensorAssumption
<1> DEFINE k == n \div Unit
           l == limit \div Unit
<1>2. k \in Int /\ l \in Int /\ n = Unit * k /\ limit = Unit * l
  BY <1>1
<1> HIDE DEF k, l
<1>3. k < l
  BY <1>1, <1>2
<1>4. k + 1 <= l
  BY <1>2, <1>3
<1>5. Unit * (k + 1) <= Unit * l
  BY <1>1, <1>2, <1>4
<1>6. n + Unit = Unit * (k + 1)
  BY <1>1, <1>2
<1>7. (Unit * (k + 1)) % Unit = 0
  BY <1>1, <1>2
<1> QED BY <1>2, <1>5, <1>6, <1>7

\* The pulse is whole units long and no longer than the sensor's longest; the
\* counter, which is the pulse so far or cleared, does not pass the timeout.
MeasureInv ==
  /\ pulse % Unit = 0 /\ pulse <= MaxEcho
  /\ count % Unit = 0 /\ count <= Timeout
  /\ counting /\ ~compare => count < Timeout
  /\ last_ultrasonic_measurement \in Nat \cup {Infinite}
  /\ range \in Nat \cup {Infinite}

LEMMA MeasureStep ==
  ASSUME MaxEcho % Unit = 0, UInv, MeasureInv, [UltrasonicNext]_ultraVars
  PROVE  MeasureInv'
<1> USE DEF UInv, UTypes
<1>1. 0 % Unit = 0
  BY SensorAssumption
<1>2. ASSUME NEW t \in Callers, RangeEnter(t) \/ Range(t)
      PROVE  MeasureInv'
  BY <1>2 DEF RangeEnter, Range, RangeReset, RangeTrigger, RangeWait, RangeReturn,
              MeasureInv, timer1Vars, sensorVars
<1>3. CASE GPIOTE_Handler
  <2>1. Centimeters(count) \in Nat
    BY DEF Centimeters
  <2> QED BY <1>1, <1>3, <2>1, SensorAssumption
          DEF GPIOTE_Handler, GPIOTE_Rise, GPIOTE_Fall, Cleared, Stopped, MeasureInv
<1>4. CASE TIMER1_Handler
  BY <1>1, <1>4, SensorAssumption DEF TIMER1_Handler, Cleared, Stopped, MeasureInv, sensorVars
<1>5. CASE Sensor
  BY <1>1, <1>5, SensorAssumption
  DEF Sensor, EchoRises, EchoFalls, MeasureInv, cpuVars, timer1Vars
<1>6. CASE Elapse
  <2>1. pulse' % Unit = 0 /\ pulse' <= MaxEcho
    <3>1. CASE sensor = "echo"
      BY <1>6, <3>1, WholeStep, SensorAssumption DEF Elapse, MeasureInv
    <3>2. CASE sensor # "echo"
      BY <1>6, <3>2 DEF Elapse, MeasureInv
    <3> QED BY <3>1, <3>2
  <2>2. /\ count' % Unit = 0 /\ count' <= Timeout
        /\ counting' /\ ~compare' => count' < Timeout
    <3>1. CASE counting
      <4>1. count < Timeout
        BY <1>6, <3>1 DEF Elapse, Interrupt, MeasureInv
      <4>2. count + Unit <= Timeout /\ (count + Unit) % Unit = 0
        BY <4>1, WholeStep, SensorAssumption DEF MeasureInv
      <4>3. count' = count + Unit /\ (~compare' => count + Unit # Timeout)
        BY <1>6, <3>1, Zenon DEF Elapse
      <4> QED BY <4>2, <4>3, SensorAssumption
    <3>2. CASE ~counting
      BY <1>6, <3>2 DEF Elapse, MeasureInv
    <3> QED BY <3>1, <3>2
  <2> QED BY <1>6, <2>1, <2>2 DEF Elapse, MeasureInv, cpuVars
<1>7. CASE UNCHANGED ultraVars
  BY <1>7 DEF MeasureInv, ultraVars, cpuVars, timer1Vars, sensorVars
<1> QED BY <1>2, <1>3, <1>4, <1>5, <1>6, <1>7 DEF UltrasonicNext

\* Driver and timer keep their types for any number of callers, and the counter
\* of TIMER1 stops at the timeout (timer1_start, TIMER1_Handler); the longest
\* pulse is one the clock of the model can reach.
THEOREM UltrasonicTyping ==
  ASSUME MaxEcho % Unit = 0
  PROVE  UltrasonicSpec => []UltrasonicTypeOK
<1>1. UltrasonicInit => MeasureInv
  BY SensorAssumption DEF UltrasonicInit, MeasureInv
<1>2. UInv /\ MeasureInv /\ [UltrasonicNext]_ultraVars => MeasureInv'
  BY MeasureStep
<1>3. UInv /\ MeasureInv => UltrasonicTypeOK
  BY SensorAssumption DEF UInv, UTypes, MeasureInv, UltrasonicTypeOK
<1> QED BY <1>1, <1>2, <1>3, UAlways, PTL DEF UltrasonicSpec
=============================================================================
