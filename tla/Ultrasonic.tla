----------------------------- MODULE Ultrasonic -----------------------------
(***************************************************************************)
(* The range sensor of ultrasonic.c, with its edges in gpiote.c and its    *)
(* timeout in the TIMER1 half of timer.c.  A call pulses the trigger and   *)
(* waits for a measurement; the sensor answers with a pulse on the echo    *)
(* pin, of which each edge is an interrupt; TIMER1 times the pulse and     *)
(* gives up after 36 ms.  Handlers have the highest priority; the waiting  *)
(* thread may be suspended at any statement.                               *)
(***************************************************************************)
EXTENDS Integers

CONSTANTS
  Callers,     \* threads that call ultrasonic_read
  Timeout,     \* ULTRASONIC_TIMEOUT_US
  Unit,        \* microseconds that pass in a step of the clock
  MaxEcho      \* bound: the sensor's longest pulse, in microseconds

Infinite == -1        \* 0xFFFFFFFF

ASSUME SensorAssumption ==
  /\ Timeout \in Nat /\ Unit \in Nat /\ MaxEcho \in Nat
  /\ Unit >= 58 /\ Timeout % Unit = 0 /\ Timeout > 0

VARIABLES
  last_ultrasonic_measurement,
  in_measurement,
  upc,               \* where a thread is in its call
  range,             \* what the call has returned
  counting, count,   \* TIMER1: whether it runs, and its counter
  compare,           \* its EVENTS_COMPARE[0]
  edge,              \* EVENTS_IN of the sensor's GPIOTE channel
  (* the sensor *)
  sensor,            \* "idle", "triggered" or "echo": the pin is high in "echo"
  pulse              \* length of this pulse, or of the last one

cpuVars == <<last_ultrasonic_measurement, in_measurement, upc, range>>
timer1Vars == <<counting, count, compare>>
sensorVars == <<edge, sensor, pulse>>
ultraVars == <<cpuVars, timer1Vars, sensorVars>>

\* An interrupt is waiting: its handler runs before any thread goes on.
Interrupt == edge \/ compare

UAt(t, l) == upc[t] = l
Runs(t, l) == ~Interrupt /\ UAt(t, l)
UGoto(t, l) == upc' = [upc EXCEPT ![t] = l]

-----------------------------------------------------------------------------
(* ultrasonic_range. *)

\* Callers leave the sensor its 10 ms: the pulse before has ended.
RangeEnter(t) ==
  /\ Runs(t, "user") /\ sensor = "idle" /\ \A u \in Callers : UAt(u, "user")
  /\ last_ultrasonic_measurement' = 0
  /\ UGoto(t, "reset")
  /\ UNCHANGED <<in_measurement, range, timer1Vars, sensorVars>>

RangeReset(t) ==
  /\ Runs(t, "reset")
  /\ in_measurement' = FALSE
  /\ UGoto(t, "trigger")
  /\ UNCHANGED <<last_ultrasonic_measurement, range, timer1Vars, sensorVars>>

\* The pulse of 10 us on the trigger pin.
RangeTrigger(t) ==
  /\ Runs(t, "trigger")
  /\ sensor' = "triggered"
  /\ UGoto(t, "wait")
  /\ UNCHANGED <<last_ultrasonic_measurement, in_measurement, range,
                 timer1Vars, edge, pulse>>

RangeWait(t) ==
  /\ Runs(t, "wait") /\ last_ultrasonic_measurement # 0
  /\ UGoto(t, "return")
  /\ UNCHANGED <<last_ultrasonic_measurement, in_measurement, range,
                 timer1Vars, sensorVars>>

\* The measurement is read once more to be returned.
RangeReturn(t) ==
  /\ Runs(t, "return")
  /\ range' = last_ultrasonic_measurement
  /\ UGoto(t, "user")
  /\ UNCHANGED <<last_ultrasonic_measurement, in_measurement,
                 timer1Vars, sensorVars>>

-----------------------------------------------------------------------------
(* The interrupts. *)

\* TASKS_CLEAR and TASKS_STOP of TIMER1.  (Mutant: the count is not cleared.)
Uncleared == count
Cleared == 0
Stopped == FALSE

\* GPIOTE_Handler, rising edge: timer1_start clears the counter.
GPIOTE_Rise ==
  /\ edge /\ ~in_measurement
  /\ edge' = FALSE /\ in_measurement' = TRUE
  /\ counting' = TRUE /\ count' = Cleared /\ compare' = FALSE
  /\ UNCHANGED <<last_ultrasonic_measurement, upc, range, sensor, pulse>>

\* Elapsed microseconds in centimeters.  (Mutant: in meters.)
Meters(us) == us \div 5800
Centimeters(us) == us \div 58

\* GPIOTE_Handler, falling edge: timer1_stop, and the counter is captured.
GPIOTE_Fall ==
  /\ edge /\ in_measurement
  /\ edge' = FALSE /\ in_measurement' = FALSE
  /\ counting' = Stopped
  /\ last_ultrasonic_measurement' = Centimeters(count)
  /\ UNCHANGED <<upc, range, count, compare, sensor, pulse>>

\* The timeout leaves the flag to the edge that is still to come.  (Mutant: it
\* clears the flag.)
FlagCleared == FALSE
FlagAfterTimeout == in_measurement
TIMER1_Handler ==
  /\ compare
  /\ compare' = FALSE /\ count' = Cleared /\ counting' = Stopped
  /\ last_ultrasonic_measurement' = Infinite
  /\ in_measurement' = FlagAfterTimeout
  /\ UNCHANGED <<upc, range, sensorVars>>

GPIOTE_Handler == GPIOTE_Rise \/ GPIOTE_Fall

-----------------------------------------------------------------------------
(* The sensor and the clock: not part of the repository, as the data sheet  *)
(* values in ultrasonic.h and timer.h describe them.                        *)

EchoRises ==
  /\ ~Interrupt /\ sensor = "triggered"
  /\ sensor' = "echo" /\ pulse' = 0 /\ edge' = TRUE
  /\ UNCHANGED <<cpuVars, timer1Vars>>

EchoFalls ==
  /\ ~edge /\ sensor = "echo" /\ pulse > 0
  /\ sensor' = "idle" /\ edge' = TRUE
  /\ UNCHANGED <<cpuVars, timer1Vars, pulse>>

\* Handlers run at once: no time passes before them.
Elapse ==
  /\ ~Interrupt
  /\ sensor = "echo" => pulse < MaxEcho
  /\ sensor = "echo" \/ counting
  /\ pulse' = IF sensor = "echo" THEN pulse + Unit ELSE pulse
  /\ count' = IF counting THEN count + Unit ELSE count
  /\ compare' = (counting /\ count + Unit = Timeout)
  /\ UNCHANGED <<cpuVars, counting, edge, sensor>>

-----------------------------------------------------------------------------

\* ultrasonic_init.
UltrasonicInit ==
  /\ last_ultrasonic_measurement = 0 /\ in_measurement = FALSE
  /\ upc = [t \in Callers |-> "user"] /\ range = 0
  /\ counting = FALSE /\ count = 0 /\ compare = FALSE
  /\ edge = FALSE /\ sensor = "idle" /\ pulse = 0

Range(t) == RangeReset(t) \/ RangeTrigger(t) \/ RangeWait(t) \/ RangeReturn(t)
Sensor == EchoRises \/ EchoFalls

UltrasonicNext ==
  \/ \E t \in Callers : RangeEnter(t) \/ Range(t)
  \/ GPIOTE_Handler \/ TIMER1_Handler
  \/ Sensor \/ Elapse

UltrasonicSpec == UltrasonicInit /\ [][UltrasonicNext]_ultraVars

\* Interrupts are taken, time passes, the sensor answers and ends its pulse,
\* and the scheduler lets the caller go on.
FairUltrasonic ==
  /\ UltrasonicSpec
  /\ \A t \in Callers : WF_ultraVars(Range(t))
  /\ WF_ultraVars(GPIOTE_Handler) /\ WF_ultraVars(TIMER1_Handler)
  /\ WF_ultraVars(Sensor) /\ WF_ultraVars(Elapse)

-----------------------------------------------------------------------------
(* Properties. *)

UltrasonicTypeOK ==
  /\ last_ultrasonic_measurement \in Nat \cup {Infinite}
  /\ in_measurement \in BOOLEAN
  /\ upc \in [Callers -> {"user", "reset", "trigger", "wait", "return"}]
  /\ range \in Nat \cup {Infinite}
  /\ counting \in BOOLEAN /\ count \in 0 .. Timeout /\ compare \in BOOLEAN
  /\ edge \in BOOLEAN /\ sensor \in {"idle", "triggered", "echo"}
  /\ pulse \in 0 .. MaxEcho

\* The flag knows the edges: when both interrupts are served it is set exactly
\* while the pin is high, timeouts or not (GPIOTE_Handler).
EdgeParity == ~edge => (in_measurement <=> sensor = "echo")

\* A range in centimeters is that of the pulse which answered this call, and an
\* infinite one is that of a pulse as long as the timeout (GPIOTE_Handler,
\* TIMER1_Handler).  A pulse that outlasts its timeout may still leave a 0.
RangeIsEcho == \A t \in Callers : UAt(t, "return") =>
  CASE last_ultrasonic_measurement = Infinite -> pulse >= Timeout
    [] last_ultrasonic_measurement = 0 -> pulse >= Timeout
    [] OTHER -> last_ultrasonic_measurement = Centimeters(pulse)

\* TIMER1 runs only while a pulse is being timed (timer1_stop).
TimedPulse == counting => in_measurement \/ edge

\* A call whose pulse ends before the timeout returns (ultrasonic_range).
RangeReturns ==
  \A t \in Callers : UAt(t, "wait") ~> (UAt(t, "user") \/ pulse >= Timeout)
=============================================================================
