-------------------------------- MODULE Radar -------------------------------
(***************************************************************************)
(* The radar application, app/radar/src/main.c: four threads that share    *)
(* volatile globals.  A thread whose budget is used up is suspended at any *)
(* statement, so each access of a shared global is a step of its own.      *)
(*                                                                         *)
(* move_stepper is asked for steps and returns at some later time; how     *)
(* many steps the motor then makes is the subject of Stepper, and nothing  *)
(* here depends on it.  ultrasonic_read returns a distance (Ultrasonic);   *)
(* the measurement lock excludes (MutualExclusion of Multitask), so that   *)
(* what is done under it is one step.  Which line makes a command is the   *)
(* subject of Console: here the user thread gets any command at any time,  *)
(* as it does for an empty line, on which cmd_word is what the stack       *)
(* holds.  The command speed, and the speed that reset restores, change    *)
(* nothing here: they are SpeedEnter of Stepper.                           *)
(***************************************************************************)
EXTENDS Integers

CONSTANTS
  NUM_RING_LEDS, DEGREES_PER_LED,
  STEP_RATIO, DEGREE_RATIO,  \* steps for that many degrees
  SweepEnd,                  \* the angle at which the sweep turns back (179)
  FullTurn,                  \* degrees of a revolution (360)
  CalibrationSteps,          \* steps per degree while calibrating (5)
  zero_degrees_led,
  Ranges, DefaultRange,      \* what the command range accepts
  Distances,                 \* what ultrasonic_read returns
  WordMax,                   \* the largest unsigned int
  Commands,                  \* the commands the user gives
  Slack                      \* steps by which those asked for may be off the angle

Leds == 0 .. NUM_RING_LEDS - 1
\* The LEDs of the angles of the sweep.
Arc == {(zero_degrees_led + a \div DEGREES_PER_LED) % NUM_RING_LEDS : a \in 0 .. SweepEnd}

ASSUME LedsAssumption ==
  /\ NUM_RING_LEDS \in Nat \ {0} /\ DEGREES_PER_LED \in Nat \ {0}
  /\ zero_degrees_led \in Leds
ASSUME StepsAssumption ==
  /\ STEP_RATIO \in Nat \ {0} /\ DEGREE_RATIO \in Nat \ {0}
  /\ CalibrationSteps \in Nat /\ Slack \in Nat
ASSUME AnglesAssumption ==
  /\ SweepEnd \in Nat \ {0} /\ FullTurn \in Nat /\ WordMax \in Nat
  /\ SweepEnd < FullTurn /\ FullTurn <= WordMax
ASSUME RangesAssumption ==
  DefaultRange \in Ranges /\ Ranges \subseteq Nat /\ Distances \subseteq Nat

VARIABLES
  radar_active, calibration_mode, current_angle, current_range,
  last_ultrasonic_measurement,
  pc,                 \* where each thread is
  sweep_forward, accumulator,   \* locals of stepper_thread
  steps,                        \* ... the argument of its move_stepper
  angle,                        \* ... the value of current_angle it has loaded
  led_index, last_led_index,    \* locals of indicator_thread
  index,                        \* the loops over all LEDs
  pix,                \* the colors set (pix_duty_cycles)
  sent,               \* the PWM was told to send them after the last was set
  asked,              \* the steps asked of move_stepper, those back negative
  clean               \* there has been no calibration yet

flagVars == <<radar_active, calibration_mode, current_range>>
stepVars == <<sweep_forward, accumulator, steps, angle, asked>>
showVars == <<led_index, last_led_index>>
pixVars == <<index, pix, sent>>
vars == <<flagVars, current_angle, stepVars, last_ultrasonic_measurement, showVars, pixVars,
          pc, clean>>

Threads == {"user", "stepper", "sensor", "indicator"}
Dark == [k \in Leds |-> "off"]

Init ==
  /\ radar_active = FALSE /\ calibration_mode = FALSE
  /\ current_angle = 0 /\ current_range = DefaultRange
  /\ last_ultrasonic_measurement = 0
  /\ pc = [t \in Threads |-> "loop"]
  /\ sweep_forward = TRUE /\ accumulator = 0 /\ steps = 0 /\ angle = 0
  /\ led_index = 0 /\ last_led_index = 0
  /\ index = [t \in {"user", "indicator"} |-> 0]
  /\ pix = Dark /\ sent = FALSE
  /\ asked = 0 /\ clean = TRUE

\* Nothing runs after exit(0).
At(t, l) == pc[t] = l /\ pc["user"] # "exited"
Goto(t, l) == pc' = [pc EXCEPT ![t] = l]
From(t, k, l) == At(t, k) /\ Goto(t, l)

-----------------------------------------------------------------------------
(* The LEDs: neopixel_set of one LED, neopixel_load. *)

Set(k, color) == pix' = [pix EXCEPT ![k] = color] /\ sent' = FALSE
Load == sent' = TRUE /\ UNCHANGED pix

\* The loop that turns off all LEDs.  (Mutant: it stops one short.)
LastShort(k) == k >= NUM_RING_LEDS - 2
Last(k) == k = NUM_RING_LEDS - 1

Blank(t, here, next) ==
  /\ At(t, here)
  /\ Set(index[t], "off")
  /\ IF Last(index[t])
     THEN Goto(t, next) /\ index' = [index EXCEPT ![t] = 0]
     ELSE UNCHANGED pc /\ index' = [index EXCEPT ![t] = @ + 1]

-----------------------------------------------------------------------------
(* user_thread: handle_user_command. *)

userRest == <<stepVars, last_ultrasonic_measurement, showVars>>

Start ==
  /\ "start" \in Commands /\ At("user", "loop")
  /\ radar_active' = TRUE
  /\ UNCHANGED <<userRest, calibration_mode, current_range, current_angle,
                 pixVars, pc, clean>>

Stop ==
  /\ "stop" \in Commands /\ At("user", "loop")
  /\ radar_active' = FALSE
  /\ UNCHANGED <<userRest, calibration_mode, current_range, current_angle,
                 pixVars, pc, clean>>

Range(r) ==
  /\ "range" \in Commands /\ At("user", "loop")
  /\ current_range' = r
  /\ UNCHANGED <<userRest, radar_active, calibration_mode, current_angle,
                 pixVars, pc, clean>>

Reset ==
  /\ "reset" \in Commands /\ At("user", "loop")
  /\ current_range' = DefaultRange
  /\ UNCHANGED <<userRest, radar_active, calibration_mode, current_angle,
                 pixVars, pc, clean>>

\* The dish is about to be turned by hand of the user.
Calibrate ==
  /\ "calibrate" \in Commands /\ From("user", "loop", "deactivate")
  /\ calibration_mode' = TRUE
  /\ clean' = FALSE
  /\ UNCHANGED <<userRest, radar_active, current_range, current_angle, pixVars>>

CalibrateStop ==
  /\ From("user", "deactivate", "blank")
  /\ radar_active' = FALSE
  /\ UNCHANGED <<userRest, calibration_mode, current_range, current_angle,
                 pixVars, clean>>

CalibrateBlank ==
  /\ Blank("user", "blank", "light")
  /\ UNCHANGED <<userRest, flagVars, current_angle, clean>>

CalibrateLight ==
  /\ From("user", "light", "load")
  /\ Set(zero_degrees_led, "yellow")
  /\ UNCHANGED <<userRest, flagVars, current_angle, index, clean>>

CalibrateLoad ==
  /\ From("user", "load", "wait")
  /\ Load
  /\ UNCHANGED <<userRest, flagVars, current_angle, index, clean>>

\* read has brought a carriage return.
Confirm ==
  /\ From("user", "wait", "confirmed")
  /\ current_angle' = 0
  /\ UNCHANGED <<userRest, flagVars, pixVars, clean>>

CalibrateEnd ==
  /\ From("user", "confirmed", "unlight")
  /\ calibration_mode' = FALSE
  /\ UNCHANGED <<userRest, radar_active, current_range, current_angle,
                 pixVars, clean>>

CalibrateUnlight ==
  /\ From("user", "unlight", "reload")
  /\ Set(zero_degrees_led, "off")
  /\ UNCHANGED <<userRest, flagVars, current_angle, index, clean>>

CalibrateReload ==
  /\ From("user", "reload", "loop")
  /\ Load
  /\ UNCHANGED <<userRest, flagVars, current_angle, index, clean>>

Exit ==
  /\ "exit" \in Commands /\ From("user", "loop", "exit")
  /\ UNCHANGED <<userRest, flagVars, current_angle, pixVars, clean>>

ExitBlank ==
  /\ Blank("user", "exit", "exitLoad")
  /\ UNCHANGED <<userRest, flagVars, current_angle, clean>>

\* neopixel_load, then exit(0).
ExitLoad ==
  /\ From("user", "exitLoad", "exited")
  /\ Load
  /\ UNCHANGED <<userRest, flagVars, current_angle, index, clean>>

Command ==
  \/ Start \/ Stop \/ (\E r \in Ranges : Range(r)) \/ Reset \/ Calibrate
  \/ Exit

\* What the user thread does without waiting for the user.
Carry ==
  \/ CalibrateStop \/ CalibrateBlank \/ CalibrateLight \/ CalibrateLoad
  \/ CalibrateEnd \/ CalibrateUnlight \/ CalibrateReload
  \/ ExitBlank \/ ExitLoad

-----------------------------------------------------------------------------
(* stepper_thread. *)

stepperRest == <<flagVars, last_ultrasonic_measurement, showVars, pixVars, clean>>

\* Steps for one degree, and what is left over.  (Mutants: what is left over is
\* taken along on the way forward only; the sweep turns back one degree later.)
StepsOneWay(acc) == (STEP_RATIO + (IF sweep_forward THEN acc ELSE 0)) \div DEGREE_RATIO
StepsFor(acc) == (STEP_RATIO + acc) \div DEGREE_RATIO
Leftover(acc) == (STEP_RATIO + acc) % DEGREE_RATIO
SweepDoneLate(a) == a = SweepEnd + 1
SweepDone(a) == a = SweepEnd

\* The sweep is back.
HomeReached(a) == a = 0

MoveBegin ==
  /\ From("stepper", "loop", "move")
  /\ radar_active
  /\ steps' = (IF sweep_forward THEN 1 ELSE -1) * StepsFor(accumulator)
  /\ UNCHANGED <<stepperRest, current_angle, sweep_forward, accumulator, angle, asked>>

\* Not active: calibration_mode is read next.
MoveNone ==
  /\ From("stepper", "loop", "inactive")
  /\ ~radar_active
  /\ UNCHANGED <<stepperRest, current_angle, stepVars>>

\* move_stepper returns and the angle is loaded.  After a calibration, for which the
\* dish is turned by hand, the steps are not counted any more.
MoveEnd ==
  /\ From("stepper", "move", "store")
  /\ asked' = IF clean THEN asked + steps ELSE 0
  /\ accumulator' = Leftover(accumulator)
  /\ steps' = 0
  /\ angle' = current_angle
  /\ UNCHANGED <<stepperRest, current_angle, sweep_forward>>

StoreAngle ==
  /\ From("stepper", "store", "check")
  /\ current_angle' = (angle + (IF sweep_forward THEN 1 ELSE WordMax)) % (WordMax + 1)
  /\ angle' = 0
  /\ UNCHANGED <<stepperRest, sweep_forward, accumulator, steps, asked>>

CheckAngle ==
  /\ From("stepper", "check", "loop")
  /\ sweep_forward' = IF sweep_forward THEN ~SweepDone(current_angle)
                                       ELSE HomeReached(current_angle)
  /\ UNCHANGED <<stepperRest, current_angle, accumulator, steps, angle, asked>>

TurnBegin ==
  /\ From("stepper", "inactive", "turn")
  /\ calibration_mode
  /\ steps' = CalibrationSteps
  /\ UNCHANGED <<stepperRest, current_angle, sweep_forward, accumulator, angle, asked>>

\* thread_yield.
StepperYield ==
  /\ From("stepper", "inactive", "loop")
  /\ ~calibration_mode
  /\ UNCHANGED <<stepperRest, current_angle, stepVars>>

TurnEnd ==
  /\ From("stepper", "turn", "storeTurn")
  /\ asked' = IF clean THEN asked + steps ELSE 0
  /\ steps' = 0
  /\ angle' = current_angle
  /\ UNCHANGED <<stepperRest, current_angle, sweep_forward, accumulator>>

StoreTurn ==
  /\ From("stepper", "storeTurn", "bound")
  /\ current_angle' = (angle + 1) % (WordMax + 1)
  /\ angle' = 0 /\ accumulator' = 0
  /\ UNCHANGED <<stepperRest, sweep_forward, steps, asked>>

InBounds ==
  /\ From("stepper", "bound", "loop")
  /\ current_angle < FullTurn
  /\ UNCHANGED <<stepperRest, current_angle, stepVars>>

OutOfBounds ==
  /\ From("stepper", "bound", "loadWrap")
  /\ current_angle >= FullTurn
  /\ UNCHANGED <<stepperRest, current_angle, stepVars>>

LoadWrap ==
  /\ From("stepper", "loadWrap", "storeWrap")
  /\ angle' = current_angle
  /\ UNCHANGED <<stepperRest, current_angle, sweep_forward, accumulator, steps, asked>>

StoreWrap ==
  /\ From("stepper", "storeWrap", "loop")
  /\ current_angle' = (angle - FullTurn) % (WordMax + 1)
  /\ angle' = 0
  /\ UNCHANGED <<stepperRest, sweep_forward, accumulator, steps, asked>>

Stepper ==
  \/ MoveBegin \/ MoveNone \/ MoveEnd \/ StoreAngle \/ CheckAngle
  \/ TurnBegin \/ StepperYield \/ TurnEnd \/ StoreTurn
  \/ InBounds \/ OutOfBounds \/ LoadWrap \/ StoreWrap

-----------------------------------------------------------------------------
(* sensor_thread. *)

sensorRest == <<flagVars, current_angle, stepVars, showVars, pixVars, clean>>

Measure ==
  /\ From("sensor", "loop", "store")
  /\ radar_active
  /\ UNCHANGED <<sensorRest, last_ultrasonic_measurement>>

\* What ultrasonic_read has returned is stored under the lock.
StoreMeasurement(d) ==
  /\ From("sensor", "store", "loop")
  /\ last_ultrasonic_measurement' = d
  /\ UNCHANGED sensorRest

Sensor == Measure \/ \E d \in Distances : StoreMeasurement(d)

-----------------------------------------------------------------------------
(* indicator_thread. *)

indicatorRest == <<flagVars, current_angle, stepVars, last_ultrasonic_measurement, clean>>

\* (Mutant: the ring is not closed.)
LedUnwrapped(a) == zero_degrees_led + a \div DEGREES_PER_LED
LedOf(a) == (zero_degrees_led + a \div DEGREES_PER_LED) % NUM_RING_LEDS

Indicate ==
  /\ From("indicator", "loop", "angle")
  /\ radar_active
  /\ UNCHANGED <<indicatorRest, showVars, pixVars>>

IndicateNone ==
  /\ From("indicator", "loop", "inactive")
  /\ ~radar_active
  /\ UNCHANGED <<indicatorRest, showVars, pixVars>>

ChooseLed ==
  /\ From("indicator", "angle", "show")
  /\ led_index' = LedOf(current_angle)
  /\ UNCHANGED <<indicatorRest, last_led_index, pixVars>>

\* Under the lock.
Show ==
  /\ From("indicator", "show", "load")
  /\ IF last_ultrasonic_measurement < current_range
     THEN Set(led_index, "red")
     ELSE IF led_index # last_led_index
     THEN Set(led_index, "off")
     ELSE UNCHANGED <<pix, sent>>
  /\ last_led_index' = led_index
  /\ UNCHANGED <<indicatorRest, led_index, index>>

IndicatorLoad ==
  /\ From("indicator", "load", "loop")
  /\ Load
  /\ UNCHANGED <<indicatorRest, showVars, index>>

DarkenBegin ==
  /\ From("indicator", "inactive", "blank")
  /\ ~calibration_mode
  /\ UNCHANGED <<indicatorRest, showVars, pixVars>>

DarkenNone ==
  /\ From("indicator", "inactive", "loop")
  /\ calibration_mode
  /\ UNCHANGED <<indicatorRest, showVars, pixVars>>

Darken ==
  /\ Blank("indicator", "blank", "load")
  /\ UNCHANGED <<indicatorRest, showVars>>

Indicator ==
  \/ Indicate \/ IndicateNone \/ ChooseLed \/ Show \/ IndicatorLoad \/ DarkenBegin \/ DarkenNone \/ Darken

-----------------------------------------------------------------------------

Next == Command \/ Confirm \/ Carry \/ Stepper \/ Sensor \/ Indicator

Spec == Init /\ [][Next]_vars

\* Each thread gets the processor in each of its periods.  The user need not
\* type anything, and nothing is asked of stepper_thread, whose move may hang.
FairSpec ==
  /\ Spec
  /\ WF_vars(Carry) /\ WF_vars(Sensor) /\ WF_vars(Indicator)

-----------------------------------------------------------------------------
(* Properties. *)

UserLabels == {"loop", "deactivate", "blank", "light", "load", "wait", "confirmed",
               "unlight", "reload", "exit", "exitLoad", "exited"}
StepperLabels == {"loop", "inactive", "move", "store", "check", "turn", "storeTurn", "bound", "loadWrap", "storeWrap"}
Colors == {"off", "red", "yellow"}

\* Every variable has a value of its C type, and LED indices are on the ring.
RadarTypeOK ==
  /\ radar_active \in BOOLEAN /\ calibration_mode \in BOOLEAN
  /\ current_angle \in 0 .. WordMax /\ angle \in 0 .. WordMax
  /\ current_range \in Ranges
  /\ last_ultrasonic_measurement \in Distances \cup {0}
  /\ pc["user"] \in UserLabels /\ pc["stepper"] \in StepperLabels
  /\ pc["sensor"] \in {"loop", "store"}
  /\ pc["indicator"] \in {"loop", "angle", "show", "load", "inactive", "blank"}
  /\ sweep_forward \in BOOLEAN /\ accumulator \in 0 .. DEGREE_RATIO - 1
  /\ steps \in Int /\ asked \in Int
  /\ led_index \in Leds /\ last_led_index \in Leds
  /\ index \in [{"user", "indicator"} -> Leds]
  /\ pix \in [Leds -> Colors] /\ sent \in BOOLEAN
  /\ clean \in BOOLEAN

\* Between moves the steps asked of the motor are those that current_angle stands
\* for, to within Slack, after any number of sweeps, stops and restarts: the remainders
\* that stepper_thread accumulates do not add up (main.c:283-294).
StepsTrackAngle ==
  clean /\ pc["stepper"] = "loop" =>
    LET off == DEGREE_RATIO * asked - STEP_RATIO * current_angle
    IN  off \in -(Slack * DEGREE_RATIO) .. Slack * DEGREE_RATIO

\* Only LEDs of the arc ever show a detection: neither the turn at the end of the
\* sweep nor an angle read in the middle of a step lights one beyond it
\* (main.c:287 and 368).
OnlyArcLit ==
  clean => \A k \in Leds : pix[k] = "red" => k \in Arc

Idle == ~radar_active /\ ~calibration_mode /\ pc["user"] = "loop"

\* A radar that is neither active nor calibrating ends up dark, whatever the
\* indicator was in the middle of (main.c:386).
IdleGoesDark == Idle ~> (pix = Dark /\ sent) \/ ~Idle

\* "Current sweep direction (1 for forward 0 to 180 and 0 for backward 180 to 0":
\* an active radar looks between 0 and 180 degrees (main.c:269).
SweepInArc == radar_active /\ pc["user"] = "loop" => current_angle <= SweepEnd + 1
=============================================================================
