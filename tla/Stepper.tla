------------------------------ MODULE Stepper -------------------------------
(***************************************************************************)
(* The stepper motor of stepper.c and the TIMER0 half of timer.c.  A move  *)
(* sets a target, starts the timer and waits; the interrupt handler makes  *)
(* the steps, counts them and stops the timer.  Calls of several threads   *)
(* interleave at any statement, and an interrupt may come at each of them. *)
(* kernel_main has initialised motor and timer before any thread runs.     *)
(***************************************************************************)
EXTENDS Integers

CONSTANTS
  Movers,        \* threads that call move_stepper
  Setters,       \* threads that call set_stepper_speed
  Moves,         \* steps asked of a move; negative is counter-clockwise
  Speeds,        \* revolutions per minute
  StepsPerRev,   \* steps_per_revolution
  MaxHandled     \* bound: interrupts counted before the count is reset

ASSUME MotorAssumption ==
  /\ Moves \subseteq Int /\ MaxHandled \in Nat
  /\ StepsPerRev \in Nat \ {0} /\ Speeds \subseteq Nat \ {0}

Off == 4          \* no pattern applied yet
CW == 1           \* StepperCW
CCW == -1         \* StepperCCW
DefaultSpeed == 10

VARIABLES
  step_number, direction,   \* of attached_stepper
  coils,                    \* the pattern on the four control pins
  after_start,              \* timer0_num_interrupts_after_start
  handled,                  \* timer0_num_interrupts_already_handled
  running,                  \* TIMER0 counts
  cc,                       \* CC[0] of TIMER0, in us
  mpc,                      \* where a thread is in its call
  asked,                    \* steps_to_move
  (* what the properties remember *)
  rpm,                      \* the speed asked last
  taken,                    \* steps made since the last move was called
  found,                    \* what that call found: see Finding
  before,                   \* the interrupts counted by then
  alone,                    \* no two calls have overlapped since the last rest
  drift                     \* how far the rotor is from the net steps made

motorVars == <<step_number, direction, coils, drift>>
timer0Vars == <<after_start, handled, running>>
speedVars == <<cc, rpm>>
callVars == <<mpc, asked, taken, found, before, alone>>
stepperVars == <<motorVars, timer0Vars, speedVars, callVars>>

MAt(t, l) == mpc[t] = l
MGoto(t, l) == mpc' = [mpc EXCEPT ![t] = l]

OthersRest(t) == \A u \in (Movers \cup Setters) \ {t} : MAt(u, "user")

Lengthwise(n) == IF n >= 0 THEN n ELSE -n

-----------------------------------------------------------------------------
(* The speed: TIMER0 counts at 1 MHz up to a compare register of 16 bits. *)

StepDelay(r) == ((60 * 1000 * 1000) \div StepsPerRev) \div r

Compare(r) == ((16000000 \div 16) \div (1000000 \div StepDelay(r))) % 2^16

SpeedEnter(t, r) ==
  /\ MAt(t, "user") /\ t \in Setters
  /\ cc' = Compare(r) /\ rpm' = r
  /\ alone' = OthersRest(t)
  /\ MGoto(t, "resetTarget")
  /\ UNCHANGED <<motorVars, timer0Vars, asked, taken, found, before>>

SpeedTarget(t) ==
  /\ MAt(t, "resetTarget")
  /\ after_start' = 0
  /\ MGoto(t, "resetCount")
  /\ UNCHANGED <<motorVars, handled, running, speedVars, asked, taken, found, before, alone>>

\* (Mutant: timer0_init leaves the count.)
ResetCountKept == handled
ResetCount == 0
SpeedCount(t) ==
  /\ MAt(t, "resetCount")
  /\ handled' = ResetCount
  /\ MGoto(t, "user")
  /\ UNCHANGED <<motorVars, after_start, running, speedVars, asked, taken, found, before, alone>>

-----------------------------------------------------------------------------
(* stepper_move. *)

\* All steps are made.
AllHandled == after_start = handled

\* A move finds the timer stopped; or still running, as it is stopped one interrupt
\* after the last step; or, after calls that overlapped, with steps left to make.
Findings == {"stopped", "ticking", "stepping"}
Finding == IF ~running THEN "stopped" ELSE IF AllHandled THEN "ticking" ELSE "stepping"

MoveEnter(t, n) ==
  /\ MAt(t, "user") /\ t \in Movers
  /\ direction' = IF n >= 0 THEN CW ELSE CCW
  /\ asked' = [asked EXCEPT ![t] = n]
  /\ taken' = 0 /\ found' = Finding /\ before' = handled /\ alone' = OthersRest(t)
  /\ MGoto(t, "target")
  /\ UNCHANGED <<step_number, coils, drift, timer0Vars, speedVars>>

MoveTarget(t) ==
  /\ MAt(t, "target")
  /\ after_start' = Lengthwise(asked[t])
  /\ MGoto(t, "clear")
  /\ UNCHANGED <<motorVars, handled, running, speedVars, asked, taken, found, before, alone>>

\* timer0_start resets the count, then clears and starts the timer.
MoveClear(t) ==
  /\ MAt(t, "clear")
  /\ handled' = 0
  /\ MGoto(t, "start")
  /\ UNCHANGED <<motorVars, after_start, running, speedVars, asked, taken, found, before, alone>>

MoveStart(t) ==
  /\ MAt(t, "start")
  /\ running' = TRUE
  /\ MGoto(t, "wait")
  /\ UNCHANGED <<motorVars, after_start, handled, speedVars, asked, taken, found, before, alone>>

\* The busy loop ends.  (Mutants: one step early; one step late.)
MovedEarly == handled + 1 >= after_start
MovedLate == handled > after_start
Moved == handled >= after_start
MoveReturn(t) ==
  /\ MAt(t, "wait") /\ Moved
  /\ MGoto(t, "user")
  /\ UNCHANGED <<motorVars, timer0Vars, speedVars, asked, taken, found, before, alone>>

-----------------------------------------------------------------------------
(* TIMER0_Handler; its interrupt has the highest priority. *)

\* The number after step k.  (Mutant: counting up wraps one too late.)
NextStepPast(k) ==
  IF direction = CW THEN (IF k + 1 > 4 THEN 0 ELSE k + 1)
  ELSE IF k = 0 THEN 3 ELSE k - 1
NextStep(k) ==
  IF direction = CW THEN (IF k + 1 >= 4 THEN 0 ELSE k + 1)
  ELSE IF k = 0 THEN 3 ELSE k - 1

\* How far the rotor turns when pattern q follows pattern p.
Turn(p, q) ==
  CASE p = Off \/ p = q -> 0
    [] q = (p + 1) % 4 -> 1
    [] q = (p + 3) % 4 -> -1
    [] OTHER -> 2

stepper_advance_step ==
  LET pattern == IF step_number < 4 THEN step_number ELSE coils IN
  /\ coils' = pattern
  /\ step_number' = NextStep(step_number)
  /\ drift' = drift + Turn(coils, pattern) - direction
  /\ UNCHANGED direction

TIMER0_Stop ==
  /\ running /\ AllHandled
  /\ running' = FALSE
  /\ UNCHANGED <<motorVars, after_start, handled, speedVars, callVars>>

TIMER0_Step ==
  /\ running /\ ~AllHandled /\ handled < MaxHandled
  /\ stepper_advance_step
  /\ handled' = handled + 1
  /\ taken' = IF \A t \in Movers : MAt(t, "user") THEN taken ELSE taken + 1
  /\ UNCHANGED <<after_start, running, speedVars, mpc, asked, found, before, alone>>

TIMER0_Handler == TIMER0_Stop \/ TIMER0_Step

-----------------------------------------------------------------------------

\* stepper_init, stepper_speed(10) in kernel_main.
StepperInit ==
  /\ step_number = 0 /\ direction = CW /\ coils = Off /\ drift = 0
  /\ after_start = 0 /\ handled = 0 /\ running = FALSE
  /\ cc = Compare(DefaultSpeed) /\ rpm = DefaultSpeed
  /\ mpc = [t \in Movers \cup Setters |-> "user"]
  /\ asked = [t \in Movers |-> 0] /\ taken = 0 /\ alone = TRUE
  /\ found = "stopped" /\ before = 0

Move(t) == MoveTarget(t) \/ MoveClear(t) \/ MoveStart(t) \/ MoveReturn(t)
SetSpeed(t) == SpeedTarget(t) \/ SpeedCount(t)

StepperNext ==
  \/ \E t \in Movers : Move(t) \/ \E n \in Moves : MoveEnter(t, n)
  \/ \E t \in Setters : SetSpeed(t) \/ \E r \in Speeds : SpeedEnter(t, r)
  \/ TIMER0_Handler

StepperSpec == StepperInit /\ [][StepperNext]_stepperVars

\* The timer runs on its own, and the scheduler lets every thread go on.
StepperFairness ==
  /\ \A t \in Movers : WF_stepperVars(Move(t))
  /\ \A t \in Setters : WF_stepperVars(SetSpeed(t))
  /\ WF_stepperVars(TIMER0_Handler)

FairStepper == StepperSpec /\ StepperFairness

-----------------------------------------------------------------------------
(* Properties. *)

CallLabels == {"user", "resetTarget", "resetCount", "target", "clear", "start", "wait"}

StepperTypeOK ==
  /\ step_number \in 0 .. 3 /\ direction \in {CW, CCW} /\ coils \in 0 .. Off
  /\ after_start \in Nat /\ handled \in Nat /\ running \in BOOLEAN
  /\ cc \in 0 .. 2^16 - 1 /\ rpm \in Nat /\ drift \in Int
  /\ mpc \in [Movers \cup Setters -> CallLabels]
  /\ asked \in [Movers -> Int] /\ taken \in Nat
  /\ before \in Nat
  /\ found \in Findings /\ alone \in BOOLEAN

\* A move that no other call overlaps makes no step too few.  It makes exactly the steps
\* asked if it found the timer stopped, or the last move was as long.  If the last move
\* was shorter, and the timer still runs, an interrupt between the new target
\* (stepper.c:81) and the reset of the count (timer.c:61) makes steps that are not
\* counted, at most as many as the move is longer.  (If it was longer there is no bound.)
ExactMoves == \A t \in Movers : MAt(t, "wait") /\ Moved /\ alone =>
  LET n == Lengthwise(asked[t]) IN
  /\ taken >= n
  /\ found = "stopped" \/ (found = "ticking" /\ before = n) => taken = n
  /\ found = "ticking" /\ before <= n => taken <= n + (n - before)

\* Calls that do not overlap leave the motor still: no interrupt makes a step
\* after the last one has returned, not even one that came too late to stop
\* the timer (TIMER0_Handler).
StillAtRest ==
  alone /\ (\A t \in Movers \cup Setters : MAt(t, "user")) => handled = after_start

\* A change of direction costs the rotor its place by one step each way and
\* never adds up, in any sequence of moves (stepper_advance_step).
DriftBounded == drift \in -1 .. 1

\* A move that no other call overlaps returns (the busy loop of stepper_move).
MoveReturns == \A t \in Movers : MAt(t, "wait") ~> (MAt(t, "user") \/ ~alone)
=============================================================================
