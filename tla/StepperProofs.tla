--------------------------- MODULE StepperProofs ----------------------------
(***************************************************************************)
(* Proofs about Stepper, for any threads, moves and speeds.  Two invariants *)
(* that do not depend on each other: the one of the rotor ties the pattern *)
(* on the coils to the step number, the one of the calls follows a move    *)
(* that no other call overlaps from its target to its return.              *)
(***************************************************************************)
EXTENDS Stepper, TLAPS

-----------------------------------------------------------------------------
(* The rotor. *)

\* Once a pattern is applied, drift is the opposite of the last step's
\* direction, and the step number is one step on in that direction.
RotorInv ==
  /\ direction \in {CW, CCW}
  /\ \/ coils = Off /\ drift = 0 /\ step_number = 0
     \/ /\ coils \in 0 .. 3 /\ drift \in {-1, 1}
        /\ step_number = IF drift = -1 THEN (IF coils = 3 THEN 0 ELSE coils + 1)
                         ELSE (IF coils = 0 THEN 3 ELSE coils - 1)

\* Every step leaves the drift at the opposite of its direction.
LEMMA AdvanceStep ==
  ASSUME RotorInv, stepper_advance_step
  PROVE  RotorInv'
<1> USE DEF RotorInv, stepper_advance_step, CW, CCW, Off, NextStep
<1>1. step_number \in 0 .. 3 /\ coils' = step_number /\ direction' = direction
  OBVIOUS
<1>2. CASE coils = Off
  BY <1>1, <1>2 DEF Turn
<1>3. CASE coils # Off
  <2>1. coils \in 0 .. 3 /\ drift \in {-1, 1}
    BY <1>3
  <2>2. Turn(coils, step_number) = -drift
    <3>1. \A k \in 0 .. 3 : (k + 1) % 4 = IF k = 3 THEN 0 ELSE k + 1
      OBVIOUS
    <3>2. \A k \in 0 .. 3 : (k + 3) % 4 = IF k = 0 THEN 3 ELSE k - 1
      OBVIOUS
    <3> QED BY <2>1, <3>1, <3>2 DEF Turn
  <2>3. drift' = -direction
    BY <1>1, <2>1, <2>2
  <2> QED BY <1>1, <2>3
<1> QED BY <1>2, <1>3

LEMMA RotorAlways == StepperSpec => []RotorInv
<1>1. StepperInit => RotorInv
  BY DEF StepperInit, RotorInv, CW, CCW, Off
<1>2. RotorInv /\ [StepperNext]_stepperVars => RotorInv'
  <2> SUFFICES ASSUME RotorInv, [StepperNext]_stepperVars
               PROVE  RotorInv'
    OBVIOUS
  <2>1. ASSUME NEW t \in Movers, NEW n \in Moves, MoveEnter(t, n)
        PROVE  RotorInv'
    BY <2>1 DEF MoveEnter, RotorInv
  <2>2. ASSUME NEW t \in Movers, Move(t)
        PROVE  RotorInv'
    BY <2>2 DEF Move, MoveTarget, MoveClear, MoveStart, MoveReturn, RotorInv, motorVars
  <2>3. ASSUME NEW t \in Setters, SetSpeed(t) \/ \E r \in Speeds : SpeedEnter(t, r)
        PROVE  RotorInv'
    BY <2>3 DEF SetSpeed, SpeedTarget, SpeedCount, SpeedEnter, RotorInv, motorVars
  <2>4. CASE TIMER0_Stop
    BY <2>4 DEF TIMER0_Stop, RotorInv, motorVars
  <2>5. CASE TIMER0_Step
    BY <2>5, AdvanceStep DEF TIMER0_Step
  <2>6. CASE UNCHANGED stepperVars
    BY <2>6 DEF RotorInv, stepperVars, motorVars
  <2> QED BY <2>1, <2>2, <2>3, <2>4, <2>5, <2>6 DEF StepperNext, TIMER0_Handler
<1> QED BY <1>1, <1>2, PTL DEF StepperSpec

\* The drift of the rotor never adds up, in any sequence of moves
\* (stepper_advance_step).
THEOREM NoDrift == StepperSpec => []DriftBounded
<1>1. RotorInv => DriftBounded
  BY DEF RotorInv, DriftBounded
<1> QED BY <1>1, RotorAlways, PTL

-----------------------------------------------------------------------------
(* The calls. *)

CallTypes ==
  /\ mpc \in [Movers \cup Setters -> CallLabels]
  /\ asked \in [Movers -> Int]
  /\ after_start \in Nat /\ handled \in Nat /\ taken \in Nat /\ before \in Nat

\* While alone holds there is one call at most, and at rest nothing is left to do.
AtMostOne == alone =>
  \A t, u \in Movers \cup Setters : MAt(t, "user") \/ MAt(u, "user") \/ t = u
NothingLeft == alone /\ (\A t \in Movers \cup Setters : MAt(t, "user")) =>
  handled = after_start

\* A move that found the timer stopped has had no step before it starts it.
Untouched == found = "stopped" => ~running /\ taken = 0

\* Steps before the count is reset, when the move is to make n, are counted on top of
\* those of the last move, and stop at n where they can reach it.
Ahead(n) == found = "ticking" =>
  /\ handled = before + taken
  /\ before <= n => handled <= n

\* The steps made beyond those counted since the reset.
Beyond(n) ==
  /\ handled <= taken
  /\ found = "stopped" \/ (found = "ticking" /\ before = n) => taken = handled
  /\ found = "ticking" /\ before <= n => taken - handled <= n - before

MoveSoFar(t) ==
  LET n == Lengthwise(asked[t]) IN
  /\ MAt(t, "target") =>
       Untouched /\ (found = "ticking" => AllHandled /\ before = handled /\ taken = 0)
  /\ MAt(t, "clear") => Untouched /\ after_start = n /\ Ahead(n)
  /\ MAt(t, "start") => /\ Untouched /\ after_start = n /\ handled <= n
                        /\ Beyond(n)
                        /\ found = "stopped" => handled = 0
  /\ MAt(t, "wait") => after_start = n /\ handled <= n /\ Beyond(n)

CallInv ==
  /\ CallTypes /\ AtMostOne /\ NothingLeft
  /\ alone => \A t \in Movers : MoveSoFar(t)
  /\ alone => \A t \in Setters : MAt(t, "resetCount") => after_start = 0

\* The steps of move_stepper keep the invariant.
LEMMA MoveStep ==
  ASSUME CallInv, NEW t \in Movers,
         Move(t) \/ \E n \in Moves : MoveEnter(t, n)
  PROVE  CallInv'
<1> USE DEF CallInv, CallTypes, CallLabels, MAt, MGoto
<1>1. \A n \in Int : Lengthwise(n) \in Nat
  BY DEF Lengthwise
<1>2. ASSUME NEW n \in Moves, MoveEnter(t, n)
      PROVE  CallInv'
  <2>1. CallTypes' /\ AtMostOne'
    BY <1>2, MotorAssumption DEF MoveEnter, OthersRest, AtMostOne, timer0Vars
  <2>2. mpc'[t] = "target" /\ (alone' => \A u \in (Movers \cup Setters) \ {t} : mpc'[u] = "user")
    BY <1>2 DEF MoveEnter, OthersRest
  <2>3. Untouched' /\ (found' = "ticking" => AllHandled' /\ before' = handled' /\ taken' = 0)
    BY <1>2 DEF MoveEnter, Untouched, Finding, AllHandled, timer0Vars
  <2> QED BY <2>1, <2>2, <2>3 DEF NothingLeft, MoveSoFar
<1>3. CASE MoveTarget(t)
  BY <1>1, <1>3
  DEF MoveTarget, AtMostOne, NothingLeft, MoveSoFar, Untouched, Ahead, Beyond, AllHandled, motorVars, speedVars
<1>4. CASE MoveClear(t)
  BY <1>1, <1>4
  DEF MoveClear, AtMostOne, NothingLeft, MoveSoFar, Untouched, Ahead, Beyond, AllHandled, motorVars, speedVars
<1>5. CASE MoveStart(t)
  BY <1>1, <1>5
  DEF MoveStart, AtMostOne, NothingLeft, MoveSoFar, Untouched, Ahead, Beyond, AllHandled, motorVars, speedVars
<1>6. CASE MoveReturn(t)
  BY <1>1, <1>6
  DEF MoveReturn, Moved, AtMostOne, NothingLeft, MoveSoFar, Untouched, Ahead, Beyond, AllHandled,
      motorVars, timer0Vars, speedVars
<1> QED BY <1>2, <1>3, <1>4, <1>5, <1>6 DEF Move

\* The steps of set_stepper_speed keep the invariant.
LEMMA SpeedStep ==
  ASSUME CallInv, NEW t \in Setters,
         SetSpeed(t) \/ \E r \in Speeds : SpeedEnter(t, r)
  PROVE  CallInv'
<1> USE DEF CallInv, CallTypes, CallLabels, MAt, MGoto
<1>1. ASSUME NEW r \in Speeds, SpeedEnter(t, r)
      PROVE  CallInv'
  BY <1>1
  DEF SpeedEnter, OthersRest, AtMostOne, NothingLeft, MoveSoFar, Untouched, Ahead, Beyond, AllHandled,
      motorVars, timer0Vars
<1>2. CASE SpeedTarget(t)
  BY <1>2
  DEF SpeedTarget, AtMostOne, NothingLeft, MoveSoFar, Untouched, Ahead, Beyond, AllHandled, motorVars, speedVars
<1>3. CASE SpeedCount(t)
  BY <1>3
  DEF SpeedCount, ResetCount, AtMostOne, NothingLeft, MoveSoFar, Untouched, Ahead, Beyond, AllHandled,
      motorVars, speedVars
<1> QED BY <1>1, <1>2, <1>3 DEF SetSpeed

\* The timer's interrupts keep the invariant (TIMER0_Handler).
LEMMA InterruptStep ==
  ASSUME CallInv, TIMER0_Handler
  PROVE  CallInv'
<1> USE DEF CallInv, CallTypes, CallLabels, MAt
<1>1. CASE TIMER0_Stop
  BY <1>1
  DEF TIMER0_Stop, AtMostOne, NothingLeft, MoveSoFar, Untouched, Ahead, Beyond, AllHandled,
      motorVars, speedVars, callVars
<1>2. CASE TIMER0_Step
  <2>1. handled' = handled + 1 /\ handled # after_start /\ running
    BY <1>2 DEF TIMER0_Step, AllHandled
  <2>2. UNCHANGED <<after_start, running, mpc, asked, found, before, alone>>
    BY <1>2 DEF TIMER0_Step, speedVars
  <2>3. taken' \in Nat /\ \A t \in Movers : ~MAt(t, "user") => taken' = taken + 1
    BY <1>2 DEF TIMER0_Step
  <2>4. CallTypes' /\ AtMostOne'
    BY <2>1, <2>2, <2>3 DEF AtMostOne
  <2>5. NothingLeft'
    BY <2>1, <2>2 DEF NothingLeft
  <2>6. ASSUME NEW t \in Movers, alone
        PROVE  MoveSoFar(t)'
    <3> DEFINE n == Lengthwise(asked[t])
    <3>1. n \in Nat /\ n' = n
      BY <2>2 DEF Lengthwise
    <3>2. MoveSoFar(t)
      BY <2>2, <2>6
    <3> HIDE DEF n
    <3>3. CASE MAt(t, "target")
      BY <2>1, <2>2, <2>3, <3>2, <3>3 DEF MoveSoFar, Untouched, AllHandled
    <3>4. CASE MAt(t, "clear")
      <4>1. taken' = taken + 1 /\ Untouched /\ after_start = n /\ Ahead(n)
        BY <2>3, <3>2, <3>4 DEF MoveSoFar, n
      <4>2. Untouched' /\ after_start' = n' /\ Ahead(n)'
        BY <2>1, <2>2, <3>1, <4>1 DEF Untouched, Ahead
      <4> QED BY <2>2, <3>4, <4>2 DEF MoveSoFar, n
    <3>5. CASE MAt(t, "start") \/ MAt(t, "wait")
      <4>1. /\ taken' = taken + 1 /\ after_start = n /\ handled <= n /\ Beyond(n)
            /\ MAt(t, "start") => Untouched
        BY <2>3, <3>2, <3>5 DEF MoveSoFar, n
      <4>2. /\ after_start' = n' /\ handled' <= n' /\ Beyond(n)'
            /\ MAt(t, "start") => Untouched' /\ found # "stopped"
        BY <2>1, <2>2, <3>1, <4>1 DEF Untouched, Beyond
      <4> QED BY <2>2, <3>5, <4>2 DEF MoveSoFar, n
    <3> QED BY <2>2, <3>3, <3>4, <3>5 DEF MoveSoFar
  <2> QED BY <2>2, <2>4, <2>5, <2>6
<1> QED BY <1>1, <1>2 DEF TIMER0_Handler

LEMMA CallAlways == StepperSpec => []CallInv
<1>1. StepperInit => CallInv
  BY DEF StepperInit, CallInv, CallTypes, CallLabels, AtMostOne, NothingLeft,
         MoveSoFar, MAt
<1>2. CallInv /\ [StepperNext]_stepperVars => CallInv'
  <2>1. CallInv /\ UNCHANGED stepperVars => CallInv'
    BY DEF CallInv, CallTypes, AtMostOne, NothingLeft, MoveSoFar, Untouched, Ahead, Beyond, AllHandled, MAt,
           stepperVars, motorVars, timer0Vars, speedVars, callVars
  <2> QED BY <2>1, MoveStep, SpeedStep, InterruptStep DEF StepperNext
<1> QED BY <1>1, <1>2, PTL DEF StepperSpec

\* A move on its own makes the steps it was asked for, and no more but those that fall
\* between its new target and the reset of the count (stepper_move, TIMER0_Handler).
THEOREM StepsExact == StepperSpec => []ExactMoves
<1>1. CallInv => ExactMoves
  <2> SUFFICES ASSUME CallInv, NEW t \in Movers, MAt(t, "wait"), Moved, alone
               PROVE  LET n == Lengthwise(asked[t]) IN
                      /\ taken >= n
                      /\ found = "stopped" \/ (found = "ticking" /\ before = n) => taken = n
                      /\ found = "ticking" /\ before <= n => taken <= n + (n - before)
    BY DEF ExactMoves
  <2> DEFINE n == Lengthwise(asked[t])
  <2>1. MoveSoFar(t) /\ handled \in Nat /\ after_start \in Nat /\ taken \in Nat /\ before \in Nat
    BY DEF CallInv, CallTypes
  <2>2. after_start = n /\ handled <= n /\ Beyond(n)
    BY <2>1 DEF MoveSoFar
  <2> HIDE DEF n
  <2>3. handled = n
    BY <2>1, <2>2 DEF Moved
  <2>4. /\ taken >= n
        /\ found = "stopped" \/ (found = "ticking" /\ before = n) => taken = n
        /\ found = "ticking" /\ before <= n => taken <= n + (n - before)
    BY <2>1, <2>2, <2>3 DEF Beyond
  <2> QED BY <2>4 DEF n
<1> QED BY <1>1, CallAlways, PTL

\* Between calls the motor keeps still (TIMER0_Handler).
THEOREM Still == StepperSpec => []StillAtRest
<1>1. CallInv => StillAtRest
  BY DEF CallInv, NothingLeft, StillAtRest
<1> QED BY <1>1, CallAlways, PTL

-----------------------------------------------------------------------------
(* Types. *)

\* The compare register.
Register == 0 .. 2^16 - 1

\* What the two invariants leave open.
OtherTypes ==
  /\ running \in BOOLEAN /\ found \in Findings /\ alone \in BOOLEAN
  /\ cc \in Register /\ rpm \in Nat

\* Neither division of stepper_speed and timer0_init is by zero: the interval
\* between two steps is at least a microsecond and at most a second.
DivisibleSpeeds == \A r \in Speeds \cup {DefaultSpeed} :
  0 < StepDelay(r) /\ StepDelay(r) <= 1000000

LEMMA CompareType ==
  ASSUME DivisibleSpeeds, NEW r \in Speeds \cup {DefaultSpeed}
  PROVE  Compare(r) \in Register
<1> DEFINE d == StepDelay(r)
           us == 1000000 \div d
           n == (16000000 \div 16) \div us
<1>1. d \in Int /\ 0 < d /\ d <= 1000000
  <2>1. r \in Nat \ {0}
    BY MotorAssumption, SMT DEF DefaultSpeed
  <2> QED BY <2>1, MotorAssumption, SMT DEF DivisibleSpeeds, StepDelay
<1>2. us \in Nat \ {0}
  <2> HIDE DEF d
  <2> QED BY <1>1, SMT
<1>3. n \in Nat
  <2> HIDE DEF us
  <2> QED BY <1>2, SMT
<1>4. 2^16 \in Nat \ {0}
  BY SMT
<1>5. \A w \in Nat \ {0}, m \in Nat : m % w \in 0 .. w - 1
  BY SMT
<1>6. Compare(r) = n % 2^16
  BY SMT DEF Compare
<1> HIDE DEF n
<1> QED BY <1>3, <1>4, <1>5, <1>6, SMT DEF Register

\* Motor and timer keep the types of their registers and counters, whatever is
\* asked of them at once (stepper.c, timer.c): the compare value fits its 16 bits.
THEOREM StepperTyping ==
  ASSUME DivisibleSpeeds
  PROVE  StepperSpec => []StepperTypeOK
<1>1. StepperInit => OtherTypes
  <2>1. Compare(DefaultSpeed) \in Register
    BY CompareType
  <2>2. DefaultSpeed \in Nat
    BY DEF DefaultSpeed
  <2> QED BY <2>1, <2>2 DEF StepperInit, OtherTypes, Findings
<1>2. OtherTypes /\ [StepperNext]_stepperVars => OtherTypes'
  <2> SUFFICES ASSUME OtherTypes, [StepperNext]_stepperVars
               PROVE  OtherTypes'
    OBVIOUS
  <2>1. ASSUME NEW t \in Movers, Move(t) \/ \E n \in Moves : MoveEnter(t, n)
        PROVE  OtherTypes'
    BY <2>1 DEF Move, MoveTarget, MoveClear, MoveStart, MoveReturn, MoveEnter, OthersRest,
                OtherTypes, Finding, Findings, timer0Vars, speedVars
  <2>2. ASSUME NEW t \in Setters, SetSpeed(t)
        PROVE  OtherTypes'
    BY <2>2 DEF SetSpeed, SpeedTarget, SpeedCount, OtherTypes, speedVars
  <2>3. ASSUME NEW t \in Setters, NEW r \in Speeds, SpeedEnter(t, r)
        PROVE  OtherTypes'
    BY <2>3, CompareType, MotorAssumption
    DEF SpeedEnter, OthersRest, OtherTypes, timer0Vars
  <2>4. CASE TIMER0_Handler
    BY <2>4 DEF TIMER0_Handler, TIMER0_Stop, TIMER0_Step, OtherTypes, speedVars, callVars
  <2>5. CASE UNCHANGED stepperVars
    BY <2>5 DEF OtherTypes, stepperVars, timer0Vars, speedVars, callVars
  <2> QED BY <2>1, <2>2, <2>3, <2>4, <2>5 DEF StepperNext
<1>3. RotorInv /\ CallTypes /\ OtherTypes => StepperTypeOK
  <2>1. RotorInv => step_number \in 0 .. 3 /\ direction \in {CW, CCW}
                      /\ coils \in 0 .. Off /\ drift \in Int
    BY DEF RotorInv, CW, CCW, Off
  <2> QED BY <2>1, SMT DEF CallTypes, OtherTypes, Register, StepperTypeOK
<1> QED BY <1>1, <1>2, <1>3, RotorAlways, CallAlways, PTL DEF StepperSpec, CallInv
=============================================================================
