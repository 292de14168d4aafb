---------------------------- MODULE RadarProofs -----------------------------
(***************************************************************************)
(* Proofs about Radar, for rings of any size and sweeps of any width: LED  *)
(* indices stay on the ring, until the user calibrates only LEDs of the    *)
(* arc are lit and the steps asked of the motor are those of the angle,    *)
(* where the remainders balance, as they do for the numbers of main.c.     *)
(***************************************************************************)
EXTENDS Radar, TLAPS

Labels == UserLabels \cup StepperLabels
            \cup {"loop", "store", "angle", "show", "load", "inactive", "blank"}

\* With the types, that pc is a function.
RInv == RadarTypeOK /\ pc \in [Threads -> Labels]

-----------------------------------------------------------------------------
(* Arithmetic. *)

LEMMA LedType == ASSUME NEW a \in 0 .. WordMax PROVE LedOf(a) \in Leds
<1>1. a \div DEGREES_PER_LED \in Int
  BY LedsAssumption
<1>2. zero_degrees_led + a \div DEGREES_PER_LED \in Int
  BY <1>1, LedsAssumption DEF Leds
<1> QED BY <1>2, LedsAssumption DEF LedOf, Leds

LEMMA WordType == ASSUME NEW x \in Int PROVE x % (WordMax + 1) \in 0 .. WordMax
<1>1. WordMax + 1 \in Nat /\ WordMax + 1 > 0
  BY AnglesAssumption
<1> QED BY <1>1, AnglesAssumption

\* A step forward and one back, where they do not wrap.
LEMMA WordUp == ASSUME NEW a \in 0 .. WordMax - 1 PROVE (a + 1) % (WordMax + 1) = a + 1
<1> DEFINE w == WordMax + 1
<1>1. w \in Nat \ {0} /\ a + 1 \in 0 .. w - 1
  BY AnglesAssumption
<1> HIDE DEF w
<1>2. (a + 1) % w = a + 1
  BY <1>1
<1> QED BY <1>2 DEF w

LEMMA WordDown == ASSUME NEW a \in 1 .. WordMax PROVE (a + WordMax) % (WordMax + 1) = a - 1
<1> DEFINE w == WordMax + 1
<1>1. w \in Nat /\ a - 1 \in 0 .. w - 1 /\ a + WordMax = w + (a - 1)
  BY AnglesAssumption
<1> HIDE DEF w
<1>2. (w + (a - 1)) % w = a - 1
  BY <1>1
<1> QED BY <1>1, <1>2 DEF w

LEMMA StepsType ==
  ASSUME NEW acc \in 0 .. DEGREE_RATIO - 1
  PROVE  StepsFor(acc) \in Int /\ Leftover(acc) \in 0 .. DEGREE_RATIO - 1
  BY StepsAssumption DEF StepsFor, Leftover

-----------------------------------------------------------------------------
(* Types. *)

\* The loop over the LEDs stays on the ring.
LEMMA BlankType ==
  ASSUME RInv, NEW t \in {"user", "indicator"}, NEW k \in Labels, NEW l \in Labels,
         Blank(t, k, l)
  PROVE  /\ index' \in [{"user", "indicator"} -> Leds]
         /\ pix' \in [Leds -> Colors] /\ sent' \in BOOLEAN
         /\ pc' \in [Threads -> Labels]
         /\ \A u \in Threads \ {t} : pc'[u] = pc[u]
         /\ pc[t] = k /\ pc'[t] \in {k, l}
         /\ \A i \in Leds : pix'[i] \in {pix[i], "off"}
<1> USE LedsAssumption DEF RInv, RadarTypeOK, Leds, Colors, Threads
<1>1. index' \in [{"user", "indicator"} -> Leds]
  BY DEF Blank, Last
<1>2. /\ pc' \in [Threads -> Labels] /\ \A u \in Threads \ {t} : pc'[u] = pc[u]
      /\ pc[t] = k /\ pc'[t] \in {k, l}
  BY DEF Blank, At, Goto
<1>3. /\ pix' \in [Leds -> Colors] /\ sent' \in BOOLEAN
      /\ \A i \in Leds : pix'[i] \in {pix[i], "off"}
  BY DEF Blank, Set
<1> QED BY <1>1, <1>2, <1>3

\* A thread that goes on stays in its program.
LEMMA FromType ==
  ASSUME RInv, NEW t \in Threads, NEW k, NEW l \in Labels, From(t, k, l)
  PROVE  /\ pc' \in [Threads -> Labels] /\ pc'[t] = l /\ pc[t] = k
         /\ \A u \in Threads \ {t} : pc'[u] = pc[u]
  BY DEF RInv, From, At, Goto

LEMMA RadarTypeStep == RInv /\ [Next]_vars => RInv'
<1> SUFFICES ASSUME RInv, [Next]_vars
             PROVE  RInv'
  OBVIOUS
<1> USE DEF RInv, RadarTypeOK, From, At, Goto, Threads, Labels, UserLabels,
            StepperLabels, flagVars, stepVars, showVars, pixVars
<1>1. CASE Command
  <2>1. UNCHANGED <<userRest, current_angle, pixVars>>
    BY <1>1 DEF Command, Start, Stop, Range, Reset, Calibrate, Exit
  <2>2. /\ pc' \in [Threads -> Labels] /\ pc'["user"] \in UserLabels
        /\ \A u \in Threads \ {"user"} : pc'[u] = pc[u]
    BY <1>1 DEF Command, Start, Stop, Range, Reset, Calibrate, Exit
  <2>3. radar_active' \in BOOLEAN /\ calibration_mode' \in BOOLEAN /\ clean' \in BOOLEAN
    BY <1>1, Zenon
       DEF Command, Start, Stop, Range, Reset, Calibrate, Exit
  <2>4. current_range' \in Ranges
    BY <1>1, RangesAssumption
       DEF Command, Start, Stop, Range, Reset, Calibrate, Exit
  <2> QED BY <2>1, <2>2, <2>3, <2>4 DEF userRest
<1>2. CASE Confirm
  <2>1. 0 \in 0 .. WordMax
    BY AnglesAssumption
  <2> QED BY <1>2, <2>1 DEF Confirm, userRest
<1>3. CASE CalibrateStop \/ CalibrateEnd
  <2>1. From("user", "deactivate", "blank") \/ From("user", "confirmed", "unlight")
    BY <1>3 DEF CalibrateStop, CalibrateEnd
  <2>2. /\ pc' \in [Threads -> Labels] /\ pc'["user"] \in UserLabels
        /\ \A u \in Threads \ {"user"} : pc'[u] = pc[u]
    BY <2>1
  <2>3. radar_active' \in BOOLEAN /\ calibration_mode' \in BOOLEAN
    BY <1>3 DEF CalibrateStop, CalibrateEnd
  <2>4. UNCHANGED <<userRest, current_range, current_angle, pixVars, clean>>
    BY <1>3 DEF CalibrateStop, CalibrateEnd
  <2> QED BY <2>2, <2>3, <2>4, ZenonT(60) DEF userRest
<1>4. CASE CalibrateLight \/ CalibrateUnlight \/ CalibrateLoad \/ CalibrateReload \/ ExitLoad
  <2>1. pix' \in [Leds -> Colors] /\ sent' \in BOOLEAN
    BY <1>4 DEF CalibrateLight, CalibrateUnlight, CalibrateLoad, CalibrateReload,
                ExitLoad, Set, Load, Colors
  <2>2. pc' \in [Threads -> Labels] /\ pc'["user"] \in UserLabels
        /\ \A u \in Threads \ {"user"} : pc'[u] = pc[u]
    BY <1>4 DEF CalibrateLight, CalibrateUnlight, CalibrateLoad, CalibrateReload, ExitLoad
  <2>3. UNCHANGED <<userRest, flagVars, current_angle, index, clean>>
    BY <1>4 DEF CalibrateLight, CalibrateUnlight, CalibrateLoad, CalibrateReload, ExitLoad
  <2> QED BY <2>1, <2>2, <2>3 DEF userRest
<1>5. CASE CalibrateBlank \/ ExitBlank
  <2>1. /\ index' \in [{"user", "indicator"} -> Leds]
        /\ pix' \in [Leds -> Colors] /\ sent' \in BOOLEAN
        /\ pc' \in [Threads -> Labels]
        /\ \A u \in Threads \ {"user"} : pc'[u] = pc[u]
        /\ pc'["user"] \in {"blank", "light", "exit", "exitLoad"}
    <3>1. CASE CalibrateBlank
      <4>1. Blank("user", "blank", "light")
        BY <3>1 DEF CalibrateBlank
      <4> HIDE DEF RInv, Labels, Leds, Colors
      <4>2. {"blank", "light"} \subseteq Labels
        BY DEF Labels
      <4> QED BY <4>1, <4>2, BlankType, ZenonT(60)
    <3>2. CASE ExitBlank
      <4>1. Blank("user", "exit", "exitLoad")
        BY <3>2 DEF ExitBlank
      <4> HIDE DEF RInv, Labels, Leds, Colors
      <4>2. {"exit", "exitLoad"} \subseteq Labels
        BY DEF Labels
      <4> QED BY <4>1, <4>2, BlankType, ZenonT(60)
    <3> QED BY <1>5, <3>1, <3>2
  <2>2. UNCHANGED <<userRest, flagVars, current_angle, clean>>
    BY <1>5 DEF CalibrateBlank, ExitBlank
  <2> QED BY <2>1, <2>2 DEF userRest
<1>6. CASE MoveBegin \/ TurnBegin
  <2>1. StepsFor(accumulator) \in Int /\ CalibrationSteps \in Int
    BY StepsType, StepsAssumption
  <2>2. steps' \in Int
    BY <1>6, <2>1 DEF MoveBegin, TurnBegin
  <2> QED BY <1>6, <2>2 DEF MoveBegin, TurnBegin, stepperRest
<1>7. CASE MoveNone \/ StepperYield \/ InBounds \/ OutOfBounds \/ LoadWrap
  BY <1>7 DEF MoveNone, StepperYield, InBounds, OutOfBounds, LoadWrap, stepperRest
<1>8. CASE MoveEnd \/ TurnEnd
  <2>1. Leftover(accumulator) \in 0 .. DEGREE_RATIO - 1
    BY StepsType
  <2>2. asked' \in Int /\ steps' \in Int /\ accumulator' \in 0 .. DEGREE_RATIO - 1
    BY <1>8, <2>1 DEF MoveEnd, TurnEnd
  <2> QED BY <1>8, <2>2 DEF MoveEnd, TurnEnd, stepperRest
<1>9. CASE StoreAngle \/ StoreTurn \/ StoreWrap
  <2>1. current_angle' \in 0 .. WordMax
    BY <1>9, WordType, AnglesAssumption, SMTT(30) DEF StoreAngle, StoreTurn, StoreWrap
  <2>2. angle' \in 0 .. WordMax /\ accumulator' \in 0 .. DEGREE_RATIO - 1
    BY <1>9, AnglesAssumption, StepsAssumption DEF StoreAngle, StoreTurn, StoreWrap
  <2> QED BY <1>9, <2>1, <2>2 DEF StoreAngle, StoreTurn, StoreWrap, stepperRest
<1>10. CASE CheckAngle
  BY <1>10 DEF CheckAngle, SweepDone, HomeReached, stepperRest
<1>11. CASE Sensor
  BY <1>11 DEF Sensor, Measure, StoreMeasurement, sensorRest
<1>12. CASE Indicate \/ IndicateNone \/ DarkenBegin \/ DarkenNone
  BY <1>12 DEF Indicate, IndicateNone, DarkenBegin, DarkenNone, indicatorRest
<1>13. CASE ChooseLed
  BY <1>13, LedType DEF ChooseLed, indicatorRest
<1>14. CASE Show \/ IndicatorLoad
  <2>1. pix' \in [Leds -> Colors] /\ sent' \in BOOLEAN
    BY <1>14 DEF Show, IndicatorLoad, Set, Load, Colors
  <2>2. /\ pc' \in [Threads -> Labels] /\ pc'["indicator"] \in {"load", "loop"}
        /\ \A u \in Threads \ {"indicator"} : pc'[u] = pc[u]
    BY <1>14 DEF Show, IndicatorLoad
  <2>3. led_index' \in Leds /\ last_led_index' \in Leds
        /\ UNCHANGED <<indicatorRest, index>>
    BY <1>14 DEF Show, IndicatorLoad
  <2> QED BY <2>1, <2>2, <2>3 DEF indicatorRest
<1>15. CASE Darken
  <2>1. /\ index' \in [{"user", "indicator"} -> Leds]
        /\ pix' \in [Leds -> Colors] /\ sent' \in BOOLEAN
        /\ pc' \in [Threads -> Labels]
        /\ \A u \in Threads \ {"indicator"} : pc'[u] = pc[u]
        /\ pc'["indicator"] \in {"blank", "load"}
    <3>1. Blank("indicator", "blank", "load")
      BY <1>15 DEF Darken
    <3> HIDE DEF RInv, Labels, Leds, Colors
    <3>2. {"blank", "load"} \subseteq Labels
      BY DEF Labels
    <3> QED BY <3>1, <3>2, BlankType, ZenonT(60)
  <2> QED BY <1>15, <2>1 DEF Darken, indicatorRest
<1>16. CASE UNCHANGED vars
  BY <1>16 DEF vars
<1> QED BY <1>1, <1>2, <1>3, <1>4, <1>5, <1>6, <1>7, <1>8, <1>9, <1>10, <1>11,
           <1>12, <1>13, <1>14, <1>15, <1>16
        DEF Next, Carry, Stepper, Indicator

LEMMA RadarTypeAlways == Spec => []RInv
<1>1. Init => RInv
  <2> SUFFICES ASSUME Init PROVE RInv
    OBVIOUS
  <2> USE LedsAssumption, StepsAssumption, AnglesAssumption, RangesAssumption
  <2>1. /\ pc \in [Threads -> Labels] /\ pc["user"] = "loop" /\ pc["stepper"] = "loop"
        /\ pc["sensor"] = "loop" /\ pc["indicator"] = "loop"
    BY DEF Init, Threads, Labels
  <2>2. /\ current_angle \in 0 .. WordMax /\ angle \in 0 .. WordMax
        /\ accumulator \in 0 .. DEGREE_RATIO - 1 /\ steps \in Int /\ asked \in Int
        /\ led_index \in Leds /\ last_led_index \in Leds
    BY DEF Init, Leds
  <2>3. index \in [{"user", "indicator"} -> Leds]
    BY DEF Init, Leds
  <2>4. pix \in [Leds -> Colors]
    BY DEF Init, Dark, Colors
  <2>5. /\ radar_active \in BOOLEAN /\ calibration_mode \in BOOLEAN
        /\ sweep_forward \in BOOLEAN /\ sent \in BOOLEAN /\ clean \in BOOLEAN
        /\ current_range \in Ranges /\ last_ultrasonic_measurement \in Distances \cup {0}
    BY Zenon DEF Init
  <2> QED BY <2>1, <2>2, <2>3, <2>4, <2>5, ZenonT(60)
          DEF RInv, RadarTypeOK, UserLabels, StepperLabels
<1> QED BY <1>1, RadarTypeStep, PTL DEF Spec

\* Whatever the user does, calibration while the sweep runs back included, every
\* LED that is set is on the ring and every global keeps its type
\* (handle_user_command, stepper_thread, indicator_thread).
THEOREM RadarTyping == Spec => []RadarTypeOK
  BY RadarTypeAlways, PTL DEF RInv

-----------------------------------------------------------------------------
(* The arc. *)

\* Before a move the angle is one that the sweep may still leave in its direction,
\* before the check for an end it may be the end.
Swept(a) == IF pc["stepper"] = "check"
            THEN IF sweep_forward THEN a \in 1 .. SweepEnd ELSE a \in 0 .. SweepEnd - 1
            ELSE IF sweep_forward THEN a \in 0 .. SweepEnd - 1 ELSE a \in 1 .. SweepEnd

\* Until a command disturbs it, the sweep goes from end to end, nobody else
\* writes the angle, and what is lit is of the arc.
ArcInv == clean =>
  /\ ~calibration_mode
  /\ pc["user"] \in {"loop", "exit", "exitLoad", "exited"}
  /\ pc["stepper"] \in {"loop", "inactive", "move", "store", "check"}
  /\ Swept(current_angle)
  /\ pc["stepper"] = "store" => angle = current_angle
  /\ pc["indicator"] = "show" => led_index \in Arc
  /\ \A k \in Leds : pix[k] = "red" => k \in Arc

LEMMA SweptInArc == RInv /\ Swept(current_angle) => LedOf(current_angle) \in Arc
<1> SUFFICES ASSUME RInv, Swept(current_angle)
             PROVE  LedOf(current_angle) \in Arc
  OBVIOUS
<1>1. current_angle \in 0 .. SweepEnd
  BY AnglesAssumption DEF Swept
<1> QED BY <1>1 DEF LedOf, Arc

LEMMA ArcStep ==
  ASSUME RInv, ArcInv, [Next]_vars
  PROVE  ArcInv'
<1> SUFFICES ASSUME clean'
             PROVE  ArcInv'
  BY DEF ArcInv
<1> USE DEF RInv, From, At, Goto, Threads
<1>1. CASE Command
  <2>1. /\ clean /\ ~Calibrate
    BY <1>1 DEF Command, Start, Stop, Range, Reset, Calibrate, Exit
  <2>2. /\ UNCHANGED <<stepVars, showVars, pixVars, current_angle, calibration_mode>>
        /\ pc["user"] = "loop" /\ pc'["user"] \in {"loop", "exit"}
        /\ \A u \in Threads \ {"user"} : pc'[u] = pc[u]
    BY <1>1, <2>1 DEF Command, Start, Stop, Range, Reset, Exit, userRest, flagVars
  <2> QED BY <2>1, <2>2 DEF ArcInv, Swept, stepVars, showVars, pixVars
<1>2. CASE Confirm
  BY <1>2 DEF Confirm, ArcInv
<1>3. CASE Carry
  <2>1. clean /\ pc["user"] \in {"exit", "exitLoad"}
    BY <1>3 DEF Carry, CalibrateStop, CalibrateBlank, CalibrateLight, CalibrateLoad,
                CalibrateEnd, CalibrateUnlight, CalibrateReload, ExitBlank, ExitLoad,
                Blank, ArcInv
  <2>2. ExitBlank \/ ExitLoad
    BY <1>3, <2>1 DEF Carry, CalibrateStop, CalibrateBlank, CalibrateLight, CalibrateLoad,
                      CalibrateEnd, CalibrateUnlight, CalibrateReload, Blank
  <2>3. /\ UNCHANGED <<userRest, flagVars, current_angle>>
        /\ \A u \in Threads \ {"user"} : pc'[u] = pc[u]
        /\ pc'["user"] \in {"exit", "exitLoad", "exited"}
    BY <2>2 DEF ExitBlank, ExitLoad, Blank
  <2>4. \A k \in Leds : pix'[k] \in {pix[k], "off"}
    BY <2>2 DEF ExitBlank, ExitLoad, Blank, Set, Load, RadarTypeOK
  <2> QED BY <2>1, <2>3, <2>4 DEF ArcInv, Swept, userRest, stepVars, showVars, flagVars
<1>4. CASE MoveBegin \/ MoveNone \/ StepperYield
  <2>1. /\ pc["stepper"] \in {"loop", "inactive"}
        /\ pc'["stepper"] \in {"loop", "inactive", "move"}
        /\ \A u \in Threads \ {"stepper"} : pc'[u] = pc[u]
    BY <1>4 DEF MoveBegin, MoveNone, StepperYield
  <2>2. UNCHANGED <<clean, calibration_mode, current_angle, sweep_forward, led_index, pix>>
    BY <1>4 DEF MoveBegin, MoveNone, StepperYield, stepperRest, flagVars, stepVars,
                showVars, pixVars
  <2> QED BY <2>1, <2>2 DEF ArcInv, Swept
<1>5. CASE MoveEnd
  BY <1>5 DEF MoveEnd, stepperRest, flagVars, showVars, pixVars, ArcInv, Swept
<1>6. CASE StoreAngle
  <2>1. clean /\ pc["stepper"] = "store" /\ angle = current_angle /\ Swept(angle)
    BY <1>6 DEF StoreAngle, stepperRest, ArcInv
  <2>2. /\ sweep_forward => angle \in 0 .. SweepEnd - 1
        /\ ~sweep_forward => angle \in 1 .. SweepEnd
    BY <2>1 DEF Swept
  <2>3. /\ sweep_forward => current_angle' = (angle + 1) % (WordMax + 1)
        /\ ~sweep_forward => current_angle' = (angle + WordMax) % (WordMax + 1)
    BY <1>6 DEF StoreAngle
  <2>4. sweep_forward => current_angle' \in 1 .. SweepEnd
    <3> SUFFICES ASSUME sweep_forward PROVE current_angle' \in 1 .. SweepEnd
      OBVIOUS
    <3>1. angle \in 0 .. WordMax - 1
      BY <2>2, AnglesAssumption
    <3>2. current_angle' = angle + 1
      BY <2>3, <3>1, WordUp
    <3> QED BY <2>2, <3>2, AnglesAssumption
  <2>5. ~sweep_forward => current_angle' \in 0 .. SweepEnd - 1
    <3> SUFFICES ASSUME ~sweep_forward PROVE current_angle' \in 0 .. SweepEnd - 1
      OBVIOUS
    <3>1. angle \in 1 .. WordMax
      BY <2>2, AnglesAssumption
    <3>2. current_angle' = angle - 1
      BY <2>3, <3>1, WordDown
    <3> QED BY <2>2, <3>2, AnglesAssumption
  <2>6. /\ pc'["stepper"] = "check" /\ UNCHANGED <<stepperRest, sweep_forward>>
        /\ \A u \in Threads \ {"stepper"} : pc'[u] = pc[u]
    BY <1>6 DEF StoreAngle
  <2>7. Swept(current_angle)'
    BY <2>4, <2>5, <2>6 DEF Swept
  <2> QED BY <2>1, <2>6, <2>7 DEF ArcInv, stepperRest, flagVars, showVars, pixVars
<1>7. CASE CheckAngle
  <2>1. /\ clean /\ pc["stepper"] = "check" /\ Swept(current_angle)
    BY <1>7 DEF CheckAngle, stepperRest, ArcInv
  <2>2. /\ pc'["stepper"] = "loop" /\ UNCHANGED <<stepperRest, current_angle>>
        /\ \A u \in Threads \ {"stepper"} : pc'[u] = pc[u]
        /\ sweep_forward' = IF sweep_forward THEN current_angle # SweepEnd
                                            ELSE current_angle = 0
    BY <1>7 DEF CheckAngle, SweepDone, HomeReached
  <2>3. Swept(current_angle)'
    <3>0. current_angle' = current_angle
      BY <2>2
    <3>1. CASE sweep_forward
      <4>1. current_angle \in 1 .. SweepEnd /\ (sweep_forward' <=> current_angle # SweepEnd)
        BY <2>1, <2>2, <3>1 DEF Swept
      <4> QED BY <2>2, <3>0, <4>1, AnglesAssumption DEF Swept
    <3>2. CASE ~sweep_forward
      <4>1. current_angle \in 0 .. SweepEnd - 1 /\ (sweep_forward' <=> current_angle = 0)
        BY <2>1, <2>2, <3>2 DEF Swept
      <4> QED BY <2>2, <3>0, <4>1, AnglesAssumption DEF Swept
    <3> QED BY <3>1, <3>2
  <2> QED BY <2>1, <2>2, <2>3 DEF ArcInv, stepperRest, flagVars, showVars, pixVars
<1>8. CASE TurnBegin \/ TurnEnd \/ StoreTurn \/ InBounds \/ OutOfBounds \/ LoadWrap
           \/ StoreWrap
  BY <1>8 DEF TurnBegin, TurnEnd, StoreTurn, InBounds, OutOfBounds, LoadWrap, StoreWrap,
              stepperRest, ArcInv
<1>9. CASE Sensor
  <2>1. /\ \A u \in Threads \ {"sensor"} : pc'[u] = pc[u]
        /\ UNCHANGED sensorRest
    BY <1>9 DEF Sensor, Measure, StoreMeasurement
  <2> QED BY <2>1 DEF sensorRest, flagVars, stepVars, showVars, pixVars, ArcInv, Swept
<1>10. CASE Indicate \/ IndicateNone \/ DarkenBegin \/ DarkenNone
  <2>1. /\ \A u \in Threads \ {"indicator"} : pc'[u] = pc[u]
        /\ pc'["indicator"] # "show"
        /\ UNCHANGED <<indicatorRest, pixVars>>
    BY <1>10 DEF Indicate, IndicateNone, DarkenBegin, DarkenNone
  <2> QED BY <2>1 DEF indicatorRest, flagVars, stepVars, pixVars, ArcInv, Swept
<1>11. CASE ChooseLed
  <2>1. clean /\ LedOf(current_angle) \in Arc
    BY <1>11, SweptInArc DEF ChooseLed, indicatorRest, ArcInv
  <2> QED BY <1>11, <2>1 DEF ChooseLed, indicatorRest, flagVars, stepVars, pixVars,
                            ArcInv, Swept
<1>12. CASE Show
  <2>1. clean /\ led_index \in Arc
    BY <1>12 DEF Show, indicatorRest, ArcInv
  <2>2. \A k \in Leds : pix'[k] \in {pix[k], "off"} \/ k = led_index
    BY <1>12 DEF Show, Set, RadarTypeOK
  <2>3. \A k \in Leds : pix'[k] = "red" => k \in Arc
    BY <2>1, <2>2 DEF ArcInv
  <2>4. /\ \A u \in Threads \ {"indicator"} : pc'[u] = pc[u]
        /\ pc'["indicator"] = "load"
        /\ UNCHANGED indicatorRest
    BY <1>12 DEF Show
  <2> QED BY <2>1, <2>3, <2>4 DEF indicatorRest, flagVars, stepVars, ArcInv, Swept
<1>13. CASE IndicatorLoad
  <2>1. /\ \A u \in Threads \ {"indicator"} : pc'[u] = pc[u]
        /\ pc'["indicator"] = "loop"
        /\ UNCHANGED <<indicatorRest, pix>>
    BY <1>13 DEF IndicatorLoad, Load
  <2> QED BY <2>1 DEF indicatorRest, flagVars, stepVars, ArcInv, Swept
<1>14. CASE Darken
  <2>1. \A k \in Leds : pix'[k] \in {pix[k], "off"}
    BY <1>14 DEF Darken, Blank, Set, RadarTypeOK
  <2>2. /\ \A u \in Threads \ {"indicator"} : pc'[u] = pc[u]
        /\ pc'["indicator"] \in {"blank", "load"}
        /\ UNCHANGED <<indicatorRest, showVars>>
    BY <1>14 DEF Darken, Blank
  <2> QED BY <2>1, <2>2 DEF indicatorRest, flagVars, stepVars, showVars, ArcInv, Swept
<1>15. CASE UNCHANGED vars
  BY <1>15 DEF vars, flagVars, stepVars, showVars, pixVars, ArcInv, Swept
<1> QED BY <1>1, <1>2, <1>3, <1>4, <1>5, <1>6, <1>7, <1>8, <1>9, <1>10, <1>11,
           <1>12, <1>13, <1>14, <1>15
        DEF Next, Stepper, Indicator

\* On a ring of any size, with a sweep of any width short of a revolution, no LED
\* outside the arc is lit until the user calibrates
\* (stepper_thread, indicator_thread).
THEOREM ArcLit == Spec => []OnlyArcLit
<1>1. Init => ArcInv
  BY AnglesAssumption DEF Init, ArcInv, Swept, Dark, Threads
<1>2. ArcInv => OnlyArcLit
  BY DEF ArcInv, OnlyArcLit
<1> QED BY <1>1, <1>2, ArcStep, RadarTypeAlways, PTL DEF Spec

-----------------------------------------------------------------------------
(* The steps. *)

Remainders == 0 .. DEGREE_RATIO - 1

\* A sum of which one part has been divided already leaves the same remainder.
LEMMA RemainderOfSum ==
  ASSUME NEW x \in Nat, NEW y \in Nat
  PROVE  (y + (x % DEGREE_RATIO)) % DEGREE_RATIO = (x + y) % DEGREE_RATIO
<1> DEFINE d == DEGREE_RATIO
           p == x \div d
           a == x % d
           q == (y + a) \div d
           b == (y + a) % d
           r == (x + y) \div d
           c == (x + y) % d
<1>1. d \in Nat \ {0}
  BY StepsAssumption
<1> HIDE DEF d
<1>2. p \in Int /\ a \in 0 .. d - 1 /\ x = d * p + a
  BY <1>1
<1>3. q \in Int /\ b \in 0 .. d - 1 /\ y + a = d * q + b
  BY <1>1, <1>2
<1>4. r \in Int /\ c \in 0 .. d - 1 /\ x + y = d * r + c
  BY <1>1
<1> HIDE DEF p, a, q, b, r, c
<1>5. b - c = d * (r - p - q)
  <2>1. d * (r - p - q) = d * r - d * p - d * q
    BY <1>1, <1>2, <1>3, <1>4
  <2>2. d * r \in Int /\ d * p \in Int /\ d * q \in Int
    BY <1>1, <1>2, <1>3, <1>4
  <2> QED BY <2>1, <2>2, <1>2, <1>3, <1>4
<1>6. ~(r - p - q >= 1)
  <2> SUFFICES ASSUME r - p - q >= 1 PROVE FALSE
    OBVIOUS
  <2>1. d * (r - p - q) >= d
    BY <1>1, <1>2, <1>3, <1>4
  <2> QED BY <2>1, <1>1, <1>3, <1>4, <1>5
<1>7. ~(r - p - q <= -1)
  <2> SUFFICES ASSUME r - p - q <= -1 PROVE FALSE
    OBVIOUS
  <2>1. d * (r - p - q) <= -d
    BY <1>1, <1>2, <1>3, <1>4
  <2> QED BY <2>1, <1>1, <1>3, <1>4, <1>5
<1>8. r - p - q = 0
  BY <1>2, <1>3, <1>4, <1>6, <1>7
<1>9. b = c
  BY <1>1, <1>3, <1>4, <1>5, <1>8
<1> QED BY <1>9 DEF a, b, c, d

\* A remainder is its own.
LEMMA RemainderSame == ASSUME NEW a \in Remainders PROVE a % DEGREE_RATIO = a
  BY StepsAssumption DEF Remainders

\* What is left over when a trip from one end to the other starts with b left over.
After(b) == (b + STEP_RATIO * SweepEnd) % DEGREE_RATIO

LEMMA AfterType == ASSUME NEW b \in Remainders PROVE After(b) \in Remainders
<1>1. b + STEP_RATIO * SweepEnd \in Int
  BY StepsAssumption, AnglesAssumption DEF Remainders
<1> QED BY <1>1, StepsAssumption DEF After, Remainders

\* home[b] is the sum of the steps asked for when the sweep sets out from angle 0 with
\* b left over: the trips out and back are such that this depends on b alone, and at
\* no angle is the sum more than Slack steps off.
Balanced(home) ==
  /\ home \in [Remainders -> Int] /\ home[0] = 0
  /\ \A b \in Remainders :
       DEGREE_RATIO * home[After(After(b))]
         = DEGREE_RATIO * home[b] + b - 2 * After(b) + After(After(b))
  /\ \A b, a \in Remainders :
       /\ DEGREE_RATIO * home[b] + b - a \in -(Slack * DEGREE_RATIO) .. Slack * DEGREE_RATIO
       /\ DEGREE_RATIO * home[b] + b - 2 * After(b) + a
            \in -(Slack * DEGREE_RATIO) .. Slack * DEGREE_RATIO

\* The angle of the sum: current_angle, but for a move that is not yet stored.
Reached ==
  IF pc["stepper"] = "store" THEN IF sweep_forward THEN current_angle + 1 ELSE current_angle - 1
                             ELSE current_angle

LEMMA BalancedType ==
  ASSUME NEW home, Balanced(home), NEW b \in Remainders
  PROVE  /\ b \in Nat /\ After(b) \in Nat /\ After(b) \in Remainders
         /\ home[b] \in Int /\ DEGREE_RATIO * home[b] \in Int
<1>1. home[b] \in Int /\ DEGREE_RATIO \in Nat
  BY StepsAssumption DEF Balanced
<1>2. b \in Nat /\ After(b) \in Nat /\ After(b) \in Remainders
  BY AfterType, StepsAssumption DEF Remainders
<1> QED BY <1>1, <1>2

\* The sum at angle p of a trip out, or back, of a sweep that set out with b left over.
Out(home, b, p) ==
  /\ accumulator = (b + STEP_RATIO * p) % DEGREE_RATIO
  /\ DEGREE_RATIO * asked = STEP_RATIO * p + b - accumulator + DEGREE_RATIO * home[b]
Back(home, b, p) ==
  /\ accumulator = (After(b) + STEP_RATIO * (SweepEnd - p)) % DEGREE_RATIO
  /\ DEGREE_RATIO * asked
       = STEP_RATIO * p + b - 2 * After(b) + accumulator + DEGREE_RATIO * home[b]

Tracks(home) == clean =>
  /\ \E b \in Remainders : IF sweep_forward THEN Out(home, b, Reached) ELSE Back(home, b, Reached)
  /\ pc["stepper"] = "move" =>
       steps = (IF sweep_forward THEN 1 ELSE -1) * StepsFor(accumulator)

\* The steps of a degree and what they leave over.
LEMMA DegreeSplit ==
  ASSUME NEW acc \in Remainders
  PROVE  DEGREE_RATIO * StepsFor(acc) = STEP_RATIO + acc - Leftover(acc)
<1>1. /\ STEP_RATIO \in Int /\ acc \in Int /\ STEP_RATIO + acc \in Int
      /\ DEGREE_RATIO \in Nat \ {0}
  BY StepsAssumption DEF Remainders
<1>2. STEP_RATIO + acc = DEGREE_RATIO * ((STEP_RATIO + acc) \div DEGREE_RATIO)
                           + ((STEP_RATIO + acc) % DEGREE_RATIO)
  BY <1>1
<1> DEFINE q == StepsFor(acc)
           r == Leftover(acc)
<1>3. q \in Int /\ r \in Int
  BY <1>1 DEF StepsFor, Leftover
<1>4. STEP_RATIO + acc = DEGREE_RATIO * q + r
  BY <1>2 DEF StepsFor, Leftover
<1> HIDE DEF q, r
<1>5. DEGREE_RATIO * q \in Int
  BY <1>1, <1>3
<1>6. DEGREE_RATIO * q = STEP_RATIO + acc - r
  BY <1>1, <1>3, <1>4, <1>5
<1> QED BY <1>6 DEF q, r

\* A move adds the steps of one degree.
LEMMA MoveTracks ==
  ASSUME NEW home, Balanced(home), RInv, ArcInv, Tracks(home), clean, MoveEnd
  PROVE  Tracks(home)'
<1> DEFINE D == DEGREE_RATIO
           R == STEP_RATIO
           k == StepsFor(accumulator)
<1>1. D \in Nat \ {0} /\ R \in Nat \ {0} /\ SweepEnd \in Nat \ {0} /\ accumulator \in Remainders
  BY StepsAssumption, AnglesAssumption DEF RInv, RadarTypeOK, Remainders
<1>2. /\ pc["stepper"] = "move" /\ pc'["stepper"] = "store" /\ clean'
      /\ accumulator' = Leftover(accumulator)
      /\ UNCHANGED <<current_angle, sweep_forward>>
      /\ asked' = asked + steps
      /\ steps = (IF sweep_forward THEN 1 ELSE -1) * k
  BY DEF MoveEnd, From, At, Goto, stepperRest, RInv, Threads, Tracks
<1>3. k \in Int /\ accumulator' \in Remainders /\ asked \in Int
      /\ D * k = R + accumulator - accumulator'
  BY <1>1, <1>2, StepsType, DegreeSplit DEF RInv, RadarTypeOK, Remainders
<1>4. PICK b \in Remainders : IF sweep_forward THEN Out(home, b, current_angle)
                                               ELSE Back(home, b, current_angle)
  BY <1>2 DEF Tracks, Reached
<1>5. /\ b \in Nat /\ home[b] \in Int /\ D * home[b] \in Int
      /\ After(b) \in Nat /\ D * asked \in Int /\ D * k \in Int
  <2>1. D * asked \in Int /\ D * k \in Int
    BY <1>1, <1>3
  <2> QED BY <2>1, BalancedType
<1>6. CASE sweep_forward
  <2>1. current_angle \in Nat /\ R * current_angle \in Nat
    BY <1>1, <1>2, <1>6 DEF ArcInv, Swept
  <2>2. accumulator' = (R + ((b + R * current_angle) % D)) % D
    BY <1>2, <1>4, <1>6 DEF Out, Leftover
  <2>3. accumulator' = (b + R * current_angle + R) % D
    <3> DEFINE z == b + R * current_angle
    <3>1. z \in Nat /\ R \in Nat
      BY <1>1, <1>5, <2>1
    <3> HIDE DEF z
    <3>2. (R + (z % D)) % D = (z + R) % D
      BY <3>1, RemainderOfSum
    <3> QED BY <3>2, <2>2 DEF z
  <2>4. b + R * current_angle + R = b + R * (current_angle + 1)
    BY <1>1, <1>5, <2>1
  <2>5. D * asked' = D * asked + D * k
    BY <1>1, <1>2, <1>3, <1>6
  <2>6. R * (current_angle + 1) = R * current_angle + R
    BY <1>1, <2>1
  <2>7. D * asked' = R * (current_angle + 1) + b - accumulator' + D * home[b]
    BY <1>1, <1>3, <1>4, <1>5, <1>6, <2>1, <2>5, <2>6 DEF Out, Remainders
  <2>8. Reached' = current_angle + 1
    BY <1>2, <1>6 DEF Reached
  <2>9. accumulator' = (b + R * (current_angle + 1)) % D
    BY <2>3, <2>4
  <2> QED BY <1>2, <1>6, <2>7, <2>8, <2>9 DEF Tracks, Out
<1>7. CASE ~sweep_forward
  <2>1. /\ current_angle \in Nat \ {0} /\ R * current_angle \in Nat
        /\ SweepEnd - current_angle \in Nat /\ R * (SweepEnd - current_angle) \in Nat
    BY <1>1, <1>2, <1>7 DEF ArcInv, Swept
  <2>2. accumulator' = (R + ((After(b) + R * (SweepEnd - current_angle)) % D)) % D
    BY <1>2, <1>4, <1>7 DEF Back, Leftover
  <2>3. accumulator' = (After(b) + R * (SweepEnd - current_angle) + R) % D
    <3> DEFINE z == After(b) + R * (SweepEnd - current_angle)
    <3>1. z \in Nat /\ R \in Nat
      BY <1>1, <1>5, <2>1
    <3> HIDE DEF z
    <3>2. (R + (z % D)) % D = (z + R) % D
      BY <3>1, RemainderOfSum
    <3> QED BY <3>2, <2>2 DEF z
  <2>4. After(b) + R * (SweepEnd - current_angle) + R
          = After(b) + R * (SweepEnd - (current_angle - 1))
    <3>1. R * (SweepEnd - (current_angle - 1)) = R * (SweepEnd - current_angle) + R
      BY <1>1, <2>1
    <3> QED BY <3>1, <1>1, <1>5, <2>1
  <2>5. D * asked' = D * asked - D * k
    BY <1>1, <1>2, <1>3, <1>7
  <2>6. R * (current_angle - 1) = R * current_angle - R
    BY <1>1, <2>1
  <2>7. D * asked' = R * (current_angle - 1) + b - 2 * After(b) + accumulator' + D * home[b]
    BY <1>1, <1>3, <1>4, <1>5, <1>7, <2>1, <2>5, <2>6 DEF Back, Remainders
  <2>8. Reached' = current_angle - 1
    BY <1>2, <1>7 DEF Reached
  <2>9. accumulator' = (After(b) + R * (SweepEnd - (current_angle - 1))) % D
    BY <2>3, <2>4
  <2> QED BY <1>2, <1>7, <2>7, <2>8, <2>9 DEF Tracks, Back
<1> QED BY <1>6, <1>7

\* Storing the angle keeps account of it.
LEMMA StoreTracks ==
  ASSUME NEW home, RInv, ArcInv, ArcInv', Tracks(home), clean, StoreAngle
  PROVE  Tracks(home)'
<1>1. /\ pc["stepper"] = "store" /\ pc'["stepper"] = "check" /\ clean'
      /\ angle = current_angle /\ Swept(current_angle)
      /\ UNCHANGED <<accumulator, asked, sweep_forward>>
      /\ current_angle' = (angle + (IF sweep_forward THEN 1 ELSE WordMax)) % (WordMax + 1)
  BY DEF StoreAngle, From, At, Goto, stepperRest, RInv, Threads, ArcInv
<1>2. current_angle' = Reached
  <2>1. CASE sweep_forward
    <3>1. current_angle \in 0 .. WordMax - 1
      BY <1>1, <2>1, AnglesAssumption DEF Swept
    <3> QED BY <1>1, <2>1, <3>1, WordUp DEF Reached
  <2>2. CASE ~sweep_forward
    <3>1. current_angle \in 1 .. WordMax
      BY <1>1, <2>2, AnglesAssumption DEF Swept
    <3> QED BY <1>1, <2>2, <3>1, WordDown DEF Reached
  <2> QED BY <2>1, <2>2
<1>3. Reached' = Reached
  BY <1>1, <1>2 DEF Reached
<1> QED BY <1>1, <1>3 DEF Tracks, Out, Back

\* At the ends the account changes: the trip back starts where the trip out has ended,
\* and the next trip out with what the trip back has left over.
LEMMA CheckTracks ==
  ASSUME NEW home, Balanced(home), RInv, ArcInv, Tracks(home), clean, CheckAngle
  PROVE  Tracks(home)'
<1> DEFINE D == DEGREE_RATIO
           R == STEP_RATIO
<1>1. /\ pc["stepper"] = "check" /\ pc'["stepper"] = "loop" /\ clean' /\ Swept(current_angle)
      /\ UNCHANGED <<accumulator, asked, current_angle>>
      /\ sweep_forward' = IF sweep_forward THEN current_angle # SweepEnd
                                           ELSE current_angle = 0
  BY DEF CheckAngle, From, At, Goto, stepperRest, RInv, Threads, ArcInv, SweepDone, HomeReached
<1>2. PICK b \in Remainders : IF sweep_forward THEN Out(home, b, current_angle)
                                               ELSE Back(home, b, current_angle)
  BY <1>1 DEF Tracks, Reached
<1>3. Reached' = current_angle
  BY <1>1 DEF Reached
<1>4. /\ D \in Nat \ {0} /\ R \in Nat \ {0} /\ SweepEnd \in Nat \ {0}
      /\ b \in Int /\ D * home[b] \in Int /\ D * asked \in Int /\ R * SweepEnd \in Int
      /\ After(b) \in Remainders /\ After(b) \in Int /\ After(After(b)) \in Remainders
      /\ After(After(b)) \in Int
  <2>1. D \in Nat \ {0} /\ R \in Nat \ {0} /\ SweepEnd \in Nat \ {0} /\ asked \in Int
    BY StepsAssumption, AnglesAssumption DEF RInv, RadarTypeOK
  <2>2. D * asked \in Int /\ R * SweepEnd \in Int
    BY <2>1
  <2>3. After(b) \in Remainders /\ After(b) \in Nat /\ b \in Nat /\ D * home[b] \in Int
    BY BalancedType
  <2>4. After(After(b)) \in Remainders /\ After(After(b)) \in Nat
    BY <2>3, BalancedType
  <2> QED BY <2>1, <2>2, <2>3, <2>4
<1>5. CASE sweep_forward
  <2>1. CASE current_angle = SweepEnd
    <3>1. accumulator = After(b)
      BY <1>2, <1>5, <2>1 DEF Out, After
    <3>2. SweepEnd - SweepEnd = 0 /\ R * 0 = 0 /\ After(b) + 0 = After(b)
      BY <1>4
    <3>3. accumulator = (After(b) + R * (SweepEnd - SweepEnd)) % D
      BY <1>4, <3>1, <3>2, RemainderSame
    <3>4. D * asked = R * SweepEnd + b - 2 * After(b) + accumulator + D * home[b]
      BY <1>2, <1>4, <1>5, <2>1, <3>1 DEF Out
    <3>5. Back(home, b, SweepEnd)'
      BY <1>1, <3>3, <3>4 DEF Back
    <3> QED BY <1>1, <1>3, <1>5, <2>1, <3>5 DEF Tracks
  <2>2. CASE current_angle # SweepEnd
    BY <1>1, <1>2, <1>3, <1>5, <2>2 DEF Tracks, Out
  <2> QED BY <2>1, <2>2
<1>6. CASE ~sweep_forward
  <2>1. CASE current_angle = 0
    <3> DEFINE c == After(After(b))
    <3>1. accumulator = c
      <4>1. SweepEnd - 0 = SweepEnd
        BY <1>4
      <4> QED BY <1>2, <1>6, <2>1, <4>1 DEF Back, After
    <3>2. R * 0 = 0 /\ c + 0 = c
      BY <1>4
    <3>3. accumulator = (c + R * 0) % D
      BY <1>4, <3>1, <3>2, RemainderSame
    <3>4. D * home[c] = D * home[b] + b - 2 * After(b) + c
      BY DEF Balanced
    <3>5. D * asked = 0 + b - 2 * After(b) + accumulator + D * home[b]
      BY <1>2, <1>6, <2>1, <3>2 DEF Back
    <3>6. D * asked = R * 0 + c - accumulator + D * home[c]
      BY <1>4, <3>1, <3>2, <3>4, <3>5
    <3>7. Out(home, c, 0)'
      BY <1>1, <3>3, <3>6 DEF Out
    <3> QED BY <1>1, <1>3, <1>4, <1>6, <2>1, <3>7 DEF Tracks
  <2>2. CASE current_angle # 0
    BY <1>1, <1>2, <1>3, <1>6, <2>2 DEF Tracks, Back
  <2> QED BY <2>1, <2>2
<1> QED BY <1>5, <1>6

LEMMA TracksStep ==
  ASSUME NEW home, Balanced(home), RInv, ArcInv, ArcInv', Tracks(home), [Next]_vars
  PROVE  Tracks(home)'
<1> SUFFICES ASSUME clean'
             PROVE  Tracks(home)'
  BY DEF Tracks
<1> USE DEF RInv, From, At, Goto, Threads
<1>0. ASSUME clean, UNCHANGED <<current_angle, sweep_forward, accumulator, asked>>,
             UNCHANGED steps, pc'["stepper"] = pc["stepper"]
      PROVE  Tracks(home)'
  BY <1>0 DEF Tracks, Reached, Out, Back
<1>1. CASE Command
  <2>1. clean /\ ~Calibrate
    BY <1>1 DEF Command, Start, Stop, Range, Reset, Calibrate, Exit
  <2>2. UNCHANGED <<stepVars, current_angle>> /\ pc'["stepper"] = pc["stepper"]
    BY <1>1, <2>1 DEF Command, Start, Stop, Range, Reset, Exit, userRest
  <2> QED BY <1>0, <2>1, <2>2 DEF stepVars
<1>2. CASE Confirm
  BY <1>2 DEF Confirm, ArcInv
<1>3. CASE Carry
  <2>1. /\ clean /\ UNCHANGED <<userRest, current_angle>>
        /\ pc'["stepper"] = pc["stepper"]
    BY <1>3 DEF Carry, CalibrateStop, CalibrateBlank, CalibrateLight, CalibrateLoad,
                CalibrateEnd, CalibrateUnlight, CalibrateReload, ExitBlank, ExitLoad,
                Blank
  <2> QED BY <1>0, <2>1 DEF userRest, stepVars
<1>4. CASE MoveBegin
  <2>1. /\ pc["stepper"] = "loop" /\ pc'["stepper"] = "move" /\ clean
        /\ UNCHANGED <<current_angle, sweep_forward, accumulator, asked>>
        /\ steps' = (IF sweep_forward THEN 1 ELSE -1) * StepsFor(accumulator)
    BY <1>4 DEF MoveBegin, stepperRest
  <2>2. steps' = (IF sweep_forward' THEN 1 ELSE -1) * StepsFor(accumulator')
    BY <2>1
  <2> QED BY <2>1, <2>2 DEF Tracks, Reached, Out, Back
<1>5. CASE MoveNone \/ StepperYield
  <2>1. /\ pc["stepper"] \in {"loop", "inactive"} /\ pc'["stepper"] \in {"loop", "inactive"}
        /\ clean /\ UNCHANGED <<current_angle, stepVars>>
    BY <1>5 DEF MoveNone, StepperYield, stepperRest
  <2> QED BY <2>1 DEF Tracks, Reached, Out, Back, stepVars
<1>6. CASE MoveEnd
  BY <1>6, MoveTracks DEF MoveEnd, stepperRest
<1>7. CASE StoreAngle
  BY <1>7, StoreTracks DEF StoreAngle, stepperRest
<1>8. CASE CheckAngle
  BY <1>8, CheckTracks DEF CheckAngle, stepperRest
<1>9. CASE TurnBegin \/ TurnEnd \/ StoreTurn \/ InBounds \/ OutOfBounds \/ LoadWrap
           \/ StoreWrap
  BY <1>9 DEF TurnBegin, TurnEnd, StoreTurn, InBounds, OutOfBounds, LoadWrap, StoreWrap,
              stepperRest, ArcInv
<1>10. CASE Sensor
  <2>1. UNCHANGED sensorRest /\ pc'["stepper"] = pc["stepper"]
    BY <1>10 DEF Sensor, Measure, StoreMeasurement
  <2> QED BY <1>0, <2>1 DEF sensorRest, stepVars
<1>11. CASE Indicator
  <2>1. UNCHANGED indicatorRest /\ pc'["stepper"] = pc["stepper"]
    BY <1>11 DEF Indicator, Indicate, IndicateNone, ChooseLed, Show, IndicatorLoad,
                 DarkenBegin, DarkenNone, Darken, Blank
  <2> QED BY <1>0, <2>1 DEF indicatorRest, stepVars
<1>12. CASE UNCHANGED vars
  BY <1>0, <1>12 DEF vars, stepVars
<1> QED BY <1>1, <1>2, <1>3, <1>4, <1>5, <1>6, <1>7, <1>8, <1>9, <1>10, <1>11, <1>12
        DEF Next, Stepper

\* Between moves the steps asked of the motor are those that current_angle stands for,
\* to within Slack, for ever, if the remainders of the trips balance (stepper_thread).
THEOREM StepsTrack ==
  ASSUME NEW home, Balanced(home)
  PROVE  Spec => []StepsTrackAngle
<1>1. Init => ArcInv /\ Tracks(home)
  <2> SUFFICES ASSUME Init PROVE ArcInv /\ Tracks(home)
    OBVIOUS
  <2>1. ArcInv
    BY AnglesAssumption DEF Init, ArcInv, Swept, Dark, Threads
  <2>2. 0 \in Remainders /\ DEGREE_RATIO \in Nat \ {0} /\ STEP_RATIO \in Nat
    BY StepsAssumption DEF Remainders
  <2>3. Reached = 0 /\ pc["stepper"] # "move"
    BY DEF Init, Reached, Threads
  <2>4. STEP_RATIO * 0 = 0 /\ DEGREE_RATIO * 0 = 0
    BY <2>2
  <2>5. accumulator = 0 /\ asked = 0 /\ sweep_forward = TRUE
    BY DEF Init
  <2>6. Out(home, 0, 0)
    BY <2>2, <2>4, <2>5, RemainderSame DEF Out, Balanced
  <2> QED BY <2>1, <2>2, <2>3, <2>5, <2>6 DEF Tracks
<1>2. RInv /\ ArcInv /\ Tracks(home) => StepsTrackAngle
  <2> SUFFICES ASSUME RInv, Tracks(home), clean, pc["stepper"] = "loop"
               PROVE  DEGREE_RATIO * asked - STEP_RATIO * current_angle
                        \in -(Slack * DEGREE_RATIO) .. Slack * DEGREE_RATIO
    BY DEF StepsTrackAngle
  <2>1. PICK b \in Remainders : IF sweep_forward THEN Out(home, b, current_angle)
                                                 ELSE Back(home, b, current_angle)
    BY DEF Tracks, Reached
  <2>2. /\ accumulator \in Remainders /\ accumulator \in Int /\ b \in Int
        /\ DEGREE_RATIO * home[b] \in Int /\ STEP_RATIO * current_angle \in Int
        /\ DEGREE_RATIO * asked \in Int /\ After(b) \in Int
    <3>1. /\ accumulator \in Remainders /\ accumulator \in Int /\ asked \in Int
          /\ current_angle \in Int /\ DEGREE_RATIO \in Int /\ STEP_RATIO \in Int
      BY StepsAssumption, AnglesAssumption DEF RInv, RadarTypeOK, Remainders
    <3>2. STEP_RATIO * current_angle \in Int /\ DEGREE_RATIO * asked \in Int
      BY <3>1
    <3> QED BY <3>1, <3>2, BalancedType
  <2>3. CASE sweep_forward
    <3>1. DEGREE_RATIO * asked - STEP_RATIO * current_angle
            = DEGREE_RATIO * home[b] + b - accumulator
      BY <2>1, <2>2, <2>3 DEF Out
    <3> QED BY <3>1, <2>2 DEF Balanced
  <2>4. CASE ~sweep_forward
    <3>1. DEGREE_RATIO * asked - STEP_RATIO * current_angle
            = DEGREE_RATIO * home[b] + b - 2 * After(b) + accumulator
      BY <2>1, <2>2, <2>4 DEF Back
    <3> QED BY <3>1, <2>2 DEF Balanced
  <2> QED BY <2>3, <2>4
<1>3. ArcInv /\ Tracks(home) /\ RInv /\ [Next]_vars => (ArcInv /\ Tracks(home))'
  BY ArcStep, TracksStep
<1> QED BY <1>1, <1>2, <1>3, RadarTypeAlways, PTL DEF Spec

\* The remainders of the program as it is built: 256 steps for 45 degrees, trips of
\* 179 degrees.  They repeat after 45 sweeps, in which the sum is off by at most four steps.
Home45 == [b \in 0 .. 44 |->
  IF b \in {11, 39, 5, 33} THEN -1
  ELSE IF b \in {0, 28, 22, 16, 44, 10, 38, 4, 32, 12, 40, 6, 34} THEN 0
  ELSE IF b \in {26, 20, 14, 42, 8, 36, 2, 30, 24, 18} THEN 2
  ELSE IF b \in {25, 19} THEN 3 ELSE 1]

\* The radar never asks for over four steps more or less than its angle stands for
\* (main.c:20-23).
THEOREM StepsTrackAsBuilt ==
  ASSUME STEP_RATIO = 256, DEGREE_RATIO = 45, SweepEnd = 179, Slack >= 4
  PROVE  Spec => []StepsTrackAngle
<1> DEFINE N45 == 0 .. 44
<1>1. Remainders = N45 /\ Slack \in Nat
  BY StepsAssumption DEF Remainders
<1>2. Home45 \in [N45 -> -1 .. 3] /\ Home45[0] = 0
  BY DEF Home45
<1>3. \A b \in N45 : After(b) = IF b < 31 THEN b + 14 ELSE b - 31
  <2> SUFFICES ASSUME NEW b \in N45 PROVE After(b) = IF b < 31 THEN b + 14 ELSE b - 31
    OBVIOUS
  <2>1. After(b) = (b + 45824) % 45
    BY DEF After
  <2> QED BY <2>1
<1>4. ASSUME NEW b \in N45
      PROVE  45 * Home45[After(After(b))]
               = 45 * Home45[b] + b - 2 * After(b) + After(After(b))
  <2>1. CASE b < 17
    BY <1>3, <2>1 DEF Home45
  <2>2. CASE b >= 17 /\ b < 31
    BY <1>3, <2>2 DEF Home45
  <2>3. CASE b >= 31
    BY <1>3, <2>3 DEF Home45
  <2> QED BY <2>1, <2>2, <2>3
<1>5. ASSUME NEW b \in N45, NEW a \in N45
      PROVE  /\ 45 * Home45[b] + b - a \in -180 .. 180
             /\ 45 * Home45[b] + b - 2 * After(b) + a \in -180 .. 180
  <2>1. After(b) = IF b < 31 THEN b + 14 ELSE b - 31
    BY <1>3
  <2> DEFINE h == Home45[b]
             c == After(b)
  <2>2. \/ h = -1 /\ b \in {11, 39, 5, 33}
        \/ h = 0
        \/ h = 1 /\ b <= 43
        \/ h = 2 /\ b \in {26, 20, 14, 42, 8, 36, 2, 30, 24, 18}
        \/ h = 3 /\ b \in {25, 19}
    BY DEF Home45
  <2> HIDE DEF h, c
  <2>3. a \in 0 .. 44 /\ b \in 0 .. 44 /\ c = IF b < 31 THEN b + 14 ELSE b - 31
    BY <2>1 DEF c
  <2>4. 45 * h + b - a \in -180 .. 180 /\ 45 * h + b - 2 * c + a \in -180 .. 180
    <3>1. CASE h = -1 /\ b \in {11, 39, 5, 33}
      BY <2>3, <3>1
    <3>2. CASE h = 0
      BY <2>3, <3>2
    <3>3. CASE h = 1 /\ b <= 43
      BY <2>3, <3>3
    <3>4. CASE h = 2 /\ b \in {26, 20, 14, 42, 8, 36, 2, 30, 24, 18}
      BY <2>3, <3>4
    <3>5. CASE h = 3 /\ b \in {25, 19}
      BY <2>3, <3>5
    <3> QED BY <2>2, <3>1, <3>2, <3>3, <3>4, <3>5
  <2> QED BY <2>4 DEF h, c
<1>6. -180 .. 180 \subseteq -(Slack * 45) .. Slack * 45
  BY <1>1
<1>7. Balanced(Home45)
  <2>1. Home45 \in [Remainders -> Int] /\ Home45[0] = 0
    BY <1>1, <1>2
  <2>2. \A b, a \in Remainders :
          /\ DEGREE_RATIO * Home45[b] + b - a
               \in -(Slack * DEGREE_RATIO) .. Slack * DEGREE_RATIO
          /\ DEGREE_RATIO * Home45[b] + b - 2 * After(b) + a
               \in -(Slack * DEGREE_RATIO) .. Slack * DEGREE_RATIO
    <3> SUFFICES ASSUME NEW b \in Remainders, NEW a \in Remainders
                 PROVE  /\ 45 * Home45[b] + b - a \in -(Slack * 45) .. Slack * 45
                        /\ 45 * Home45[b] + b - 2 * After(b) + a
                             \in -(Slack * 45) .. Slack * 45
      BY Zenon
    <3>1. b \in N45 /\ a \in N45
      BY <1>1
    <3>2. /\ 45 * Home45[b] + b - a \in -180 .. 180
          /\ 45 * Home45[b] + b - 2 * After(b) + a \in -180 .. 180
      BY <1>5, <3>1
    <3> QED BY <3>2, <1>6, Zenon
  <2> QED BY <1>1, <1>4, <2>1, <2>2 DEF Balanced
<1> QED BY <1>7, StepsTrack
=============================================================================
