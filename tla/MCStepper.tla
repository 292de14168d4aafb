----------------------------- MODULE MCStepper ------------------------------
(***************************************************************************)
(* Moves for the run of Stepper: both directions, and the move of no steps *)
(* that starts a timer which has nothing to do.                            *)
(***************************************************************************)
EXTENDS Stepper

TurnsBothWays == {-2, 0, 3}
=============================================================================
