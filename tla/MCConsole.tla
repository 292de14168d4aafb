----------------------------- MODULE MCConsole ------------------------------
(***************************************************************************)
(* The console with one letter besides the carriage return: the letter     *)
(* alone on a line is calibrate, two of them are an unknown command.       *)
(***************************************************************************)
EXTENDS Console

CONSTANT b1

CalibrateLine == <<b1>>
=============================================================================
