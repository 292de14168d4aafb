----------------------------- MODULE LineReader -----------------------------
(***************************************************************************)
(* What the command line of the radar promises: the characters of the user *)
(* are cut at each carriage return into lines, which are handled in order; *)
(* a line that fills the buffer is discarded.  How the characters are cut  *)
(* into calls of read does not show.                                       *)
(***************************************************************************)
EXTENDS Naturals, Sequences

CONSTANTS
  Chars,     \* what the user types
  Return,    \* the carriage return
  Size       \* characters of a line that is discarded

VARIABLES
  unseen,    \* characters read and not yet looked at
  line,      \* the characters since the last carriage return
  handled    \* the line handled last

Init == unseen = <<>> /\ line = <<>> /\ handled = <<>>

Deliver(c) ==
  /\ unseen' = Append(unseen, c)
  /\ UNCHANGED <<line, handled>>

Extend ==
  /\ unseen # <<>> /\ Head(unseen) # Return /\ Len(line) < Size
  /\ unseen' = Tail(unseen) /\ line' = Append(line, Head(unseen))
  /\ UNCHANGED handled

Handle ==
  /\ unseen # <<>> /\ Head(unseen) = Return
  /\ unseen' = Tail(unseen) /\ handled' = line /\ line' = <<>>

Discard ==
  /\ unseen = <<>> /\ Len(line) = Size
  /\ line' = <<>>
  /\ UNCHANGED <<unseen, handled>>

Next == (\E c \in Chars : Deliver(c)) \/ Extend \/ Handle \/ Discard

Spec == Init /\ [][Next]_<<unseen, line, handled>>
=============================================================================
