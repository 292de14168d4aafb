----------------------------- MODULE ByteQueue ------------------------------
(***************************************************************************)
(* What one direction of the RTT console promises: a bounded queue of      *)
(* bytes, taken in the order in which they were put, each exactly once.    *)
(***************************************************************************)
EXTENDS Naturals, Sequences

CONSTANTS
  Bytes,     \* what the program and the host say to each other
  NoByte,    \* nothing taken yet
  Capacity   \* bytes that may be under way

VARIABLES
  queue,     \* put and not yet taken, oldest first
  taken      \* the byte taken last

Init == queue = <<>> /\ taken = NoByte

Put(b) ==
  /\ Len(queue) < Capacity
  /\ queue' = Append(queue, b)
  /\ UNCHANGED taken

Take ==
  /\ queue # <<>>
  /\ taken' = Head(queue)
  /\ queue' = Tail(queue)

Next == Take \/ \E b \in Bytes : Put(b)

Spec == Init /\ [][Next]_<<queue, taken>>
=============================================================================
