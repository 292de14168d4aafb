----------------------------- MODULE LockService ----------------------------
(***************************************************************************)
(* What lock and unlock promise the threads (user/include/lib.h): a lock   *)
(* has at most one owner, only an open lock is acquired, and a lock is     *)
(* given up only by its owner - one at a time with unlock, or all it has   *)
(* left when the thread ends.                                              *)
(***************************************************************************)
EXTENDS Integers

CONSTANTS Threads, Locks, Nobody

VARIABLE owner

Init == owner = [m \in Locks |-> Nobody]

Owned(i) == {m \in Locks : owner[m] = i}

Acquire(i, m) == owner[m] = Nobody /\ owner' = [owner EXCEPT ![m] = i]

Release(i, M) == owner' = [m \in Locks |-> IF m \in M THEN Nobody ELSE owner[m]]

Next == \E i \in Threads :
          \/ \E m \in Locks : Acquire(i, m)
          \/ \E m \in Owned(i) : Release(i, {m})
          \/ Release(i, Owned(i))

Spec == Init /\ [][Next]_owner
=============================================================================
