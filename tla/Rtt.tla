-------------------------------- MODULE Rtt ---------------------------------
(***************************************************************************)
(* The console of rtt.c: two ring buffers shared with the debugger, under  *)
(* the system calls read and write.  The up buffer is written by the       *)
(* program and read by the host, the down buffer the other way round.  A   *)
(* call runs with interrupts enabled, so that the scheduler may suspend it *)
(* at any statement while another thread makes a call of its own.          *)
(***************************************************************************)
EXTENDS Integers, Sequences, FiniteSets

CONSTANTS
  Writers,    \* threads that call write
  Readers,    \* threads that call read
  Bytes,      \* contents of a message
  NoByte,     \* nothing copied yet
  UpSize,     \* RTT_UP_BUFFER_SIZE
  DownSize,   \* RTT_DOWN_BUFFER_SIZE
  MaxLen      \* bound: longest message passed to one call

Threads == Writers \cup Readers

ASSUME SizesAssumption == UpSize \in Nat \ {0, 1} /\ DownSize \in Nat \ {0, 1}
ASSUME MessagesAssumption == MaxLen \in Nat \ {0} /\ NoByte \notin Bytes

VARIABLES
  up_p, up_w_idx, up_r_idx,          \* cb->up_buffer: p, w_idx, r_idx
  down_p, down_w_idx, down_r_idx,    \* cb->down_buffer
  pc,           \* where the thread is in its call
  index,        \* its write_index or read_index
  left,         \* characters still to copy
  copied,       \* the character rtt_read has just copied to dst
  host_up,      \* byte the host has copied and not yet released
  host_down,    \* whether the host has stored a byte it has not published
  got_up,       \* the last byte the host is done with
  got_down      \* the last byte rtt_read is done with

upVars == <<up_p, up_w_idx, up_r_idx, host_up, got_up>>
downVars == <<down_p, down_w_idx, down_r_idx, host_down, got_down>>
callVars == <<pc, index, left, copied>>
vars == <<upVars, downVars, callVars>>

\* rtt_init.  The control block is what the linker reserved: no byte is in use.
Init ==
  /\ up_p = [k \in 0 .. UpSize - 1 |-> NoByte] /\ up_w_idx = 0 /\ up_r_idx = 0
  /\ down_p = [k \in 0 .. DownSize - 1 |-> NoByte]
  /\ down_w_idx = 0 /\ down_r_idx = 0
  /\ pc = [t \in Threads |-> "user"]
  /\ index = [t \in Threads |-> 0]
  /\ left = [t \in Threads |-> 0]
  /\ copied = [t \in Threads |-> NoByte]
  /\ host_up = NoByte /\ host_down = FALSE
  /\ got_up = NoByte /\ got_down = NoByte

-----------------------------------------------------------------------------
(* Indices. *)

\* The index after k in a ring of size n.  (Mutant: wraps one too late.)
AdvancePast(k, n) == IF k + 1 > n THEN 0 ELSE k + 1
Advance(k, n) == IF k + 1 >= n THEN 0 ELSE k + 1

\* The busy loop of rtt_write ends.  (Mutant: it does not wait for the
\* host.)
MayStoreAlways(t) == TRUE
MayStore(t) == up_r_idx # Advance(index[t], UpSize)

\* What rtt_peek returns for a read index r.  (Mutant: wrapping is off by one.)
AvailableWrong(r) ==
  IF down_w_idx >= r THEN down_w_idx - r ELSE DownSize - r + down_w_idx + 1
Available(r) ==
  IF down_w_idx >= r THEN down_w_idx - r ELSE DownSize - r + down_w_idx

\* The character rtt_read copies.  (Mutant: of the slot it has advanced to.)
CharAtNext(t) == down_p[Advance(index[t], DownSize)]
CharAt(t) == down_p[index[t]]

At(t, l) == pc[t] = l
Goto(t, l) == pc' = [pc EXCEPT ![t] = l]

-----------------------------------------------------------------------------
(* syscall_write and rtt_write. *)

WriteEnter(t, n) ==
  /\ At(t, "user") /\ t \in Writers
  /\ Goto(t, "full")
  /\ index' = [index EXCEPT ![t] = up_w_idx]
  /\ left' = [left EXCEPT ![t] = n]
  /\ UNCHANGED <<upVars, downVars, copied>>

WriteWait(t) ==
  /\ At(t, "full") /\ MayStore(t)
  /\ Goto(t, "store")
  /\ UNCHANGED <<upVars, downVars, index, left, copied>>

WriteStore(t, b) ==
  /\ At(t, "store")
  /\ up_p' = [up_p EXCEPT ![index[t]] = b]
  /\ Goto(t, "publish")
  /\ UNCHANGED <<up_w_idx, up_r_idx, host_up, got_up, downVars, index, left, copied>>

WritePublish(t) ==
  /\ At(t, "publish")
  /\ index' = [index EXCEPT ![t] = Advance(@, UpSize)]
  /\ up_w_idx' = Advance(index[t], UpSize)
  /\ left' = [left EXCEPT ![t] = @ - 1]
  /\ Goto(t, IF left[t] > 1 THEN "full" ELSE "user")
  /\ UNCHANGED <<up_p, up_r_idx, host_up, got_up, downVars, copied>>

-----------------------------------------------------------------------------
(* syscall_read, rtt_peek and rtt_read. *)

\* rtt_peek reads r_idx first.
ReadEnter(t, n) ==
  /\ At(t, "user") /\ t \in Readers
  /\ Goto(t, "peek")
  /\ index' = [index EXCEPT ![t] = down_r_idx]
  /\ left' = [left EXCEPT ![t] = n]
  /\ UNCHANGED <<upVars, downVars, copied>>

\* ... then w_idx; read takes the lesser of len and what is available, and
\* rtt_read reads r_idx again.
ReadPeek(t) ==
  /\ At(t, "peek")
  /\ LET available == Available(index[t])
         n == IF left[t] < available THEN left[t] ELSE available
     IN  /\ left' = [left EXCEPT ![t] = n]
         /\ Goto(t, IF n > 0 THEN "empty" ELSE "user")
  /\ index' = [index EXCEPT ![t] = down_r_idx]
  /\ UNCHANGED <<upVars, downVars, copied>>

ReadWait(t) ==
  /\ At(t, "empty") /\ down_w_idx # index[t]
  /\ Goto(t, "copy")
  /\ UNCHANGED <<upVars, downVars, index, left, copied>>

ReadCopy(t) ==
  /\ At(t, "copy")
  /\ copied' = [copied EXCEPT ![t] = CharAt(t)]
  /\ Goto(t, "release")
  /\ UNCHANGED <<upVars, downVars, index, left>>

ReadRelease(t) ==
  /\ At(t, "release")
  /\ index' = [index EXCEPT ![t] = Advance(@, DownSize)]
  /\ down_r_idx' = Advance(index[t], DownSize)
  /\ got_down' = copied[t]
  /\ left' = [left EXCEPT ![t] = @ - 1]
  /\ Goto(t, IF left[t] > 1 THEN "empty" ELSE "user")
  /\ UNCHANGED <<upVars, down_p, down_w_idx, host_down, copied>>

-----------------------------------------------------------------------------
(* The debugger: not part of the repository, as rtt.h describes its part.   *)

HostTake ==
  /\ host_up = NoByte /\ up_w_idx # up_r_idx
  /\ host_up' = up_p[up_r_idx]
  /\ UNCHANGED <<up_p, up_w_idx, up_r_idx, got_up, downVars, callVars>>

HostRelease ==
  /\ host_up # NoByte
  /\ up_r_idx' = Advance(up_r_idx, UpSize)
  /\ got_up' = host_up /\ host_up' = NoByte
  /\ UNCHANGED <<up_p, up_w_idx, downVars, callVars>>

HostStore(b) ==
  /\ ~host_down /\ Advance(down_w_idx, DownSize) # down_r_idx
  /\ down_p' = [down_p EXCEPT ![down_w_idx] = b]
  /\ host_down' = TRUE
  /\ UNCHANGED <<upVars, down_w_idx, down_r_idx, got_down, callVars>>

HostPublish ==
  /\ host_down
  /\ down_w_idx' = Advance(down_w_idx, DownSize)
  /\ host_down' = FALSE
  /\ UNCHANGED <<upVars, down_p, down_r_idx, got_down, callVars>>

-----------------------------------------------------------------------------

Write(t) == WriteWait(t) \/ (\E b \in Bytes : WriteStore(t, b)) \/ WritePublish(t)
Read(t) == ReadPeek(t) \/ ReadWait(t) \/ ReadCopy(t) \/ ReadRelease(t)

Next ==
  \/ \E t \in Threads :
       \/ \E n \in 1 .. MaxLen : WriteEnter(t, n) \/ ReadEnter(t, n)
       \/ Write(t)
       \/ Read(t)
  \/ HostTake \/ HostRelease \/ HostPublish
  \/ \E b \in Bytes : HostStore(b)

Spec == Init /\ [][Next]_vars

\* The scheduler gives every thread the processor again, and a debugger that is
\* attached goes on reading.
FairSpec ==
  /\ Spec
  /\ \A t \in Threads : WF_vars(Write(t)) /\ WF_vars(Read(t))
  /\ WF_vars(HostTake \/ HostRelease)

-----------------------------------------------------------------------------
(* Properties. *)

Labels == {"user", "full", "store", "publish", "peek", "empty", "copy", "release"}

\* Every variable has a value of its C type; indices stay inside their buffers.
TypeOK ==
  /\ up_p \in [0 .. UpSize - 1 -> Bytes \cup {NoByte}]
  /\ up_w_idx \in 0 .. UpSize - 1 /\ up_r_idx \in 0 .. UpSize - 1
  /\ down_p \in [0 .. DownSize - 1 -> Bytes \cup {NoByte}]
  /\ down_w_idx \in 0 .. DownSize - 1 /\ down_r_idx \in 0 .. DownSize - 1
  /\ pc \in [Threads -> Labels]
  /\ index \in [Threads -> Nat] /\ left \in [Threads -> 0 .. MaxLen]
  /\ copied \in [Threads -> Bytes \cup {NoByte}]
  /\ host_up \in Bytes \cup {NoByte} /\ host_down \in BOOLEAN
  /\ got_up \in Bytes \cup {NoByte} /\ got_down \in Bytes \cup {NoByte}

\* The bytes of a ring of size n that are written and not yet released.
Occupied(r, w, n) == IF w >= r THEN w - r ELSE n - r + w
Slot(r, k, n) == IF r + k - 1 >= n THEN r + k - 1 - n ELSE r + k - 1
Unread(p, r, w, n) == [k \in 1 .. Occupied(r, w, n) |-> p[Slot(r, k, n)]]

UpQueue == INSTANCE ByteQueue WITH
  Capacity <- UpSize - 1, taken <- got_up,
  queue <- Unread(up_p, up_r_idx, up_w_idx, UpSize)
DownQueue == INSTANCE ByteQueue WITH
  Capacity <- DownSize - 1, taken <- got_down,
  queue <- Unread(down_p, down_r_idx, down_w_idx, DownSize)

\* The host receives the characters of all calls of write in their order, none
\* lost, repeated or overwritten before it was read (rtt_write).
UpIsQueue == UpQueue!Spec

\* The calls of read return the characters of the host in their order (rtt_read).
DownIsQueue == DownQueue!Spec

\* read does not wait: what rtt_peek has seen is there for rtt_read (syscall_read).
ReadNeverWaits == \A t \in Readers : At(t, "empty") => down_w_idx # index[t]
=============================================================================
