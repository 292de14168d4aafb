----------------------------- MODULE RttProofs ------------------------------
(***************************************************************************)
(* Proofs about Rtt, for buffers and messages of any size: with one thread *)
(* that writes and one that reads, each direction of the console is the    *)
(* bounded queue of ByteQueue.                                             *)
(***************************************************************************)
EXTENDS Rtt, SequenceTheorems, TLAPS

\* What the applications of the repository keep to.
OneWriter == \A t, u \in Writers : t = u
OneReader == \A t, u \in Readers : t = u

-----------------------------------------------------------------------------
(* Ring buffers as sequences. *)

\* Occupied counts what Unread lists, and the slots it lists are in the ring.
LEMMA RingSlots ==
  ASSUME NEW n \in Nat \ {0, 1}, NEW r \in 0 .. n - 1, NEW w \in 0 .. n - 1
  PROVE  /\ Occupied(r, w, n) \in 0 .. n - 1
         /\ Advance(w, n) \in 0 .. n - 1
         /\ \A k \in 1 .. Occupied(r, w, n) :
              Slot(r, k, n) \in 0 .. n - 1 /\ Slot(r, k, n) # w
  BY DEF Occupied, Advance, Slot

\* Unread is a sequence of what the ring holds.
LEMMA UnreadSeq ==
  ASSUME NEW n \in Nat \ {0, 1}, NEW r \in 0 .. n - 1, NEW w \in 0 .. n - 1,
         NEW S, NEW p \in [0 .. n - 1 -> S]
  PROVE  /\ Unread(p, r, w, n) \in Seq(S)
         /\ Len(Unread(p, r, w, n)) = Occupied(r, w, n)
<1>1. Occupied(r, w, n) \in Nat
  BY RingSlots
<1>2. \A k \in 1 .. Occupied(r, w, n) : p[Slot(r, k, n)] \in S
  BY RingSlots
<1> QED BY <1>1, <1>2 DEF Unread

\* A write to the slot of the writer leaves the unread characters alone.
LEMMA StoreUnread ==
  ASSUME NEW n \in Nat \ {0, 1}, NEW r \in 0 .. n - 1, NEW w \in 0 .. n - 1,
         NEW S, NEW p \in [0 .. n - 1 -> S], NEW b
  PROVE  Unread([p EXCEPT ![w] = b], r, w, n) = Unread(p, r, w, n)
  BY RingSlots DEF Unread

\* Moving the writer's index puts the character before it into the queue.
LEMMA PutUnread ==
  ASSUME NEW n \in Nat \ {0, 1}, NEW r \in 0 .. n - 1, NEW w \in 0 .. n - 1,
         NEW S, NEW p \in [0 .. n - 1 -> S], Advance(w, n) # r
  PROVE  /\ Len(Unread(p, r, w, n)) < n - 1
         /\ Unread(p, r, Advance(w, n), n) = Append(Unread(p, r, w, n), p[w])
<1> DEFINE v == Advance(w, n)
           q == Unread(p, r, w, n)
           q2 == Unread(p, r, v, n)
<1>1. v \in 0 .. n - 1
  BY RingSlots
<1>2. Occupied(r, v, n) = Occupied(r, w, n) + 1 /\ Occupied(r, v, n) \in 0 .. n - 1
  BY DEF Occupied, Advance
<1>3. q \in Seq(S) /\ Len(q) = Occupied(r, w, n)
  BY UnreadSeq
<1>4. q2 \in Seq(S) /\ Len(q2) = Occupied(r, v, n)
  BY <1>1, UnreadSeq
<1>5. Slot(r, Occupied(r, w, n) + 1, n) = w
  BY DEF Occupied, Slot
<1>6. p[w] \in S
  OBVIOUS
<1>7. \A k \in 1 .. Len(q2) : q2[k] = IF k = Len(q2) THEN p[w] ELSE q[k]
  <2>1. \A k \in 1 .. Occupied(r, v, n) : q2[k] = p[Slot(r, k, n)]
    BY DEF Unread
  <2>2. \A k \in 1 .. Occupied(r, w, n) : q[k] = p[Slot(r, k, n)]
    BY DEF Unread
  <2> HIDE DEF q, q2, v
  <2> QED BY <1>2, <1>3, <1>4, <1>5, <2>1, <2>2, SMTT(30)
<1>8. /\ Append(q, p[w]) \in Seq(S) /\ Len(Append(q, p[w])) = Len(q2)
      /\ \A k \in 1 .. Len(q2) :
           Append(q, p[w])[k] = IF k = Len(q2) THEN p[w] ELSE q[k]
  <2>1. Len(q2) = Len(q) + 1
    BY <1>2, <1>3, <1>4
  <2> HIDE DEF q, q2
  <2> QED BY <1>3, <1>6, <2>1, AppendProperties
<1>9. q2 = Append(q, p[w])
  BY <1>4, <1>7, <1>8, SeqEqual
<1> QED BY <1>2, <1>3, <1>9

\* Moving the reader's index takes the oldest character from the queue.
LEMMA TakeUnread ==
  ASSUME NEW n \in Nat \ {0, 1}, NEW r \in 0 .. n - 1, NEW w \in 0 .. n - 1,
         NEW S, NEW p \in [0 .. n - 1 -> S], r # w
  PROVE  /\ Unread(p, r, w, n) # <<>>
         /\ Head(Unread(p, r, w, n)) = p[r]
         /\ Unread(p, Advance(r, n), w, n) = Tail(Unread(p, r, w, n))
<1> DEFINE s == Advance(r, n)
           q == Unread(p, r, w, n)
           q2 == Unread(p, s, w, n)
<1>1. s \in 0 .. n - 1
  BY RingSlots
<1>2. Occupied(s, w, n) = Occupied(r, w, n) - 1 /\ Occupied(r, w, n) \in 1 .. n - 1
  BY DEF Occupied, Advance
<1>3. q \in Seq(S) /\ Len(q) = Occupied(r, w, n)
  BY UnreadSeq
<1>4. q2 \in Seq(S) /\ Len(q2) = Occupied(s, w, n)
  BY <1>1, UnreadSeq
<1>5. q # <<>> /\ Tail(q) \in Seq(S) /\ Len(Tail(q)) = Len(q2)
  BY <1>2, <1>3, <1>4
<1>6. Slot(r, 1, n) = r
  BY DEF Slot
<1>7. Head(q) = p[r]
  BY <1>2, <1>3, <1>6 DEF Unread
<1>8. \A k \in 1 .. Occupied(s, w, n) : Slot(s, k, n) = Slot(r, k + 1, n)
  BY <1>2 DEF Slot, Advance
<1>9. \A k \in 1 .. Len(q2) : q2[k] = Tail(q)[k]
  BY <1>2, <1>3, <1>4, <1>5, <1>8, SMTT(30) DEF Unread
<1>10. q2 = Tail(q)
  BY <1>4, <1>5, <1>9, SeqEqual
<1> QED BY <1>5, <1>7, <1>10

-----------------------------------------------------------------------------
(* Types. *)

\* Only writers write, only readers read, in their buffers, and a call has
\* something left to do.
CallsOf == \A t \in Threads :
  /\ At(t, "full") \/ At(t, "store") \/ At(t, "publish") =>
       t \in Writers /\ index[t] < UpSize
  /\ At(t, "peek") \/ At(t, "empty") \/ At(t, "copy") \/ At(t, "release") =>
       t \in Readers /\ index[t] < DownSize
  /\ ~At(t, "user") => left[t] > 0

TypeInv == TypeOK /\ CallsOf

LEMMA AdvanceType ==
  ASSUME NEW n \in Nat \ {0, 1}, NEW k \in 0 .. n - 1
  PROVE  Advance(k, n) \in 0 .. n - 1
  BY DEF Advance

\* Every step keeps the types: none indexes a buffer outside its bounds.
LEMMA TypeStep == TypeInv /\ [Next]_vars => TypeInv'
<1> SUFFICES ASSUME TypeInv, [Next]_vars
             PROVE  TypeInv'
  OBVIOUS
<1> USE SizesAssumption, MessagesAssumption
        DEF TypeInv, TypeOK, CallsOf, Labels, At, Goto
<1>1. ASSUME NEW t \in Threads, NEW n \in 1 .. MaxLen, WriteEnter(t, n)
      PROVE  TypeInv'
  BY <1>1 DEF WriteEnter, upVars, downVars
<1>2. ASSUME NEW t \in Threads, NEW n \in 1 .. MaxLen, ReadEnter(t, n)
      PROVE  TypeInv'
  BY <1>2 DEF ReadEnter, upVars, downVars
<1>3. ASSUME NEW t \in Threads, WriteWait(t)
      PROVE  TypeInv'
  BY <1>3 DEF WriteWait, upVars, downVars
<1>4. ASSUME NEW t \in Threads, NEW b \in Bytes, WriteStore(t, b)
      PROVE  TypeInv'
  BY <1>4 DEF WriteStore, downVars
<1>5. ASSUME NEW t \in Threads, WritePublish(t)
      PROVE  TypeInv'
  <2>1. t \in Writers /\ left[t] \in 1 .. MaxLen
    BY <1>5 DEF WritePublish
  <2>2. Advance(index[t], UpSize) \in 0 .. UpSize - 1
    BY <1>5 DEF Advance
  <2>3. TypeOK'
    BY <1>5, <2>1, <2>2 DEF WritePublish, downVars
  <2>4. CallsOf'
    BY <1>5, <2>1, <2>2 DEF WritePublish
  <2> QED BY <2>3, <2>4
<1>6. ASSUME NEW t \in Threads, ReadPeek(t)
      PROVE  TypeInv'
  <2>1. left[t] \in 1 .. MaxLen /\ t \in Readers
    BY <1>6 DEF ReadPeek
  <2>2. Available(index[t]) \in Nat
    BY <1>6, <2>1 DEF ReadPeek, Available
  <2> DEFINE n == IF left[t] < Available(index[t]) THEN left[t] ELSE Available(index[t])
  <2>3. n \in 0 .. MaxLen
    BY <2>1, <2>2
  <2>4. /\ left' = [left EXCEPT ![t] = n] /\ index' = [index EXCEPT ![t] = down_r_idx]
        /\ pc' = [pc EXCEPT ![t] = IF n > 0 THEN "empty" ELSE "user"]
        /\ UNCHANGED <<upVars, downVars, copied>>
    BY <1>6 DEF ReadPeek
  <2> HIDE DEF n
  <2>5. TypeOK'
    BY <2>3, <2>4 DEF upVars, downVars
  <2>6. CallsOf'
    BY <2>1, <2>3, <2>4
  <2> QED BY <2>5, <2>6
<1>7. ASSUME NEW t \in Threads, ReadWait(t)
      PROVE  TypeInv'
  BY <1>7 DEF ReadWait, upVars, downVars
<1>8. ASSUME NEW t \in Threads, ReadCopy(t)
      PROVE  TypeInv'
  <2>1. CharAt(t) \in Bytes \cup {NoByte}
    BY <1>8 DEF ReadCopy, CharAt
  <2> QED BY <1>8, <2>1 DEF ReadCopy, upVars, downVars
<1>9. ASSUME NEW t \in Threads, ReadRelease(t)
      PROVE  TypeInv'
  <2>1. t \in Readers /\ left[t] \in 1 .. MaxLen
    BY <1>9 DEF ReadRelease
  <2>2. Advance(index[t], DownSize) \in 0 .. DownSize - 1
    BY <1>9 DEF Advance
  <2>3. TypeOK'
    BY <1>9, <2>1, <2>2 DEF ReadRelease, upVars
  <2>4. CallsOf'
    BY <1>9, <2>1, <2>2 DEF ReadRelease
  <2> QED BY <2>3, <2>4
<1>10. CASE HostTake
  BY <1>10 DEF HostTake, downVars, callVars
<1>11. CASE HostRelease
  BY <1>11, AdvanceType DEF HostRelease, downVars, callVars
<1>12. ASSUME NEW b \in Bytes, HostStore(b)
       PROVE  TypeInv'
  BY <1>12 DEF HostStore, upVars, callVars
<1>13. CASE HostPublish
  BY <1>13, AdvanceType DEF HostPublish, upVars, callVars
<1>14. CASE UNCHANGED vars
  BY <1>14 DEF vars, upVars, downVars, callVars
<1> QED BY <1>1, <1>2, <1>3, <1>4, <1>5, <1>6, <1>7, <1>8, <1>9, <1>10, <1>11,
           <1>12, <1>13, <1>14 DEF Next, Write, Read

LEMMA TypeInitially == Init => TypeInv
<1> SUFFICES ASSUME Init PROVE TypeInv
  OBVIOUS
<1> USE SizesAssumption, MessagesAssumption DEF Init
<1>1. TypeOK
  <2>1. /\ up_p \in [0 .. UpSize - 1 -> Bytes \cup {NoByte}]
        /\ down_p \in [0 .. DownSize - 1 -> Bytes \cup {NoByte}]
    OBVIOUS
  <2>2. pc \in [Threads -> Labels] /\ copied \in [Threads -> Bytes \cup {NoByte}]
    BY DEF Labels
  <2>3. index \in [Threads -> Nat] /\ left \in [Threads -> 0 .. MaxLen]
    OBVIOUS
  <2>4. /\ up_w_idx \in 0 .. UpSize - 1 /\ up_r_idx \in 0 .. UpSize - 1
        /\ down_w_idx \in 0 .. DownSize - 1 /\ down_r_idx \in 0 .. DownSize - 1
    OBVIOUS
  <2>5. /\ host_up \in Bytes \cup {NoByte} /\ host_down \in BOOLEAN
        /\ got_up \in Bytes \cup {NoByte} /\ got_down \in Bytes \cup {NoByte}
    BY Zenon
  <2> HIDE DEF Init
  <2> QED BY <2>1, <2>2, <2>3, <2>4, <2>5, Zenon DEF TypeOK
<1>2. CallsOf
  BY DEF CallsOf, At
<1> QED BY <1>1, <1>2 DEF TypeInv

LEMMA TypeAlways == Spec => []TypeInv
  BY TypeInitially, TypeStep, PTL DEF Spec

\* Indices stay inside their buffers and counts inside their messages, for any
\* number of threads (rtt_write, rtt_peek, rtt_read).
THEOREM RttTyping == Spec => []TypeOK
  BY TypeAlways, PTL DEF TypeInv

-----------------------------------------------------------------------------
(* The program writes, the host reads. *)

\* A call of write knows the write index; where it stores, the ring is not full,
\* and what it publishes is there.  The host holds the oldest character.
UpInv ==
  /\ \A t \in Writers :
       /\ At(t, "full") \/ At(t, "store") \/ At(t, "publish") => index[t] = up_w_idx
       /\ At(t, "store") \/ At(t, "publish") => Advance(up_w_idx, UpSize) # up_r_idx
       /\ At(t, "publish") => up_p[up_w_idx] \in Bytes
  /\ host_up # NoByte => up_w_idx # up_r_idx /\ host_up = up_p[up_r_idx]

upQ == Unread(up_p, up_r_idx, up_w_idx, UpSize)

\* Different indices stay different when both advance.
LEMMA AdvanceInjective ==
  ASSUME NEW n \in Nat \ {0, 1}, NEW k \in 0 .. n - 1, NEW l \in 0 .. n - 1, k # l
  PROVE  Advance(k, n) # Advance(l, n)
  BY DEF Advance

\* The lemmas on rings, for the up buffer.
LEMMA UpRing ==
  ASSUME TypeInv
  PROVE  /\ \A b : Unread([up_p EXCEPT ![up_w_idx] = b], up_r_idx, up_w_idx, UpSize) = upQ
         /\ Advance(up_w_idx, UpSize) # up_r_idx =>
              /\ Len(upQ) < UpSize - 1
              /\ Unread(up_p, up_r_idx, Advance(up_w_idx, UpSize), UpSize)
                   = Append(upQ, up_p[up_w_idx])
         /\ up_r_idx # up_w_idx =>
              /\ upQ # <<>> /\ Head(upQ) = up_p[up_r_idx]
              /\ Unread(up_p, Advance(up_r_idx, UpSize), up_w_idx, UpSize) = Tail(upQ)
<1>1. /\ UpSize \in Nat \ {0, 1}
      /\ up_r_idx \in 0 .. UpSize - 1 /\ up_w_idx \in 0 .. UpSize - 1
      /\ up_p \in [0 .. UpSize - 1 -> Bytes \cup {NoByte}]
  BY SizesAssumption DEF TypeInv, TypeOK
<1>2. \A b : Unread([up_p EXCEPT ![up_w_idx] = b], up_r_idx, up_w_idx, UpSize) = upQ
  BY <1>1, StoreUnread, Zenon DEF upQ
<1>3. ASSUME Advance(up_w_idx, UpSize) # up_r_idx
      PROVE  /\ Len(upQ) < UpSize - 1
             /\ Unread(up_p, up_r_idx, Advance(up_w_idx, UpSize), UpSize)
                  = Append(upQ, up_p[up_w_idx])
  BY <1>1, <1>3, PutUnread, ZenonT(60) DEF upQ
<1>4. ASSUME up_r_idx # up_w_idx
      PROVE  /\ upQ # <<>> /\ Head(upQ) = up_p[up_r_idx]
             /\ Unread(up_p, Advance(up_r_idx, UpSize), up_w_idx, UpSize) = Tail(upQ)
  BY <1>1, <1>4, TakeUnread, ZenonT(60) DEF upQ
<1> QED BY <1>2, <1>3, <1>4

\* Steps that leave the up buffer and the calls of write where they are.
LEMMA UpFrame ==
  ASSUME TypeInv, UpInv, UNCHANGED upVars,
         \A t \in Threads : pc'[t] \in {"full", "store", "publish"} =>
           index'[t] = index[t] /\ pc'[t] = pc[t]
  PROVE  UpInv' /\ UNCHANGED <<upQ, got_up>>
  BY DEF UpInv, upVars, upQ, At, Threads

\* Each step puts, takes, or leaves the queue of the up buffer alone.
LEMMA UpStep ==
  ASSUME OneWriter, TypeInv, UpInv, [Next]_vars
  PROVE  UpInv' /\ [UpQueue!Next]_<<upQ, got_up>>
<1> USE SizesAssumption, MessagesAssumption DEF TypeInv, TypeOK, At, Goto, Threads
<1>1. ASSUME NEW t \in Threads, NEW n \in 1 .. MaxLen, WriteEnter(t, n)
      PROVE  UpInv' /\ UNCHANGED <<upQ, got_up>>
  BY <1>1 DEF WriteEnter, UpInv, upVars, OneWriter, upQ
<1>2. ASSUME NEW t \in Threads, WriteWait(t)
      PROVE  UpInv' /\ UNCHANGED <<upQ, got_up>>
  BY <1>2 DEF WriteWait, MayStore, UpInv, upVars, OneWriter, CallsOf, upQ
<1>3. ASSUME NEW t \in Threads, NEW b \in Bytes, WriteStore(t, b)
      PROVE  UpInv' /\ UNCHANGED <<upQ, got_up>>
  <2>1. t \in Writers /\ index[t] = up_w_idx /\ pc' = [pc EXCEPT ![t] = "publish"]
    BY <1>3 DEF WriteStore, CallsOf, UpInv
  <2>2. up_p' = [up_p EXCEPT ![up_w_idx] = b]
        /\ UNCHANGED <<up_w_idx, up_r_idx, host_up, got_up, index>>
    BY <1>3, <2>1 DEF WriteStore
  <2>3. UpInv'
    BY <1>3, <2>1, <2>2 DEF WriteStore, UpInv, OneWriter
  <2>4. upQ' = upQ
    BY <2>2, UpRing DEF upQ
  <2> QED BY <2>2, <2>3, <2>4
<1>4. ASSUME NEW t \in Threads, WritePublish(t)
      PROVE  UpInv' /\ \E b \in Bytes : UpQueue!Put(b)
  <2>1. /\ t \in Writers /\ index[t] = up_w_idx /\ up_p[up_w_idx] \in Bytes
        /\ Advance(up_w_idx, UpSize) # up_r_idx
    BY <1>4 DEF WritePublish, CallsOf, UpInv
  <2>2. /\ up_w_idx' = Advance(up_w_idx, UpSize)
        /\ index' = [index EXCEPT ![t] = Advance(up_w_idx, UpSize)]
        /\ pc' = [pc EXCEPT ![t] = IF left[t] > 1 THEN "full" ELSE "user"]
        /\ UNCHANGED <<up_p, up_r_idx, host_up, got_up>>
    BY <1>4, <2>1 DEF WritePublish
  <2>3. UpInv'
    BY <2>1, <2>2 DEF UpInv, OneWriter
  <2>4. Len(upQ) < UpSize - 1 /\ upQ' = Append(upQ, up_p[up_w_idx])
    BY <2>1, <2>2, UpRing DEF upQ
  <2> QED BY <2>1, <2>2, <2>3, <2>4 DEF UpQueue!Put, upQ
<1>5. CASE HostTake
  BY <1>5 DEF HostTake, UpInv, downVars, callVars, upQ
<1>6. ASSUME HostRelease
      PROVE  UpInv' /\ UpQueue!Take
  <2>1. up_w_idx # up_r_idx /\ host_up = up_p[up_r_idx] /\ up_r_idx' = Advance(up_r_idx, UpSize)
        /\ host_up' = NoByte /\ got_up' = up_p[up_r_idx]
        /\ UNCHANGED <<up_p, up_w_idx, pc, index>>
    BY <1>6 DEF HostRelease, UpInv, callVars
  <2>2. Advance(up_w_idx, UpSize) # Advance(up_r_idx, UpSize)
    BY <2>1, AdvanceInjective
  <2>3. UpInv'
    BY <2>1, <2>2 DEF UpInv
  <2>4. upQ # <<>> /\ Head(upQ) = up_p[up_r_idx] /\ upQ' = Tail(upQ)
    BY <2>1, UpRing DEF upQ
  <2> QED BY <2>1, <2>3, <2>4 DEF UpQueue!Take, upQ
<1>7. ASSUME NEW t \in Threads,
             Read(t) \/ \E n \in 1 .. MaxLen : ReadEnter(t, n)
      PROVE  UpInv' /\ UNCHANGED <<upQ, got_up>>
  <2>1. UNCHANGED upVars
    BY <1>7 DEF Read, ReadEnter, ReadPeek, ReadWait, ReadCopy, ReadRelease
  <2>2. \A u \in Threads : pc'[u] \in {"full", "store", "publish"} =>
          index'[u] = index[u] /\ pc'[u] = pc[u]
    BY <1>7 DEF Read, ReadEnter, ReadPeek, ReadWait, ReadCopy, ReadRelease
  <2> QED BY <2>1, <2>2, UpFrame
<1>8. CASE HostPublish \/ (\E b \in Bytes : HostStore(b)) \/ UNCHANGED vars
  <2>1. UNCHANGED <<upVars, pc, index>>
    BY <1>8 DEF HostPublish, HostStore, vars, callVars
  <2> QED BY <2>1, UpFrame
<1> QED BY <1>1, <1>2, <1>3, <1>4, <1>5, <1>6, <1>7, <1>8
        DEF Next, Write, UpQueue!Next, upQ

\* The host receives what the program writes: in order, all of it, once, in a
\* ring and with messages of any size (rtt_write).
THEOREM WriteIsQueue ==
  ASSUME OneWriter
  PROVE  Spec => UpIsQueue
<1>1. Init => UpInv /\ UpQueue!Init
  BY SizesAssumption DEF Init, UpInv, At, Threads, UpQueue!Init, Unread, Occupied
<1> QED BY <1>1, UpStep, TypeAlways, PTL DEF Spec, UpIsQueue, UpQueue!Spec, upQ

-----------------------------------------------------------------------------
(* The host writes, the program reads. *)

waiting == Occupied(down_r_idx, down_w_idx, DownSize)

\* A call of read knows the read index, and what it has still to copy is there;
\* where the host stores, the ring is not full.
DownInv ==
  /\ \A t \in Readers :
       /\ At(t, "peek") \/ At(t, "empty") \/ At(t, "copy") \/ At(t, "release") =>
            index[t] = down_r_idx
       /\ At(t, "empty") \/ At(t, "copy") \/ At(t, "release") =>
            left[t] <= waiting
       /\ At(t, "release") => copied[t] = down_p[down_r_idx]
  /\ host_down => /\ Advance(down_w_idx, DownSize) # down_r_idx
                  /\ down_p[down_w_idx] \in Bytes

downQ == Unread(down_p, down_r_idx, down_w_idx, DownSize)

\* The lemmas on rings, for the down buffer.
LEMMA DownRing ==
  ASSUME TypeInv
  PROVE  /\ \A b : Unread([down_p EXCEPT ![down_w_idx] = b],
                          down_r_idx, down_w_idx, DownSize) = downQ
         /\ Advance(down_w_idx, DownSize) # down_r_idx =>
              /\ Len(downQ) < DownSize - 1
              /\ Unread(down_p, down_r_idx, Advance(down_w_idx, DownSize), DownSize)
                   = Append(downQ, down_p[down_w_idx])
         /\ down_r_idx # down_w_idx =>
              /\ downQ # <<>> /\ Head(downQ) = down_p[down_r_idx]
              /\ Unread(down_p, Advance(down_r_idx, DownSize), down_w_idx, DownSize)
                   = Tail(downQ)
<1>1. /\ DownSize \in Nat \ {0, 1}
      /\ down_r_idx \in 0 .. DownSize - 1 /\ down_w_idx \in 0 .. DownSize - 1
      /\ down_p \in [0 .. DownSize - 1 -> Bytes \cup {NoByte}]
  BY SizesAssumption DEF TypeInv, TypeOK
<1>2. \A b : Unread([down_p EXCEPT ![down_w_idx] = b],
                    down_r_idx, down_w_idx, DownSize) = downQ
  BY <1>1, StoreUnread, Zenon DEF downQ
<1>3. ASSUME Advance(down_w_idx, DownSize) # down_r_idx
      PROVE  /\ Len(downQ) < DownSize - 1
             /\ Unread(down_p, down_r_idx, Advance(down_w_idx, DownSize), DownSize)
                  = Append(downQ, down_p[down_w_idx])
  BY <1>1, <1>3, PutUnread, ZenonT(60) DEF downQ
<1>4. ASSUME down_r_idx # down_w_idx
      PROVE  /\ downQ # <<>> /\ Head(downQ) = down_p[down_r_idx]
             /\ Unread(down_p, Advance(down_r_idx, DownSize), down_w_idx, DownSize)
                  = Tail(downQ)
  BY <1>1, <1>4, TakeUnread, ZenonT(60) DEF downQ
<1> QED BY <1>2, <1>3, <1>4

\* How many characters wait, as the indices move.
LEMMA Counting ==
  ASSUME NEW n \in Nat \ {0, 1}, NEW r \in 0 .. n - 1, NEW w \in 0 .. n - 1
  PROVE  /\ Occupied(r, w, n) \in Nat
         /\ Occupied(r, w, n) > 0 <=> r # w
         /\ Advance(w, n) # r =>
              Occupied(r, Advance(w, n), n) = Occupied(r, w, n) + 1
         /\ r # w => Occupied(Advance(r, n), w, n) = Occupied(r, w, n) - 1
  BY DEF Occupied, Advance

LEMMA DownCount ==
  ASSUME TypeInv
  PROVE  /\ waiting \in Nat
         /\ waiting > 0 <=> down_r_idx # down_w_idx
         /\ Advance(down_w_idx, DownSize) # down_r_idx =>
              Occupied(down_r_idx, Advance(down_w_idx, DownSize), DownSize) = waiting + 1
         /\ down_r_idx # down_w_idx =>
              Occupied(Advance(down_r_idx, DownSize), down_w_idx, DownSize) = waiting - 1
<1>1. /\ DownSize \in Nat \ {0, 1}
      /\ down_r_idx \in 0 .. DownSize - 1 /\ down_w_idx \in 0 .. DownSize - 1
  BY SizesAssumption DEF TypeInv, TypeOK
<1> QED BY <1>1, Counting DEF waiting

\* Steps that leave the down buffer and the calls of read where they are.
LEMMA DownFrame ==
  ASSUME TypeInv, DownInv, UNCHANGED downVars,
         \A t \in Threads : pc'[t] \in {"peek", "empty", "copy", "release"} =>
           /\ index'[t] = index[t] /\ pc'[t] = pc[t]
           /\ left'[t] = left[t] /\ copied'[t] = copied[t]
  PROVE  DownInv' /\ UNCHANGED <<downQ, got_down>>
  BY DEF DownInv, downVars, downQ, waiting, At, Threads

\* Each step puts, takes, or leaves the queue of the down buffer alone.
LEMMA DownStep ==
  ASSUME OneReader, TypeInv, DownInv, [Next]_vars
  PROVE  DownInv' /\ [DownQueue!Next]_<<downQ, got_down>>
<1> USE SizesAssumption, MessagesAssumption DEF TypeInv, TypeOK, At, Goto, Threads
<1>1. ASSUME NEW t \in Threads, NEW n \in 1 .. MaxLen, ReadEnter(t, n)
      PROVE  DownInv' /\ UNCHANGED <<downQ, got_down>>
  BY <1>1 DEF ReadEnter, DownInv, downVars, OneReader, downQ
<1>2. ASSUME NEW t \in Threads, ReadPeek(t)
      PROVE  DownInv' /\ UNCHANGED <<downQ, got_down>>
  <2>1. t \in Readers /\ Available(index[t]) = waiting
    BY <1>2 DEF ReadPeek, CallsOf, DownInv, Available, Occupied, waiting
  <2>2. waiting \in Nat
    BY DownCount
  <2> DEFINE m == IF left[t] < Available(index[t]) THEN left[t] ELSE Available(index[t])
  <2>3. m \in Nat /\ m <= waiting
    BY <2>1, <2>2
  <2>4. /\ left' = [left EXCEPT ![t] = m] /\ index' = [index EXCEPT ![t] = down_r_idx]
        /\ pc' = [pc EXCEPT ![t] = IF m > 0 THEN "empty" ELSE "user"]
        /\ UNCHANGED <<downVars, copied>>
    BY <1>2 DEF ReadPeek
  <2> HIDE DEF m
  <2>5. DownInv'
    BY <2>1, <2>3, <2>4 DEF DownInv, downVars, OneReader, waiting
  <2> QED BY <2>4, <2>5 DEF downVars, downQ
<1>3. ASSUME NEW t \in Threads, ReadWait(t)
      PROVE  DownInv' /\ UNCHANGED <<downQ, got_down>>
  BY <1>3 DEF ReadWait, DownInv, downVars, OneReader, CallsOf, downQ, waiting
<1>4. ASSUME NEW t \in Threads, ReadCopy(t)
      PROVE  DownInv' /\ UNCHANGED <<downQ, got_down>>
  BY <1>4 DEF ReadCopy, CharAt, DownInv, downVars, OneReader, CallsOf, downQ, waiting
<1>5. ASSUME NEW t \in Threads, ReadRelease(t)
      PROVE  DownInv' /\ DownQueue!Take
  <2>1. /\ t \in Readers /\ index[t] = down_r_idx /\ copied[t] = down_p[down_r_idx]
        /\ left[t] > 0 /\ left[t] <= waiting
    BY <1>5 DEF ReadRelease, CallsOf, DownInv, waiting
  <2>2. /\ down_r_idx # down_w_idx
        /\ Occupied(Advance(down_r_idx, DownSize), down_w_idx, DownSize)
             = waiting - 1
    BY <2>1, DownCount DEF waiting
  <2>3. /\ down_r_idx' = Advance(down_r_idx, DownSize)
        /\ index' = [index EXCEPT ![t] = Advance(down_r_idx, DownSize)]
        /\ left' = [left EXCEPT ![t] = left[t] - 1]
        /\ pc' = [pc EXCEPT ![t] = IF left[t] > 1 THEN "empty" ELSE "user"]
        /\ got_down' = down_p[down_r_idx]
        /\ UNCHANGED <<down_p, down_w_idx, host_down, copied>>
    BY <1>5, <2>1 DEF ReadRelease
  <2>4. Advance(down_w_idx, DownSize) # Advance(down_r_idx, DownSize)
    BY <2>2, AdvanceInjective
  <2>5. DownInv'
    BY <2>1, <2>2, <2>3, <2>4, DownCount DEF DownInv, OneReader, waiting
  <2>6. downQ # <<>> /\ Head(downQ) = down_p[down_r_idx] /\ downQ' = Tail(downQ)
    BY <2>2, <2>3, DownRing DEF downQ
  <2> QED BY <2>3, <2>5, <2>6 DEF DownQueue!Take, downQ
<1>6. ASSUME NEW b \in Bytes, HostStore(b)
      PROVE  DownInv' /\ UNCHANGED <<downQ, got_down>>
  <2>1. /\ down_p' = [down_p EXCEPT ![down_w_idx] = b] /\ host_down' = TRUE
        /\ Advance(down_w_idx, DownSize) # down_r_idx
        /\ UNCHANGED <<down_w_idx, down_r_idx, got_down, pc, index, left, copied>>
    BY <1>6 DEF HostStore, callVars
  <2>2. \A t \in Readers : At(t, "release") => down_r_idx # down_w_idx
    BY DownCount DEF DownInv, CallsOf, waiting
  <2>3. DownInv'
    BY <2>1, <2>2 DEF DownInv, waiting
  <2>4. downQ' = downQ
    BY <2>1, DownRing DEF downQ
  <2> QED BY <2>1, <2>3, <2>4
<1>7. CASE HostPublish
  <2>1. /\ Advance(down_w_idx, DownSize) # down_r_idx /\ down_p[down_w_idx] \in Bytes
        /\ down_w_idx' = Advance(down_w_idx, DownSize) /\ host_down' = FALSE
        /\ UNCHANGED <<down_p, down_r_idx, got_down, pc, index, left, copied>>
    BY <1>7 DEF HostPublish, DownInv, callVars
  <2>2. Occupied(down_r_idx, down_w_idx', DownSize)
          = waiting + 1
    BY <2>1, DownCount DEF waiting
  <2>3. DownInv'
    BY <2>1, <2>2, DownCount DEF DownInv, waiting
  <2>4. Len(downQ) < DownSize - 1 /\ downQ' = Append(downQ, down_p[down_w_idx])
    BY <2>1, DownRing DEF downQ
  <2> QED BY <2>1, <2>3, <2>4 DEF DownQueue!Next, DownQueue!Put, downQ
<1>8. ASSUME NEW t \in Threads,
             Write(t) \/ \E n \in 1 .. MaxLen : WriteEnter(t, n)
      PROVE  DownInv' /\ UNCHANGED <<downQ, got_down>>
  <2>1. UNCHANGED downVars
    BY <1>8 DEF Write, WriteEnter, WriteWait, WriteStore, WritePublish
  <2>2. \A u \in Threads : pc'[u] \in {"peek", "empty", "copy", "release"} =>
          /\ index'[u] = index[u] /\ pc'[u] = pc[u]
          /\ left'[u] = left[u] /\ copied'[u] = copied[u]
    BY <1>8 DEF Write, WriteEnter, WriteWait, WriteStore, WritePublish
  <2> QED BY <2>1, <2>2, DownFrame
<1>9. CASE HostTake \/ HostRelease \/ UNCHANGED vars
  <2>1. UNCHANGED <<downVars, callVars>>
    BY <1>9 DEF HostTake, HostRelease, vars
  <2> QED BY <2>1, DownFrame DEF callVars
<1> QED BY <1>1, <1>2, <1>3, <1>4, <1>5, <1>6, <1>7, <1>8, <1>9
        DEF Next, Read, DownQueue!Next, downQ

LEMMA DownInitially == Init => DownInv /\ DownQueue!Init
  BY SizesAssumption DEF Init, DownInv, At, Threads, DownQueue!Init, Unread, Occupied

\* The program receives what the host writes: in order, all of it, once
\* (rtt_read).
THEOREM ReadIsQueue ==
  ASSUME OneReader
  PROVE  Spec => DownIsQueue
  BY DownInitially, DownStep, TypeAlways, PTL DEF Spec, DownIsQueue, DownQueue!Spec, downQ

\* read returns without waiting for the host (syscall_read, rtt_peek).
THEOREM ReadReturnsAtOnce ==
  ASSUME OneReader
  PROVE  Spec => []ReadNeverWaits
<1>1. TypeInv /\ DownInv => ReadNeverWaits
  <2> SUFFICES ASSUME TypeInv, DownInv, NEW t \in Readers, At(t, "empty")
               PROVE  down_w_idx # index[t]
    BY DEF ReadNeverWaits
  <2>1. /\ left[t] > 0 /\ left[t] <= waiting
        /\ index[t] = down_r_idx
    BY DEF TypeInv, CallsOf, DownInv, At, Threads, waiting
  <2> QED BY <2>1, DownCount, SizesAssumption DEF TypeInv, TypeOK, Threads
<1> QED BY <1>1, DownInitially, DownStep, TypeAlways, PTL DEF Spec
=============================================================================
