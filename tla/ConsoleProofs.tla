--------------------------- MODULE ConsoleProofs ----------------------------
(***************************************************************************)
(* Proofs about Console, for rings, messages and a command buffer of any   *)
(* size: the user thread keeps to what Rtt assumes of a reader, the        *)
(* characters it stores stay inside command_buffer, and the lines it       *)
(* handles are those of LineReader.                                        *)
(***************************************************************************)
EXTENDS Console, RttProofs

LEMMA UserReads == user \in Threads /\ user \in Readers /\ OneReader
  BY ConsoleAssumption DEF Threads, OneReader

-----------------------------------------------------------------------------
(* Pieces of a sequence. *)

\* A character behind the sequence lengthens what follows k, and nothing else.
LEMMA AppendPieces ==
  ASSUME NEW S, NEW s \in Seq(S), NEW c \in S,
         NEW k \in 0 .. Len(s), NEW l \in 0 .. k
  PROVE  /\ SubSeq(Append(s, c), k + 1, Len(Append(s, c)))
              = Append(SubSeq(s, k + 1, Len(s)), c)
         /\ SubSeq(Append(s, c), l + 1, k) = SubSeq(s, l + 1, k)
<1> DEFINE t == Append(s, c)
           n == Len(s)
           u == SubSeq(s, k + 1, n)
<1>1. /\ t \in Seq(S) /\ Len(t) = n + 1 /\ t[n + 1] = c
      /\ \A i \in 1 .. n : t[i] = s[i]
  BY AppendProperties
<1>2. n \in Nat /\ k \in Nat /\ l \in Nat /\ k <= n /\ l <= k
  OBVIOUS
<1>3. \A i \in 1 .. n : s[i] \in S
  BY ElementOfSeq
<1>4. \A i \in 1 .. n + 1 : t[i] \in S
  BY <1>1, ElementOfSeq
<1> HIDE DEF t, n
<1>5. u \in Seq(S) /\ Len(u) = n - k /\ \A i \in 1 .. n - k : u[i] = s[k + i]
  <2>1. /\ SubSeq(s, k + 1, n) \in Seq(S)
        /\ Len(SubSeq(s, k + 1, n)) = IF k + 1 <= n THEN n - (k + 1) + 1 ELSE 0
        /\ \A i \in 1 .. n - (k + 1) + 1 : SubSeq(s, k + 1, n)[i] = s[k + 1 + i - 1]
    BY <1>2, <1>3, SubSeqProperties
  <2> QED BY <1>2, <2>1
<1>6. SubSeq(t, k + 1, n + 1) = Append(u, c)
  <2>1. /\ SubSeq(t, k + 1, n + 1) \in Seq(S)
        /\ Len(SubSeq(t, k + 1, n + 1)) = n - k + 1
        /\ \A i \in 1 .. n - k + 1 : SubSeq(t, k + 1, n + 1)[i] = t[k + i]
    <3>1. /\ SubSeq(t, k + 1, n + 1) \in Seq(S)
          /\ Len(SubSeq(t, k + 1, n + 1))
               = IF k + 1 <= n + 1 THEN n + 1 - (k + 1) + 1 ELSE 0
          /\ \A i \in 1 .. n + 1 - (k + 1) + 1 :
               SubSeq(t, k + 1, n + 1)[i] = t[k + 1 + i - 1]
      BY <1>2, <1>4, SubSeqProperties
    <3> QED BY <1>2, <3>1
  <2>2. /\ Append(u, c) \in Seq(S) /\ Len(Append(u, c)) = n - k + 1
        /\ \A i \in 1 .. n - k : Append(u, c)[i] = u[i]
        /\ Append(u, c)[n - k + 1] = c
    BY <1>5, AppendProperties
  <2> DEFINE a == SubSeq(t, k + 1, n + 1)
             b == Append(u, c)
  <2>3. /\ a \in Seq(S) /\ Len(a) = n - k + 1
        /\ \A i \in 1 .. n - k + 1 : a[i] = t[k + i]
    BY <2>1
  <2>4. /\ b \in Seq(S) /\ Len(b) = n - k + 1
        /\ \A i \in 1 .. n - k : b[i] = u[i]
        /\ b[n - k + 1] = c
    BY <2>2
  <2> HIDE DEF a, b, u
  <2>5. \A i \in 1 .. Len(a) : a[i] = b[i]
    <3> SUFFICES ASSUME NEW i \in 1 .. n - k + 1
                 PROVE  a[i] = b[i]
      BY <2>3
    <3>1. CASE i = n - k + 1
      BY <1>1, <1>2, <2>3, <2>4, <3>1
    <3>2. CASE i \in 1 .. n - k
      <4>1. k + i \in 1 .. n
        BY <1>2, <3>2
      <4>2. t[k + i] = s[k + i] /\ u[i] = s[k + i]
        BY <1>1, <1>5, <3>2, <4>1
      <4> QED BY <2>3, <2>4, <3>2, <4>2
    <3> QED BY <1>2, <3>1, <3>2
  <2>6. a = b
    BY <2>3, <2>4, <2>5, SeqEqual
  <2> QED BY <2>6 DEF a, b
<1>7. SubSeq(t, l + 1, k) = SubSeq(s, l + 1, k)
  <2>1. /\ SubSeq(t, l + 1, k) \in Seq(S)
        /\ Len(SubSeq(t, l + 1, k)) = IF l + 1 <= k THEN k - (l + 1) + 1 ELSE 0
        /\ \A i \in 1 .. k - (l + 1) + 1 : SubSeq(t, l + 1, k)[i] = t[l + 1 + i - 1]
    BY <1>2, <1>4, SubSeqProperties
  <2>2. /\ SubSeq(s, l + 1, k) \in Seq(S)
        /\ Len(SubSeq(s, l + 1, k)) = IF l + 1 <= k THEN k - (l + 1) + 1 ELSE 0
        /\ \A i \in 1 .. k - (l + 1) + 1 : SubSeq(s, l + 1, k)[i] = s[l + 1 + i - 1]
    BY <1>2, <1>3, SubSeqProperties
  <2>3. \A i \in 1 .. Len(SubSeq(t, l + 1, k)) :
          SubSeq(t, l + 1, k)[i] = SubSeq(s, l + 1, k)[i]
    BY <1>1, <1>2, <2>1, <2>2
  <2> QED BY <2>1, <2>2, <2>3, SeqEqual
<1> QED BY <1>1, <1>6, <1>7 DEF t, n

\* Looking at the character behind k moves it from one piece to the other.
LEMMA LookPieces ==
  ASSUME NEW S, NEW s \in Seq(S),
         NEW k \in 0 .. Len(s) - 1, NEW l \in 0 .. k
  PROVE  /\ SubSeq(s, k + 1, Len(s)) # <<>>
         /\ Head(SubSeq(s, k + 1, Len(s))) = s[k + 1]
         /\ Tail(SubSeq(s, k + 1, Len(s))) = SubSeq(s, k + 2, Len(s))
         /\ SubSeq(s, l + 1, k + 1) = Append(SubSeq(s, l + 1, k), s[k + 1])
         /\ Len(SubSeq(s, l + 1, k)) = k - l
<1> DEFINE n == Len(s)
           u == SubSeq(s, l + 1, k)
<1>1. n \in Nat /\ k \in Nat /\ l \in Nat /\ k < n /\ l <= k
  OBVIOUS
<1>2. \A i \in 1 .. n : s[i] \in S
  BY ElementOfSeq
<1>3. k + 1 \in 1 .. n /\ n \in k + 1 .. n /\ k + 1 + 1 = k + 2
  BY <1>1
<1>4. Head(SubSeq(s, k + 1, n)) = s[k + 1] /\ Tail(SubSeq(s, k + 1, n)) = SubSeq(s, k + 2, n)
  BY <1>3, HeadTailOfSubSeq
<1> HIDE DEF n
<1>5. Len(SubSeq(s, k + 1, n)) = n - k
  <2>1. Len(SubSeq(s, k + 1, n)) = IF k + 1 <= n THEN n - (k + 1) + 1 ELSE 0
    BY <1>1, <1>2, SubSeqProperties
  <2> QED BY <1>1, <2>1
<1>6. u \in Seq(S) /\ Len(u) = k - l /\ \A i \in 1 .. k - l : u[i] = s[l + i]
  <2>1. /\ SubSeq(s, l + 1, k) \in Seq(S)
        /\ Len(SubSeq(s, l + 1, k)) = IF l + 1 <= k THEN k - (l + 1) + 1 ELSE 0
        /\ \A i \in 1 .. k - (l + 1) + 1 : SubSeq(s, l + 1, k)[i] = s[l + 1 + i - 1]
    BY <1>1, <1>2, SubSeqProperties
  <2> QED BY <1>1, <2>1
<1>7. /\ SubSeq(s, l + 1, k + 1) \in Seq(S)
      /\ Len(SubSeq(s, l + 1, k + 1)) = k - l + 1
      /\ \A i \in 1 .. k - l + 1 : SubSeq(s, l + 1, k + 1)[i] = s[l + i]
  <2>1. /\ SubSeq(s, l + 1, k + 1) \in Seq(S)
        /\ Len(SubSeq(s, l + 1, k + 1)) = IF l + 1 <= k + 1 THEN k + 1 - (l + 1) + 1 ELSE 0
        /\ \A i \in 1 .. k + 1 - (l + 1) + 1 :
             SubSeq(s, l + 1, k + 1)[i] = s[l + 1 + i - 1]
    BY <1>1, <1>2, SubSeqProperties
  <2> QED BY <1>1, <2>1
<1>8. s[k + 1] \in S
  BY <1>1, <1>2
<1>9. /\ Append(u, s[k + 1]) \in Seq(S) /\ Len(Append(u, s[k + 1])) = k - l + 1
      /\ \A i \in 1 .. k - l : Append(u, s[k + 1])[i] = u[i]
      /\ Append(u, s[k + 1])[k - l + 1] = s[k + 1]
  BY <1>6, <1>8, AppendProperties
<1> HIDE DEF u
<1>10. \A i \in 1 .. k - l + 1 : SubSeq(s, l + 1, k + 1)[i] = Append(u, s[k + 1])[i]
  BY <1>1, <1>6, <1>7, <1>9
<1>11. SubSeq(s, l + 1, k + 1) = Append(u, s[k + 1])
  BY <1>7, <1>9, <1>10, SeqEqual
<1>12. SubSeq(s, k + 1, n) # <<>>
  BY <1>1, <1>5
<1> QED BY <1>4, <1>6, <1>11, <1>12 DEF n, u

-----------------------------------------------------------------------------
(* The user thread as a reader of the ring. *)

\* The buffer holds characters, no more than it has room for; what a call of
\* read may still store fits behind them; where the search has not begun,
\* everything kept has been looked at and no line of it is complete.
Room ==
  /\ at \in {"poll", "reading", "calibrate", "waiting"}
  /\ command_buffer \in Seq(Bytes) /\ Len(command_buffer) <= LineSize
  /\ scan \in 0 .. Len(command_buffer) /\ last_command_end \in 0 .. scan
  /\ at = "poll" => /\ At(user, "user")
                    /\ scan = Len(command_buffer) /\ last_command_end = 0
                    /\ Len(command_buffer) < LineSize
  /\ at = "calibrate" => At(user, "user")
  /\ at = "reading" =>
       /\ At(user, "peek") \/ At(user, "empty") \/ At(user, "copy") =>
            Len(command_buffer) + left[user] <= LineSize
       /\ At(user, "release") => Len(command_buffer) + left[user] <= LineSize + 1

\* What waits in the down ring are characters the host has stored.
Typed == downQ \in Seq(Bytes)

ConsoleInv == TypeInv /\ DownInv /\ Typed /\ Room

\* rtt_read copies a character that the host has stored.
LEMMA CharIsByte == ConsoleInv /\ At(user, "copy") => CharAt(user) \in Bytes
<1> SUFFICES ASSUME ConsoleInv, At(user, "copy")
             PROVE  CharAt(user) \in Bytes
  OBVIOUS
<1>1. index[user] = down_r_idx /\ left[user] <= waiting
  BY UserReads DEF ConsoleInv, DownInv, waiting
<1>2. left[user] \in Nat /\ left[user] > 0
  BY UserReads, MessagesAssumption DEF ConsoleInv, TypeInv, TypeOK, CallsOf, At
<1>3. down_r_idx # down_w_idx
  BY <1>1, <1>2, DownCount DEF ConsoleInv, waiting
<1>4. downQ # <<>> /\ Head(downQ) = down_p[down_r_idx]
  BY <1>3, DownRing DEF ConsoleInv, downQ
<1>5. Head(downQ) \in Bytes
  BY <1>4, HeadTailProperties DEF ConsoleInv, Typed
<1> QED BY <1>1, <1>4, <1>5 DEF CharAt

\* Every step of the console is a step of the rings, or leaves them alone.
LEMMA RingStep == ConsoleInv /\ [ConsoleNext]_allVars => [Next]_vars
<1> SUFFICES ASSUME ConsoleInv, [ConsoleNext]_allVars
             PROVE  [Next]_vars
  OBVIOUS
<1> USE UserReads, ConsoleAssumption, MessagesAssumption
<1>1. CASE Poll
  <2>1. LineSize - Len(command_buffer) \in 1 .. MaxLen
    <3>1. Len(command_buffer) \in Nat /\ Len(command_buffer) < LineSize
      BY <1>1, LenProperties DEF Poll, ConsoleInv, Room
    <3> QED BY <3>1
  <2> QED BY <1>1, <2>1 DEF Poll, Next
<1>2. CASE Reading
  BY <1>2 DEF Reading, Next
<1>3. CASE CalibrateRead
  <2>1. 1 \in 1 .. MaxLen
    OBVIOUS
  <2> QED BY <1>3, <2>1 DEF CalibrateRead, Next
<1>4. CASE SearchOn \/ HandleLine \/ Shift \/ DiscardInput \/ Keep \/ CalibrateCheck
  BY <1>4 DEF SearchOn, HandleLine, Shift, DiscardInput, Keep, CalibrateCheck
<1>5. CASE Others
  BY <1>5 DEF Others, Next, Threads
<1>6. CASE UNCHANGED allVars
  BY <1>6 DEF allVars
<1> QED BY <1>1, <1>2, <1>3, <1>4, <1>5, <1>6 DEF ConsoleNext, UserThread

\* Only characters enter the queue of the host.
LEMMA TypedStep ==
  ASSUME Typed, [DownQueue!Next]_<<downQ, got_down>>
  PROVE  Typed'
<1>1. CASE DownQueue!Take
  <2>1. downQ # <<>> /\ downQ' = Tail(downQ)
    BY <1>1 DEF DownQueue!Take, downQ
  <2> QED BY <2>1, HeadTailProperties DEF Typed
<1>2. ASSUME NEW b \in Bytes, DownQueue!Put(b)
      PROVE  Typed'
  <2>1. downQ' = Append(downQ, b)
    BY <1>2 DEF DownQueue!Put, downQ
  <2> QED BY <2>1, AppendProperties DEF Typed
<1>3. CASE UNCHANGED <<downQ, got_down>>
  BY <1>3 DEF Typed
<1> QED BY <1>1, <1>2, <1>3 DEF DownQueue!Next, downQ

\* The steps of other threads and of the host leave the call of the user alone.
LEMMA OthersFrame ==
  ASSUME TypeInv, Others
  PROVE  pc'[user] = pc[user] /\ left'[user] = left[user] /\ UNCHANGED lineVars
<1> USE UserReads, ConsoleAssumption DEF TypeInv, TypeOK, Goto
<1>1. ASSUME NEW t \in Writers, Write(t) \/ \E n \in 1 .. MaxLen : WriteEnter(t, n)
      PROVE  pc'[user] = pc[user] /\ left'[user] = left[user]
  BY <1>1 DEF Write, WriteEnter, WriteWait, WriteStore, WritePublish
<1>2. ASSUME \/ HostTake \/ HostRelease \/ HostPublish
             \/ \E b \in Bytes : HostStore(b)
      PROVE  pc'[user] = pc[user] /\ left'[user] = left[user]
  BY <1>2 DEF HostTake, HostRelease, HostPublish, HostStore, callVars
<1> QED BY <1>1, <1>2 DEF Others

\* process_user_input passes read the room that is left, and nothing else fills
\* the buffer.
LEMMA RoomStep ==
  ASSUME ConsoleInv, [ConsoleNext]_allVars
  PROVE  Room'
<1> USE UserReads, ConsoleAssumption, MessagesAssumption
<1>0. /\ Room /\ TypeInv
      /\ Len(command_buffer) \in Nat
      /\ pc \in [Threads -> Labels] /\ left \in [Threads -> 0 .. MaxLen]
  BY LenProperties DEF ConsoleInv, Room, TypeInv, TypeOK
<1>1. CASE Poll
  BY <1>0, <1>1 DEF Poll, ReadEnter, Room, At, Goto
<1>2. CASE Reading
  <2>1. at \in {"reading", "waiting"} /\ Read(user)
        /\ UNCHANGED <<at, scan, last_command_end>>
    BY <1>2 DEF Reading
  <2>2. CASE At(user, "copy") /\ at = "reading"
    <3> DEFINE c == CharAt(user)
    <3>1. c \in Bytes /\ command_buffer' = Append(command_buffer, c)
      BY <1>2, <2>2, CharIsByte DEF Reading
    <3>2. pc' = [pc EXCEPT ![user] = "release"] /\ UNCHANGED left
      BY <2>1, <2>2 DEF Read, ReadPeek, ReadWait, ReadCopy, ReadRelease, At, Goto
    <3>3. left[user] \in Nat /\ left[user] > 0
      BY <1>0, <2>2 DEF TypeInv, CallsOf, At
    <3> HIDE DEF c
    <3>4. command_buffer' \in Seq(Bytes) /\ Len(command_buffer') = Len(command_buffer) + 1
      BY <1>0, <3>1, AppendProperties DEF Room
    <3> QED BY <1>0, <2>1, <2>2, <3>2, <3>3, <3>4 DEF Room, At
  <2>3. CASE ~(At(user, "copy") /\ at = "reading")
    <3>1. UNCHANGED command_buffer
      BY <1>2, <2>3 DEF Reading
    <3>2. CASE at = "waiting"
      BY <1>0, <2>1, <3>1, <3>2 DEF Room
    <3>3. CASE at = "reading" /\ ReadPeek(user)
      <4> DEFINE m == IF left[user] < Available(index[user])
                      THEN left[user] ELSE Available(index[user])
      <4>1. Available(index[user]) \in Nat
        <5>1. Available(index[user]) = waiting
          BY <3>3 DEF ReadPeek, ConsoleInv, DownInv, Available, Occupied, waiting
        <5> QED BY <5>1, DownCount DEF ConsoleInv
      <4>2. m \in Nat /\ m <= left[user]
        BY <1>0, <4>1
      <4>3. /\ left' = [left EXCEPT ![user] = m]
            /\ pc' = [pc EXCEPT ![user] = IF m > 0 THEN "empty" ELSE "user"]
            /\ At(user, "peek")
        BY <3>3 DEF ReadPeek, Goto
      <4> HIDE DEF m
      <4> QED BY <1>0, <2>1, <3>1, <3>3, <4>2, <4>3 DEF Room, At
    <3>4. CASE at = "reading" /\ ReadWait(user)
      BY <1>0, <2>1, <3>1, <3>4 DEF ReadWait, Room, At, Goto
    <3>5. CASE at = "reading" /\ ReadRelease(user)
      BY <1>0, <2>1, <3>1, <3>5 DEF ReadRelease, Room, At, Goto
    <3> QED BY <2>1, <2>3, <3>2, <3>3, <3>4, <3>5 DEF Read, ReadCopy
  <2> QED BY <2>2, <2>3
<1>3. CASE SearchOn \/ HandleLine
  BY <1>0, <1>3 DEF SearchOn, HandleLine, Searching, Room, vars, callVars, At
<1>4. CASE Shift
  <2>1. /\ Rest \in Seq(Bytes) /\ Len(Rest) \in Nat
        /\ Len(Rest) < Len(command_buffer)
    <3> DEFINE l == last_command_end
               n == Len(command_buffer)
    <3>1. l \in 1 .. n
      BY <1>0, <1>4 DEF Shift, Room
    <3>2. \A i \in l + 1 .. n : command_buffer[i] \in Bytes
      BY <1>0, <3>1, ElementOfSeq DEF Room
    <3>3. /\ Rest \in Seq(Bytes)
          /\ Len(Rest) = IF l + 1 <= n THEN n - (l + 1) + 1 ELSE 0
      BY <1>0, <3>1, <3>2, SubSeqProperties DEF Rest
    <3> QED BY <1>0, <3>1, <3>3
  <2>2. /\ command_buffer' = Rest /\ scan' = Len(Rest) /\ last_command_end' = 0
        /\ at' = "poll" /\ At(user, "user") /\ UNCHANGED vars
    BY <1>4 DEF Shift, Searching
  <2> HIDE DEF Rest
  <2> QED BY <1>0, <2>1, <2>2 DEF Room, vars, callVars, At
<1>5. CASE DiscardInput
  <2>1. <<>> \in Seq(Bytes) /\ Len(<<>>) = 0
    BY EmptySeq
  <2> QED BY <1>0, <1>5, <2>1 DEF DiscardInput, Searching, Room, vars, callVars, At
<1>6. CASE Keep
  BY <1>0, <1>6 DEF Keep, Searching, Full, Room, vars, callVars, At
<1>7. CASE CalibrateRead
  BY <1>0, <1>7 DEF CalibrateRead, ReadEnter, Room, At, Goto
<1>8. CASE CalibrateCheck
  BY <1>0, <1>8 DEF CalibrateCheck, Room, vars, callVars, At
<1>9. CASE Others
  <2>1. pc'[user] = pc[user] /\ left'[user] = left[user] /\ UNCHANGED lineVars
    BY <1>0, <1>9, OthersFrame
  <2> QED BY <1>0, <2>1 DEF Room, lineVars, At
<1>10. CASE UNCHANGED allVars
  BY <1>0, <1>10 DEF allVars, vars, callVars, lineVars, Room, At
<1> QED BY <1>1, <1>2, <1>3, <1>4, <1>5, <1>6, <1>7, <1>8, <1>9, <1>10
        DEF ConsoleNext, UserThread

LEMMA ConsoleAlways == ConsoleSpec => []ConsoleInv
<1>1. ConsoleInit => Init /\ Typed /\ Room
  <2> SUFFICES ASSUME ConsoleInit PROVE Init /\ Typed /\ Room
    OBVIOUS
  <2>1. Init
    BY DEF ConsoleInit
  <2>2. Typed
    <3>1. downQ = <<>>
      BY <2>1, DownInitially DEF DownQueue!Init, downQ
    <3> QED BY <3>1 DEF Typed
  <2>3. Room
    <3>1. <<>> \in Seq(Bytes) /\ Len(<<>>) = 0
      BY EmptySeq
    <3>2. pc[user] = "user"
      BY <2>1, UserReads DEF Init
    <3> QED BY <3>1, <3>2, ConsoleAssumption, MessagesAssumption
            DEF ConsoleInit, Room, At
  <2> QED BY <2>1, <2>2, <2>3
<1>2. ConsoleInit => TypeInv
  <2>1. Init => TypeInv
    BY TypeInitially
  <2> QED BY <1>1, <2>1
<1>3. ConsoleInv /\ [ConsoleNext]_allVars => ConsoleInv'
  <2> SUFFICES ASSUME ConsoleInv, [ConsoleNext]_allVars
               PROVE  ConsoleInv'
    OBVIOUS
  <2>1. [Next]_vars
    BY RingStep
  <2>2. TypeInv'
    BY <2>1, TypeStep DEF ConsoleInv
  <2>3. DownInv' /\ [DownQueue!Next]_<<downQ, got_down>>
    BY <2>1, UserReads, DownStep DEF ConsoleInv
  <2>4. Typed'
    BY <2>3, TypedStep DEF ConsoleInv
  <2>5. Room'
    BY RoomStep
  <2> QED BY <2>2, <2>3, <2>4, <2>5 DEF ConsoleInv
<1> QED BY <1>1, <1>2, <1>3, DownInitially, PTL DEF ConsoleSpec, ConsoleInv

\* The application makes the calls Rtt speaks of, and no other, so that what is
\* proved of the rings holds in it (user_thread, process_user_input).
THEOREM ConsoleCalls == ConsoleSpec => Spec
<1>1. ConsoleInit => Init
  BY DEF ConsoleInit
<1> QED BY <1>1, RingStep, ConsoleAlways, PTL DEF ConsoleSpec, Spec

-----------------------------------------------------------------------------
(* The command line as LineReader. *)

unseenQ == SubSeq(command_buffer, scan + 1, Len(command_buffer))
lineQ == SubSeq(command_buffer, last_command_end + 1, scan)

\* Each step delivers a character, looks at one, discards, or does not show.
LEMMA LinesStep ==
  ASSUME ConsoleInv, [ConsoleNext]_allVars
  PROVE  [Lines!Next]_<<unseenQ, lineQ, handled>>
<1> USE UserReads, ConsoleAssumption, MessagesAssumption
<1>0. /\ Room /\ command_buffer \in Seq(Bytes) /\ Len(command_buffer) \in Nat
      /\ scan \in 0 .. Len(command_buffer) /\ last_command_end \in 0 .. scan
  BY LenProperties DEF ConsoleInv, Room
<1>1. CASE Reading /\ At(user, "copy") /\ at = "reading"
  <2> DEFINE c == CharAt(user)
  <2>1. /\ c \in Bytes /\ command_buffer' = Append(command_buffer, c)
        /\ UNCHANGED <<scan, last_command_end, handled>>
    BY <1>1, CharIsByte DEF Reading
  <2> HIDE DEF c
  <2>2. unseenQ' = Append(unseenQ, c) /\ lineQ' = lineQ
    BY <1>0, <2>1, AppendPieces, ZenonT(60) DEF unseenQ, lineQ
  <2>3. Lines!Deliver(c)
    BY <2>1, <2>2 DEF Lines!Deliver, unseenQ, lineQ
  <2> QED BY <2>1, <2>3 DEF Lines!Next, unseenQ, lineQ
<1>2. CASE SearchOn
  <2>1. /\ scan \in 0 .. Len(command_buffer) - 1 /\ scan' = scan + 1
        /\ command_buffer[scan + 1] # CR
        /\ UNCHANGED <<command_buffer, last_command_end, handled>>
    BY <1>0, <1>2 DEF SearchOn
  <2>2. /\ unseenQ # <<>> /\ Head(unseenQ) = command_buffer[scan + 1]
        /\ Tail(unseenQ) = SubSeq(command_buffer, scan + 2, Len(command_buffer))
        /\ SubSeq(command_buffer, last_command_end + 1, scan + 1)
             = Append(lineQ, command_buffer[scan + 1])
        /\ Len(lineQ) = scan - last_command_end
    BY <1>0, <2>1, LookPieces DEF unseenQ, lineQ
  <2>3. unseenQ' = Tail(unseenQ) /\ lineQ' = Append(lineQ, Head(unseenQ))
    <3>1. scan' + 1 = scan + 2
      BY <1>0, <2>1
    <3> QED BY <2>1, <2>2, <3>1 DEF unseenQ, lineQ
  <2>4. Len(lineQ) < LineSize
    BY <1>0, <2>1, <2>2 DEF Room
  <2>5. Lines!Extend
    BY <2>1, <2>2, <2>3, <2>4 DEF Lines!Extend, unseenQ, lineQ
  <2> QED BY <2>5 DEF Lines!Next, unseenQ, lineQ
<1>3. CASE HandleLine
  <2>1. /\ scan \in 0 .. Len(command_buffer) - 1
        /\ scan' = scan + 1 /\ last_command_end' = scan + 1
        /\ command_buffer[scan + 1] = CR
        /\ handled' = lineQ /\ UNCHANGED command_buffer
    BY <1>0, <1>3 DEF HandleLine, Searching, lineQ
  <2>2. /\ unseenQ # <<>> /\ Head(unseenQ) = command_buffer[scan + 1]
        /\ Tail(unseenQ) = SubSeq(command_buffer, scan + 2, Len(command_buffer))
    BY <1>0, <2>1, LookPieces DEF unseenQ
  <2>3. unseenQ' = Tail(unseenQ)
    <3>1. scan' + 1 = scan + 2
      BY <1>0, <2>1
    <3> QED BY <2>1, <2>2, <3>1 DEF unseenQ
  <2>4. lineQ' = <<>>
    <3>1. lineQ' = SubSeq(command_buffer, scan + 1 + 1, scan + 1)
      BY <2>1 DEF lineQ
    <3>2. scan + 1 + 1 \in Int /\ scan + 1 \in Int /\ scan + 1 < scan + 1 + 1
      BY <1>0
    <3> QED BY <3>1, <3>2, SubSeqEmpty
  <2>5. Lines!Handle
    BY <2>1, <2>2, <2>3, <2>4 DEF Lines!Handle, unseenQ, lineQ
  <2> QED BY <2>5 DEF Lines!Next, unseenQ, lineQ
<1>4. CASE Shift
  <2>1. /\ scan = Len(command_buffer) /\ UNCHANGED handled
        /\ command_buffer' = Rest /\ scan' = Len(Rest) /\ last_command_end' = 0
    BY <1>4 DEF Shift
  <2>2. Rest = lineQ
    BY <2>1 DEF Rest, lineQ
  <2>3. Rest \in Seq(Bytes) /\ Len(Rest) \in Nat
    <3>1. Room'
      BY RoomStep
    <3> QED BY <2>1, <3>1, LenProperties DEF Room
  <2>4. lineQ' = lineQ
    <3>1. lineQ' = SubSeq(Rest, 0 + 1, Len(Rest))
      BY <2>1 DEF lineQ
    <3> HIDE DEF Rest
    <3>2. SubSeq(Rest, 1, Len(Rest)) = Rest
      BY <2>3, SubSeqFull
    <3> QED BY <2>2, <3>1, <3>2
  <2>5. unseenQ' = <<>>
    <3>1. unseenQ' = SubSeq(Rest, Len(Rest) + 1, Len(Rest))
      BY <2>1 DEF unseenQ
    <3> HIDE DEF Rest
    <3>2. Len(Rest) + 1 \in Int /\ Len(Rest) \in Int /\ Len(Rest) < Len(Rest) + 1
      BY <2>3
    <3> QED BY <3>1, <3>2, SubSeqEmpty
  <2>6. unseenQ = <<>>
    <3>1. unseenQ = SubSeq(command_buffer, scan + 1, scan)
      BY <2>1 DEF unseenQ
    <3>2. scan + 1 \in Int /\ scan \in Int /\ scan < scan + 1
      BY <1>0
    <3> QED BY <3>1, <3>2, SubSeqEmpty
  <2> QED BY <2>1, <2>4, <2>5, <2>6
<1>5. CASE DiscardInput
  <2>1. /\ scan = Len(command_buffer) /\ last_command_end = 0
        /\ Len(command_buffer) >= LineSize /\ UNCHANGED <<handled, last_command_end>>
        /\ command_buffer' = <<>> /\ scan' = 0
    BY <1>5 DEF DiscardInput, Full
  <2>2. Len(command_buffer) = LineSize
    BY <1>0, <2>1 DEF Room
  <2>3. lineQ = command_buffer
    <3>1. lineQ = SubSeq(command_buffer, 0 + 1, Len(command_buffer))
      BY <2>1 DEF lineQ
    <3> QED BY <1>0, <3>1, SubSeqFull
  <2>4. unseenQ = <<>>
    <3>1. unseenQ = SubSeq(command_buffer, scan + 1, scan)
      BY <2>1 DEF unseenQ
    <3>2. scan + 1 \in Int /\ scan \in Int /\ scan < scan + 1
      BY <1>0
    <3> QED BY <3>1, <3>2, SubSeqEmpty
  <2>5. unseenQ' = <<>> /\ lineQ' = <<>>
    <3>1. unseenQ' = SubSeq(<<>>, 0 + 1, Len(<<>>)) /\ lineQ' = SubSeq(<<>>, 0 + 1, 0)
      BY <2>1 DEF unseenQ, lineQ
    <3>2. Len(<<>>) = 0
      BY EmptySeq
    <3>3. SubSeq(<<>>, 0 + 1, 0) = <<>>
      BY SubSeqEmpty
    <3> QED BY <3>1, <3>2, <3>3
  <2>6. Lines!Discard
    BY <2>1, <2>2, <2>3, <2>4, <2>5 DEF Lines!Discard, unseenQ, lineQ
  <2> QED BY <2>6 DEF Lines!Next, unseenQ, lineQ
<1>6. CASE \/ Poll \/ Keep \/ CalibrateRead \/ CalibrateCheck \/ Others
           \/ UNCHANGED allVars
           \/ Reading /\ ~(At(user, "copy") /\ at = "reading")
  <2>1. UNCHANGED <<command_buffer, scan, last_command_end, handled>>
    BY <1>6 DEF Poll, Keep, CalibrateRead, CalibrateCheck, Others, Reading,
                allVars, lineVars
  <2> QED BY <2>1 DEF unseenQ, lineQ
<1> QED BY <1>1, <1>2, <1>3, <1>4, <1>5, <1>6 DEF ConsoleNext, UserThread

\* However read cuts up the input, and whatever fits into the buffer, the command
\* handler gets its lines: whole, in order and each once (process_user_input).
THEOREM CommandsAreLines == ConsoleSpec => LinesAreInput
<1>1. ConsoleInit => Lines!Init
  <2> SUFFICES ASSUME ConsoleInit PROVE Lines!Init
    OBVIOUS
  <2>1. Len(<<>>) = 0 /\ SubSeq(<<>>, 0 + 1, 0) = <<>>
    BY EmptySeq, SubSeqEmpty
  <2> QED BY <2>1 DEF ConsoleInit, Lines!Init
<1> QED BY <1>1, LinesStep, ConsoleAlways, PTL
        DEF ConsoleSpec, LinesAreInput, Lines!Spec, unseenQ, lineQ

\* No character is stored behind the end of the command buffer, however much is
\* typed and however long a command takes (the length passed to read).
THEOREM BufferKept == ConsoleSpec => []Room
  BY ConsoleAlways, PTL DEF ConsoleInv

\* The calls of the user thread return at once and return what was typed.
THEOREM InputOnce == ConsoleSpec => []ReadNeverWaits /\ DownIsQueue
  BY ConsoleCalls, ReadReturnsAtOnce, ReadIsQueue, UserReads, PTL
=============================================================================
