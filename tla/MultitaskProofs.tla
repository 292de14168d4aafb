-------------------------- MODULE MultitaskProofs ---------------------------
(***************************************************************************)
(* Proofs about Multitask, for any number of threads and locks, any task   *)
(* set and ticks anywhere; only SvcBit excludes some (DefineUninterrupted).*)
(***************************************************************************)
EXTENDS Multitask, TLAPS

\* Where a call is says what its locals hold: who can be there, the mutex
\* argument, the loop index, and whether thread_end is under way.
FramesOK ==
  \A i \in Tcb :
    /\ pc[i] \in {"lock", "lockPend", "wake", "reset", "unlockPend", "end",
                  "endDec", "endPend"} => i \in User
    /\ pc[i] \in {"lock", "lockPend", "wake", "reset"} => lk[i] \in Locks
    /\ pc[i] = "wake" => wi[i] > 0
    /\ pc[i] \in {"end", "endDec", "endPend"} => ending[i] # NotEnding
    /\ cs[i] # {} => i \in User

TInv == TypeOK /\ FramesOK

\* The constants, as the proofs use them.
LEMMA Constants ==
  /\ N \in Nat /\ N >= 1 /\ NumLocks \in Nat /\ WordMax \in Nat /\ WordMax >= 15
  /\ Scale \in Nat /\ Scale > 0
  /\ Lowest \in 0 .. WordMax
  /\ Idle \in Tcb /\ Main \in Tcb /\ User \subseteq Tcb
  /\ Idle \notin User /\ Main \notin User
BY NAssumption, NumLocksAssumption, WordMaxAssumption, ScaleAssumption
   DEF Idle, Main, Tcb, User, Lowest

\* A uint32_t stays one.
LEMMA WordType == \A x \in Nat : Word(x) \in 0 .. WordMax
BY Constants DEF Word

LEMMA DecType == \A x \in 0 .. WordMax : Dec(x) \in 0 .. WordMax
BY Constants DEF Dec

LEMMA UtilType == \A tk \in Tasks : Util(tk) \in Int
BY Constants DEF Util, Tasks

LEMMA NoDefType == NoDef \in [slot : User, task : Tasks, util : Int]
BY Constants DEF NoDef, NoTask, Tasks, User

\* A set of threads that is not empty has a first one: there are at most 14.
LEMMA First ==
  ASSUME NEW S \in SUBSET User, S # {}
  PROVE  \E i \in S : \A j \in S : i <= j
<1> SUFFICES ASSUME \A i \in S : \E j \in S : j < i
             PROVE  FALSE
  BY Constants DEF User
<1>1. S \subseteq 0 .. 13
  BY NAssumption DEF User
<1>2. \A i \in S : i > 2
  BY <1>1
<1>3. \A i \in S : i > 5
  BY <1>1, <1>2
<1>4. \A i \in S : i > 8
  BY <1>1, <1>3
<1>5. \A i \in S : i > 11
  BY <1>1, <1>4
<1>6. \A i \in S : i > 13
  BY <1>1, <1>5
<1>7. PICK i \in S : TRUE
  OBVIOUS
<1> QED
  BY <1>1, <1>6, <1>7

-----------------------------------------------------------------------------

\* The initial state.
LEMMA InitTInv == Init => TInv
<1> SUFFICES ASSUME Init PROVE TInv
  OBVIOUS
<1> USE Constants DEF Init
<1>1. TypeKernel
  <2>1. NoTask \in Tasks
    BY DEF NoTask, Tasks
  <2>2. task \in [Tcb -> Tasks]
    BY <2>1
  <2>3. remaining_work \in [Tcb -> 0 .. WordMax]
    OBVIOUS
  <2>4. /\ static_priority \in [Tcb -> 0 .. WordMax]
        /\ time_until_release \in [Tcb -> 0 .. WordMax]
        /\ priority_ceiling \in [Locks -> 0 .. WordMax]
        /\ highest_locker_id \in [Locks -> 0 .. WordMax]
    OBVIOUS
  <2>5. systick_on \in BOOLEAN /\ thread_define_called \in BOOLEAN
    BY Zenon
  <2> QED
    BY <2>2, <2>3, <2>4, <2>5 DEF TypeKernel
<1>2. TypeSync
  BY DEF TypeSync, Lowest, NoLock
<1>3. TypeSwitch
  BY DEF TypeSwitch, States
<1>4. TypeFrame
  BY NoDefType DEF TypeFrame, Labels, NoLock, NotEnding
<1>5. FramesOK
  BY DEF FramesOK
<1> QED
  BY <1>1, <1>2, <1>3, <1>4, <1>5 DEF TInv, TypeOK
-----------------------------------------------------------------------------

\* What a step leaves alone keeps its type.
LEMMA KernelSame == TypeKernel /\ UNCHANGED kernelVars => TypeKernel'
BY ZenonT(60) DEF TypeKernel, kernelVars, timerVars, admitVars, tcbVars, ceilVars

LEMMA SyncSame == TypeSync /\ UNCHANGED syncVars => TypeSync'
BY Zenon DEF TypeSync, syncVars, lockVars

LEMMA SwitchSame == TypeSwitch /\ UNCHANGED switchVars => TypeSwitch'
BY Zenon DEF TypeSwitch, switchVars

LEMMA FrameSame == TypeFrame /\ FramesOK /\ UNCHANGED <<frameVars, pc>> => TypeFrame' /\ FramesOK'
BY Zenon DEF TypeFrame, FramesOK, frameVars

\* A switch to another thread.
LEMMA SwitchToType ==
  ASSUME TypeSwitch, NEW st \in [Tcb -> States], NEW n \in Tcb, SwitchTo(n, st)
  PROVE  TypeSwitch'
BY Zenon DEF SwitchTo, RestoredSvc, RegionFor, TypeSwitch, States

LEMMA PendSVType ==
  ASSUME TypeSwitch, NEW st \in [Tcb -> States], PendSV(st)
  PROVE  TypeSwitch'
BY SwitchToType DEF PendSV

\* The charge, and the releases of a tick.
LEMMA ChargedType ==
  ASSUME TypeKernel, TypeSwitch
  PROVE  /\ ChargedWork \in [Tcb -> 0 .. WordMax]
         /\ ChargedState \in [Tcb -> States]
<1>1. ChargedWork \in [Tcb -> 0 .. WordMax]
  BY DecType DEF ChargedWork, TypeKernel
<1>2. ChargedState \in [Tcb -> States]
  BY Zenon DEF ChargedState, TypeSwitch, States
<1> QED
  BY <1>1, <1>2

LEMMA SysTickSwitch ==
  ASSUME TypeKernel, TypeSwitch, SysTick
  PROVE  TypeSwitch'
<1>1. CASE timer_wrap_around = timer_wrap_comparison
  <2>1. PreemptPendSV
    BY <1>1 DEF SysTick
  <2>2. PICK n \in Tcb : SwitchTo(n, [i \in Tcb |-> IF i \in Released(ChargedState)
                                                  THEN "Ready" ELSE ChargedState[i]])
    BY <2>1 DEF PreemptPendSV
  <2>3. [i \in Tcb |-> IF i \in Released(ChargedState)
                       THEN "Ready" ELSE ChargedState[i]] \in [Tcb -> States]
    BY ChargedType DEF States
  <2> QED
    BY <2>2, <2>3, SwitchToType
<1>2. CASE timer_wrap_around # timer_wrap_comparison
  BY <1>2, SwitchSame DEF SysTick
<1> QED
  BY <1>1, <1>2

LEMMA SysTickKernel ==
  ASSUME TypeKernel, TypeSwitch, SysTick
  PROVE  TypeKernel'
<1>1. timer_wrap_around' \in 0 .. 255
  BY DEF SysTick, TypeKernel
<1>2. /\ remaining_work' \in [Tcb -> 0 .. WordMax]
      /\ time_until_release' \in [Tcb -> 0 .. WordMax]
  <2>1. CASE timer_wrap_around = timer_wrap_comparison
    <3>1. PreemptPendSV
      BY <2>1 DEF SysTick
    <3>2. \A i \in Tcb : task[i].c \in 0 .. WordMax /\ task[i].t \in 0 .. WordMax
      BY Constants DEF TypeKernel, Tasks
    <3> QED
      BY <3>1, <3>2, ChargedType, DecType DEF PreemptPendSV, TypeKernel
  <2>2. CASE timer_wrap_around # timer_wrap_comparison
    BY <2>2 DEF SysTick, TypeKernel
  <2> QED
    BY <2>1, <2>2
<1>3. UNCHANGED <<systick_on, timer_wrap_comparison, admitVars, task,
                  static_priority, ceilVars>>
  BY DEF SysTick
<1> QED
  BY <1>1, <1>2, <1>3, Zenon DEF TypeKernel, admitVars, ceilVars

\* Opening locks.
LEMMA OpenType ==
  ASSUME TypeKernel, TypeSync, NEW i \in Tcb, NEW M \in SUBSET Locks, Open(i, M)
  PROVE  /\ s' \in [Locks -> {0, 1}]
         /\ current_locker' \in [Locks -> User \cup {Nobody}]
         /\ blocked_threads' \in [Locks -> Seq(User)]
         /\ global_priority_ceiling' \in 0 .. WordMax
         /\ highest_priority_lock' \in 0 .. NumLocks
         /\ dynamic_priority' \in [Tcb -> 0 .. WordMax]
<1>1. /\ s' \in [Locks -> {0, 1}]
      /\ current_locker' \in [Locks -> User \cup {Nobody}]
      /\ blocked_threads' \in [Locks -> Seq(User)]
  BY DEF Open, TypeSync
<1>2. StillLocked(M) \subseteq Locks
  BY Constants DEF StillLocked, TypeKernel, Locks
<1>3. /\ highest_priority_lock' \in 0 .. NumLocks
      /\ global_priority_ceiling' \in 0 .. WordMax
  BY <1>2, Constants DEF Open, IsHighest, TypeKernel, Locks, NoLock
<1>4. Inherited(i, StillLocked(M)) \subseteq 0 .. WordMax
  BY <1>2, Constants, SMTT(30) DEF Inherited, TypeKernel, TypeSync
<1>5. dynamic_priority' \in [Tcb -> 0 .. WordMax]
  BY <1>4 DEF Open, TypeSync
<1> QED
  BY <1>1, <1>3, <1>5

LEMMA MemFaultSwitch ==
  ASSUME TypeSync, TypeSwitch, NEW i \in Tcb, MemFault(i)
  PROVE  TypeSwitch'
<1> DEFINE woken == UNION {{blocked_threads[m][k] : k \in DOMAIN blocked_threads[m]} :
                             m \in Held(i)}
           st    == [j \in Tcb |-> IF j = i THEN "Defunct"
                                   ELSE IF j \in woken THEN "Ready" ELSE state[j]]
<1>1. st \in [Tcb -> States]
  BY DEF TypeSwitch, States
<1>2. PICK n \in Tcb : SwitchTo(n, st)
  BY Zenon DEF MemFault
<1> HIDE DEF st
<1> QED
  BY <1>1, <1>2, SwitchToType

\* The ceilings are priorities of threads.
LEMMA CeilingsType ==
  ASSUME TypeKernel, Ceilings
  PROVE  priority_ceiling' \in [Locks -> 0 .. WordMax]
<1>1. ASSUME NEW m \in Locks, m \in Reached
      PROVE  (CHOOSE i \in Named(m) : \A j \in Named(m) : i <= j) \in Tcb
  <2>1. Named(m) \in SUBSET User /\ Named(m) # {}
    BY <1>1 DEF Reached, Valid, Named
  <2> QED
    BY <2>1, First, Constants
<1> QED
  BY <1>1 DEF Ceilings, TypeKernel

\* Every step keeps the types and what they rest on.
LEMMA StepTInv == TInv /\ [Next]_vars => TInv'
<1> SUFFICES ASSUME TInv, [Next]_vars PROVE TInv'
  OBVIOUS
<1> USE Constants DEF TInv, TypeOK
<1>1. ASSUME NEW i \in Tcb, Return(i) PROVE TInv'
  <2>1. TypeKernel' /\ TypeSync'
    BY <1>1, KernelSame, SyncSame DEF Return
  <2>2. TypeSwitch'
    BY <1>1, Zenon DEF Return, TypeSwitch
  <2>3. TypeFrame' /\ FramesOK'
    BY <1>1 DEF Return, At, Goto, frameVars, TypeFrame, FramesOK, Labels
  <2> QED
    BY <2>1, <2>2, <2>3
<1>2. ASSUME NEW i \in Tcb, Yield(i) PROVE TInv'
  <2>1. TypeKernel' /\ TypeSync'
    BY <1>2, KernelSame, SyncSame DEF Yield
  <2>2. TypeSwitch'
    BY <1>2 DEF Yield, Yielded, Enter, Running, TypeSwitch, States
  <2>3. TypeFrame' /\ FramesOK'
    BY <1>2 DEF Yield, At, Goto, frameVars, Enter, TypeFrame, FramesOK,
       Labels
  <2> QED
    BY <2>1, <2>2, <2>3
<1>3. ASSUME NEW i \in Tcb, YieldPend(i) PROVE TInv'
  <2>1. TypeKernel' /\ TypeSync'
    BY <1>3, KernelSame, SyncSame DEF YieldPend
  <2>2. TypeSwitch'
    BY <1>3, PendSVType DEF YieldPend, TypeSwitch
  <2>3. TypeFrame' /\ FramesOK'
    BY <1>3 DEF YieldPend, At, Goto, frameVars, TypeFrame, FramesOK,
       Labels
  <2> QED
    BY <2>1, <2>2, <2>3
<1>4. ASSUME NEW i \in Tcb, SleepMs(i) PROVE TInv'
  <2>1. TypeSync'
    BY <1>4, SyncSame DEF SleepMs
  <2>2. TypeKernel'
    BY <1>4, Zenon DEF SleepMs, tcbVars, admitVars, ceilVars, TypeKernel
  <2>3. TypeSwitch'
    BY <1>4, Zenon DEF SleepMs, Enter, Running, TypeSwitch
  <2>4. TypeFrame' /\ FramesOK'
    BY <1>4 DEF SleepMs, At, Goto, frameVars, Enter, TypeFrame, FramesOK,
       Labels
  <2> QED
    BY <2>1, <2>2, <2>3, <2>4
<1>5. ASSUME NEW i \in Tcb, Exit(i) PROVE TInv'
  <2>1. TypeKernel' /\ TypeSwitch' /\ TypeFrame' /\ FramesOK'
    BY <1>5, KernelSame, SwitchSame, FrameSame DEF Exit
  <2>2. TypeSync'
    BY <1>5 DEF Exit, lockVars, TypeSync
  <2> QED
    BY <2>1, <2>2
<1>6. ASSUME NEW id \in 0 .. WordMax, LockInit(id) PROVE TInv'
  <2>1. TypeSwitch' /\ TypeFrame' /\ FramesOK'
    BY <1>6, SwitchSame, FrameSame DEF LockInit
  <2>2. TypeKernel'
    <3>1. num_defined_locks + 1 \in 0 .. NumLocks
      BY <1>6 DEF LockInit, TypeKernel
    <3>2. /\ priority_ceiling' \in [Locks -> 0 .. WordMax]
          /\ highest_locker_id' \in [Locks -> 0 .. WordMax]
      BY <1>6 DEF LockInit, TypeKernel
    <3>3. UNCHANGED <<timerVars, admitVars, tcbVars>> /\ num_defined_locks' \in 0 .. NumLocks
      BY <1>6, <3>1 DEF LockInit
    <3> QED
      BY <3>2, <3>3, Zenon DEF timerVars, admitVars, tcbVars, TypeKernel
  <2>3. TypeSync'
    <3>1. s' \in [Locks -> {0, 1}]
      BY <1>6 DEF LockInit, TypeSync
    <3>2. current_locker' \in [Locks -> User \cup {Nobody}]
      BY <1>6 DEF LockInit, TypeSync
    <3>3. blocked_threads' \in [Locks -> Seq(User)]
      <4>1. <<>> \in Seq(User)
        OBVIOUS
      <4> QED
        BY <1>6, <4>1 DEF LockInit, TypeSync
    <3>4. UNCHANGED <<global_priority_ceiling, highest_priority_lock,
                      dynamic_priority, fault>>
      BY <1>6 DEF LockInit
    <3> QED
      BY <3>1, <3>2, <3>3, <3>4, Zenon DEF TypeSync
  <2> QED
    BY <2>1, <2>2, <2>3
<1>7. ASSUME NEW i \in Tcb, NEW m \in Locks, LockEnter(i, m) PROVE TInv'
  <2>1. TypeKernel' /\ TypeSync'
    BY <1>7, KernelSame, SyncSame DEF LockEnter
  <2>2. TypeSwitch'
    BY <1>7, Zenon DEF LockEnter, Enter, Running, TypeSwitch
  <2>3. TypeFrame'
    <3>1. pc' \in [Tcb -> Labels]
      BY <1>7 DEF LockEnter, Enter, Goto, TypeFrame, Labels
    <3>2. lk' \in [Tcb -> 0 .. NumLocks]
      BY <1>7, SMTT(30) DEF LockEnter, TypeFrame, Locks
    <3>3. ending' \in [Tcb -> NotEnding .. NumLocks]
      <4>1. m \in NotEnding .. NumLocks
        BY DEF Locks, NotEnding
      <4> QED
        BY <1>7, <4>1 DEF LockEnter, TypeFrame
    <3>4. cs' \in [Tcb -> SUBSET Locks]
      BY <1>7 DEF LockEnter, TypeFrame
    <3>5. UNCHANGED <<wi, df>>
      BY <1>7 DEF LockEnter
    <3> QED
      BY <3>1, <3>2, <3>3, <3>4, <3>5, Zenon DEF TypeFrame
  <2>4. FramesOK'
    <3>1. i \in User
      BY <1>7, Zenon DEF LockEnter
    <3>2. \/ /\ pc' = [pc EXCEPT ![i] = "lock"]
             /\ lk' = [lk EXCEPT ![i] = m]
             /\ UNCHANGED <<ending, cs>>
          \/ /\ pc' = [pc EXCEPT ![i] = "end"]
             /\ ending' = [ending EXCEPT ![i] = m]
             /\ cs' = [cs EXCEPT ![i] = {}]
             /\ UNCHANGED lk
      BY <1>7, Zenon DEF LockEnter, Enter, Goto
    <3>3. UNCHANGED wi
      BY <1>7, Zenon DEF LockEnter
    <3>4. m # NotEnding
      BY DEF Locks, NotEnding
    <3>5. \A j \in Tcb : j # i => /\ pc'[j] = pc[j] /\ lk'[j] = lk[j]
                                  /\ ending'[j] = ending[j] /\ cs'[j] = cs[j]
      BY <3>2 DEF TypeFrame
    <3>6. \/ pc'[i] = "lock" /\ lk'[i] = m
          \/ pc'[i] = "end" /\ ending'[i] = m
      BY <3>2 DEF TypeFrame
    <3> QED
      BY <3>1, <3>3, <3>4, <3>5, <3>6 DEF FramesOK
  <2> QED
    BY <2>1, <2>2, <2>3, <2>4
<1>8. ASSUME NEW i \in Tcb, LockAcquire(i) PROVE TInv'
  <2>1. TypeKernel' /\ TypeSwitch'
    BY <1>8, KernelSame, SwitchSame DEF LockAcquire
  <2>2. TypeSync'
    <3>1. i \in User /\ lk[i] \in Locks
      BY <1>8 DEF LockAcquire, At, FramesOK
    <3>2. /\ s' \in [Locks -> {0, 1}]
          /\ current_locker' \in [Locks -> User \cup {Nobody}]
      BY <1>8, <3>1 DEF LockAcquire, TypeSync
    <3>3. lk[i] \in 0 .. NumLocks /\ priority_ceiling[lk[i]] \in 0 .. WordMax
      BY <3>1 DEF TypeKernel, Locks
    <3>4. /\ global_priority_ceiling' \in 0 .. WordMax
          /\ highest_priority_lock' \in 0 .. NumLocks
      BY <1>8, <3>3 DEF LockAcquire, TypeSync
    <3>5. UNCHANGED <<blocked_threads, dynamic_priority, fault>>
      BY <1>8 DEF LockAcquire
    <3> QED
      BY <3>2, <3>4, <3>5, Zenon DEF TypeSync
  <2>3. TypeFrame' /\ FramesOK'
    BY <1>8 DEF LockAcquire, At, Goto, frameVars, Locks, NoLock,
       TypeFrame, FramesOK, Labels
  <2> QED
    BY <2>1, <2>2, <2>3
<1>9. ASSUME NEW i \in Tcb, LockBlock(i) PROVE TInv'
  <2>1. TypeKernel'
    BY <1>9, KernelSame DEF LockBlock
  <2>2. TypeSync'
    <3>1. i \in User /\ lk[i] \in Locks
      BY <1>9 DEF LockBlock, At, FramesOK
    <3>2. blocked_threads' \in [Locks -> Seq(User)]
      <4>1. \A q \in Seq(User) : Append(q, i) \in Seq(User)
        BY <3>1
      <4>2. WaitsOn(i) \in Locks => blocked_threads[WaitsOn(i)] \in Seq(User)
        BY DEF TypeSync
      <4> QED
        BY <1>9, <4>1, <4>2 DEF LockBlock, TypeSync
    <3>3. dynamic_priority' \in [Tcb -> 0 .. WordMax]
      BY <1>9, <3>1 DEF LockBlock, Lesser, TypeSync
    <3>4. fault' \in {"none", "exit", "nullwrite", "overflow", "outofbounds"}
      BY <1>9, Zenon DEF LockBlock, TypeSync
    <3>5. UNCHANGED <<s, current_locker, global_priority_ceiling,
                      highest_priority_lock>>
      BY <1>9 DEF LockBlock
    <3> QED
      BY <3>2, <3>3, <3>4, <3>5, Zenon DEF TypeSync
  <2>3. TypeSwitch'
    BY <1>9 DEF LockBlock, TypeSwitch, States
  <2>4. TypeFrame' /\ FramesOK'
    BY <1>9 DEF LockBlock, At, Goto, frameVars, TypeFrame, FramesOK,
       Labels
  <2> QED
    BY <2>1, <2>2, <2>3, <2>4
<1>10. ASSUME NEW i \in Tcb, LockPend(i) PROVE TInv'
  <2>1. TypeKernel' /\ TypeSync'
    BY <1>10, KernelSame, SyncSame DEF LockPend
  <2>2. TypeSwitch'
    BY <1>10, PendSVType DEF LockPend, TypeSwitch
  <2>3. TypeFrame' /\ FramesOK'
    BY <1>10 DEF LockPend, At, Goto, frameVars, TypeFrame, FramesOK,
       Labels
  <2> QED
    BY <2>1, <2>2, <2>3
<1>11. ASSUME NEW i \in Tcb, NEW m \in Locks, UnlockEnter(i, m) PROVE TInv'
  <2>1. TypeKernel' /\ TypeSync'
    BY <1>11, KernelSame, SyncSame DEF UnlockEnter
  <2>2. TypeSwitch'
    BY <1>11, Zenon DEF UnlockEnter, Enter, Running, TypeSwitch
  <2>3. TypeFrame'
    <3>1. pc' \in [Tcb -> Labels] /\ lk' \in [Tcb -> 0 .. NumLocks]
      BY <1>11 DEF UnlockEnter, Enter, Goto, TypeFrame, Labels, Locks
    <3>2. wi' \in [Tcb -> Nat] /\ cs' \in [Tcb -> SUBSET Locks]
      BY <1>11 DEF UnlockEnter, TypeFrame
    <3>3. UNCHANGED <<ending, df>>
      BY <1>11 DEF UnlockEnter
    <3> QED
      BY <3>1, <3>2, <3>3, Zenon DEF TypeFrame
  <2>4. FramesOK'
    BY <1>11 DEF UnlockEnter, At, Goto, frameVars, Enter, TypeFrame,
       FramesOK, Labels
  <2> QED
    BY <2>1, <2>2, <2>3, <2>4
<1>12. ASSUME NEW i \in Tcb, UnlockWake(i) PROVE TInv'
  <2>1. TypeKernel' /\ TypeSync'
    BY <1>12, KernelSame, SyncSame DEF UnlockWake
  <2>2. TypeSwitch'
    BY <1>12 DEF UnlockWake, At, Running, FramesOK, TypeFrame, TypeSync,
       TypeSwitch, States
  <2>3. TypeFrame'
    <3>1. wi' \in [Tcb -> Nat]
      <4>1. wi' = [wi EXCEPT ![i] = @ + 1]
        BY <1>12 DEF UnlockWake
      <4> QED
        BY <4>1 DEF TypeFrame
    <3>2. UNCHANGED <<pc, lk, ending, df, cs>>
      BY <1>12 DEF UnlockWake
    <3> QED
      BY <3>1, <3>2, Zenon DEF TypeFrame
  <2>4. FramesOK'
    <3>1. wi' = [wi EXCEPT ![i] = @ + 1] /\ UNCHANGED <<pc, lk, ending, cs>>
      BY <1>12 DEF UnlockWake
    <3>2. \A j \in Tcb : wi[j] \in Nat /\ (wi[j] > 0 => wi'[j] > 0)
      BY <3>1 DEF TypeFrame
    <3> QED
      BY <3>1, <3>2 DEF FramesOK
  <2> QED
    BY <2>1, <2>2, <2>3, <2>4
<1>13. ASSUME NEW i \in Tcb, UnlockWoken(i) PROVE TInv'
  <2>1. TypeKernel' /\ TypeSync' /\ TypeSwitch'
    BY <1>13, KernelSame, SyncSame, SwitchSame DEF UnlockWoken
  <2>2. TypeFrame' /\ FramesOK'
    BY <1>13 DEF UnlockWoken, At, Goto, frameVars, TypeFrame, FramesOK,
       Labels
  <2> QED
    BY <2>1, <2>2
<1>14. ASSUME NEW i \in Tcb, UnlockReset(i) PROVE TInv'
  <2>1. TypeKernel'
    BY <1>14, KernelSame DEF UnlockReset
  <2>2. TypeSync'
    BY <1>14, OpenType DEF UnlockReset, At, FramesOK, TypeSync
  <2>3. TypeSwitch'
    BY <1>14 DEF UnlockReset, TypeSwitch, States
  <2>4. TypeFrame' /\ FramesOK'
    BY <1>14 DEF UnlockReset, At, Goto, frameVars, NoLock, TypeFrame,
       FramesOK, Labels
  <2> QED
    BY <2>1, <2>2, <2>3, <2>4
<1>15. ASSUME NEW i \in Tcb, UnlockPend(i) PROVE TInv'
  <2>1. TypeKernel' /\ TypeSync'
    BY <1>15, KernelSame, SyncSame DEF UnlockPend
  <2>2. TypeSwitch'
    BY <1>15, PendSVType DEF UnlockPend, TypeSwitch
  <2>3. TypeFrame' /\ FramesOK'
    BY <1>15 DEF UnlockPend, At, Goto, frameVars, TypeFrame, FramesOK,
       Labels
  <2> QED
    BY <2>1, <2>2, <2>3
<1>16. ASSUME NEW i \in Tcb, EndEnter(i) PROVE TInv'
  <2>1. TypeKernel' /\ TypeSync'
    BY <1>16, KernelSame, SyncSame DEF EndEnter
  <2>2. TypeSwitch'
    BY <1>16, Zenon DEF EndEnter, Enter, Running, TypeSwitch
  <2>3. TypeFrame'
    BY <1>16 DEF EndEnter, At, Goto, frameVars, Enter, Locks, NotEnding,
       NoLock, TypeFrame, Labels
  <2>4. FramesOK'
    BY <1>16 DEF EndEnter, At, Goto, frameVars, Enter, Locks, NotEnding,
       NoLock, TypeFrame, FramesOK, Labels
  <2> QED
    BY <2>1, <2>2, <2>3, <2>4
<1>17. ASSUME NEW i \in Tcb, EndUnlock(i) PROVE TInv'
  <2>1. TypeKernel' /\ TypeSync' /\ TypeSwitch'
    BY <1>17, KernelSame, SyncSame, SwitchSame DEF EndUnlock
  <2>2. TypeFrame' /\ FramesOK'
    BY <1>17 DEF EndUnlock, At, Goto, frameVars, Held, Locks, TypeFrame,
       FramesOK, Labels
  <2> QED
    BY <2>1, <2>2
<1>18. ASSUME NEW i \in Tcb, EndDefunct(i) PROVE TInv'
  <2>1. TypeSync'
    BY <1>18, SyncSame DEF EndDefunct
  <2>2. TypeKernel'
    BY <1>18, UtilType DEF EndDefunct, UtilWithout, timerVars, tcbVars,
       ceilVars, TypeKernel
  <2>3. TypeSwitch'
    BY <1>18 DEF EndDefunct, Running, TypeSwitch, States
  <2>4. TypeFrame' /\ FramesOK'
    BY <1>18 DEF EndDefunct, At, Goto, frameVars, TypeFrame, FramesOK,
       Labels
  <2> QED
    BY <2>1, <2>2, <2>3, <2>4
<1>19. ASSUME NEW i \in Tcb, EndDec(i) PROVE TInv'
  <2>1. TypeSync' /\ TypeSwitch'
    BY <1>19, SyncSame, SwitchSame DEF EndDec
  <2>2. TypeKernel'
    BY <1>19 DEF EndDec, CountWithout, timerVars, tcbVars, ceilVars,
       TypeKernel
  <2>3. TypeFrame' /\ FramesOK'
    BY <1>19 DEF EndDec, At, Goto, frameVars, TypeFrame, FramesOK, Labels
  <2> QED
    BY <2>1, <2>2, <2>3
<1>20. ASSUME NEW i \in Tcb, EndPend(i) PROVE TInv'
  <2>1. TypeKernel' /\ TypeSync'
    BY <1>20, KernelSame, SyncSame DEF EndPend
  <2>2. TypeSwitch'
    BY <1>20, PendSVType DEF EndPend, TypeSwitch
  <2>3. TypeFrame' /\ FramesOK'
    BY <1>20 DEF EndPend, At, Goto, frameVars, NotEnding, NoLock, Locks,
       TypeFrame, FramesOK, Labels
  <2> QED
    BY <2>1, <2>2, <2>3
<1>21. ASSUME NEW i \in Tcb, MemFault(i) PROVE TInv'
  <2>1. TypeKernel'
    BY <1>21, UtilType DEF MemFault, UtilWithout, CountWithout, timerVars,
       tcbVars, ceilVars, TypeKernel
  <2>2. TypeSync'
    BY <1>21, OpenType DEF MemFault, Held, TypeSync
  <2>3. TypeSwitch'
    BY <1>21, MemFaultSwitch
  <2>4. TypeFrame' /\ FramesOK'
    BY <1>21 DEF MemFault, At, Goto, frameVars, TypeFrame, FramesOK,
       Labels
  <2> QED
    BY <2>1, <2>2, <2>3, <2>4
<1>22. ASSUME NEW i \in Tcb, NEW tk \in TaskSet, DefineEnter(i, tk) PROVE TInv'
  <2>1. TypeKernel' /\ TypeSync'
    BY <1>22, KernelSame, SyncSame DEF DefineEnter
  <2>2. TypeSwitch'
    BY <1>22, Zenon DEF DefineEnter, Enter, Running, TypeSwitch
  <2>3. TypeFrame'
    <3>1. pc' \in [Tcb -> Labels]
      BY <1>22 DEF DefineEnter, Enter, Goto, TypeFrame, Labels
    <3>2. tk \in Tasks /\ Util(tk) + total_utilization \in Int
      BY TaskSetAssumption, UtilType DEF TypeKernel
    <3>3. df' \in [Tcb -> [slot : User, task : Tasks, util : Int]]
      BY <1>22, <3>2 DEF DefineEnter, Spare, TypeFrame
    <3>4. UNCHANGED <<lk, wi, ending, cs>>
      BY <1>22 DEF DefineEnter
    <3> QED
      BY <3>1, <3>3, <3>4, Zenon DEF TypeFrame
  <2>4. FramesOK'
    BY <1>22 DEF DefineEnter, At, Goto, frameVars, Enter, TypeFrame,
       FramesOK, Labels
  <2> QED
    BY <2>1, <2>2, <2>3, <2>4
<1>23. ASSUME NEW i \in Tcb, DefineFill(i) PROVE TInv'
  <2>1. TypeSync'
    BY <1>23, SyncSame DEF DefineFill
  <2>2. TypeKernel'
    BY <1>23 DEF DefineFill, timerVars, ceilVars, TypeFrame, TypeKernel,
       Tasks
  <2>3. TypeSwitch'
    BY <1>23 DEF DefineFill, TypeFrame, TypeSwitch, States
  <2>4. TypeFrame' /\ FramesOK'
    BY <1>23 DEF DefineFill, At, Goto, frameVars, TypeFrame, FramesOK,
       Labels
  <2> QED
    BY <2>1, <2>2, <2>3, <2>4
<1>24. ASSUME NEW i \in Tcb, DefineFrames(i) PROVE TInv'
  <2>1. TypeKernel' /\ TypeSync' /\ TypeSwitch'
    BY <1>24, KernelSame, SyncSame, SwitchSame DEF DefineFrames
  <2>2. TypeFrame'
    <3>1. pc' \in [Tcb -> Labels]
      BY <1>24 DEF DefineFrames, TypeFrame, Labels
    <3>2. lk' \in [Tcb -> 0 .. NumLocks] /\ wi' \in [Tcb -> Nat]
      BY <1>24 DEF DefineFrames, TypeFrame, NoLock
    <3>3. ending' \in [Tcb -> NotEnding .. NumLocks]
      BY <1>24 DEF DefineFrames, TypeFrame, NotEnding
    <3>4. df' \in [Tcb -> [slot : User, task : Tasks, util : Int]]
      BY <1>24, NoDefType DEF DefineFrames, TypeFrame
    <3>5. cs' \in [Tcb -> SUBSET Locks]
      BY <1>24 DEF DefineFrames, TypeFrame
    <3> QED
      BY <3>1, <3>2, <3>3, <3>4, <3>5, Zenon DEF TypeFrame
  <2>3. FramesOK'
    BY <1>24 DEF DefineFrames, At, Goto, frameVars, NotEnding, NoLock,
       TypeFrame, FramesOK, Labels
  <2> QED
    BY <2>1, <2>2, <2>3
<1>25. ASSUME NEW i \in Tcb, DefineCount(i) PROVE TInv'
  <2>1. TypeSync' /\ TypeSwitch'
    BY <1>25, SyncSame, SwitchSame DEF DefineCount
  <2>2. TypeKernel'
    BY <1>25 DEF DefineCount, timerVars, tcbVars, ceilVars, TypeKernel
  <2>3. TypeFrame' /\ FramesOK'
    BY <1>25 DEF DefineCount, At, Goto, frameVars, TypeFrame, FramesOK,
       Labels
  <2> QED
    BY <2>1, <2>2, <2>3
<1>26. ASSUME NEW i \in Tcb, OrderClear(i) PROVE TInv'
  <2>1. TypeSwitch'
    BY <1>26, SwitchSame DEF OrderClear
  <2>2. TypeKernel'
    BY <1>26 DEF OrderClear, timerVars, admitVars, ceilVars, TypeKernel
  <2>3. TypeSync'
    BY <1>26 DEF OrderClear, lockVars, TypeSync
  <2>4. TypeFrame'
    <3>1. pc' \in [Tcb -> Labels]
      BY <1>26 DEF OrderClear, Goto, TypeFrame, Labels
    <3>2. wi' \in [Tcb -> Nat]
      <4>1. wi \in [Tcb -> Nat]
        BY DEF TypeFrame
      <4>2. wi[i] \in Nat
        BY <4>1
      <4>3. \/ wi' = [wi EXCEPT ![i] = 0]
            \/ wi' = [wi EXCEPT ![i] = wi[i] + 1]
        BY <1>26, Zenon DEF OrderClear
      <4>4. 0 \in Nat /\ wi[i] + 1 \in Nat
        BY <4>2
      <4> HIDE DEF TInv
      <4> QED
        BY <4>1, <4>3, <4>4, Zenon
    <3>3. UNCHANGED <<lk, ending, df, cs>>
      BY <1>26 DEF OrderClear
    <3> QED
      BY <3>1, <3>2, <3>3, Zenon DEF TypeFrame
  <2>5. FramesOK'
    BY <1>26 DEF OrderClear, At, Goto, frameVars, TypeFrame, FramesOK,
       Labels
  <2> QED
    BY <2>1, <2>2, <2>3, <2>4, <2>5
<1>27. ASSUME NEW i \in Tcb, OrderAssign(i) PROVE TInv'
  <2>1. TypeSwitch'
    BY <1>27, SwitchSame DEF OrderAssign
  <2>2. TypeKernel'
    <3>1. Word(wi[i]) \in 0 .. WordMax
      BY WordType DEF TypeFrame
    <3>2. static_priority' \in [Tcb -> 0 .. WordMax]
      BY <1>27, <3>1 DEF OrderAssign, TypeKernel
    <3>3. UNCHANGED <<timerVars, admitVars, task, remaining_work,
                      time_until_release, ceilVars>>
      BY <1>27 DEF OrderAssign
    <3> QED
      BY <3>2, <3>3, Zenon DEF timerVars, admitVars, ceilVars, TypeKernel
  <2>3. TypeSync'
    <3>1. Word(wi[i]) \in 0 .. WordMax
      BY WordType DEF TypeFrame
    <3>2. dynamic_priority' \in [Tcb -> 0 .. WordMax]
      BY <1>27, <3>1 DEF OrderAssign, TypeSync
    <3>3. fault' \in {"none", "exit", "nullwrite", "overflow", "outofbounds"}
      BY <1>27, Zenon DEF OrderAssign, TypeSync
    <3>4. UNCHANGED lockVars
      BY <1>27 DEF OrderAssign
    <3> QED
      BY <3>2, <3>3, <3>4, Zenon DEF lockVars, TypeSync
  <2>4. TypeFrame' /\ FramesOK'
    BY <1>27 DEF OrderAssign, At, Goto, frameVars, TypeFrame, FramesOK,
       Labels
  <2> QED
    BY <2>1, <2>2, <2>3, <2>4
<1>28. ASSUME NEW i \in Tcb, OrderDone(i) PROVE TInv'
  <2>1. TypeKernel' /\ TypeSync' /\ TypeSwitch'
    BY <1>28, KernelSame, SyncSame, SwitchSame DEF OrderDone
  <2>2. TypeFrame' /\ FramesOK'
    BY <1>28 DEF OrderDone, At, Goto, frameVars, TypeFrame, FramesOK,
       Labels
  <2> QED
    BY <2>1, <2>2
<1>29. ASSUME StartRefused PROVE TInv'
  <2>1. TypeSync' /\ TypeSwitch' /\ TypeFrame' /\ FramesOK'
    BY <1>29, SyncSame, SwitchSame, FrameSame DEF StartRefused
  <2>2. TypeKernel'
    BY <1>29, CeilingsType DEF StartRefused, timerVars, admitVars,
       tcbVars, TypeKernel
  <2> QED
    BY <2>1, <2>2
<1>30. ASSUME NEW bins \in Bins, StartEnter(bins) PROVE TInv'
  <2>1. TypeKernel'
    <3>1. priority_ceiling' \in [Locks -> 0 .. WordMax]
      BY <1>30, CeilingsType DEF StartEnter
    <3>2. systick_on' \in BOOLEAN
      BY <1>30, Zenon DEF StartEnter, timerVars, TypeKernel
    <3>3. timer_wrap_around' \in 0 .. 255 /\ timer_wrap_comparison' \in 0 .. 255
      BY <1>30, BinsAssumption DEF StartEnter, timerVars, TypeKernel
    <3>4. UNCHANGED <<admitVars, tcbVars, highest_locker_id, num_defined_locks>>
      BY <1>30 DEF StartEnter
    <3> QED
      BY <3>1, <3>2, <3>3, <3>4, Zenon DEF admitVars, tcbVars, TypeKernel
  <2>2. TypeSync'
    BY <1>30 DEF StartEnter, TypeSync, NoLock
  <2>3. TypeSwitch'
    BY <1>30, Zenon DEF StartEnter, Enter, Running, TypeSwitch
  <2>4. TypeFrame' /\ FramesOK'
    BY <1>30 DEF StartEnter, At, Goto, frameVars, Enter, TypeFrame,
       FramesOK, Labels
  <2> QED
    BY <2>1, <2>2, <2>3, <2>4
<1>31. ASSUME StartPend PROVE TInv'
  <2>1. TypeKernel' /\ TypeSync'
    BY <1>31, KernelSame, SyncSame DEF StartPend
  <2>2. TypeSwitch'
    BY <1>31, PendSVType DEF StartPend, TypeSwitch
  <2>3. TypeFrame' /\ FramesOK'
    BY <1>31 DEF StartPend, At, Goto, frameVars, TypeFrame, FramesOK,
       Labels
  <2> QED
    BY <2>1, <2>2, <2>3
<1>32. ASSUME StartJoin PROVE TInv'
  <2>1. TypeSync' /\ TypeSwitch'
    BY <1>32, SyncSame, SwitchSame DEF StartJoin
  <2>2. TypeKernel'
    BY <1>32, Zenon DEF StartJoin, admitVars, tcbVars, ceilVars,
       TypeKernel
  <2>3. TypeFrame' /\ FramesOK'
    BY <1>32 DEF StartJoin, At, Goto, frameVars, TypeFrame, FramesOK,
       Labels
  <2> QED
    BY <2>1, <2>2, <2>3
<1>33. ASSUME SysTick PROVE TInv'
  <2>1. TypeSync' /\ TypeFrame' /\ FramesOK'
    BY <1>33, SyncSame, FrameSame DEF SysTick
  <2>2. TypeKernel'
    BY <1>33, SysTickKernel
  <2>3. TypeSwitch'
    BY <1>33, SysTickSwitch
  <2> QED
    BY <2>1, <2>2, <2>3
<1>34. CASE UNCHANGED vars
  BY <1>34, KernelSame, SyncSame, SwitchSame, FrameSame DEF vars
<1> QED
  BY <1>1, <1>2, <1>3, <1>4, <1>5, <1>6, <1>7, <1>8, <1>9, <1>10, <1>11,
     <1>12, <1>13, <1>14, <1>15, <1>16, <1>17, <1>18, <1>19, <1>20, <1>21,
     <1>22, <1>23, <1>24, <1>25, <1>26, <1>27, <1>28, <1>29, <1>30, <1>31,
     <1>32, <1>33, <1>34, TaskSetAssumption DEF Next, Handler, Program,
     MainHandler, MainProgram, Tasks

\* Every variable keeps its type (TypeOK: the fields of the kernel's structs
\* and the range of every index), for any constants.
THEOREM Typing == Spec => []TypeOK
<1>1. Init => TInv
  BY InitTInv
<1>2. TInv /\ [Next]_vars => TInv'
  BY StepTInv
<1>3. TInv => TypeOK
  BY DEF TInv
<1> QED
  BY <1>1, <1>2, <1>3, PTL DEF Spec

-----------------------------------------------------------------------------
(* Mutual exclusion. *)

\* A program has been granted only locks whose owner the kernel records as its
\* thread.
GrantsOwned == \A i \in Tcb : \A m \in cs[i] : current_locker[m] = i

\* A lock that is being unlocked is its unlocker's, and not granted any more.
UnlockingOwned ==
  \A i \in Tcb : pc[i] \in {"wake", "reset"} =>
    current_locker[lk[i]] = i /\ lk[i] \notin cs[i]

\* A lock with an owner is locked, and one that is not defined has none.
OwnedLocked == \A m \in Locks : current_locker[m] # Nobody => s[m] = 0
UndefinedFree ==
  \A m \in Locks : m > num_defined_locks => s[m] = 0 /\ current_locker[m] = Nobody

\* A thread that ends has been granted nothing, wherever it is in its unlocks.
EndingHasNone ==
  \A i \in Tcb : ending[i] # NotEnding =>
    cs[i] = {} /\ pc[i] \in {"end", "wake", "reset", "unlockPend", "endDec", "endPend"}

Ownership == GrantsOwned /\ UnlockingOwned /\ OwnedLocked /\ UndefinedFree /\ EndingHasNone

LInv == TInv /\ Ownership

LEMMA InitOwnership == Init => Ownership
BY Constants DEF Init, Ownership, GrantsOwned, UnlockingOwned, OwnedLocked, UndefinedFree,
       EndingHasNone, Locks, NotEnding, Nobody

\* The part of Open that ownership is about.
Opened(i, M) ==
  /\ s' = [m \in Locks |-> IF m \in M THEN 1 ELSE s[m]]
  /\ current_locker' = [m \in Locks |-> IF m \in M THEN Nobody ELSE current_locker[m]]

\* Opening a lock of i that i is not granted any more.
LEMMA OpenOwned ==
  ASSUME LInv, NEW i \in Tcb, lk[i] \in Locks, current_locker[lk[i]] = i,
         lk[i] \notin cs[i], Opened(i, {lk[i]}), UNCHANGED <<cs, num_defined_locks>>
  PROVE  GrantsOwned' /\ OwnedLocked' /\ UndefinedFree'
<1> USE Constants DEF LInv, TInv, TypeOK, Ownership, Opened
<1>1. \A j \in Tcb : lk[i] \notin cs[j]
  BY DEF GrantsOwned
<1>2. GrantsOwned'
  BY <1>1 DEF GrantsOwned, TypeFrame
<1>3. OwnedLocked'
  BY DEF OwnedLocked
<1>4. UndefinedFree'
  BY DEF UndefinedFree, Nobody, Tcb
<1> QED
  BY <1>2, <1>3, <1>4

\* Every step keeps what the kernel records about owners in line with what the
\* programs were granted.
LEMMA StepOwnership == LInv /\ [Next]_vars => Ownership'
<1> SUFFICES ASSUME LInv, [Next]_vars PROVE Ownership'
  OBVIOUS
<1> USE Constants DEF LInv, TInv, TypeOK, Ownership
<1>1. ASSUME NEW i \in Tcb, Return(i) PROVE Ownership'
  BY <1>1 DEF Return, At, Goto, kernelVars, syncVars, lockVars, frameVars,
     ceilVars, TypeFrame, TypeSync, GrantsOwned, UnlockingOwned,
     OwnedLocked, UndefinedFree, EndingHasNone
<1>2. ASSUME NEW i \in Tcb, Yield(i) PROVE Ownership'
  BY <1>2 DEF Yield, Enter, At, Goto, kernelVars, syncVars, lockVars,
     frameVars, ceilVars, TypeFrame, TypeSync, GrantsOwned, UnlockingOwned,
     OwnedLocked, UndefinedFree, EndingHasNone
<1>3. ASSUME NEW i \in Tcb, YieldPend(i) PROVE Ownership'
  BY <1>3 DEF YieldPend, At, Goto, kernelVars, syncVars, lockVars,
     frameVars, ceilVars, TypeFrame, TypeSync, GrantsOwned, UnlockingOwned,
     OwnedLocked, UndefinedFree, EndingHasNone
<1>4. ASSUME NEW i \in Tcb, SleepMs(i) PROVE Ownership'
  BY <1>4, ZenonT(60) DEF SleepMs, Enter, At, Goto, kernelVars, syncVars, lockVars,
     frameVars, ceilVars, TypeFrame, TypeSync, GrantsOwned, UnlockingOwned,
     OwnedLocked, UndefinedFree, EndingHasNone
<1>5. ASSUME NEW i \in Tcb, Exit(i) PROVE Ownership'
  BY <1>5 DEF Exit, kernelVars, syncVars, lockVars, frameVars, ceilVars,
     TypeFrame, TypeSync, GrantsOwned, UnlockingOwned, OwnedLocked,
     UndefinedFree, EndingHasNone
<1>6. ASSUME NEW id \in 0 .. WordMax, LockInit(id) PROVE Ownership'
  <2>1. num_defined_locks + 1 \in Locks
    BY <1>6 DEF LockInit, TypeKernel, Locks
  <2>2. current_locker[num_defined_locks + 1] = Nobody
    BY <2>1 DEF UndefinedFree, TypeKernel
  <2>3. /\ UNCHANGED <<current_locker, frameVars, pc>>
        /\ s' = [s EXCEPT ![num_defined_locks + 1] = 1]
        /\ num_defined_locks' = num_defined_locks + 1
    BY <1>6, <2>1, <2>2 DEF LockInit, TypeSync
  <2>4. GrantsOwned' /\ UnlockingOwned' /\ EndingHasNone'
    BY <2>3 DEF frameVars, GrantsOwned, UnlockingOwned, EndingHasNone
  <2>5. OwnedLocked'
    BY <2>1, <2>2, <2>3 DEF OwnedLocked, TypeSync
  <2>6. UndefinedFree'
    <3>1. ASSUME NEW m \in Locks, m > num_defined_locks + 1
          PROVE  s[m] = 0 /\ current_locker[m] = Nobody /\ m # num_defined_locks + 1
      BY <3>1 DEF UndefinedFree, TypeKernel, Locks
    <3> QED
      BY <2>1, <2>3, <3>1 DEF UndefinedFree, TypeSync
  <2> QED
    BY <2>4, <2>5, <2>6
<1>7. ASSUME NEW i \in Tcb, NEW m \in Locks, LockEnter(i, m) PROVE Ownership'
  <2>1. UNCHANGED <<s, current_locker, num_defined_locks>> /\ pc[i] = "user"
    BY <1>7 DEF LockEnter, Enter, At, kernelVars, ceilVars, syncVars, lockVars
  <2>2. /\ pc' = [pc EXCEPT ![i] = IF ending'[i] = NotEnding THEN "lock" ELSE "end"]
        /\ \A j \in Tcb : j # i => /\ cs'[j] = cs[j] /\ lk'[j] = lk[j]
                                   /\ ending'[j] = ending[j]
        /\ cs'[i] \subseteq cs[i]
        /\ ending'[i] # NotEnding => cs'[i] = {}
    <3>1. ending[i] = NotEnding /\ m # NotEnding
      BY <2>1 DEF EndingHasNone, Locks, NotEnding
    <3> QED
      BY <1>7, <3>1 DEF LockEnter, Enter, Goto, TypeFrame
  <2>3. GrantsOwned' /\ UnlockingOwned'
    BY <2>1, <2>2, ZenonT(60) DEF GrantsOwned, UnlockingOwned, TypeFrame
  <2>4. OwnedLocked' /\ UndefinedFree'
    BY <2>1 DEF OwnedLocked, UndefinedFree
  <2>5. EndingHasNone'
    BY <2>2 DEF EndingHasNone, TypeFrame
  <2> QED
    BY <2>3, <2>4, <2>5
<1>8. ASSUME NEW i \in Tcb, LockAcquire(i) PROVE Ownership'
  <2>1. i \in User /\ lk[i] \in Locks /\ s[lk[i]] = 1 /\ pc[i] = "lock"
    BY <1>8 DEF LockAcquire, At, Granted, IsOpen, FramesOK
  <2>2. current_locker[lk[i]] = Nobody /\ ~(lk[i] > num_defined_locks)
    BY <2>1 DEF OwnedLocked, UndefinedFree
  <2>3. /\ s' = [s EXCEPT ![lk[i]] = 0]
        /\ current_locker' = [current_locker EXCEPT ![lk[i]] = i]
        /\ cs' = [cs EXCEPT ![i] = @ \cup {lk[i]}]
        /\ lk' = [lk EXCEPT ![i] = NoLock]
        /\ pc' = [pc EXCEPT ![i] = "ret"]
        /\ UNCHANGED <<ending, num_defined_locks>>
    BY <1>8 DEF LockAcquire, Goto, kernelVars, ceilVars
  <2>4. \A j \in Tcb : lk[i] \notin cs[j]
    BY <2>2 DEF GrantsOwned, Nobody, Tcb
  <2>5. GrantsOwned'
    <3>1. ASSUME NEW j \in Tcb, NEW m \in cs'[j]
          PROVE  current_locker'[m] = j
      <4>1. CASE m = lk[i]
        BY <2>1, <2>3, <2>4, <4>1 DEF TypeFrame, TypeSync
      <4>2. CASE m # lk[i]
        <5>1. m \in cs[j] /\ m \in Locks
          BY <2>3, <4>2 DEF TypeFrame
        <5> QED
          BY <2>3, <4>2, <5>1 DEF GrantsOwned, TypeSync
      <4> QED
        BY <4>1, <4>2
    <3> QED
      BY <3>1 DEF GrantsOwned
  <2>6. UnlockingOwned'
    <3>1. ASSUME NEW j \in Tcb, pc'[j] \in {"wake", "reset"}
          PROVE  current_locker'[lk'[j]] = j /\ lk'[j] \notin cs'[j]
      <4>1. j # i /\ pc[j] \in {"wake", "reset"} /\ lk'[j] = lk[j] /\ cs'[j] = cs[j]
        BY <2>3, <3>1 DEF TypeFrame
      <4>2. current_locker[lk[j]] = j /\ lk[j] \notin cs[j] /\ lk[j] \in Locks
        BY <4>1 DEF UnlockingOwned, FramesOK
      <4>3. lk[j] # lk[i]
        BY <2>2, <4>2 DEF Nobody, Tcb
      <4> QED
        BY <2>1, <2>3, <4>1, <4>2, <4>3 DEF TypeSync
    <3> QED
      BY <3>1 DEF UnlockingOwned
  <2>7. OwnedLocked' /\ UndefinedFree'
    BY <2>1, <2>2, <2>3 DEF OwnedLocked, UndefinedFree, TypeSync
  <2>8. EndingHasNone'
    BY <2>1, <2>3 DEF EndingHasNone, TypeFrame
  <2> QED
    BY <2>5, <2>6, <2>7, <2>8
<1>9. ASSUME NEW i \in Tcb, LockBlock(i) PROVE Ownership'
  BY <1>9 DEF LockBlock, At, Goto, kernelVars, syncVars, lockVars,
     frameVars, ceilVars, TypeFrame, TypeSync, GrantsOwned, UnlockingOwned,
     OwnedLocked, UndefinedFree, EndingHasNone
<1>10. ASSUME NEW i \in Tcb, LockPend(i) PROVE Ownership'
  BY <1>10 DEF LockPend, At, Goto, kernelVars, syncVars, lockVars,
     frameVars, ceilVars, TypeFrame, TypeSync, GrantsOwned, UnlockingOwned,
     OwnedLocked, UndefinedFree, EndingHasNone
<1>11. ASSUME NEW i \in Tcb, NEW m \in Locks, UnlockEnter(i, m) PROVE Ownership'
  BY <1>11, ZenonT(60) DEF UnlockEnter, Enter, At, Goto, FramesOK, kernelVars, syncVars,
     lockVars, frameVars, ceilVars, TypeFrame, TypeSync, GrantsOwned,
     UnlockingOwned, OwnedLocked, UndefinedFree, EndingHasNone
<1>12. ASSUME NEW i \in Tcb, UnlockWake(i) PROVE Ownership'
  BY <1>12 DEF UnlockWake, At, kernelVars, syncVars, lockVars, frameVars,
     ceilVars, TypeFrame, TypeSync, GrantsOwned, UnlockingOwned,
     OwnedLocked, UndefinedFree, EndingHasNone
<1>13. ASSUME NEW i \in Tcb, UnlockWoken(i) PROVE Ownership'
  BY <1>13 DEF UnlockWoken, At, Goto, kernelVars, syncVars, lockVars,
     frameVars, ceilVars, TypeFrame, TypeSync, GrantsOwned, UnlockingOwned,
     OwnedLocked, UndefinedFree, EndingHasNone
<1>14. ASSUME NEW i \in Tcb, UnlockReset(i) PROVE Ownership'
  <2>1. /\ i \in User /\ lk[i] \in Locks /\ pc[i] = "reset"
        /\ current_locker[lk[i]] = i /\ lk[i] \notin cs[i]
    BY <1>14 DEF UnlockReset, At, FramesOK, UnlockingOwned
  <2>2. /\ Opened(i, {lk[i]})
        /\ lk' = [lk EXCEPT ![i] = NoLock]
        /\ pc' = [pc EXCEPT ![i] = "unlockPend"]
        /\ UNCHANGED <<cs, ending, num_defined_locks>>
    BY <1>14 DEF UnlockReset, Open, Opened, Goto, kernelVars, ceilVars
  <2>3. GrantsOwned' /\ OwnedLocked' /\ UndefinedFree'
    BY <2>1, <2>2, OpenOwned
  <2>4. UnlockingOwned'
    <3>1. ASSUME NEW j \in Tcb, pc'[j] \in {"wake", "reset"}
          PROVE  current_locker'[lk'[j]] = j /\ lk'[j] \notin cs'[j]
      <4>1. j # i /\ pc[j] \in {"wake", "reset"} /\ lk'[j] = lk[j]
        BY <2>2, <3>1 DEF TypeFrame
      <4>2. current_locker[lk[j]] = j /\ lk[j] \notin cs[j] /\ lk[j] \in Locks
        BY <4>1 DEF UnlockingOwned, FramesOK
      <4> QED
        BY <2>1, <2>2, <4>1, <4>2 DEF Opened
    <3> QED
      BY <3>1 DEF UnlockingOwned
  <2>5. EndingHasNone'
    BY <2>1, <2>2 DEF EndingHasNone, TypeFrame
  <2> QED
    BY <2>3, <2>4, <2>5
<1>15. ASSUME NEW i \in Tcb, UnlockPend(i) PROVE Ownership'
  BY <1>15 DEF UnlockPend, At, Goto, kernelVars, syncVars, lockVars,
     frameVars, ceilVars, TypeFrame, TypeSync, GrantsOwned, UnlockingOwned,
     OwnedLocked, UndefinedFree, EndingHasNone
<1>16. ASSUME NEW i \in Tcb, EndEnter(i) PROVE Ownership'
  BY <1>16, ZenonT(60) DEF EndEnter, Enter, At, Goto, NoLock, NotEnding, kernelVars,
     syncVars, lockVars, frameVars, ceilVars, TypeFrame, TypeSync,
     GrantsOwned, UnlockingOwned, OwnedLocked, UndefinedFree, EndingHasNone
<1>17. ASSUME NEW i \in Tcb, EndUnlock(i) PROVE Ownership'
  <2>1. ending[i] # NotEnding /\ cs[i] = {}
    BY <1>17 DEF EndUnlock, At, FramesOK, EndingHasNone
  <2>2. PICK m \in Held(i) : lk' = [lk EXCEPT ![i] = m]
    BY <1>17 DEF EndUnlock
  <2>3. /\ pc' = [pc EXCEPT ![i] = "wake"]
        /\ UNCHANGED <<s, current_locker, num_defined_locks, cs, ending>>
    BY <1>17 DEF EndUnlock, Goto, kernelVars, syncVars, lockVars, ceilVars
  <2>4. GrantsOwned' /\ OwnedLocked' /\ UndefinedFree'
    BY <2>3 DEF GrantsOwned, OwnedLocked, UndefinedFree
  <2>5. UnlockingOwned'
    BY <2>1, <2>2, <2>3 DEF UnlockingOwned, Held, TypeFrame
  <2>6. EndingHasNone'
    BY <2>1, <2>3 DEF EndingHasNone, TypeFrame
  <2> QED
    BY <2>4, <2>5, <2>6
<1>18. ASSUME NEW i \in Tcb, EndDefunct(i) PROVE Ownership'
  BY <1>18, ZenonT(60) DEF EndDefunct, At, Goto, kernelVars, syncVars, lockVars,
     frameVars, ceilVars, TypeFrame, TypeSync, GrantsOwned, UnlockingOwned,
     OwnedLocked, UndefinedFree, EndingHasNone
<1>19. ASSUME NEW i \in Tcb, EndDec(i) PROVE Ownership'
  BY <1>19, ZenonT(60) DEF EndDec, At, Goto, kernelVars, syncVars, lockVars, frameVars,
     ceilVars, TypeFrame, TypeSync, GrantsOwned, UnlockingOwned,
     OwnedLocked, UndefinedFree, EndingHasNone
<1>20. ASSUME NEW i \in Tcb, EndPend(i) PROVE Ownership'
  BY <1>20, ZenonT(60) DEF EndPend, At, Goto, NotEnding, kernelVars, syncVars, lockVars,
     frameVars, ceilVars, TypeFrame, TypeSync, GrantsOwned, UnlockingOwned,
     OwnedLocked, UndefinedFree, EndingHasNone
<1>21. ASSUME NEW i \in Tcb, MemFault(i) PROVE Ownership'
  <2>1. /\ pc[i] = "user" /\ Opened(i, Held(i))
        /\ cs' = [cs EXCEPT ![i] = {}]
        /\ UNCHANGED <<pc, lk, ending, num_defined_locks>>
    BY <1>21 DEF MemFault, At, Open, Opened, ceilVars
  <2>2. \A m \in Locks : m \in Held(i) <=> current_locker[m] = i
    BY DEF Held
  <2>3. /\ s' = [m \in Locks |-> IF m \in Held(i) THEN 1 ELSE s[m]]
        /\ current_locker' = [m \in Locks |-> IF m \in Held(i) THEN Nobody ELSE current_locker[m]]
    BY <2>1 DEF Opened
  <2>4. GrantsOwned'
    BY <2>1, <2>2, <2>3 DEF GrantsOwned, TypeFrame
  <2>5. OwnedLocked' /\ UndefinedFree'
    BY <2>1, <2>2, <2>3 DEF OwnedLocked, UndefinedFree, Nobody, Tcb
  <2>6. UnlockingOwned'
    <3>1. ASSUME NEW j \in Tcb, pc[j] \in {"wake", "reset"}
          PROVE  current_locker'[lk[j]] = j /\ lk[j] \notin cs'[j]
      <4>1. /\ j # i /\ lk[j] \in Locks
            /\ current_locker[lk[j]] = j /\ lk[j] \notin cs[j]
        BY <2>1, <3>1 DEF UnlockingOwned, FramesOK
      <4> QED
        BY <2>1, <2>2, <2>3, <4>1 DEF TypeFrame
    <3> QED
      BY <2>1, <3>1 DEF UnlockingOwned
  <2>7. EndingHasNone'
    BY <2>1 DEF EndingHasNone, TypeFrame
  <2> QED
    BY <2>4, <2>5, <2>6, <2>7
<1>22. ASSUME NEW i \in Tcb, NEW tk \in TaskSet, DefineEnter(i, tk) PROVE Ownership'
  BY <1>22, ZenonT(60) DEF DefineEnter, Enter, At, Goto, kernelVars, syncVars, lockVars,
     frameVars, ceilVars, TypeFrame, TypeSync, GrantsOwned, UnlockingOwned,
     OwnedLocked, UndefinedFree, EndingHasNone
<1>23. ASSUME NEW i \in Tcb, DefineFill(i) PROVE Ownership'
  BY <1>23, ZenonT(60) DEF DefineFill, At, Goto, kernelVars, syncVars, lockVars,
     frameVars, ceilVars, TypeFrame, TypeSync, GrantsOwned, UnlockingOwned,
     OwnedLocked, UndefinedFree, EndingHasNone
<1>24. ASSUME NEW i \in Tcb, DefineFrames(i) PROVE Ownership'
  BY <1>24, ZenonT(60) DEF DefineFrames, At, NotEnding, NoLock, kernelVars, syncVars,
     lockVars, frameVars, ceilVars, TypeFrame, TypeSync, GrantsOwned,
     UnlockingOwned, OwnedLocked, UndefinedFree, EndingHasNone
<1>25. ASSUME NEW i \in Tcb, DefineCount(i) PROVE Ownership'
  BY <1>25, ZenonT(60) DEF DefineCount, At, Goto, kernelVars, syncVars, lockVars,
     frameVars, ceilVars, TypeFrame, TypeSync, GrantsOwned, UnlockingOwned,
     OwnedLocked, UndefinedFree, EndingHasNone
<1>26. ASSUME NEW i \in Tcb, OrderClear(i) PROVE Ownership'
  BY <1>26, ZenonT(60) DEF OrderClear, At, Goto, kernelVars, syncVars, lockVars,
     frameVars, ceilVars, TypeFrame, TypeSync, GrantsOwned, UnlockingOwned,
     OwnedLocked, UndefinedFree, EndingHasNone
<1>27. ASSUME NEW i \in Tcb, OrderAssign(i) PROVE Ownership'
  BY <1>27 DEF OrderAssign, At, Goto, kernelVars, syncVars, lockVars,
     frameVars, ceilVars, TypeFrame, TypeSync, GrantsOwned, UnlockingOwned,
     OwnedLocked, UndefinedFree, EndingHasNone
<1>28. ASSUME NEW i \in Tcb, OrderDone(i) PROVE Ownership'
  BY <1>28 DEF OrderDone, At, Goto, kernelVars, syncVars, lockVars,
     frameVars, ceilVars, TypeFrame, TypeSync, GrantsOwned, UnlockingOwned,
     OwnedLocked, UndefinedFree, EndingHasNone
<1>29. ASSUME StartRefused PROVE Ownership'
  BY <1>29 DEF StartRefused, kernelVars, syncVars, lockVars, frameVars,
     ceilVars, TypeFrame, TypeSync, GrantsOwned, UnlockingOwned,
     OwnedLocked, UndefinedFree, EndingHasNone
<1>30. ASSUME NEW bins \in Bins, StartEnter(bins) PROVE Ownership'
  BY <1>30 DEF StartEnter, Enter, At, Goto, kernelVars, syncVars, lockVars,
     frameVars, ceilVars, TypeFrame, TypeSync, GrantsOwned, UnlockingOwned,
     OwnedLocked, UndefinedFree, EndingHasNone
<1>31. ASSUME StartPend PROVE Ownership'
  BY <1>31 DEF StartPend, At, Goto, kernelVars, syncVars, lockVars,
     frameVars, ceilVars, TypeFrame, TypeSync, GrantsOwned, UnlockingOwned,
     OwnedLocked, UndefinedFree, EndingHasNone
<1>32. ASSUME StartJoin PROVE Ownership'
  BY <1>32 DEF StartJoin, At, Goto, kernelVars, syncVars, lockVars,
     frameVars, ceilVars, TypeFrame, TypeSync, GrantsOwned, UnlockingOwned,
     OwnedLocked, UndefinedFree, EndingHasNone
<1>33. ASSUME SysTick PROVE Ownership'
  BY <1>33 DEF SysTick, kernelVars, syncVars, lockVars, frameVars, ceilVars,
     TypeFrame, TypeSync, GrantsOwned, UnlockingOwned, OwnedLocked,
     UndefinedFree, EndingHasNone
<1>34. CASE UNCHANGED vars
  BY <1>34 DEF vars, kernelVars, syncVars, lockVars, frameVars, ceilVars, GrantsOwned, UnlockingOwned,
     OwnedLocked, UndefinedFree, EndingHasNone
<1> QED
  BY <1>1, <1>2, <1>3, <1>4, <1>5, <1>6, <1>7, <1>8, <1>9, <1>10, <1>11,
     <1>12, <1>13, <1>14, <1>15, <1>16, <1>17, <1>18, <1>19, <1>20, <1>21,
     <1>22, <1>23, <1>24, <1>25, <1>26, <1>27, <1>28, <1>29, <1>30, <1>31,
     <1>32, <1>33, <1>34, TaskSetAssumption DEF Next, Handler, Program,
     MainHandler, MainProgram, Tasks

\* No two threads are granted the same lock (MutualExclusion), for any number
\* of threads and locks and with ticks anywhere in the handlers.
THEOREM Exclusion == Spec => []MutualExclusion
<1>1. Init => LInv
  BY InitTInv, InitOwnership DEF LInv
<1>2. LInv /\ [Next]_vars => LInv'
  BY StepTInv, StepOwnership DEF LInv
<1>3. LInv => MutualExclusion
  BY Constants DEF LInv, Ownership, GrantsOwned, MutualExclusion
<1> QED
  BY <1>1, <1>2, <1>3, PTL DEF Spec

-----------------------------------------------------------------------------
(* The lock service. *)

\* A step acquires a lock for a thread, releases one or all of those that a
\* thread owns, or leaves the owners alone.
LEMMA StepService == LInv /\ [Next]_vars => [Abstract!Next]_current_locker
<1> SUFFICES ASSUME LInv, [Next]_vars PROVE Abstract!Next \/ UNCHANGED current_locker
  OBVIOUS
<1> USE Constants DEF LInv, TInv, TypeOK, Ownership
<1>1. ASSUME NEW id \in 0 .. WordMax, LockInit(id) PROVE UNCHANGED current_locker
  <2>1. num_defined_locks + 1 \in Locks
    BY <1>1 DEF LockInit, TypeKernel, Locks
  <2>2. current_locker[num_defined_locks + 1] = Nobody
    BY <2>1 DEF UndefinedFree, TypeKernel
  <2> QED
    BY <1>1, <2>1, <2>2 DEF LockInit, TypeSync
<1>2. ASSUME NEW i \in Tcb, LockAcquire(i) PROVE Abstract!Next
  <2>1. i \in User /\ lk[i] \in Locks /\ s[lk[i]] = 1
    BY <1>2 DEF LockAcquire, At, Granted, IsOpen, FramesOK
  <2>2. current_locker[lk[i]] = Nobody
    BY <2>1 DEF OwnedLocked
  <2>3. Abstract!Acquire(i, lk[i])
    BY <1>2, <2>2 DEF LockAcquire, Abstract!Acquire
  <2> QED
    BY <2>1, <2>3 DEF Abstract!Next
<1>3. ASSUME NEW i \in Tcb, UnlockReset(i) PROVE Abstract!Next
  <2>1. i \in User /\ lk[i] \in Locks /\ current_locker[lk[i]] = i
    BY <1>3 DEF UnlockReset, At, FramesOK, UnlockingOwned
  <2>2. lk[i] \in Abstract!Owned(i)
    BY <2>1 DEF Abstract!Owned
  <2>3. Abstract!Release(i, {lk[i]})
    BY <1>3 DEF UnlockReset, Open, Abstract!Release
  <2> QED
    BY <2>1, <2>2, <2>3 DEF Abstract!Next
<1>4. ASSUME NEW i \in Tcb, MemFault(i) PROVE Abstract!Next
  <2>1. Abstract!Owned(i) = Held(i)
    BY DEF Abstract!Owned, Held
  <2>2. i \in User /\ Abstract!Release(i, Abstract!Owned(i))
    BY <1>4, <2>1 DEF MemFault, Open, Abstract!Release
  <2> QED
    BY <2>2 DEF Abstract!Next
<1>5. ASSUME NEW i \in Tcb,
             Handler(i), ~LockAcquire(i), ~UnlockReset(i)
      PROVE  UNCHANGED current_locker
  BY <1>5 DEF Handler, Return, YieldPend, LockBlock, LockPend, UnlockWake, UnlockWoken,
     UnlockPend, EndUnlock, EndDefunct, EndDec, EndPend, DefineFill, DefineFrames,
     DefineCount, OrderClear, OrderAssign, OrderDone, syncVars, lockVars
<1>6. ASSUME NEW i \in Tcb, Program(i), ~MemFault(i)
      PROVE  UNCHANGED current_locker
  BY <1>6 DEF Program, Yield, SleepMs, Exit, LockEnter, UnlockEnter, EndEnter,
     DefineEnter, syncVars, lockVars
<1>7. ASSUME MainHandler \/ StartRefused \/ (\E bins \in Bins : StartEnter(bins)) \/ SysTick
      PROVE  UNCHANGED current_locker
  BY <1>7 DEF MainHandler, StartPend, StartJoin, StartRefused, StartEnter, SysTick,
     syncVars, lockVars
<1>8. CASE UNCHANGED vars
  BY <1>8 DEF vars, syncVars, lockVars
<1> QED
  BY <1>1, <1>2, <1>3, <1>4, <1>5, <1>6, <1>7, <1>8, TaskSetAssumption
     DEF Next, MainProgram, Tasks

\* lock, unlock and thread_end implement the lock service (LockRefinement),
\* for any number of threads and locks and with ticks anywhere.
THEOREM Refinement == Spec => LockRefinement
<1>1. Init => LInv /\ Abstract!Init
  BY InitTInv, InitOwnership DEF LInv, Init, Abstract!Init
<1>2. LInv /\ [Next]_vars => LInv'
  BY StepTInv, StepOwnership DEF LInv
<1>3. LInv /\ [Next]_vars => [Abstract!Next]_current_locker
  BY StepService
<1> QED
  BY <1>1, <1>2, <1>3, PTL DEF Spec, LockRefinement, Abstract!Spec

-----------------------------------------------------------------------------
(* The SVC-active bit. *)

\* No tick expires between the two pieces of thread_define that set up a slot:
\* multitask_init's priorities allow one there, but then the half-made context of
\* the slot could be scheduled.  It holds of every program in which only main
\* defines threads, since SysTick is off when it does.
DefineUninterrupted == TickAt \cap {"fill", "frames"} = {} \/ "define" \notin Calls

InSlot == {"fill", "frames"}
Starting == {"startPend", "join"}

\* j's saved bit is that of the point where it was switched out.
SavedBit(j) == svc_status[j] <=> pc[j] # "user"
\* j's context is not made yet.
HalfMade(j) == pc[active_thread_index] = "frames" /\ j = df[active_thread_index].slot

SvcInv ==
  /\ SvcBitFollows
  /\ \A j \in Tcb : j # active_thread_index => SavedBit(j) \/ HalfMade(j)
  /\ \A j \in Tcb : HalfMade(j) => ~svc_status[j]
  /\ \A j \in Tcb : pc[j] \in InSlot => j = active_thread_index /\ df[j].slot # j
  /\ state[active_thread_index] = "Defunct" => pc[active_thread_index] \in {"endDec", "endPend"}
  /\ systick_on => pc[Main] \in Starting
  /\ "define" \notin Calls => \A j \in Tcb : pc[j] \in InSlot => j = Main

\* Thread i goes on to l, with the bit that belongs there.
Moves(i, l) ==
  /\ pc' = [pc EXCEPT ![i] = l]
  /\ systick_on' => pc'[Main] \in Starting

\* A step that switches to n.
LEMMA SvcSwitch ==
  ASSUME TInv, SvcInv, NEW n \in Tcb, NEW st \in [Tcb -> States], SwitchTo(n, st),
         NEW l \in Labels, pc[active_thread_index] \notin InSlot, l \notin InSlot,
         Moves(active_thread_index, l),
         svc_active <=> l # "user"
  PROVE  SvcInv'
<1> USE DEF TInv, TypeOK, TypeSwitch, TypeFrame, InSlot
<1>1. /\ active_thread_index' = n /\ active_thread_index \in Tcb
      /\ state'[n] = "Running"
  BY DEF SwitchTo, States
<1>2. \A j \in Tcb : pc'[j] = IF j = active_thread_index THEN l ELSE pc[j]
  BY DEF Moves
<1>3. \A j \in Tcb : pc'[j] \notin InSlot /\ ~HalfMade(j)
  BY <1>2 DEF SvcInv, HalfMade
<1>4. CASE n = active_thread_index
  <2>1. UNCHANGED <<svc_active, svc_status>>
    BY <1>4 DEF SwitchTo
  <2>2. SvcBitFollows'
    BY <1>1, <1>2, <1>4, <2>1 DEF SvcBitFollows
  <2>3. \A j \in Tcb : j # n => SavedBit(j)'
    BY <1>1, <1>2, <1>3, <1>4, <2>1 DEF SavedBit, SvcInv
  <2> QED
    BY <1>1, <1>3, <2>2, <2>3 DEF SvcInv, HalfMade, Moves
<1>5. CASE n # active_thread_index
  <2>1. /\ svc_status' = [svc_status EXCEPT ![active_thread_index] = svc_active]
        /\ svc_active' = svc_status[n]
    BY <1>5 DEF SwitchTo, RestoredSvc
  <2>2. SvcBitFollows'
    BY <1>1, <1>2, <1>3, <1>5, <2>1 DEF SvcBitFollows, SvcInv, SavedBit
  <2>3. \A j \in Tcb : j # n => SavedBit(j)'
    BY <1>1, <1>2, <1>3, <1>5, <2>1 DEF SavedBit, SvcInv
  <2> QED
    BY <1>1, <1>3, <2>2, <2>3 DEF SvcInv, HalfMade, Moves
<1> QED
  BY <1>4, <1>5

\* A step of the active thread's that does not schedule.
LEMMA SvcStay ==
  ASSUME TInv, SvcInv, NEW l \in Labels, pc[active_thread_index] \notin InSlot, l \notin InSlot,
         UNCHANGED <<active_thread_index, svc_status>>,
         Moves(active_thread_index, l),
         svc_active' <=> l # "user",
         state'[active_thread_index] = "Defunct" => l \in {"endDec", "endPend"}
  PROVE  SvcInv'
<1> USE DEF TInv, TypeOK, TypeSwitch, TypeFrame, InSlot
<1>1. \A j \in Tcb : pc'[j] = IF j = active_thread_index THEN l ELSE pc[j]
  BY DEF Moves
<1>2. \A j \in Tcb : pc'[j] \notin InSlot /\ ~HalfMade(j)
  BY <1>1 DEF SvcInv, HalfMade
<1>3. SvcBitFollows'
  BY <1>1 DEF SvcBitFollows
<1>4. \A j \in Tcb : j # active_thread_index => SavedBit(j)'
  BY <1>1, <1>2 DEF SavedBit, SvcInv
<1> QED
  BY <1>1, <1>2, <1>3, <1>4 DEF SvcInv, HalfMade, Moves

LEMMA StepSvc ==
  ASSUME DefineUninterrupted, TInv, SvcInv, [Next]_vars
  PROVE  SvcInv'
<1> USE Constants DEF TInv, TypeOK, InSlot
<1> DEFINE a == active_thread_index
<1>0. /\ a \in Tcb /\ pc \in [Tcb -> Labels] /\ state \in [Tcb -> States]
      /\ svc_active \in BOOLEAN
      /\ systick_on => pc[Main] \in Starting
      /\ pc[a] # "user" => svc_active
      /\ state[a] = "Defunct" => pc[a] \in {"endDec", "endPend"}
  BY Zenon DEF TypeSwitch, TypeFrame, At, SvcInv, SvcBitFollows
\* Steps from which the active thread goes on in its handler.
<1>1. ASSUME NEW i \in Tcb,
             LockAcquire(i) \/ LockBlock(i) \/ UnlockWoken(i) \/ UnlockReset(i)
             \/ EndUnlock(i) \/ EndDefunct(i) \/ EndDec(i) \/ DefineCount(i) \/ OrderDone(i)
      PROVE  SvcInv'
  <2>1. /\ i = a /\ pc[i] \notin InSlot \cup Starting \cup {"user"}
        /\ UNCHANGED <<active_thread_index, svc_active, svc_status, systick_on>>
    BY <1>1 DEF LockAcquire, LockBlock, UnlockWoken, UnlockReset, EndUnlock, EndDefunct,
       EndDec, DefineCount, OrderDone, At, Running, kernelVars, timerVars, switchVars,
       Starting
  <2>2. PICK l \in {"ret", "lockPend", "reset", "unlockPend", "wake", "endDec", "endPend", "clear"} :
          /\ pc' = [pc EXCEPT ![i] = l]
          /\ state'[i] = "Defunct" => l \in {"endDec", "endPend"}
    BY <1>1, <1>0, <2>1 DEF LockAcquire, LockBlock, UnlockWoken, UnlockReset, EndUnlock, EndDefunct,
       EndDec, DefineCount, OrderDone, At, Goto, Running, switchVars, States
  <2>3. Moves(a, l)
    BY <1>0, <2>1, <2>2 DEF Moves
  <2>4. l \in Labels /\ l \notin InSlot /\ l # "user"
    BY <2>2 DEF Labels
  <2> QED
    BY <1>0, <2>1, <2>2, <2>3, <2>4, SvcStay
\* Steps of its program, and the return to it.
<1>2. ASSUME NEW i \in Tcb, Return(i) PROVE SvcInv'
  <2>1. /\ i = a /\ pc[i] = "ret" /\ pc' = [pc EXCEPT ![i] = "user"]
        /\ svc_active' = FALSE
        /\ UNCHANGED <<active_thread_index, svc_status, systick_on, state>>
    BY <1>2, Zenon DEF Return, At, Goto, kernelVars, timerVars
  <2>2. Moves(a, "user")
    BY <1>0, <2>1 DEF Moves, Starting
  <2> QED
    BY <1>0, <2>1, <2>2, SvcStay DEF Labels
<1>3. ASSUME NEW i \in Tcb,
             Yield(i) \/ SleepMs(i) \/ EndEnter(i)
             \/ (\E m \in Locks : LockEnter(i, m) \/ UnlockEnter(i, m))
      PROVE  SvcInv'
  <2>1. /\ i = a /\ pc[i] = "user" /\ svc_active' = TRUE
        /\ UNCHANGED <<active_thread_index, svc_status>>
        /\ systick_on' => systick_on
    BY <1>3 DEF Yield, SleepMs, EndEnter, LockEnter, UnlockEnter, Enter, At, Running,
       kernelVars, timerVars
  <2>2. /\ state'[i] # "Defunct"
        /\ \E l \in {"yieldPend", "ret", "end", "lock", "wake"} : pc' = [pc EXCEPT ![i] = l]
    BY <1>0, <1>3, <2>1 DEF Yield, Yielded, SleepMs, EndEnter, LockEnter, UnlockEnter, Enter, Goto,
       Running
  <2>3. PICK l \in {"yieldPend", "ret", "end", "lock", "wake"} : pc' = [pc EXCEPT ![i] = l]
    BY <2>2
  <2>4. Moves(a, l)
    BY <1>0, <2>1, <2>3 DEF Moves, Starting
  <2>5. l \in Labels /\ l \notin InSlot /\ l # "user"
    BY <2>3 DEF Labels
  <2> QED
    BY <1>0, <2>1, <2>2, <2>4, <2>5, SvcStay
<1>4. ASSUME NEW bins \in Bins, StartEnter(bins) PROVE SvcInv'
  <2>1. /\ a = Main /\ pc[Main] = "user" /\ svc_active' = TRUE
        /\ pc' = [pc EXCEPT ![Main] = "startPend"]
        /\ UNCHANGED <<active_thread_index, svc_status, state>>
    BY <1>4, Zenon DEF StartEnter, Enter, At, Goto, Running
  <2>2. Moves(a, "startPend")
    BY <1>0, <2>1 DEF Moves, Starting
  <2> QED
    BY <1>0, <2>1, <2>2, SvcStay DEF Labels
<1>5. ASSUME StartJoin PROVE SvcInv'
  <2>1. /\ a = Main /\ pc[Main] = "join" /\ ~systick_on'
        /\ pc' = [pc EXCEPT ![Main] = "ret"]
        /\ UNCHANGED <<active_thread_index, svc_active, svc_status, state>>
    BY <1>5, Zenon DEF StartJoin, At, Goto, switchVars
  <2>2. Moves(a, "ret")
    BY <1>0, <2>1 DEF Moves
  <2> QED
    BY <1>0, <2>1, <2>2, SvcStay DEF Labels
\* Steps that leave the thread where it is.
<1>6. ASSUME NEW i \in Tcb, UnlockWake(i) \/ OrderClear(i) \/ OrderAssign(i)
      PROVE  SvcInv'
  <2>1. /\ i = a /\ pc[i] \in {"wake", "clear", "assign"}
        /\ UNCHANGED <<active_thread_index, svc_active, svc_status, systick_on>>
        /\ state'[i] # "Defunct"
    BY <1>0, <1>6 DEF UnlockWake, OrderClear, OrderAssign, At, Running, kernelVars, timerVars,
       switchVars
  <2>2. PICK l \in {"wake", "clear", "assign"} : pc' = [pc EXCEPT ![i] = l]
    BY <1>0, <1>6 DEF UnlockWake, OrderClear, OrderAssign, At, Goto
  <2>3. Moves(a, l)
    BY <1>0, <2>1, <2>2 DEF Moves, Starting
  <2>4. l \in Labels /\ l \notin InSlot /\ l # "user"
    BY <2>2 DEF Labels
  <2> QED
    BY <1>0, <2>1, <2>3, <2>4, SvcStay
<1>7. ASSUME UNCHANGED <<active_thread_index, svc_active, svc_status, systick_on, state, pc, df>>
      PROVE  SvcInv'
  BY <1>7 DEF SvcInv, SvcBitFollows, SavedBit, HalfMade
\* Steps that schedule.
<1>8. ASSUME NEW i \in Tcb,
             YieldPend(i) \/ LockPend(i) \/ UnlockPend(i) \/ EndPend(i) \/ (i = Main /\ StartPend)
      PROVE  SvcInv'
  <2>1. /\ i = a /\ pc[i] \in {"yieldPend", "lockPend", "unlockPend", "endPend", "startPend"}
        /\ PendSV(state)
        /\ UNCHANGED systick_on
    BY <1>8 DEF YieldPend, LockPend, UnlockPend, EndPend, StartPend, At, kernelVars, timerVars
  <2>2. PICK n \in Tcb : SwitchTo(n, state)
    BY <2>1 DEF PendSV
  <2>3. PICK l \in {"ret", "lock", "end", "join"} :
          pc' = [pc EXCEPT ![i] = l] /\ (pc[i] = "startPend" => l = "join")
    BY <1>8 DEF YieldPend, LockPend, UnlockPend, EndPend, StartPend, At, Goto
  <2>4. Moves(a, l)
    BY <1>0, <2>1, <2>3 DEF Moves, Starting
  <2>5. l \in Labels /\ l \notin InSlot /\ l # "user" /\ svc_active
    BY <1>0, <2>1, <2>3 DEF Labels
  <2> QED
    BY <1>0, <2>1, <2>2, <2>4, <2>5, SvcSwitch
<1>9. ASSUME NEW i \in Tcb, MemFault(i) PROVE SvcInv'
  <2> DEFINE woken == UNION {{blocked_threads[m][k] : k \in DOMAIN blocked_threads[m]} :
                               m \in Held(i)}
             st    == [j \in Tcb |-> IF j = i THEN "Defunct"
                                     ELSE IF j \in woken THEN "Ready" ELSE state[j]]
  <2>1. i = a /\ pc[i] = "user" /\ UNCHANGED <<systick_on, pc>>
    BY <1>9, Zenon DEF MemFault, At, timerVars
  <2>2. st \in [Tcb -> States]
    BY <1>0 DEF States
  <2>3. PICK n \in Tcb : SwitchTo(n, st)
    BY <1>9, Zenon DEF MemFault
  <2>4. Moves(a, "user") /\ ~svc_active
    BY <1>0, <2>1 DEF Moves, SvcInv, SvcBitFollows
  <2> HIDE DEF st
  <2> QED
    BY <1>0, <2>1, <2>2, <2>3, <2>4, SvcSwitch DEF Labels
<1>10. ASSUME SysTick PROVE SvcInv'
  <2>1. UNCHANGED <<systick_on, pc, df>> /\ systick_on /\ pc[a] \in TickAt
    BY <1>10, Zenon DEF SysTick, frameVars
  <2>2. CASE timer_wrap_around # timer_wrap_comparison
    <3>1. UNCHANGED <<active_thread_index, svc_active, svc_status, state>>
      BY <1>10, <2>2, Zenon DEF SysTick, switchVars
    <3> QED
      BY <1>7, <2>1, <3>1
  <2>3. CASE timer_wrap_around = timer_wrap_comparison
    <3> DEFINE st == [i \in Tcb |-> IF i \in Released(ChargedState)
                                    THEN "Ready" ELSE ChargedState[i]]
    <3>1. PICK n \in Tcb : SwitchTo(n, st)
      BY <1>10, <2>3, Zenon DEF SysTick, PreemptPendSV
    <3>2. st \in [Tcb -> States]
      BY ChargedType DEF States
    <3>3. pc[a] \notin InSlot
      BY <1>0, <2>1 DEF SvcInv, DefineUninterrupted, Starting
    <3>4. Moves(a, pc[a]) /\ (svc_active <=> pc[a] # "user")
      BY <1>0, <2>1 DEF Moves, SvcInv, SvcBitFollows
    <3> HIDE DEF st
    <3> QED
      BY <1>0, <3>1, <3>2, <3>3, <3>4, SvcSwitch
  <2> QED
    BY <2>2, <2>3
\* thread_define sets up the slot.
<1>11. ASSUME NEW i \in Tcb, NEW tk \in TaskSet, DefineEnter(i, tk) PROVE SvcInv'
  <2>1. /\ i = a /\ pc[i] = "user" /\ pc' = [pc EXCEPT ![i] = "fill"]
        /\ svc_active' = TRUE
        /\ UNCHANGED <<active_thread_index, svc_status, systick_on, state>>
        /\ i = Main \/ "define" \in Calls
    BY <1>11, Zenon DEF DefineEnter, Enter, At, Goto, Running, kernelVars, timerVars
  <2>2. PICK slot \in Spare : df' = [df EXCEPT ![i] = [slot |-> slot, task |-> tk,
                                                      util |-> Util(tk) + total_utilization]]
    BY <1>11 DEF DefineEnter
  <2>3. df'[i].slot = slot /\ slot # i
    BY <1>0, <2>1, <2>2 DEF Spare, TypeFrame
  <2>4. \A j \in Tcb : pc'[j] = IF j = i THEN "fill" ELSE pc[j]
    BY <1>0, <2>1
  <2>5. \A j \in Tcb : pc[j] \notin InSlot
    BY <1>0, <2>1 DEF SvcInv
  <2>6. \A j \in Tcb : ~HalfMade(j) /\ ~HalfMade(j)'
    BY <2>1, <2>4, <2>5 DEF HalfMade
  <2>7. SvcBitFollows' /\ (systick_on' => pc'[Main] \in Starting)
    BY <1>0, <2>1, <2>4 DEF SvcBitFollows, Starting
  <2>8. \A j \in Tcb : j # a => SavedBit(j)'
    BY <2>1, <2>4, <2>6 DEF SavedBit, SvcInv
  <2> QED
    BY <1>0, <2>1, <2>3, <2>4, <2>5, <2>6, <2>7, <2>8 DEF SvcInv
<1>12. ASSUME NEW i \in Tcb, DefineFill(i) PROVE SvcInv'
  <2>1. /\ i = a /\ pc[i] = "fill" /\ pc' = [pc EXCEPT ![i] = "frames"]
        /\ UNCHANGED <<active_thread_index, svc_active, systick_on, df>>
        /\ svc_status' = [svc_status EXCEPT ![df[i].slot] = FALSE]
        /\ state' = [state EXCEPT ![df[i].slot] = "Ready"]
    BY <1>12, Zenon DEF DefineFill, At, Goto, timerVars, frameVars
  <2>2. df[i].slot \in Tcb /\ df[i].slot # i
    BY <2>1 DEF SvcInv, TypeFrame
  <2>3. \A j \in Tcb : pc'[j] = IF j = i THEN "frames" ELSE pc[j]
    BY <1>0, <2>1
  <2>4. \A j \in Tcb : ~HalfMade(j) /\ (HalfMade(j)' <=> j = df[i].slot)
    BY <1>0, <2>1, <2>3 DEF HalfMade
  <2>5. SvcBitFollows' /\ (systick_on' => pc'[Main] \in Starting)
    BY <1>0, <2>1, <2>3 DEF SvcBitFollows, SvcInv, Starting
  <2>6. \A j \in Tcb : j # a => SavedBit(j)' \/ HalfMade(j)'
    BY <2>1, <2>3, <2>4 DEF SavedBit, SvcInv, TypeSwitch
  <2>7. \A j \in Tcb : HalfMade(j)' => ~svc_status'[j]
    BY <2>1, <2>4 DEF TypeSwitch
  <2> QED
    BY <1>0, <2>1, <2>2, <2>3, <2>5, <2>6, <2>7 DEF SvcInv
<1>13. ASSUME NEW i \in Tcb, DefineFrames(i) PROVE SvcInv'
  <2> DEFINE slot == df[i].slot
  <2>1. /\ i = a /\ pc[i] = "frames"
        /\ pc' = [pc EXCEPT ![slot] = "user", ![i] = "count"]
        /\ UNCHANGED <<active_thread_index, svc_active, svc_status, systick_on, state>>
    BY <1>13, Zenon DEF DefineFrames, At, switchVars, kernelVars, timerVars
  <2>2. slot \in User /\ slot # i /\ HalfMade(slot)
    BY <2>1 DEF SvcInv, TypeFrame, HalfMade
  <2>3. \A j \in Tcb : pc'[j] = IF j = i THEN "count" ELSE IF j = slot THEN "user" ELSE pc[j]
    BY <1>0, <2>1, <2>2
  <2>4. \A j \in Tcb : pc'[j] \notin InSlot /\ ~HalfMade(j)'
    <3>1. \A j \in Tcb : j # i => pc[j] \notin InSlot
      BY <2>1 DEF SvcInv
    <3>2. pc'[i] = "count" /\ active_thread_index' = i
      BY <2>1, <2>3
    <3> QED
      BY <2>3, <3>1, <3>2 DEF HalfMade
  <2>5. SvcBitFollows' /\ (systick_on' => pc'[Main] \in Starting)
    BY <1>0, <2>1, <2>2, <2>3 DEF SvcBitFollows, SvcInv, Starting
  <2>6. \A j \in Tcb : j # a => SavedBit(j)'
    <3>1. ~svc_status[slot]
      BY <2>2, Constants DEF SvcInv
    <3>2. \A j \in Tcb : j # a /\ j # slot => SavedBit(j)
      BY <2>1 DEF SvcInv, HalfMade
    <3> QED
      BY <2>1, <2>2, <2>3, <3>1, <3>2 DEF SavedBit
  <2> QED
    BY <1>0, <2>1, <2>4, <2>5, <2>6 DEF SvcInv
<1>14. ASSUME StartRefused \/ (\E i \in Tcb : Exit(i)) \/ (\E id \in {tk.id : tk \in TaskSet} : LockInit(id)) \/ UNCHANGED vars
      PROVE  SvcInv'
  <2>1. UNCHANGED <<active_thread_index, svc_active, svc_status, systick_on, state, pc, df>>
    BY <1>14 DEF StartRefused, Exit, LockInit, vars, kernelVars, timerVars, switchVars, frameVars
  <2> QED
    BY <1>7, <2>1
<1>15. ASSUME NEW i \in Tcb, Handler(i) PROVE SvcInv'
  BY <1>1, <1>2, <1>6, <1>8, <1>12, <1>13, <1>15, Zenon DEF Handler
<1>16. ASSUME NEW i \in Tcb, Program(i) PROVE SvcInv'
  BY <1>3, <1>9, <1>11, <1>14, <1>16, Zenon DEF Program
<1>17. ASSUME MainHandler \/ MainProgram PROVE SvcInv'
  BY <1>4, <1>5, <1>8, <1>14, <1>17 DEF MainHandler, MainProgram
<1> QED
  BY <1>10, <1>14, <1>15, <1>16, <1>17, Zenon DEF Next

\* The SVC-active bit is that of the context that runs (SvcBitFollows), with ticks
\* at any other point of the handlers.
THEOREM SvcBit == ASSUME DefineUninterrupted PROVE Spec => []SvcBitFollows
<1>1. Init => TInv /\ SvcInv
  <2> SUFFICES ASSUME Init PROVE SvcInv
    BY InitTInv
  <2> QED
    BY Constants DEF Init, SvcInv, SvcBitFollows, SavedBit, HalfMade, InSlot
<1>2. TInv /\ SvcInv /\ [Next]_vars => (TInv /\ SvcInv)'
  BY StepTInv, StepSvc
<1>3. SvcInv => SvcBitFollows
  BY DEF SvcInv
<1> QED
  BY <1>1, <1>2, <1>3, PTL DEF Spec
=============================================================================
