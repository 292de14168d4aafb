-------------------------- MODULE SchedulingProofs --------------------------
(***************************************************************************)
(* Proofs about the scheduler and the priority ceiling protocol of         *)
(* Multitask: the counts, the priorities and the budgets of the threads,   *)
(* the ceilings and the queues of the locks, the absence of deadlock, and  *)
(* the response times.                                                     *)
(*                                                                         *)
(* The kernel masks SysTick in none of its handlers.  Each theorem names   *)
(* the pieces of handler that must not be interrupted for it to hold, and  *)
(* what else it needs of the programs; where it names no such piece it     *)
(* holds wherever the ticks come.                                          *)
(*                                                                         *)
(* The invariant behind the theorems about locks is Ceiling: Ownership of  *)
(* MultitaskProofs, the counts (CountInv), where the threads are that wait *)
(* (Waiting), and the state of the locks (Resources), whose parts are that *)
(* the system ceiling is exact, that the owners are nested - each is above *)
(* all that the less urgent hold - and that a listed thread is refused for *)
(* as long as it is listed.                                                *)
(***************************************************************************)
EXTENDS MultitaskProofs, FiniteSetTheorems

-----------------------------------------------------------------------------
(* The hypotheses. *)

\* The pieces of thread_define and those of thread_end, from the label Defunct on,
\* between which the thread table, the counts and the priorities do not agree.
Critical == {"fill", "frames", "count", "clear", "assign", "endDec", "endPend"}
Defining == {"fill", "frames", "count", "clear", "assign"}
Ending   == {"endDec", "endPend"}

\* The loop of lock.
Loop == {"lock", "lockPend"}

\* The kernel is started with frequency 0, the cooperative scheduler: no tick ever comes.
Cooperative == Bins \subseteq {0}

\* Only main defines threads.
FixedTasks == "define" \notin Calls

\* No tick expires in a critical piece, or in the wake-up loop of unlock.  (The kernel
\* masks none there; the cooperative scheduler has none.  Where only main defines
\* threads, SysTick is off while it does, so that nothing need be assumed about
\* thread_define.)
CriticalUninterrupted == \/ Cooperative
                         \/ /\ TickAt \cap Ending = {}
                            /\ FixedTasks \/ TickAt \cap Defining = {}
UnlockUninterrupted   == Cooperative \/ TickAt \cap {"wake", "reset"} = {}

\* No tick expires between the label of a thread that yields, or the start, and the switch.
SwitchUninterrupted   == TickAt \cap {"yieldPend", "startPend"} = {}

\* The programs take no locks.
NoLocking == "lock" \notin Calls

\* A task of which period and id are both 0xFFFFFFFF cannot be told from none by
\* order_absolute_priorities.
NoSentinel == \A tk \in TaskSet : tk.t < Lowest \/ tk.id < Lowest

-----------------------------------------------------------------------------
(* Where the executing thread is, and the slot that it defines. *)

Here == pc[active_thread_index]
Slot == df[active_thread_index].slot

-----------------------------------------------------------------------------
(* Which thread a step moves. *)

Unmoved(j) ==
  /\ pc'[j] = pc[j] /\ lk'[j] = lk[j] /\ wi'[j] = wi[j]
  /\ ending'[j] = ending[j] /\ df'[j] = df[j] /\ cs'[j] = cs[j]

\* The threads that do not execute stay where they are, but for the one whose
\* context thread_define makes.
LEMMA OthersUnmoved ==
  ASSUME TInv, [Next]_vars, NEW j \in Tcb, j # active_thread_index
  PROVE  Unmoved(j) \/ (Here = "frames" /\ j = Slot)
<1> USE Constants DEF TInv, TypeOK, TypeFrame, Unmoved
<1>1. ASSUME NEW i \in Tcb, Return(i) PROVE Unmoved(j)
  BY <1>1 DEF Return, At, Goto, frameVars
<1>2. ASSUME NEW i \in Tcb, YieldPend(i) PROVE Unmoved(j)
  BY <1>2 DEF YieldPend, At, Goto, frameVars
<1>3. ASSUME NEW i \in Tcb, LockAcquire(i) PROVE Unmoved(j)
  BY <1>3 DEF LockAcquire, At, Goto, frameVars
<1>4. ASSUME NEW i \in Tcb, LockBlock(i) PROVE Unmoved(j)
  BY <1>4 DEF LockBlock, At, Goto, frameVars
<1>5. ASSUME NEW i \in Tcb, LockPend(i) PROVE Unmoved(j)
  BY <1>5 DEF LockPend, At, Goto, frameVars
<1>6. ASSUME NEW i \in Tcb, UnlockWake(i) PROVE Unmoved(j)
  BY <1>6 DEF UnlockWake, At, Running, frameVars
<1>7. ASSUME NEW i \in Tcb, UnlockWoken(i) PROVE Unmoved(j)
  BY <1>7 DEF UnlockWoken, At, Goto, frameVars
<1>8. ASSUME NEW i \in Tcb, UnlockReset(i) PROVE Unmoved(j)
  BY <1>8 DEF UnlockReset, At, Goto, frameVars
<1>9. ASSUME NEW i \in Tcb, UnlockPend(i) PROVE Unmoved(j)
  BY <1>9 DEF UnlockPend, At, Goto, frameVars
<1>10. ASSUME NEW i \in Tcb, EndUnlock(i) PROVE Unmoved(j)
  BY <1>10 DEF EndUnlock, At, Goto, frameVars
<1>11. ASSUME NEW i \in Tcb, EndDefunct(i) PROVE Unmoved(j)
  BY <1>11 DEF EndDefunct, At, Goto, Running, frameVars
<1>12. ASSUME NEW i \in Tcb, EndDec(i) PROVE Unmoved(j)
  BY <1>12 DEF EndDec, At, Goto, frameVars
<1>13. ASSUME NEW i \in Tcb, EndPend(i) PROVE Unmoved(j)
  BY <1>13 DEF EndPend, At, Goto, frameVars
<1>14. ASSUME NEW i \in Tcb, DefineFill(i) PROVE Unmoved(j)
  BY <1>14 DEF DefineFill, At, Goto, frameVars
<1>15. ASSUME NEW i \in Tcb, DefineFrames(i) PROVE Unmoved(j) \/ (Here = "frames" /\ j = Slot)
  BY <1>15 DEF DefineFrames, At, Here, Slot
<1>16. ASSUME NEW i \in Tcb, DefineCount(i) PROVE Unmoved(j)
  BY <1>16 DEF DefineCount, At, Goto, frameVars
<1>17. ASSUME NEW i \in Tcb, OrderClear(i) PROVE Unmoved(j)
  BY <1>17 DEF OrderClear, At, Goto, frameVars
<1>18. ASSUME NEW i \in Tcb, OrderAssign(i) PROVE Unmoved(j)
  BY <1>18 DEF OrderAssign, At, frameVars
<1>19. ASSUME NEW i \in Tcb, OrderDone(i) PROVE Unmoved(j)
  BY <1>19 DEF OrderDone, At, Goto, frameVars
<1>20. ASSUME NEW i \in Tcb, Yield(i) PROVE Unmoved(j)
  BY <1>20 DEF Yield, Yielded, Enter, At, Goto, Running, frameVars
<1>21. ASSUME NEW i \in Tcb, SleepMs(i) PROVE Unmoved(j)
  BY <1>21 DEF SleepMs, Enter, At, Goto, Running, frameVars
<1>22. ASSUME NEW i \in Tcb, Exit(i) PROVE Unmoved(j)
  BY <1>22 DEF Exit, At, frameVars
<1>23. ASSUME NEW i \in Tcb, NEW m \in Locks, LockEnter(i, m) PROVE Unmoved(j)
  BY <1>23 DEF LockEnter, Enter, At, Goto, Running, frameVars
<1>24. ASSUME NEW i \in Tcb, NEW m \in Locks, UnlockEnter(i, m) PROVE Unmoved(j)
  BY <1>24 DEF UnlockEnter, Enter, At, Goto, Running, frameVars
<1>25. ASSUME NEW i \in Tcb, EndEnter(i) PROVE Unmoved(j)
  BY <1>25 DEF EndEnter, Enter, At, Goto, Running, frameVars
<1>26. ASSUME NEW i \in Tcb, MemFault(i) PROVE Unmoved(j)
  BY <1>26 DEF MemFault, At, frameVars
<1>27. ASSUME NEW i \in Tcb, NEW tk \in TaskSet, DefineEnter(i, tk) PROVE Unmoved(j)
  BY <1>27 DEF DefineEnter, Enter, At, Goto, Running, frameVars
<1>28. ASSUME StartPend PROVE Unmoved(j)
  BY <1>28 DEF StartPend, At, Goto, frameVars
<1>29. ASSUME StartJoin PROVE Unmoved(j)
  BY <1>29 DEF StartJoin, At, Goto, frameVars
<1>30. ASSUME NEW id \in {tk.id : tk \in TaskSet}, LockInit(id) PROVE Unmoved(j)
  BY <1>30 DEF LockInit, At, frameVars
<1>31. ASSUME StartRefused PROVE Unmoved(j)
  BY <1>31 DEF StartRefused, At, frameVars
<1>32. ASSUME NEW bins \in Bins, StartEnter(bins) PROVE Unmoved(j)
  BY <1>32 DEF StartEnter, Enter, At, Goto, Running, frameVars
<1>33. ASSUME SysTick PROVE Unmoved(j)
  BY <1>33 DEF SysTick, frameVars
<1>34. CASE UNCHANGED vars
  BY <1>34 DEF vars, frameVars
<1> QED
  BY <1>1, <1>2, <1>3, <1>4, <1>5, <1>6, <1>7, <1>8, <1>9, <1>10, <1>11, <1>12, <1>13,
     <1>14, <1>15, <1>16, <1>17, <1>18, <1>19, <1>20, <1>21, <1>22, <1>23, <1>24,
     <1>25, <1>26, <1>27, <1>28, <1>29, <1>30, <1>31, <1>32, <1>33, <1>34 DEF Next,
     Handler, Program, MainHandler, MainProgram

-----------------------------------------------------------------------------
(* Phases: where the threads are that do not execute. *)

Phases ==
  /\ \A i \in Tcb : i # active_thread_index => pc[i] \notin Critical
  /\ \A i \in Tcb : pc[i] \in Starting => i = Main
  /\ pc[Main] # "yieldPend"
  /\ active_thread_index # Main => pc[Main] \in Starting
  /\ systick_on => pc[Main] \in Starting /\ ~(Bins \subseteq {0})
  /\ state[active_thread_index] = "Defunct" <=> Here \in {"endDec", "endPend"}
  /\ Here \in InSlot => Slot # active_thread_index
  /\ Here = "fill" => state[Slot] = "Defunct"
  /\ Here = "frames" => state[Slot] # "Defunct"
  /\ FixedTasks => \A i \in Tcb :
       pc[i] \in {"fill", "frames", "count", "clear", "assign"} => i = Main

\* They hold initially.
LEMMA InitPhases == Init => Phases
BY Constants DEF Init, Phases, Here, Slot, Critical, Starting, InSlot

\* No tick falls into a critical piece.
LEMMA NoTickInCritical ==
  ASSUME CriticalUninterrupted, TInv, Phases, systick_on, Here \in TickAt
  PROVE  Here \notin Critical
<1>0. TickAt \cap Ending = {} /\ (FixedTasks \/ TickAt \cap Defining = {})
  BY DEF CriticalUninterrupted, Cooperative, Phases
<1>1. CASE TickAt \cap Defining = {}
  BY <1>0, <1>1 DEF Critical, Defining, Ending
<1>2. CASE FixedTasks
  <2>1. Here \in Defining => active_thread_index = Main
    BY <1>2 DEF Phases, Here, Defining, TInv, TypeOK, TypeSwitch
  <2>2. pc[Main] \in Starting
    BY DEF Phases
  <2> QED
    BY <1>0, <2>1, <2>2 DEF Critical, Defining, Ending, Starting, Here
<1> QED
  BY <1>0, <1>1, <1>2

\* A switch from l to n.
LEMMA PhasesSwitch ==
  ASSUME TInv, Phases, NEW n \in Tcb, NEW st \in [Tcb -> States], SwitchTo(n, st),
         NEW l \in Labels, l \notin Critical, (l = "yieldPend" => active_thread_index # Main),
         pc' = [pc EXCEPT ![active_thread_index] = l], UNCHANGED systick_on,
         active_thread_index = Main <=> l \in Starting
  PROVE  Phases'
<1> USE Constants DEF TInv, TypeOK, TypeFrame, TypeSwitch
<1>1. /\ active_thread_index' = n
      /\ state'[n] = "Running"
  BY DEF SwitchTo, States
<1>2. \A j \in Tcb : pc'[j] = IF j = active_thread_index THEN l ELSE pc[j]
  OBVIOUS
<1>3. \A j \in Tcb : pc'[j] \notin Critical
  BY <1>2 DEF Phases
<1>4. (\A j \in Tcb : pc'[j] \in Starting => j = Main) /\ pc'[Main] \in Starting
      /\ pc'[Main] # "yieldPend"
  BY <1>2 DEF Phases, Starting
<1> QED
  BY <1>1, <1>3, <1>4 DEF Phases, Here, Slot, Critical, InSlot

\* Every step keeps them.
LEMMA StepPhases ==
  ASSUME CriticalUninterrupted, TInv, Phases, [Next]_vars
  PROVE  Phases'
<1> USE Constants DEF TInv, TypeOK, TypeFrame, TypeSwitch
<1>1. ASSUME NEW i \in Tcb, Return(i) PROVE Phases'
  BY <1>1 DEF Return, At, Goto, Phases, Here, Slot, Critical, Starting, InSlot,
     kernelVars, timerVars, switchVars, frameVars, States, FixedTasks
<1>2. ASSUME NEW i \in Tcb, YieldPend(i) PROVE Phases'
  <2>1. PICK n \in Tcb : SwitchTo(n, state)
    BY <1>2 DEF YieldPend, PendSV
  <2>2. /\ active_thread_index = i /\ pc[i] \notin Critical \cup Starting
        /\ pc' = [pc EXCEPT ![i] = "ret"] /\ UNCHANGED systick_on /\ i # Main
    BY <1>2 DEF YieldPend, At, Goto, kernelVars, timerVars, FramesOK, Critical,
       Starting, Phases
  <2> QED
    BY <2>1, <2>2, PhasesSwitch DEF Labels, Critical, Starting
<1>3. ASSUME NEW i \in Tcb, LockAcquire(i) PROVE Phases'
  BY <1>3 DEF LockAcquire, At, Goto, Phases, Here, Slot, Critical, Starting, InSlot,
     kernelVars, timerVars, switchVars, frameVars, States, FixedTasks
<1>4. ASSUME NEW i \in Tcb, LockBlock(i) PROVE Phases'
  BY <1>4 DEF LockBlock, At, Goto, Phases, Here, Slot, Critical, Starting, InSlot,
     kernelVars, timerVars, switchVars, frameVars, States, FixedTasks
<1>5. ASSUME NEW i \in Tcb, LockPend(i) PROVE Phases'
  <2>1. PICK n \in Tcb : SwitchTo(n, state)
    BY <1>5 DEF LockPend, PendSV
  <2>2. /\ active_thread_index = i /\ pc[i] \notin Critical \cup Starting
        /\ pc' = [pc EXCEPT ![i] = "lock"] /\ UNCHANGED systick_on /\ i # Main
    BY <1>5 DEF LockPend, At, Goto, kernelVars, timerVars, FramesOK, Critical, Starting,
       Phases
  <2> QED
    BY <2>1, <2>2, PhasesSwitch DEF Labels, Critical, Starting
<1>6. ASSUME NEW i \in Tcb, UnlockWake(i) PROVE Phases'
  BY <1>6 DEF UnlockWake, At, Running, Phases, Here, Slot, Critical, Starting, InSlot,
     kernelVars, timerVars, switchVars, frameVars, States, FixedTasks
<1>7. ASSUME NEW i \in Tcb, UnlockWoken(i) PROVE Phases'
  BY <1>7 DEF UnlockWoken, At, Goto, Phases, Here, Slot, Critical, Starting, InSlot,
     kernelVars, timerVars, switchVars, frameVars, States, FixedTasks
<1>8. ASSUME NEW i \in Tcb, UnlockReset(i) PROVE Phases'
  BY <1>8 DEF UnlockReset, At, Goto, Phases, Here, Slot, Critical, Starting, InSlot,
     kernelVars, timerVars, switchVars, frameVars, States, FixedTasks
<1>9. ASSUME NEW i \in Tcb, UnlockPend(i) PROVE Phases'
  <2>1. PICK n \in Tcb : SwitchTo(n, state)
    BY <1>9 DEF UnlockPend, PendSV
  <2>2. /\ active_thread_index = i /\ pc[i] \notin Critical \cup Starting
        /\ pc' = [pc EXCEPT ![i] = (IF ending[i] = NotEnding THEN "ret" ELSE "end")]
        /\ UNCHANGED systick_on /\ i # Main
    BY <1>9 DEF UnlockPend, At, Goto, kernelVars, timerVars, FramesOK, Critical,
       Starting, Phases
  <2> QED
    BY <2>1, <2>2, PhasesSwitch DEF Labels, Critical, Starting
<1>10. ASSUME NEW i \in Tcb, EndUnlock(i) PROVE Phases'
  BY <1>10 DEF EndUnlock, At, Goto, Phases, Here, Slot, Critical, Starting, InSlot,
     kernelVars, timerVars, switchVars, frameVars, States, FixedTasks
<1>11. ASSUME NEW i \in Tcb, EndDefunct(i) PROVE Phases'
  BY <1>11 DEF EndDefunct, At, Goto, Running, Phases, Here, Slot, Critical, Starting,
     InSlot, kernelVars, timerVars, switchVars, frameVars, States, FixedTasks
<1>12. ASSUME NEW i \in Tcb, EndDec(i) PROVE Phases'
  BY <1>12 DEF EndDec, At, Goto, Phases, Here, Slot, Critical, Starting, InSlot,
     kernelVars, timerVars, switchVars, frameVars, States, FixedTasks
<1>13. ASSUME NEW i \in Tcb, EndPend(i) PROVE Phases'
  <2>1. PICK n \in Tcb : SwitchTo(n, state)
    BY <1>13 DEF EndPend, PendSV
  <2>2. /\ active_thread_index = i
        /\ pc' = [pc EXCEPT ![i] = (IF ending[i] = NoLock THEN "ret" ELSE "lock")]
        /\ UNCHANGED systick_on /\ i # Main
    BY <1>13 DEF EndPend, At, Goto, kernelVars, timerVars, FramesOK, Critical, Starting,
       Phases
  <2> QED
    BY <2>1, <2>2, PhasesSwitch DEF Labels, Critical, Starting
<1>14. ASSUME NEW i \in Tcb, DefineFill(i) PROVE Phases'
  BY <1>14 DEF DefineFill, At, Goto, Phases, Here, Slot, Critical, Starting, InSlot,
     kernelVars, timerVars, switchVars, frameVars, States, FixedTasks
<1>15. ASSUME NEW i \in Tcb, DefineFrames(i) PROVE Phases'
  BY <1>15 DEF DefineFrames, At, Phases, Here, Slot, Critical, Starting, InSlot,
     kernelVars, timerVars, switchVars, frameVars, States, FixedTasks
<1>16. ASSUME NEW i \in Tcb, DefineCount(i) PROVE Phases'
  BY <1>16 DEF DefineCount, At, Goto, Phases, Here, Slot, Critical, Starting, InSlot,
     kernelVars, timerVars, switchVars, frameVars, States, FixedTasks
<1>17. ASSUME NEW i \in Tcb, OrderClear(i) PROVE Phases'
  BY <1>17 DEF OrderClear, At, Goto, Phases, Here, Slot, Critical, Starting, InSlot,
     kernelVars, timerVars, switchVars, frameVars, States, FixedTasks
<1>18. ASSUME NEW i \in Tcb, OrderAssign(i) PROVE Phases'
  BY <1>18 DEF OrderAssign, At, Phases, Here, Slot, Critical, Starting, InSlot,
     kernelVars, timerVars, switchVars, frameVars, States, FixedTasks
<1>19. ASSUME NEW i \in Tcb, OrderDone(i) PROVE Phases'
  BY <1>19 DEF OrderDone, At, Goto, Phases, Here, Slot, Critical, Starting, InSlot,
     kernelVars, timerVars, switchVars, frameVars, States, FixedTasks
<1>20. ASSUME NEW i \in Tcb, Yield(i) PROVE Phases'
  BY <1>20 DEF Yield, Yielded, Enter, At, Goto, Running, Phases, Here, Slot, Critical,
     Starting, InSlot, kernelVars, timerVars, switchVars, frameVars, States, FixedTasks
<1>21. ASSUME NEW i \in Tcb, SleepMs(i) PROVE Phases'
  BY <1>21 DEF SleepMs, Enter, At, Goto, Running, Phases, Here, Slot, Critical,
     Starting, InSlot, kernelVars, timerVars, switchVars, frameVars, States, FixedTasks
<1>22. ASSUME NEW i \in Tcb, Exit(i) PROVE Phases'
  BY <1>22 DEF Exit, At, Phases, Here, Slot, Critical, Starting, InSlot, kernelVars,
     timerVars, switchVars, frameVars, States, FixedTasks
<1>23. ASSUME NEW i \in Tcb, NEW m \in Locks, LockEnter(i, m) PROVE Phases'
  BY <1>23 DEF LockEnter, Enter, At, Goto, Running, Phases, Here, Slot, Critical,
     Starting, InSlot, kernelVars, timerVars, switchVars, frameVars, States, FixedTasks
<1>24. ASSUME NEW i \in Tcb, NEW m \in Locks, UnlockEnter(i, m) PROVE Phases'
  BY <1>24 DEF UnlockEnter, Enter, At, Goto, Running, Phases, Here, Slot, Critical,
     Starting, InSlot, kernelVars, timerVars, switchVars, frameVars, States, FixedTasks
<1>25. ASSUME NEW i \in Tcb, EndEnter(i) PROVE Phases'
  BY <1>25 DEF EndEnter, Enter, At, Goto, Running, Phases, Here, Slot, Critical,
     Starting, InSlot, kernelVars, timerVars, switchVars, frameVars, States, FixedTasks
<1>26. ASSUME NEW i \in Tcb, MemFault(i) PROVE Phases'
  <2> DEFINE woken == UNION {{blocked_threads[m][k] : k \in DOMAIN blocked_threads[m]} :
                               m \in Held(i)}
             st    == [j \in Tcb |-> IF j = i THEN "Defunct"
                                     ELSE IF j \in woken THEN "Ready" ELSE state[j]]
  <2>1. PICK n \in Tcb : SwitchTo(n, st)
    BY <1>26, Zenon DEF MemFault
  <2>2. st \in [Tcb -> States]
    BY DEF States
  <2>3. /\ active_thread_index = i /\ pc[i] = "user" /\ i # Main
        /\ pc' = [pc EXCEPT ![i] = "user"] /\ UNCHANGED systick_on
    BY <1>26 DEF MemFault, At, timerVars
  <2> HIDE DEF st
  <2> QED
    BY <2>1, <2>2, <2>3, PhasesSwitch DEF Labels, Critical, Starting
<1>27. ASSUME NEW i \in Tcb, NEW tk \in TaskSet, DefineEnter(i, tk) PROVE Phases'
  <2>1. /\ active_thread_index = i /\ pc[i] = "user" /\ pc' = [pc EXCEPT ![i] = "fill"]
        /\ UNCHANGED <<active_thread_index, systick_on, state>>
        /\ i = Main \/ ~FixedTasks
    BY <1>27, Zenon DEF DefineEnter, Enter, At, Goto, Running, kernelVars, timerVars,
       FixedTasks
  <2>2. PICK slot \in Spare : df' = [df EXCEPT ![i] = [slot |-> slot, task |-> tk,
                                                      util |-> Util(tk) + total_utilization]]
    BY <1>27 DEF DefineEnter
  <2>3. df'[i].slot = slot /\ slot # i /\ state[slot] = "Defunct"
    BY <2>1, <2>2 DEF Spare, Phases, Here
  <2> QED
    BY <2>1, <2>3 DEF Phases, Here, Slot, Critical, Starting, InSlot
<1>28. ASSUME StartPend PROVE Phases'
  <2>1. PICK n \in Tcb : SwitchTo(n, state)
    BY <1>28 DEF StartPend, PendSV
  <2>2. /\ active_thread_index = Main
        /\ pc' = [pc EXCEPT ![Main] = "join"] /\ UNCHANGED systick_on
    BY <1>28 DEF StartPend, At, Goto, kernelVars, timerVars
  <2> QED
    BY <2>1, <2>2, PhasesSwitch DEF Labels, Critical, Starting
<1>29. ASSUME StartJoin PROVE Phases'
  BY <1>29 DEF StartJoin, At, Goto, Phases, Here, Slot, Critical, Starting, InSlot,
     kernelVars, timerVars, switchVars, frameVars, States, FixedTasks
<1>30. ASSUME NEW id \in {tk.id : tk \in TaskSet}, LockInit(id) PROVE Phases'
  BY <1>30 DEF LockInit, At, Phases, Here, Slot, Critical, Starting, InSlot,
     kernelVars, timerVars, switchVars, frameVars, States, FixedTasks
<1>31. ASSUME StartRefused PROVE Phases'
  BY <1>31 DEF StartRefused, At, Phases, Here, Slot, Critical, Starting, InSlot,
     kernelVars, timerVars, switchVars, frameVars, States, FixedTasks
<1>32. ASSUME NEW bins \in Bins, StartEnter(bins) PROVE Phases'
  BY <1>32 DEF StartEnter, Enter, At, Goto, Running, Phases, Here, Slot, Critical,
     Starting, InSlot, kernelVars, timerVars, switchVars, frameVars, States, FixedTasks
<1>33. ASSUME SysTick PROVE Phases'
  <2>1. UNCHANGED <<systick_on, pc, df>> /\ systick_on /\ Here \notin Critical
    BY <1>33, NoTickInCritical DEF SysTick, frameVars, Here
  <2>2. CASE timer_wrap_around # timer_wrap_comparison
    BY <1>33, <2>1, <2>2 DEF SysTick, switchVars, Phases, Here, Slot
  <2>3. CASE timer_wrap_around = timer_wrap_comparison
    <3> DEFINE st == [i \in Tcb |-> IF i \in Released(ChargedState)
                                    THEN "Ready" ELSE ChargedState[i]]
    <3>1. PICK n \in Tcb : SwitchTo(n, st)
      BY <1>33, <2>3, Zenon DEF SysTick, PreemptPendSV
    <3>2. st \in [Tcb -> States]
      BY ChargedType DEF States
    <3>3. /\ pc' = [pc EXCEPT ![active_thread_index] = Here] /\ Here \in Labels
          /\ active_thread_index = Main <=> Here \in Starting
          /\ Here = "yieldPend" => active_thread_index # Main
      BY <2>1 DEF Here, Phases
    <3> HIDE DEF st
    <3> QED
      BY <2>1, <3>1, <3>2, <3>3, PhasesSwitch
  <2> QED
    BY <2>2, <2>3
<1>34. CASE UNCHANGED vars
  BY <1>34 DEF vars, kernelVars, timerVars, admitVars, tcbVars, ceilVars, syncVars,
     lockVars, switchVars, frameVars, Phases, Here, Slot, Critical, Starting, InSlot,
     kernelVars, timerVars, switchVars, frameVars, States, FixedTasks
<1> QED
  BY <1>1, <1>2, <1>3, <1>4, <1>5, <1>6, <1>7, <1>8, <1>9, <1>10, <1>11, <1>12, <1>13,
     <1>14, <1>15, <1>16, <1>17, <1>18, <1>19, <1>20, <1>21, <1>22, <1>23, <1>24,
     <1>25, <1>26, <1>27, <1>28, <1>29, <1>30, <1>31, <1>32, <1>33, <1>34 DEF Next,
     Handler, Program, MainHandler, MainProgram

-----------------------------------------------------------------------------
(* The number of live threads. *)

Listed(i, m) == i \in Elements(blocked_threads[m])

\* No thread that has ended is on a list, so that no unlock makes it Ready again.
ListedLive == \A i \in User, m \in Locks : Listed(i, m) => state[i] # "Defunct"

\* The members of a list are threads.
LEMMA ListedUser == \A q \in Seq(User) : \A k \in DOMAIN q : q[k] \in User
OBVIOUS

\* The scheduler does not run a thread that has ended.
LEMMA NextLive ==
  ASSUME NEW n \in Tcb, NEW st \in [Tcb -> States], NEW k, IsNext(n, st, k)
  PROVE  n \in User => st[n] = "Ready"
BY Constants DEF IsNext, Eligible

\* After a switch the live threads are those of st.
LEMMA SwitchLive ==
  ASSUME NEW n \in Tcb, NEW st \in [Tcb -> States], NEW k, IsNext(n, st, k), SwitchTo(n, st)
  PROVE  Live' = {i \in User : st[i] # "Defunct"}
<1>1. \A i \in Tcb : state'[i] = IF i = n THEN "Running" ELSE st[i]
  BY DEF SwitchTo
<1> QED
  BY <1>1, NextLive, Constants DEF Live

\* The live threads are the same after a step, but for thread_define's new one,
\* and the one that ends.
SameLive  == Live' = Live /\ ~(Here = "fill" /\ Here' = "frames")
NewLive   == /\ Here = "fill" /\ Here' = "frames" /\ UNCHANGED num_active_threads
             /\ Slot \in User /\ Live' = Live \cup {Slot} /\ Slot \notin Live
EndedLive == /\ active_thread_index \in Live /\ Live' = Live \ {active_thread_index}

\* The MemFault ends the thread that executes, which was live.
LEMMA MemFaultLive ==
  ASSUME TInv, Phases, ListedLive, NEW i \in Tcb, MemFault(i)
  PROVE  EndedLive /\ (\E j \in User : EndDefunct(j) \/ MemFault(j))
<1> USE Constants DEF TInv, TypeOK, TypeFrame, TypeSwitch
<1> DEFINE woken == UNION {{blocked_threads[m][k] : k \in DOMAIN blocked_threads[m]} :
                             m \in Held(i)}
           st    == [j \in Tcb |-> IF j = i THEN "Defunct"
                                   ELSE IF j \in woken THEN "Ready" ELSE state[j]]
<1>1. PICK n \in Tcb : IsNext(n, st, num_active_threads') /\ SwitchTo(n, st)
  BY Zenon DEF MemFault
<1>2. st \in [Tcb -> States]
  BY DEF States
<1>3. Live' = {j \in User : st[j] # "Defunct"}
  <2> HIDE DEF st
  <2> QED
    BY <1>1, <1>2, SwitchLive
<1>4. active_thread_index = i /\ i \in User /\ state[i] # "Defunct"
  BY DEF MemFault, At, Phases, Here
<1>5. \A j \in woken \cap User : state[j] # "Defunct"
  BY DEF Held, ListedLive, Listed, Elements
<1>6. Live' = Live \ {i}
  BY <1>3, <1>5 DEF Live
<1> QED
  BY <1>4, <1>6 DEF EndedLive, Live
\* Every step adds at most the thread that is defined, or takes the one that ends.
LEMMA StepLive ==
  ASSUME CriticalUninterrupted, TInv, Phases, ListedLive, [Next]_vars
  PROVE  \/ SameLive
         \/ NewLive
         \/ EndedLive /\ \E i \in User : EndDefunct(i) \/ MemFault(i)
<1> USE Constants DEF TInv, TypeOK, TypeFrame, TypeSwitch
<1> DEFINE Goal == \/ SameLive
                   \/ NewLive
                   \/ EndedLive /\ \E i \in User : EndDefunct(i) \/ MemFault(i)
<1>1. ASSUME NEW i \in Tcb, Return(i) PROVE Goal
  BY <1>1 DEF Return, At, Goto, SameLive, Live, kernelVars, timerVars, switchVars,
     States, Phases, Here
<1>2. ASSUME NEW i \in Tcb, YieldPend(i) PROVE Goal
  BY <1>2, SwitchLive DEF YieldPend, At, PendSV, SameLive, Live, Here
<1>3. ASSUME NEW i \in Tcb, LockAcquire(i) PROVE Goal
  BY <1>3 DEF LockAcquire, At, Goto, SameLive, Live, kernelVars, timerVars, switchVars,
     States, Phases, Here
<1>4. ASSUME NEW i \in Tcb, LockBlock(i) PROVE Goal
  BY <1>4 DEF LockBlock, At, Goto, SameLive, Live, kernelVars, timerVars, switchVars,
     States, Phases, Here
<1>5. ASSUME NEW i \in Tcb, LockPend(i) PROVE Goal
  BY <1>5, SwitchLive DEF LockPend, At, PendSV, SameLive, Live, Here
<1>6. ASSUME NEW i \in Tcb, UnlockWake(i) PROVE Goal
  <2> DEFINE j == blocked_threads[lk[i]][wi[i]]
  <2>1. /\ active_thread_index = i /\ lk[i] \in Locks
        /\ state' = [state EXCEPT ![j] = "Ready"]
        /\ wi[i] \in DOMAIN blocked_threads[lk[i]]
    BY <1>6, SMTT(30) DEF UnlockWake, At, Running, FramesOK, TypeSync
  <2>2. j \in User /\ Listed(j, lk[i])
    <3>1. blocked_threads[lk[i]] \in Seq(User)
      BY <2>1 DEF TypeSync
    <3>2. j \in User
      BY <2>1, <3>1, ListedUser
    <3> QED
      BY <2>1, <3>2 DEF Listed, Elements
  <2> QED
    BY <1>6, <2>1, <2>2 DEF ListedLive, SameLive, Live, UnlockWake, At, Here
<1>7. ASSUME NEW i \in Tcb, UnlockWoken(i) PROVE Goal
  BY <1>7 DEF UnlockWoken, At, Goto, SameLive, Live, kernelVars, timerVars, switchVars,
     States, Phases, Here
<1>8. ASSUME NEW i \in Tcb, UnlockReset(i) PROVE Goal
  BY <1>8 DEF UnlockReset, At, Goto, SameLive, Live, kernelVars, timerVars, switchVars,
     States, Phases, Here
<1>9. ASSUME NEW i \in Tcb, UnlockPend(i) PROVE Goal
  BY <1>9, SwitchLive DEF UnlockPend, At, PendSV, SameLive, Live, Here
<1>10. ASSUME NEW i \in Tcb, EndUnlock(i) PROVE Goal
  BY <1>10 DEF EndUnlock, At, Goto, SameLive, Live, kernelVars, timerVars, switchVars,
     States, Phases, Here
<1>11. ASSUME NEW i \in Tcb, EndDefunct(i) PROVE Goal
  <2>1. /\ active_thread_index = i /\ pc[i] = "end" /\ state' = [state EXCEPT ![i] = "Defunct"]
        /\ i \in User
    BY <1>11 DEF EndDefunct, At, Running, FramesOK
  <2> QED
    BY <1>11, <2>1 DEF EndedLive, Live, Phases, Here
<1>12. ASSUME NEW i \in Tcb, EndDec(i) PROVE Goal
  BY <1>12 DEF EndDec, At, Goto, SameLive, Live, kernelVars, timerVars, switchVars,
     States, Phases, Here
<1>13. ASSUME NEW i \in Tcb, EndPend(i) PROVE Goal
  BY <1>13, SwitchLive DEF EndPend, At, PendSV, SameLive, Live, Here
<1>14. ASSUME NEW i \in Tcb, DefineFill(i) PROVE Goal
  <2>1. /\ active_thread_index = i /\ pc[i] = "fill" /\ pc'[i] = "frames"
        /\ UNCHANGED <<active_thread_index, num_active_threads>>
        /\ state' = [state EXCEPT ![df[i].slot] = "Ready"]
    BY <1>14 DEF DefineFill, At, Goto
  <2>2. Slot \in User /\ state[Slot] = "Defunct"
    BY <2>1 DEF Phases, Here, Slot
  <2> QED
    BY <2>1, <2>2 DEF NewLive, Here, Slot, Live
<1>15. ASSUME NEW i \in Tcb, DefineFrames(i) PROVE Goal
  BY <1>15 DEF DefineFrames, At, SameLive, Live, kernelVars, timerVars, switchVars,
     States, Phases, Here
<1>16. ASSUME NEW i \in Tcb, DefineCount(i) PROVE Goal
  BY <1>16 DEF DefineCount, At, Goto, SameLive, Live, kernelVars, timerVars,
     switchVars, States, Phases, Here
<1>17. ASSUME NEW i \in Tcb, OrderClear(i) PROVE Goal
  BY <1>17 DEF OrderClear, At, Goto, SameLive, Live, kernelVars, timerVars, switchVars,
     States, Phases, Here
<1>18. ASSUME NEW i \in Tcb, OrderAssign(i) PROVE Goal
  BY <1>18 DEF OrderAssign, At, SameLive, Live, kernelVars, timerVars, switchVars,
     States, Phases, Here
<1>19. ASSUME NEW i \in Tcb, OrderDone(i) PROVE Goal
  BY <1>19 DEF OrderDone, At, Goto, SameLive, Live, kernelVars, timerVars, switchVars,
     States, Phases, Here
<1>20. ASSUME NEW i \in Tcb, Yield(i) PROVE Goal
  BY <1>20 DEF Yield, Yielded, Enter, At, Goto, Running, SameLive, Live, kernelVars,
     timerVars, switchVars, States, Phases, Here
<1>21. ASSUME NEW i \in Tcb, SleepMs(i) PROVE Goal
  BY <1>21 DEF SleepMs, Enter, At, Goto, Running, SameLive, Live, kernelVars,
     timerVars, switchVars, States, Phases, Here
<1>22. ASSUME NEW i \in Tcb, Exit(i) PROVE Goal
  BY <1>22 DEF Exit, At, SameLive, Live, kernelVars, timerVars, switchVars, States,
     Phases, Here
<1>23. ASSUME NEW i \in Tcb, NEW m \in Locks, LockEnter(i, m) PROVE Goal
  BY <1>23 DEF LockEnter, Enter, At, Goto, Running, SameLive, Live, kernelVars,
     timerVars, switchVars, States, Phases, Here
<1>24. ASSUME NEW i \in Tcb, NEW m \in Locks, UnlockEnter(i, m) PROVE Goal
  BY <1>24 DEF UnlockEnter, Enter, At, Goto, Running, SameLive, Live, kernelVars,
     timerVars, switchVars, States, Phases, Here
<1>25. ASSUME NEW i \in Tcb, EndEnter(i) PROVE Goal
  BY <1>25 DEF EndEnter, Enter, At, Goto, Running, SameLive, Live, kernelVars,
     timerVars, switchVars, States, Phases, Here
<1>26. ASSUME NEW i \in Tcb, MemFault(i) PROVE Goal
  BY <1>26, MemFaultLive, Zenon
<1>27. ASSUME NEW i \in Tcb, NEW tk \in TaskSet, DefineEnter(i, tk) PROVE Goal
  BY <1>27 DEF DefineEnter, Enter, At, Goto, Running, SameLive, Live, kernelVars,
     timerVars, switchVars, States, Phases, Here
<1>28. ASSUME StartPend PROVE Goal
  BY <1>28, SwitchLive DEF StartPend, At, PendSV, SameLive, Live, Here
<1>29. ASSUME StartJoin PROVE Goal
  BY <1>29 DEF StartJoin, At, Goto, SameLive, Live, kernelVars, timerVars, switchVars,
     States, Phases, Here
<1>30. ASSUME NEW id \in {tk.id : tk \in TaskSet}, LockInit(id) PROVE Goal
  BY <1>30 DEF LockInit, At, SameLive, Live, kernelVars, timerVars, switchVars, States,
     Phases, Here
<1>31. ASSUME StartRefused PROVE Goal
  BY <1>31 DEF StartRefused, At, SameLive, Live, kernelVars, timerVars, switchVars,
     States, Phases, Here
<1>32. ASSUME NEW bins \in Bins, StartEnter(bins) PROVE Goal
  BY <1>32 DEF StartEnter, Enter, At, Goto, Running, SameLive, Live, kernelVars,
     timerVars, switchVars, States, Phases, Here
<1>33. ASSUME SysTick PROVE Goal
  <2>1. Here \notin Critical /\ state[active_thread_index] # "Defunct"
    BY <1>33, NoTickInCritical DEF SysTick, Here, Phases, Critical
  <2>2. CASE timer_wrap_around # timer_wrap_comparison
    BY <1>33, <2>1, <2>2 DEF SysTick, switchVars, SameLive, Live, Critical
  <2>3. CASE timer_wrap_around = timer_wrap_comparison
    <3> DEFINE st == [i \in Tcb |-> IF i \in Released(ChargedState)
                                    THEN "Ready" ELSE ChargedState[i]]
    <3>1. PICK n \in Tcb : IsNext(n, ChargedState, num_active_threads) /\ SwitchTo(n, st)
      BY <1>33, <2>3, Zenon DEF SysTick, PreemptPendSV
    <3>2. \A i \in Tcb : state'[i] = IF i = n THEN "Running" ELSE st[i]
      BY <3>1 DEF SwitchTo
    <3>3. n \in User => ChargedState[n] = "Ready"
      BY <3>1, ChargedType, NextLive
    <3>4. \A i \in User : ChargedState[i] # "Defunct" <=> state[i] # "Defunct"
      BY <2>1 DEF ChargedState
    <3>5. \A i \in User : st[i] # "Defunct" <=> state[i] # "Defunct"
      BY <3>4 DEF Released, Swept
    <3> QED
      BY <2>1, <3>2, <3>3, <3>4, <3>5, ZenonT(60) DEF SameLive, Live, Critical
  <2> QED
    BY <2>2, <2>3
<1>34. CASE UNCHANGED vars
  BY <1>34 DEF vars, kernelVars, timerVars, admitVars, tcbVars, ceilVars, syncVars,
     lockVars, switchVars, frameVars, SameLive, Live, kernelVars, timerVars,
     switchVars, States, Phases, Here
<1> QED
  BY <1>1, <1>2, <1>3, <1>4, <1>5, <1>6, <1>7, <1>8, <1>9, <1>10, <1>11, <1>12, <1>13,
     <1>14, <1>15, <1>16, <1>17, <1>18, <1>19, <1>20, <1>21, <1>22, <1>23, <1>24,
     <1>25, <1>26, <1>27, <1>28, <1>29, <1>30, <1>31, <1>32, <1>33, <1>34 DEF Next,
     Handler, Program, MainHandler, MainProgram

\* The live threads can be counted, one by one.
LEMMA LiveFinite ==
  /\ IsFiniteSet(Live) /\ Cardinality(Live) \in 0 .. N
  /\ \A i \in Live : Cardinality(Live \ {i}) = Cardinality(Live) - 1
  /\ \A i \in User : i \notin Live => Cardinality(Live \cup {i}) = Cardinality(Live) + 1
<1>1. IsFiniteSet(User) /\ Cardinality(User) = N
  BY Constants, FS_Interval DEF User
<1>2. Live \subseteq User
  BY DEF Live
<1>3. IsFiniteSet(Live) /\ Cardinality(Live) \in Nat /\ Cardinality(Live) <= N
  BY <1>1, <1>2, FS_Subset, FS_CardinalityType
<1> QED
  BY <1>3, Constants, FS_AddElement, FS_RemoveElement

\* What num_active_threads is off by while a call is at l.
Off(l) == IF l = "endDec" THEN 1 ELSE IF l \in {"frames", "count"} THEN -1 ELSE 0

Counted == num_active_threads = Cardinality(Live) + Off(Here)

\* A switch leads to a context in which the count is exact.
LEMMA SwitchOff ==
  ASSUME TInv, Phases, NEW n \in Tcb, NEW st, SwitchTo(n, st),
         NEW l, l \notin Critical, pc' = [pc EXCEPT ![active_thread_index] = l]
  PROVE  Off(Here)' = 0
<1>1. active_thread_index' = n
  BY DEF SwitchTo
<1>2. pc'[n] \notin Critical
  BY DEF Phases, TInv, TypeOK, TypeFrame
<1> QED
  BY <1>1, <1>2 DEF Off, Here, Critical

\* Initially none is counted and none is live.
LEMMA InitCounted == Init => Counted
<1> SUFFICES ASSUME Init PROVE Counted
  OBVIOUS
<1>1. Live = {}
  BY Constants DEF Init, Live
<1>2. Off(Here) = 0 /\ num_active_threads = 0
  BY Constants DEF Init, Off, Here
<1> QED
  BY <1>1, <1>2, FS_EmptySet DEF Counted

\* num_active_threads and where the running thread is change together, ...
LEMMA StepOff ==
  ASSUME CriticalUninterrupted, TInv, Phases, [Next]_vars,
         ~ (Here = "fill" /\ Here' = "frames"), \A i \in User : ~EndDefunct(i) /\ ~MemFault(i)
  PROVE  \/ UNCHANGED num_active_threads /\ Off(Here)' = Off(Here)
         \/ Off(Here) = -1 /\ Off(Here)' = 0 /\ num_active_threads' = (num_active_threads + 1) % 256
         \/ Off(Here) = 1 /\ Off(Here)' = 0 /\ num_active_threads' = CountWithout
<1> USE Constants DEF TInv, TypeOK, TypeFrame, TypeSwitch
<1> DEFINE Goal == \/ UNCHANGED num_active_threads /\ Off(Here)' = Off(Here)
                   \/ Off(Here) = -1 /\ Off(Here)' = 0
                      /\ num_active_threads' = (num_active_threads + 1) % 256
                   \/ Off(Here) = 1 /\ Off(Here)' = 0 /\ num_active_threads' = CountWithout
<1>1. ASSUME NEW i \in Tcb, Return(i) PROVE Goal
  BY <1>1 DEF Return, At, Goto, Off, Here, kernelVars, timerVars, admitVars, switchVars
<1>2. ASSUME NEW i \in Tcb, YieldPend(i) PROVE Goal
  <2>1. PICK n \in Tcb : SwitchTo(n, state)
    BY <1>2 DEF YieldPend, PendSV
  <2>2. /\ UNCHANGED num_active_threads /\ Off(Here) = 0
        /\ \E l \in {"ret", "lock", "end", "join"} :
             pc' = [pc EXCEPT ![active_thread_index] = l]
    BY <1>2 DEF YieldPend, At, Goto, kernelVars, admitVars, Off, Here
  <2> QED
    BY <2>1, <2>2, SwitchOff DEF Critical
<1>3. ASSUME NEW i \in Tcb, LockAcquire(i) PROVE Goal
  BY <1>3 DEF LockAcquire, At, Goto, Off, Here, kernelVars, timerVars, admitVars,
     switchVars
<1>4. ASSUME NEW i \in Tcb, LockBlock(i) PROVE Goal
  BY <1>4 DEF LockBlock, At, Goto, Off, Here, kernelVars, timerVars, admitVars,
     switchVars
<1>5. ASSUME NEW i \in Tcb, LockPend(i) PROVE Goal
  <2>1. PICK n \in Tcb : SwitchTo(n, state)
    BY <1>5 DEF LockPend, PendSV
  <2>2. /\ UNCHANGED num_active_threads /\ Off(Here) = 0
        /\ \E l \in {"ret", "lock", "end", "join"} :
             pc' = [pc EXCEPT ![active_thread_index] = l]
    BY <1>5 DEF LockPend, At, Goto, kernelVars, admitVars, Off, Here
  <2> QED
    BY <2>1, <2>2, SwitchOff DEF Critical
<1>6. ASSUME NEW i \in Tcb, UnlockWake(i) PROVE Goal
  BY <1>6 DEF UnlockWake, At, Running, Off, Here, kernelVars, timerVars, admitVars,
     switchVars
<1>7. ASSUME NEW i \in Tcb, UnlockWoken(i) PROVE Goal
  BY <1>7 DEF UnlockWoken, At, Goto, Off, Here, kernelVars, timerVars, admitVars,
     switchVars
<1>8. ASSUME NEW i \in Tcb, UnlockReset(i) PROVE Goal
  BY <1>8 DEF UnlockReset, At, Goto, Off, Here, kernelVars, timerVars, admitVars,
     switchVars
<1>9. ASSUME NEW i \in Tcb, UnlockPend(i) PROVE Goal
  <2>1. PICK n \in Tcb : SwitchTo(n, state)
    BY <1>9 DEF UnlockPend, PendSV
  <2>2. /\ UNCHANGED num_active_threads /\ Off(Here) = 0
        /\ \E l \in {"ret", "lock", "end", "join"} :
             pc' = [pc EXCEPT ![active_thread_index] = l]
    BY <1>9 DEF UnlockPend, At, Goto, kernelVars, admitVars, Off, Here
  <2> QED
    BY <2>1, <2>2, SwitchOff DEF Critical
<1>10. ASSUME NEW i \in Tcb, EndUnlock(i) PROVE Goal
  BY <1>10 DEF EndUnlock, At, Goto, Off, Here, kernelVars, timerVars, admitVars,
     switchVars
<1>11. ASSUME NEW i \in Tcb, EndDefunct(i) PROVE Goal
  BY <1>11 DEF EndDefunct, At, FramesOK
<1>12. ASSUME NEW i \in Tcb, EndDec(i) PROVE Goal
  BY <1>12 DEF EndDec, At, Goto, Off, Here, kernelVars, timerVars, admitVars,
     switchVars
<1>13. ASSUME NEW i \in Tcb, EndPend(i) PROVE Goal
  <2>1. PICK n \in Tcb : SwitchTo(n, state)
    BY <1>13 DEF EndPend, PendSV
  <2>2. /\ UNCHANGED num_active_threads /\ Off(Here) = 0
        /\ \E l \in {"ret", "lock", "end", "join"} :
             pc' = [pc EXCEPT ![active_thread_index] = l]
    BY <1>13 DEF EndPend, At, Goto, kernelVars, admitVars, Off, Here
  <2> QED
    BY <2>1, <2>2, SwitchOff DEF Critical
<1>14. ASSUME NEW i \in Tcb, DefineFill(i) PROVE Goal
  BY <1>14 DEF DefineFill, At, Goto, Here
<1>15. ASSUME NEW i \in Tcb, DefineFrames(i) PROVE Goal
  BY <1>15 DEF DefineFrames, At, Off, Here, kernelVars, timerVars, admitVars,
     switchVars
<1>16. ASSUME NEW i \in Tcb, DefineCount(i) PROVE Goal
  BY <1>16 DEF DefineCount, At, Goto, Off, Here, kernelVars, timerVars, admitVars,
     switchVars
<1>17. ASSUME NEW i \in Tcb, OrderClear(i) PROVE Goal
  BY <1>17 DEF OrderClear, At, Goto, Off, Here, kernelVars, timerVars, admitVars,
     switchVars
<1>18. ASSUME NEW i \in Tcb, OrderAssign(i) PROVE Goal
  BY <1>18 DEF OrderAssign, At, Off, Here, kernelVars, timerVars, admitVars, switchVars
<1>19. ASSUME NEW i \in Tcb, OrderDone(i) PROVE Goal
  BY <1>19 DEF OrderDone, At, Goto, Off, Here, kernelVars, timerVars, admitVars,
     switchVars
<1>20. ASSUME NEW i \in Tcb, Yield(i) PROVE Goal
  BY <1>20 DEF Yield, Yielded, Enter, At, Goto, Running, Off, Here, kernelVars,
     timerVars, admitVars, switchVars
<1>21. ASSUME NEW i \in Tcb, SleepMs(i) PROVE Goal
  BY <1>21 DEF SleepMs, Enter, At, Goto, Running, Off, Here, kernelVars, timerVars,
     admitVars, switchVars
<1>22. ASSUME NEW i \in Tcb, Exit(i) PROVE Goal
  BY <1>22 DEF Exit, At, Off, Here, kernelVars, timerVars, admitVars, switchVars
<1>23. ASSUME NEW i \in Tcb, NEW m \in Locks, LockEnter(i, m) PROVE Goal
  BY <1>23 DEF LockEnter, Enter, At, Goto, Running, Off, Here, kernelVars, timerVars,
     admitVars, switchVars
<1>24. ASSUME NEW i \in Tcb, NEW m \in Locks, UnlockEnter(i, m) PROVE Goal
  BY <1>24 DEF UnlockEnter, Enter, At, Goto, Running, Off, Here, kernelVars, timerVars,
     admitVars, switchVars
<1>25. ASSUME NEW i \in Tcb, EndEnter(i) PROVE Goal
  BY <1>25 DEF EndEnter, Enter, At, Goto, Running, Off, Here, kernelVars, timerVars,
     admitVars, switchVars
<1>26. ASSUME NEW i \in Tcb, MemFault(i) PROVE Goal
  BY <1>26 DEF MemFault
<1>27. ASSUME NEW i \in Tcb, NEW tk \in TaskSet, DefineEnter(i, tk) PROVE Goal
  BY <1>27 DEF DefineEnter, Enter, At, Goto, Running, Off, Here, kernelVars, timerVars,
     admitVars, switchVars
<1>28. ASSUME StartPend PROVE Goal
  <2>1. PICK n \in Tcb : SwitchTo(n, state)
    BY <1>28 DEF StartPend, PendSV
  <2>2. /\ UNCHANGED num_active_threads /\ Off(Here) = 0
        /\ \E l \in {"ret", "lock", "end", "join"} :
             pc' = [pc EXCEPT ![active_thread_index] = l]
    BY <1>28 DEF StartPend, At, Goto, kernelVars, admitVars, Off, Here
  <2> QED
    BY <2>1, <2>2, SwitchOff DEF Critical
<1>29. ASSUME StartJoin PROVE Goal
  BY <1>29 DEF StartJoin, At, Goto, Off, Here, kernelVars, timerVars, admitVars,
     switchVars
<1>30. ASSUME NEW id \in {tk.id : tk \in TaskSet}, LockInit(id) PROVE Goal
  BY <1>30 DEF LockInit, At, Off, Here, kernelVars, timerVars, admitVars, switchVars
<1>31. ASSUME StartRefused PROVE Goal
  BY <1>31 DEF StartRefused, At, Off, Here, kernelVars, timerVars, admitVars,
     switchVars
<1>32. ASSUME NEW bins \in Bins, StartEnter(bins) PROVE Goal
  BY <1>32 DEF StartEnter, Enter, At, Goto, Running, Off, Here, kernelVars, timerVars,
     admitVars, switchVars
<1>33. ASSUME SysTick PROVE Goal
  <2>1. UNCHANGED <<num_active_threads, pc>> /\ Here \notin Critical
    BY <1>33, NoTickInCritical DEF SysTick, admitVars, Here
  <2>2. CASE timer_wrap_around # timer_wrap_comparison
    BY <1>33, <2>1, <2>2 DEF SysTick, switchVars, Here
  <2>3. CASE timer_wrap_around = timer_wrap_comparison
    <3>1. PICK n \in Tcb, st \in [Tcb -> States] : SwitchTo(n, st)
      <4> DEFINE st == [i \in Tcb |-> IF i \in Released(ChargedState)
                                      THEN "Ready" ELSE ChargedState[i]]
      <4>1. st \in [Tcb -> States]
        BY ChargedType DEF States
      <4> QED
        BY <1>33, <2>3, <4>1, Zenon DEF SysTick, PreemptPendSV
    <3>2. Off(Here) = 0 /\ pc' = [pc EXCEPT ![active_thread_index] = Here]
      BY <2>1 DEF Off, Critical, Here
    <3> QED
      BY <2>1, <3>1, <3>2, SwitchOff
  <2> QED
    BY <2>2, <2>3
<1>34. CASE UNCHANGED vars
  BY <1>34 DEF vars, kernelVars, timerVars, admitVars, tcbVars, ceilVars, syncVars,
     lockVars, switchVars, frameVars, Off, Here, kernelVars, timerVars, admitVars,
     switchVars
<1> QED
  BY <1>1, <1>2, <1>3, <1>4, <1>5, <1>6, <1>7, <1>8, <1>9, <1>10, <1>11, <1>12, <1>13,
     <1>14, <1>15, <1>16, <1>17, <1>18, <1>19, <1>20, <1>21, <1>22, <1>23, <1>24,
     <1>25, <1>26, <1>27, <1>28, <1>29, <1>30, <1>31, <1>32, <1>33, <1>34 DEF Next,
     Handler, Program, MainHandler, MainProgram

\* The byte-wide increment and decrement, where the count is at most one off.
LEMMA CountArithmetic ==
  \A n \in 0 .. 255, c \in 0 .. 14 :
    /\ n = c - 1 => (n + 1) % 256 = c
    /\ n = c + 1 => (n + 255) % 256 = c
    /\ n = c /\ c > 0 => (n + 255) % 256 = c - 1
OBVIOUS

\* ... and both with the number of live threads.
LEMMA StepCounted ==
  ASSUME CriticalUninterrupted, TInv, Phases, ListedLive, Counted, [Next]_vars
  PROVE  Counted'
<1>1. num_active_threads \in 0 .. 255 /\ Cardinality(Live) \in 0 .. 14
  <2>1. Cardinality(Live) \in 0 .. N /\ N \in 1 .. 14
    BY LiveFinite, NAssumption
  <2> QED
    BY <2>1 DEF TInv, TypeOK, TypeKernel
<1>2. ASSUME NEW i \in User, EndDefunct(i) PROVE Counted'
  <2>1. /\ Here = "end" /\ Here' = "endDec" /\ UNCHANGED num_active_threads
        /\ active_thread_index = i
    BY <1>2, Constants DEF EndDefunct, At, Goto, Running, Here, TInv, TypeOK, TypeFrame
  <2>2. Live' = Live \ {i} /\ i \in Live
    BY <1>2, <2>1, Constants DEF EndDefunct, Running, Live, Phases, TInv, TypeOK, TypeSwitch
  <2> QED
    BY <1>1, <2>1, <2>2, LiveFinite DEF Counted, Off
<1>3. ASSUME NEW i \in User, MemFault(i) PROVE Counted'
  <2>1. /\ Here = "user" /\ num_active_threads' = CountWithout
        /\ active_thread_index = i /\ pc' = [pc EXCEPT ![i] = "user"]
    BY <1>3 DEF MemFault, At, Here, TInv, TypeOK, TypeFrame
  <2>2. Live' = Live \ {i} /\ i \in Live
    BY <1>3, <2>1, MemFaultLive, Constants DEF EndedLive
  <2>3. \E n \in Tcb : \E st : SwitchTo(n, st)
    BY <1>3, Zenon DEF MemFault
  <2>4. Off(Here)' = 0 /\ Off(Here) = 0
    BY <2>1, <2>3, SwitchOff DEF Off, Critical
  <2> QED
    <3>1. Cardinality(Live') = Cardinality(Live) - 1
      BY <2>2, LiveFinite
    <3>2. num_active_threads = Cardinality(Live)
      BY <1>1, <2>4 DEF Counted
    <3>3. Cardinality(Live) > 0
      BY <2>2, LiveFinite, FS_EmptySet, <1>1
    <3>4. (num_active_threads + 255) % 256 = Cardinality(Live) - 1
      BY <1>1, <3>2, <3>3, CountArithmetic
    <3> QED
      BY <1>1, <2>1, <2>4, <3>1, <3>4 DEF Counted, CountWithout
<1>4. ASSUME \A i \in User : ~EndDefunct(i) /\ ~MemFault(i),
             Here = "fill", Here' = "frames"
      PROVE  Counted'
  <2>1. NewLive
    BY <1>4, StepLive DEF SameLive
  <2> QED
    BY <1>1, <1>4, <2>1, LiveFinite DEF NewLive, Counted, Off
<1>5. ASSUME \A i \in User : ~EndDefunct(i) /\ ~MemFault(i),
             ~(Here = "fill" /\ Here' = "frames")
      PROVE  Counted'
  <2>1. Live' = Live
    BY <1>5, StepLive DEF SameLive, NewLive
  <2>2. Cardinality(Live)' = Cardinality(Live)
    BY <2>1
  <2>3. \/ UNCHANGED num_active_threads /\ Off(Here)' = Off(Here)
        \/ Off(Here) = -1 /\ Off(Here)' = 0 /\ num_active_threads' = (num_active_threads + 1) % 256
        \/ Off(Here) = 1 /\ Off(Here)' = 0 /\ num_active_threads' = CountWithout
    BY <1>5, StepOff
  <2>4. num_active_threads' = Cardinality(Live)' + Off(Here)'
    <3>1. num_active_threads = Cardinality(Live) + Off(Here)
      BY DEF Counted
    <3>2. CASE UNCHANGED num_active_threads /\ Off(Here)' = Off(Here)
      BY <2>2, <3>1, <3>2
    <3>3. CASE Off(Here) = -1 /\ Off(Here)' = 0
               /\ num_active_threads' = (num_active_threads + 1) % 256
      <4>1. num_active_threads = Cardinality(Live) - 1
        BY <1>1, <3>1, <3>3
      <4> QED
        BY <1>1, <2>2, <3>3, <4>1, CountArithmetic
    <3>4. CASE Off(Here) = 1 /\ Off(Here)' = 0 /\ num_active_threads' = CountWithout
      <4>1. num_active_threads = Cardinality(Live) + 1
        BY <1>1, <3>1, <3>4
      <4> QED
        BY <1>1, <2>2, <3>4, <4>1, CountArithmetic DEF CountWithout
    <3> QED
      BY <2>3, <3>2, <3>3, <3>4
  <2> QED
    BY <2>4 DEF Counted
<1> QED
  BY <1>2, <1>3, <1>4, <1>5

\* Main is back in multitask_start only when no thread is left.
Joined == Here = "join" => num_active_threads = 0

\* Main is scheduled only when no thread is counted.
LEMMA NextMain ==
  ASSUME NEW st, NEW k, IsNext(Main, st, k)
  PROVE  k = 0
BY Constants DEF IsNext, Eligible, Main, Idle, User

\* A switch leads main back only from the join.
LEMMA SwitchJoined ==
  ASSUME Phases', NEW n \in Tcb, NEW st, IsNext(n, st, num_active_threads'), SwitchTo(n, st)
  PROVE  Joined'
<1>1. active_thread_index' = n
  BY DEF SwitchTo
<1>2. Here' = "join" => n = Main
  BY <1>1 DEF Phases, Here, Starting
<1> QED
  BY <1>2, NextMain DEF Joined

\* Every step keeps that.
LEMMA StepJoined ==
  ASSUME CriticalUninterrupted, TInv, Phases, Joined, [Next]_vars
  PROVE  Joined'
<1> USE Constants DEF TInv, TypeOK, TypeFrame, TypeSwitch
<1>0. Phases'
  BY StepPhases
<1>1. ASSUME NEW i \in Tcb, Return(i) PROVE Joined'
  BY <1>1 DEF Return, At, Goto, Joined, Here, kernelVars, admitVars, switchVars
<1>2. ASSUME NEW i \in Tcb, YieldPend(i) PROVE Joined'
  BY <1>0, <1>2, SwitchJoined DEF YieldPend, PendSV, kernelVars, admitVars
<1>3. ASSUME NEW i \in Tcb, LockAcquire(i) PROVE Joined'
  BY <1>3 DEF LockAcquire, At, Goto, Joined, Here, kernelVars, admitVars, switchVars
<1>4. ASSUME NEW i \in Tcb, LockBlock(i) PROVE Joined'
  BY <1>4 DEF LockBlock, At, Goto, Joined, Here, kernelVars, admitVars, switchVars
<1>5. ASSUME NEW i \in Tcb, LockPend(i) PROVE Joined'
  BY <1>0, <1>5, SwitchJoined DEF LockPend, PendSV, kernelVars, admitVars
<1>6. ASSUME NEW i \in Tcb, UnlockWake(i) PROVE Joined'
  BY <1>6 DEF UnlockWake, At, Running, Joined, Here, kernelVars, admitVars, switchVars
<1>7. ASSUME NEW i \in Tcb, UnlockWoken(i) PROVE Joined'
  BY <1>7 DEF UnlockWoken, At, Goto, Joined, Here, kernelVars, admitVars, switchVars
<1>8. ASSUME NEW i \in Tcb, UnlockReset(i) PROVE Joined'
  BY <1>8 DEF UnlockReset, At, Goto, Joined, Here, kernelVars, admitVars, switchVars
<1>9. ASSUME NEW i \in Tcb, UnlockPend(i) PROVE Joined'
  BY <1>0, <1>9, SwitchJoined DEF UnlockPend, PendSV, kernelVars, admitVars
<1>10. ASSUME NEW i \in Tcb, EndUnlock(i) PROVE Joined'
  BY <1>10 DEF EndUnlock, At, Goto, Joined, Here, kernelVars, admitVars, switchVars
<1>11. ASSUME NEW i \in Tcb, EndDefunct(i) PROVE Joined'
  BY <1>11 DEF EndDefunct, At, Goto, Running, Joined, Here, kernelVars, admitVars,
     switchVars
<1>12. ASSUME NEW i \in Tcb, EndDec(i) PROVE Joined'
  BY <1>12 DEF EndDec, At, Goto, Joined, Here, kernelVars, admitVars, switchVars
<1>13. ASSUME NEW i \in Tcb, EndPend(i) PROVE Joined'
  BY <1>0, <1>13, SwitchJoined DEF EndPend, PendSV, kernelVars, admitVars
<1>14. ASSUME NEW i \in Tcb, DefineFill(i) PROVE Joined'
  BY <1>14 DEF DefineFill, At, Goto, Joined, Here, kernelVars, admitVars, switchVars
<1>15. ASSUME NEW i \in Tcb, DefineFrames(i) PROVE Joined'
  BY <1>15 DEF DefineFrames, At, Joined, Here, kernelVars, admitVars, switchVars
<1>16. ASSUME NEW i \in Tcb, DefineCount(i) PROVE Joined'
  BY <1>16 DEF DefineCount, At, Goto, Joined, Here, kernelVars, admitVars, switchVars
<1>17. ASSUME NEW i \in Tcb, OrderClear(i) PROVE Joined'
  BY <1>17 DEF OrderClear, At, Goto, Joined, Here, kernelVars, admitVars, switchVars
<1>18. ASSUME NEW i \in Tcb, OrderAssign(i) PROVE Joined'
  BY <1>18 DEF OrderAssign, At, Joined, Here, kernelVars, admitVars, switchVars
<1>19. ASSUME NEW i \in Tcb, OrderDone(i) PROVE Joined'
  BY <1>19 DEF OrderDone, At, Goto, Joined, Here, kernelVars, admitVars, switchVars
<1>20. ASSUME NEW i \in Tcb, Yield(i) PROVE Joined'
  BY <1>20 DEF Yield, Yielded, Enter, At, Goto, Running, Joined, Here, kernelVars,
     admitVars, switchVars
<1>21. ASSUME NEW i \in Tcb, SleepMs(i) PROVE Joined'
  BY <1>21 DEF SleepMs, Enter, At, Goto, Running, Joined, Here, kernelVars, admitVars,
     switchVars
<1>22. ASSUME NEW i \in Tcb, Exit(i) PROVE Joined'
  BY <1>22 DEF Exit, At, Joined, Here, kernelVars, admitVars, switchVars
<1>23. ASSUME NEW i \in Tcb, NEW m \in Locks, LockEnter(i, m) PROVE Joined'
  BY <1>23 DEF LockEnter, Enter, At, Goto, Running, Joined, Here, kernelVars,
     admitVars, switchVars
<1>24. ASSUME NEW i \in Tcb, NEW m \in Locks, UnlockEnter(i, m) PROVE Joined'
  BY <1>24 DEF UnlockEnter, Enter, At, Goto, Running, Joined, Here, kernelVars,
     admitVars, switchVars
<1>25. ASSUME NEW i \in Tcb, EndEnter(i) PROVE Joined'
  BY <1>25 DEF EndEnter, Enter, At, Goto, Running, Joined, Here, kernelVars, admitVars,
     switchVars
<1>26. ASSUME NEW i \in Tcb, MemFault(i) PROVE Joined'
  BY <1>0, <1>26, SwitchJoined, Zenon DEF MemFault
<1>27. ASSUME NEW i \in Tcb, NEW tk \in TaskSet, DefineEnter(i, tk) PROVE Joined'
  BY <1>27 DEF DefineEnter, Enter, At, Goto, Running, Joined, Here, kernelVars,
     admitVars, switchVars
<1>28. ASSUME StartPend PROVE Joined'
  BY <1>0, <1>28, SwitchJoined DEF StartPend, PendSV, kernelVars, admitVars
<1>29. ASSUME StartJoin PROVE Joined'
  BY <1>29 DEF StartJoin, At, Goto, Joined, Here, kernelVars, admitVars, switchVars
<1>30. ASSUME NEW id \in {tk.id : tk \in TaskSet}, LockInit(id) PROVE Joined'
  BY <1>30 DEF LockInit, At, Joined, Here, kernelVars, admitVars, switchVars
<1>31. ASSUME StartRefused PROVE Joined'
  BY <1>31 DEF StartRefused, At, Joined, Here, kernelVars, admitVars, switchVars
<1>32. ASSUME NEW bins \in Bins, StartEnter(bins) PROVE Joined'
  BY <1>32 DEF StartEnter, Enter, At, Goto, Running, Joined, Here, kernelVars,
     admitVars, switchVars
<1>33. ASSUME SysTick PROVE Joined'
  <2>1. CASE timer_wrap_around # timer_wrap_comparison
    BY <1>33, <2>1 DEF SysTick, switchVars, Joined, Here, admitVars
  <2>2. CASE timer_wrap_around = timer_wrap_comparison
    <3> DEFINE st == [i \in Tcb |-> IF i \in Released(ChargedState)
                                    THEN "Ready" ELSE ChargedState[i]]
    <3>1. UNCHANGED num_active_threads
      BY <1>33, Zenon DEF SysTick, admitVars
    <3>2. PICK n \in Tcb : IsNext(n, ChargedState, num_active_threads) /\ SwitchTo(n, st)
      BY <1>33, <2>2, Zenon DEF SysTick, PreemptPendSV
    <3>3. active_thread_index' = n
      BY <3>2 DEF SwitchTo
    <3>4. Here' = "join" => n = Main
      BY <1>0, <3>3 DEF Phases, Here, Starting
    <3> QED
      BY <3>1, <3>2, <3>4, NextMain DEF Joined
  <2> QED
    BY <2>1, <2>2
<1>34. CASE UNCHANGED vars
  BY <1>34 DEF vars, kernelVars, timerVars, admitVars, tcbVars, ceilVars, syncVars,
     lockVars, switchVars, frameVars, Joined, Here, kernelVars, admitVars, switchVars
<1> QED
  BY <1>1, <1>2, <1>3, <1>4, <1>5, <1>6, <1>7, <1>8, <1>9, <1>10, <1>11, <1>12, <1>13,
     <1>14, <1>15, <1>16, <1>17, <1>18, <1>19, <1>20, <1>21, <1>22, <1>23, <1>24,
     <1>25, <1>26, <1>27, <1>28, <1>29, <1>30, <1>31, <1>32, <1>33, <1>34 DEF Next,
     Handler, Program, MainHandler, MainProgram

-----------------------------------------------------------------------------

CountInv == TInv /\ Phases /\ Counted /\ Joined

\* The invariant is what CountMatches says.
LEMMA CountInvMatches == CountInv => CountMatches
<1> SUFFICES ASSUME CountInv PROVE CountMatches
  OBVIOUS
<1> USE DEF CountInv
<1> DEFINE a == active_thread_index
<1>1. a \in Tcb /\ \A i \in Tcb : i # a => pc[i] \notin Critical
  BY DEF TInv, TypeOK, TypeSwitch, Phases
<1>2. Here = "endDec" => a \in User
  BY <1>1 DEF TInv, FramesOK, Here
<1>3. {i \in User : pc[i] = "endDec"} = IF Here = "endDec" THEN {a} ELSE {}
  BY <1>1, <1>2, Constants DEF Critical, Here
<1>4. {i \in Tcb : pc[i] \in {"frames", "count"}} =
        IF Here \in {"frames", "count"} THEN {a} ELSE {}
  BY <1>1 DEF Critical, Here
<1>5. Cardinality({a}) = 1 /\ Cardinality({}) = 0 /\ Cardinality(Live) \in Nat
  <2>1. Cardinality({a}) = 1 /\ Cardinality({}) = 0
    BY FS_Singleton, FS_EmptySet, Zenon
  <2>2. Cardinality(Live) \in 0 .. N
    BY LiveFinite
  <2> QED
    BY <2>1, <2>2
<1>6. /\ Cardinality({i \in User : pc[i] = "endDec"}) = IF Here = "endDec" THEN 1 ELSE 0
      /\ Cardinality({i \in Tcb : pc[i] \in {"frames", "count"}}) =
           IF Here \in {"frames", "count"} THEN 1 ELSE 0
  BY <1>3, <1>4, <1>5
<1> HIDE DEF a
<1> QED
  BY <1>5, <1>6 DEF Counted, CountMatches, Off

\* Where main has joined nobody is live.
LEMMA CountInvJoin == CountInv => JoinSafety
<1> SUFFICES ASSUME CountInv, active_thread_index = Main, pc[Main] = "join"
             PROVE  Live = {}
  BY DEF JoinSafety
<1>1. num_active_threads = 0 /\ Off(Here) = 0
  BY DEF CountInv, Joined, Here, Off
<1>2. Cardinality(Live) \in Nat
  BY LiveFinite
<1>3. Cardinality(Live) = 0
  BY <1>1, <1>2 DEF CountInv, Counted
<1> QED
  BY <1>3, LiveFinite, FS_EmptySet

\* The invariant holds initially.
LEMMA InitCountInv == Init => CountInv
BY InitTInv, InitPhases, InitCounted, Constants DEF CountInv, Joined, Here, Init

\* Every step keeps it.
LEMMA StepCountInv ==
  ASSUME CriticalUninterrupted, ListedLive, CountInv, [Next]_vars
  PROVE  CountInv'
BY StepTInv, StepPhases, StepCounted, StepJoined DEF CountInv

-----------------------------------------------------------------------------
(* Programs without locks. *)

LockFree ==
  /\ \A m \in Locks : current_locker[m] = Nobody /\ blocked_threads[m] = <<>>
  /\ \A i \in Tcb : /\ cs[i] = {} /\ ending[i] \in {NotEnding, NoLock}
                    /\ pc[i] \notin {"lock", "lockPend", "wake", "reset", "unlockPend"}

\* No lock is held initially.
LEMMA InitLockFree == Init => LockFree
BY Constants DEF Init, LockFree

\* Nobody waits for a lock.
LEMMA NoneListed == LockFree => \A i \in User, m \in Locks : ~Listed(i, m)
BY DEF LockFree, Listed, Elements

\* Every step keeps that if the programs take no locks.
LEMMA StepLockFree ==
  ASSUME NoLocking, TInv, LockFree, [Next]_vars
  PROVE  LockFree'
<1> USE Constants DEF TInv, TypeOK, TypeFrame, TypeSync
<1>1. ASSUME NEW i \in Tcb, Return(i) PROVE LockFree'
  BY <1>1 DEF Return, At, Goto, LockFree, kernelVars, syncVars, lockVars, frameVars
<1>2. ASSUME NEW i \in Tcb, YieldPend(i) PROVE LockFree'
  BY <1>2 DEF YieldPend, At, Goto, LockFree, kernelVars, syncVars, lockVars, frameVars
<1>3. ASSUME NEW i \in Tcb, LockAcquire(i) PROVE LockFree'
  BY <1>3 DEF LockAcquire, At, NoLocking, LockFree
<1>4. ASSUME NEW i \in Tcb, LockBlock(i) PROVE LockFree'
  BY <1>4 DEF LockBlock, At, NoLocking, LockFree
<1>5. ASSUME NEW i \in Tcb, LockPend(i) PROVE LockFree'
  BY <1>5 DEF LockPend, At, NoLocking, LockFree
<1>6. ASSUME NEW i \in Tcb, UnlockWake(i) PROVE LockFree'
  BY <1>6 DEF UnlockWake, At, NoLocking, LockFree
<1>7. ASSUME NEW i \in Tcb, UnlockWoken(i) PROVE LockFree'
  BY <1>7 DEF UnlockWoken, At, NoLocking, LockFree
<1>8. ASSUME NEW i \in Tcb, UnlockReset(i) PROVE LockFree'
  BY <1>8 DEF UnlockReset, At, NoLocking, LockFree
<1>9. ASSUME NEW i \in Tcb, UnlockPend(i) PROVE LockFree'
  BY <1>9 DEF UnlockPend, At, NoLocking, LockFree
<1>10. ASSUME NEW i \in Tcb, EndUnlock(i) PROVE LockFree'
  BY <1>10 DEF EndUnlock, Held, LockFree, Nobody, Tcb, User, FramesOK, At
<1>11. ASSUME NEW i \in Tcb, EndDefunct(i) PROVE LockFree'
  BY <1>11 DEF EndDefunct, At, Goto, Running, LockFree, kernelVars, syncVars, lockVars,
     frameVars
<1>12. ASSUME NEW i \in Tcb, EndDec(i) PROVE LockFree'
  BY <1>12 DEF EndDec, At, Goto, LockFree, kernelVars, syncVars, lockVars, frameVars
<1>13. ASSUME NEW i \in Tcb, EndPend(i) PROVE LockFree'
  BY <1>13, Zenon DEF EndPend, At, Goto, LockFree, kernelVars, syncVars, lockVars, FramesOK
<1>14. ASSUME NEW i \in Tcb, DefineFill(i) PROVE LockFree'
  BY <1>14 DEF DefineFill, At, Goto, LockFree, kernelVars, syncVars, lockVars,
     frameVars
<1>15. ASSUME NEW i \in Tcb, DefineFrames(i) PROVE LockFree'
  BY <1>15 DEF DefineFrames, At, LockFree, kernelVars, syncVars, lockVars, frameVars
<1>16. ASSUME NEW i \in Tcb, DefineCount(i) PROVE LockFree'
  BY <1>16 DEF DefineCount, At, Goto, LockFree, kernelVars, syncVars, lockVars,
     frameVars
<1>17. ASSUME NEW i \in Tcb, OrderClear(i) PROVE LockFree'
  BY <1>17 DEF OrderClear, At, Goto, LockFree, kernelVars, syncVars, lockVars,
     frameVars
<1>18. ASSUME NEW i \in Tcb, OrderAssign(i) PROVE LockFree'
  BY <1>18 DEF OrderAssign, At, LockFree, kernelVars, syncVars, lockVars, frameVars
<1>19. ASSUME NEW i \in Tcb, OrderDone(i) PROVE LockFree'
  BY <1>19 DEF OrderDone, At, Goto, LockFree, kernelVars, syncVars, lockVars, frameVars
<1>20. ASSUME NEW i \in Tcb, Yield(i) PROVE LockFree'
  BY <1>20 DEF Yield, Yielded, Enter, At, Goto, Running, LockFree, kernelVars,
     syncVars, lockVars, frameVars
<1>21. ASSUME NEW i \in Tcb, SleepMs(i) PROVE LockFree'
  BY <1>21 DEF SleepMs, Enter, At, Goto, Running, LockFree, kernelVars, syncVars,
     lockVars, frameVars
<1>22. ASSUME NEW i \in Tcb, Exit(i) PROVE LockFree'
  BY <1>22 DEF Exit, At, LockFree, kernelVars, syncVars, lockVars, frameVars
<1>23. ASSUME NEW i \in Tcb, NEW m \in Locks, LockEnter(i, m) PROVE LockFree'
  BY <1>23 DEF LockEnter, At, NoLocking, LockFree
<1>24. ASSUME NEW i \in Tcb, NEW m \in Locks, UnlockEnter(i, m) PROVE LockFree'
  BY <1>24 DEF UnlockEnter, At, NoLocking, LockFree
<1>25. ASSUME NEW i \in Tcb, EndEnter(i) PROVE LockFree'
  BY <1>25 DEF EndEnter, Enter, At, Goto, Running, LockFree, kernelVars, syncVars,
     lockVars, frameVars
<1>26. ASSUME NEW i \in Tcb, MemFault(i) PROVE LockFree'
  BY <1>26 DEF MemFault, At, Open, Held, LockFree
<1>27. ASSUME NEW i \in Tcb, NEW tk \in TaskSet, DefineEnter(i, tk) PROVE LockFree'
  BY <1>27 DEF DefineEnter, Enter, At, Goto, Running, LockFree, kernelVars, syncVars,
     lockVars, frameVars
<1>28. ASSUME StartPend PROVE LockFree'
  BY <1>28 DEF StartPend, At, Goto, LockFree, kernelVars, syncVars, lockVars, frameVars
<1>29. ASSUME StartJoin PROVE LockFree'
  BY <1>29 DEF StartJoin, At, Goto, LockFree, kernelVars, syncVars, lockVars, frameVars
<1>30. ASSUME NEW id \in {tk.id : tk \in TaskSet}, LockInit(id) PROVE LockFree'
  BY <1>30 DEF LockInit, At, LockFree, kernelVars, syncVars, lockVars, frameVars
<1>31. ASSUME StartRefused PROVE LockFree'
  BY <1>31 DEF StartRefused, At, LockFree, kernelVars, syncVars, lockVars, frameVars
<1>32. ASSUME NEW bins \in Bins, StartEnter(bins) PROVE LockFree'
  BY <1>32 DEF StartEnter, Enter, At, Goto, Running, LockFree, kernelVars, syncVars,
     lockVars, frameVars
<1>33. ASSUME SysTick PROVE LockFree'
  BY <1>33 DEF SysTick, LockFree, kernelVars, syncVars, lockVars, frameVars
<1>34. CASE UNCHANGED vars
  BY <1>34 DEF vars, kernelVars, timerVars, admitVars, tcbVars, ceilVars, syncVars,
     lockVars, switchVars, frameVars, LockFree, kernelVars, syncVars, lockVars,
     frameVars
<1> QED
  BY <1>1, <1>2, <1>3, <1>4, <1>5, <1>6, <1>7, <1>8, <1>9, <1>10, <1>11, <1>12, <1>13,
     <1>14, <1>15, <1>16, <1>17, <1>18, <1>19, <1>20, <1>21, <1>22, <1>23, <1>24,
     <1>25, <1>26, <1>27, <1>28, <1>29, <1>30, <1>31, <1>32, <1>33, <1>34 DEF Next,
     Handler, Program, MainHandler, MainProgram

-----------------------------------------------------------------------------
(* The most urgent thread runs. *)

\* Where a thread is that has not changed who should run since it was scheduled.
Settled == {"user", "ret", "lock", "end"}

Urgent ==
  active_thread_index \in User /\ Here \in Settled =>
    \A j \in User : state[j] = "Ready" /\ time_until_release[j] # task[j].t =>
      dynamic_priority[active_thread_index] <= dynamic_priority[j]

UrgentInv == Urgent /\ \A i \in Tcb : pc[i] \in Defining => i = Main

\* The scheduler picks n among the threads that are Ready in st.
LEMMA SwitchUrgent ==
  ASSUME TInv, NEW n \in Tcb, NEW st, NEW k, IsNext(n, st, k), NEW st2 \in [Tcb -> States],
         SwitchTo(n, st2),
         \A j \in User : st[j] = "Ready" => dynamic_priority'[j] = dynamic_priority[j],
         \A j \in User : st2[j] = "Ready" /\ time_until_release'[j] # task'[j].t => st[j] = "Ready"
  PROVE  Urgent'
<1> USE Constants DEF TInv, TypeOK
<1>1. SUFFICES ASSUME n \in User, NEW j \in User, state'[j] = "Ready",
                      time_until_release'[j] # task'[j].t
               PROVE  dynamic_priority'[n] <= dynamic_priority'[j]
  BY DEF SwitchTo, Urgent
<1>2. st[j] = "Ready"
  BY <1>1 DEF SwitchTo
<1>3. n \in Eligible(st)
  BY <1>1 DEF IsNext
<1>4. /\ dynamic_priority[n] \in 0 .. WordMax /\ dynamic_priority[j] \in 0 .. WordMax
      /\ dynamic_priority'[n] = dynamic_priority[n] /\ dynamic_priority'[j] = dynamic_priority[j]
      /\ dynamic_priority[n] < Lowest
  BY <1>1, <1>2, <1>3 DEF TypeSync, Eligible
<1>5. CASE j \in Eligible(st)
  BY <1>1, <1>3, <1>4, <1>5 DEF IsNext
<1>6. CASE j \notin Eligible(st)
  BY <1>1, <1>2, <1>4, <1>6 DEF Eligible, Lowest
<1> QED
  BY <1>5, <1>6

\* Only main defines threads.
LEMMA StepDefining ==
  ASSUME FixedTasks, TInv, UrgentInv, [Next]_vars
  PROVE  \A i \in Tcb : pc'[i] \in Defining => i = Main
<1> USE Constants DEF TInv, TypeOK, TypeFrame, TypeSwitch
<1> DEFINE Goal == \A j \in Tcb : pc'[j] \in Defining => j = Main
<1>1. ASSUME NEW i \in Tcb, Return(i) PROVE Goal
  BY <1>1 DEF Return, At, Goto, UrgentInv, Defining, FixedTasks, frameVars
<1>2. ASSUME NEW i \in Tcb, YieldPend(i) PROVE Goal
  BY <1>2 DEF YieldPend, At, Goto, UrgentInv, Defining, FixedTasks, frameVars
<1>3. ASSUME NEW i \in Tcb, LockAcquire(i) PROVE Goal
  BY <1>3 DEF LockAcquire, At, Goto, UrgentInv, Defining, FixedTasks, frameVars
<1>4. ASSUME NEW i \in Tcb, LockBlock(i) PROVE Goal
  BY <1>4 DEF LockBlock, At, Goto, UrgentInv, Defining, FixedTasks, frameVars
<1>5. ASSUME NEW i \in Tcb, LockPend(i) PROVE Goal
  BY <1>5 DEF LockPend, At, Goto, UrgentInv, Defining, FixedTasks, frameVars
<1>6. ASSUME NEW i \in Tcb, UnlockWake(i) PROVE Goal
  BY <1>6 DEF UnlockWake, At, Running, UrgentInv, Defining, FixedTasks, frameVars
<1>7. ASSUME NEW i \in Tcb, UnlockWoken(i) PROVE Goal
  BY <1>7 DEF UnlockWoken, At, Goto, UrgentInv, Defining, FixedTasks, frameVars
<1>8. ASSUME NEW i \in Tcb, UnlockReset(i) PROVE Goal
  BY <1>8 DEF UnlockReset, At, Goto, UrgentInv, Defining, FixedTasks, frameVars
<1>9. ASSUME NEW i \in Tcb, UnlockPend(i) PROVE Goal
  BY <1>9 DEF UnlockPend, At, Goto, UrgentInv, Defining, FixedTasks, frameVars
<1>10. ASSUME NEW i \in Tcb, EndUnlock(i) PROVE Goal
  BY <1>10 DEF EndUnlock, At, Goto, UrgentInv, Defining, FixedTasks, frameVars
<1>11. ASSUME NEW i \in Tcb, EndDefunct(i) PROVE Goal
  BY <1>11 DEF EndDefunct, At, Goto, Running, UrgentInv, Defining, FixedTasks,
     frameVars
<1>12. ASSUME NEW i \in Tcb, EndDec(i) PROVE Goal
  BY <1>12 DEF EndDec, At, Goto, UrgentInv, Defining, FixedTasks, frameVars
<1>13. ASSUME NEW i \in Tcb, EndPend(i) PROVE Goal
  BY <1>13 DEF EndPend, At, Goto, UrgentInv, Defining, FixedTasks, frameVars
<1>14. ASSUME NEW i \in Tcb, DefineFill(i) PROVE Goal
  BY <1>14 DEF DefineFill, At, Goto, UrgentInv, Defining, FixedTasks, frameVars
<1>15. ASSUME NEW i \in Tcb, DefineFrames(i) PROVE Goal
  BY <1>15 DEF DefineFrames, At, UrgentInv, Defining, FixedTasks, frameVars
<1>16. ASSUME NEW i \in Tcb, DefineCount(i) PROVE Goal
  BY <1>16 DEF DefineCount, At, Goto, UrgentInv, Defining, FixedTasks, frameVars
<1>17. ASSUME NEW i \in Tcb, OrderClear(i) PROVE Goal
  BY <1>17 DEF OrderClear, At, Goto, UrgentInv, Defining, FixedTasks, frameVars
<1>18. ASSUME NEW i \in Tcb, OrderAssign(i) PROVE Goal
  BY <1>18 DEF OrderAssign, At, UrgentInv, Defining, FixedTasks, frameVars
<1>19. ASSUME NEW i \in Tcb, OrderDone(i) PROVE Goal
  BY <1>19 DEF OrderDone, At, Goto, UrgentInv, Defining, FixedTasks, frameVars
<1>20. ASSUME NEW i \in Tcb, Yield(i) PROVE Goal
  BY <1>20 DEF Yield, Yielded, Enter, At, Goto, Running, UrgentInv, Defining,
     FixedTasks, frameVars
<1>21. ASSUME NEW i \in Tcb, SleepMs(i) PROVE Goal
  BY <1>21 DEF SleepMs, Enter, At, Goto, Running, UrgentInv, Defining, FixedTasks,
     frameVars
<1>22. ASSUME NEW i \in Tcb, Exit(i) PROVE Goal
  BY <1>22 DEF Exit, At, UrgentInv, Defining, FixedTasks, frameVars
<1>23. ASSUME NEW i \in Tcb, NEW m \in Locks, LockEnter(i, m) PROVE Goal
  BY <1>23 DEF LockEnter, Enter, At, Goto, Running, UrgentInv, Defining, FixedTasks,
     frameVars
<1>24. ASSUME NEW i \in Tcb, NEW m \in Locks, UnlockEnter(i, m) PROVE Goal
  BY <1>24 DEF UnlockEnter, Enter, At, Goto, Running, UrgentInv, Defining, FixedTasks,
     frameVars
<1>25. ASSUME NEW i \in Tcb, EndEnter(i) PROVE Goal
  BY <1>25 DEF EndEnter, Enter, At, Goto, Running, UrgentInv, Defining, FixedTasks,
     frameVars
<1>26. ASSUME NEW i \in Tcb, MemFault(i) PROVE Goal
  BY <1>26 DEF MemFault, At, UrgentInv, Defining, FixedTasks, frameVars
<1>27. ASSUME NEW i \in Tcb, NEW tk \in TaskSet, DefineEnter(i, tk) PROVE Goal
  BY <1>27 DEF DefineEnter, Enter, At, Goto, Running, UrgentInv, Defining, FixedTasks,
     frameVars
<1>28. ASSUME StartPend PROVE Goal
  BY <1>28 DEF StartPend, At, Goto, UrgentInv, Defining, FixedTasks, frameVars
<1>29. ASSUME StartJoin PROVE Goal
  BY <1>29 DEF StartJoin, At, Goto, UrgentInv, Defining, FixedTasks, frameVars
<1>30. ASSUME NEW id \in {tk.id : tk \in TaskSet}, LockInit(id) PROVE Goal
  BY <1>30 DEF LockInit, At, UrgentInv, Defining, FixedTasks, frameVars
<1>31. ASSUME StartRefused PROVE Goal
  BY <1>31 DEF StartRefused, At, UrgentInv, Defining, FixedTasks, frameVars
<1>32. ASSUME NEW bins \in Bins, StartEnter(bins) PROVE Goal
  BY <1>32 DEF StartEnter, Enter, At, Goto, Running, UrgentInv, Defining, FixedTasks,
     frameVars
<1>33. ASSUME SysTick PROVE Goal
  BY <1>33 DEF SysTick, UrgentInv, Defining, FixedTasks, frameVars
<1>34. CASE UNCHANGED vars
  BY <1>34 DEF vars, kernelVars, timerVars, admitVars, tcbVars, ceilVars, syncVars,
     lockVars, switchVars, frameVars, UrgentInv, Defining, FixedTasks, frameVars
<1> QED
  BY <1>1, <1>2, <1>3, <1>4, <1>5, <1>6, <1>7, <1>8, <1>9, <1>10, <1>11, <1>12, <1>13,
     <1>14, <1>15, <1>16, <1>17, <1>18, <1>19, <1>20, <1>21, <1>22, <1>23, <1>24,
     <1>25, <1>26, <1>27, <1>28, <1>29, <1>30, <1>31, <1>32, <1>33, <1>34 DEF Next,
     Handler, Program, MainHandler, MainProgram

\* Every step keeps the most urgent thread running.
LEMMA StepUrgent ==
  ASSUME FixedTasks, TInv, UrgentInv, [Next]_vars
  PROVE  Urgent'
<1> USE Constants DEF TInv, TypeOK, TypeFrame, TypeSwitch
<1>0. /\ \A j \in Tcb : pc'[j] \in Defining => j = Main
      /\ \A j \in Tcb : pc[j] \in Defining => j = Main
      /\ Urgent
  BY StepDefining DEF UrgentInv
<1> HIDE DEF UrgentInv
<1>1. ASSUME NEW i \in Tcb, Return(i) PROVE Urgent'
  BY <1>1, <1>0 DEF Return, At, Goto, Urgent, Here, Settled, kernelVars, tcbVars,
     syncVars, switchVars, States
<1>2. ASSUME NEW i \in Tcb, YieldPend(i) PROVE Urgent'
  BY SwitchUrgent, <1>2 DEF YieldPend, PendSV, kernelVars, tcbVars, syncVars
<1>3. ASSUME NEW i \in Tcb, LockAcquire(i) PROVE Urgent'
  BY <1>3, <1>0 DEF LockAcquire, At, Goto, Urgent, Here, Settled, kernelVars, tcbVars,
     syncVars, switchVars, States
<1>4. ASSUME NEW i \in Tcb, LockBlock(i) PROVE Urgent'
  BY <1>4, <1>0 DEF LockBlock, At, Goto, Urgent, Here, Settled, kernelVars, tcbVars,
     syncVars, switchVars, States
<1>5. ASSUME NEW i \in Tcb, LockPend(i) PROVE Urgent'
  BY SwitchUrgent, <1>5 DEF LockPend, PendSV, kernelVars, tcbVars, syncVars
<1>6. ASSUME NEW i \in Tcb, UnlockWake(i) PROVE Urgent'
  BY <1>6, <1>0 DEF UnlockWake, At, Running, Urgent, Here, Settled, kernelVars,
     tcbVars, syncVars, switchVars, States
<1>7. ASSUME NEW i \in Tcb, UnlockWoken(i) PROVE Urgent'
  BY <1>7, <1>0 DEF UnlockWoken, At, Goto, Urgent, Here, Settled, kernelVars, tcbVars,
     syncVars, switchVars, States
<1>8. ASSUME NEW i \in Tcb, UnlockReset(i) PROVE Urgent'
  BY <1>8, <1>0 DEF UnlockReset, At, Goto, Urgent, Here, Settled, kernelVars, tcbVars,
     syncVars, switchVars, States
<1>9. ASSUME NEW i \in Tcb, UnlockPend(i) PROVE Urgent'
  BY SwitchUrgent, <1>9 DEF UnlockPend, PendSV, kernelVars, tcbVars, syncVars
<1>10. ASSUME NEW i \in Tcb, EndUnlock(i) PROVE Urgent'
  BY <1>10, <1>0 DEF EndUnlock, At, Goto, Urgent, Here, Settled, kernelVars, tcbVars,
     syncVars, switchVars, States
<1>11. ASSUME NEW i \in Tcb, EndDefunct(i) PROVE Urgent'
  BY <1>11, <1>0 DEF EndDefunct, At, Goto, Running, Urgent, Here, Settled, kernelVars,
     tcbVars, syncVars, switchVars, States
<1>12. ASSUME NEW i \in Tcb, EndDec(i) PROVE Urgent'
  BY <1>12, <1>0 DEF EndDec, At, Goto, Urgent, Here, Settled, kernelVars, tcbVars,
     syncVars, switchVars, States
<1>13. ASSUME NEW i \in Tcb, EndPend(i) PROVE Urgent'
  BY SwitchUrgent, <1>13 DEF EndPend, PendSV, kernelVars, tcbVars, syncVars
<1>14. ASSUME NEW i \in Tcb, DefineFill(i) PROVE Urgent'
  BY <1>14, <1>0 DEF DefineFill, At, Goto, Urgent, Here, Settled, kernelVars, tcbVars,
     syncVars, switchVars, States
<1>15. ASSUME NEW i \in Tcb, DefineFrames(i) PROVE Urgent'
  BY <1>15, <1>0 DEF DefineFrames, At, Urgent, Here, Settled, kernelVars, tcbVars,
     syncVars, switchVars, States
<1>16. ASSUME NEW i \in Tcb, DefineCount(i) PROVE Urgent'
  BY <1>16, <1>0 DEF DefineCount, At, Goto, Urgent, Here, Settled, kernelVars, tcbVars,
     syncVars, switchVars, States
<1>17. ASSUME NEW i \in Tcb, OrderClear(i) PROVE Urgent'
  BY <1>17, <1>0 DEF OrderClear, At, Goto, Urgent, Here, Settled, kernelVars, tcbVars,
     syncVars, switchVars, States
<1>18. ASSUME NEW i \in Tcb, OrderAssign(i) PROVE Urgent'
  BY <1>18, <1>0 DEF OrderAssign, At, Urgent, Here, Settled, kernelVars, tcbVars,
     syncVars, switchVars, States
<1>19. ASSUME NEW i \in Tcb, OrderDone(i) PROVE Urgent'
  BY <1>19, <1>0 DEF OrderDone, At, Goto, Urgent, Defining, switchVars
<1>20. ASSUME NEW i \in Tcb, Yield(i) PROVE Urgent'
  BY <1>20, <1>0 DEF Yield, Yielded, Enter, At, Goto, Running, Urgent, Here, Settled,
     kernelVars, tcbVars, syncVars, switchVars, States
<1>21. ASSUME NEW i \in Tcb, SleepMs(i) PROVE Urgent'
  BY <1>21, <1>0 DEF SleepMs, Enter, At, Goto, Running, Urgent, Here, Settled,
     kernelVars, tcbVars, syncVars, switchVars, States
<1>22. ASSUME NEW i \in Tcb, Exit(i) PROVE Urgent'
  BY <1>22, <1>0 DEF Exit, At, Urgent, Here, Settled, kernelVars, tcbVars, syncVars,
     switchVars, States
<1>23. ASSUME NEW i \in Tcb, NEW m \in Locks, LockEnter(i, m) PROVE Urgent'
  BY <1>23, <1>0 DEF LockEnter, Enter, At, Goto, Running, Urgent, Here, Settled,
     kernelVars, tcbVars, syncVars, switchVars, States
<1>24. ASSUME NEW i \in Tcb, NEW m \in Locks, UnlockEnter(i, m) PROVE Urgent'
  BY <1>24, <1>0 DEF UnlockEnter, Enter, At, Goto, Running, Urgent, Here, Settled,
     kernelVars, tcbVars, syncVars, switchVars, States
<1>25. ASSUME NEW i \in Tcb, EndEnter(i) PROVE Urgent'
  BY <1>25, <1>0 DEF EndEnter, Enter, At, Goto, Running, Urgent, Here, Settled,
     kernelVars, tcbVars, syncVars, switchVars, States
<1>26. ASSUME NEW i \in Tcb, MemFault(i) PROVE Urgent'
  <2> DEFINE woken == UNION {{blocked_threads[m][k] : k \in DOMAIN blocked_threads[m]} :
                               m \in Held(i)}
             st    == [j \in Tcb |-> IF j = i THEN "Defunct"
                                     ELSE IF j \in woken THEN "Ready" ELSE state[j]]
  <2>1. PICK n \in Tcb : IsNext(n, st, num_active_threads') /\ SwitchTo(n, st)
    BY <1>26, Zenon DEF MemFault
  <2>2. st \in [Tcb -> States]
    BY DEF States
  <2>3. \A j \in User : j # i => dynamic_priority'[j] = dynamic_priority[j]
    BY <1>26 DEF MemFault, Open, TypeSync
  <2>4. st[i] = "Defunct"
    OBVIOUS
  <2> HIDE DEF st
  <2> QED
    BY <2>1, <2>2, <2>3, <2>4, SwitchUrgent
<1>27. ASSUME NEW i \in Tcb, NEW tk \in TaskSet, DefineEnter(i, tk) PROVE Urgent'
  BY <1>27, <1>0 DEF DefineEnter, Enter, At, Goto, Running, Urgent, Here, Settled,
     kernelVars, tcbVars, syncVars, switchVars, States
<1>28. ASSUME StartPend PROVE Urgent'
  BY SwitchUrgent, <1>28 DEF StartPend, PendSV, kernelVars, tcbVars, syncVars
<1>29. ASSUME StartJoin PROVE Urgent'
  BY <1>29, <1>0 DEF StartJoin, At, Goto, Urgent, Here, Settled, kernelVars, tcbVars,
     syncVars, switchVars, States
<1>30. ASSUME NEW id \in {tk.id : tk \in TaskSet}, LockInit(id) PROVE Urgent'
  BY <1>30, <1>0 DEF LockInit, At, Urgent, Here, Settled, kernelVars, tcbVars,
     syncVars, switchVars, States
<1>31. ASSUME StartRefused PROVE Urgent'
  BY <1>31, <1>0 DEF StartRefused, At, Urgent, Here, Settled, kernelVars, tcbVars,
     syncVars, switchVars, States
<1>32. ASSUME NEW bins \in Bins, StartEnter(bins) PROVE Urgent'
  BY <1>32, <1>0 DEF StartEnter, Enter, At, Goto, Running, Urgent, Here, Settled,
     kernelVars, tcbVars, syncVars, switchVars, States
<1>33. ASSUME SysTick PROVE Urgent'
  <2>1. CASE timer_wrap_around # timer_wrap_comparison
    BY <1>33, <1>0, <2>1 DEF SysTick, switchVars, Urgent, Here, syncVars
  <2>2. CASE timer_wrap_around = timer_wrap_comparison
    <3> DEFINE st == [i \in Tcb |-> IF i \in Released(ChargedState)
                                    THEN "Ready" ELSE ChargedState[i]]
    <3>1. PICK n \in Tcb :
            /\ IsNext(n, ChargedState, num_active_threads) /\ SwitchTo(n, st)
            /\ time_until_release' =
                 [i \in Tcb |-> IF i \in Released(ChargedState) THEN task[i].t
                                ELSE IF i \in Swept(ChargedState)
                                     THEN Dec(time_until_release[i])
                                     ELSE time_until_release[i]]
      BY <1>33, <2>2, Zenon DEF SysTick, PreemptPendSV
    <3>2. st \in [Tcb -> States]
      BY ChargedType DEF States
    <3>3. UNCHANGED <<task, dynamic_priority>>
      BY <1>33, Zenon DEF SysTick, syncVars
    <3>4. \A j \in User : st[j] = "Ready" /\ time_until_release'[j] # task'[j].t
                          => ChargedState[j] = "Ready"
      BY <3>1, <3>3
    <3> HIDE DEF st
    <3> QED
      BY <3>1, <3>2, <3>3, <3>4, SwitchUrgent
  <2> QED
    BY <2>1, <2>2
<1>34. CASE UNCHANGED vars
  BY <1>34, <1>0 DEF vars, kernelVars, timerVars, admitVars, tcbVars, ceilVars,
     syncVars, lockVars, switchVars, frameVars, Urgent, Here, Settled, kernelVars,
     tcbVars, syncVars, switchVars, States
<1> QED
  BY <1>1, <1>2, <1>3, <1>4, <1>5, <1>6, <1>7, <1>8, <1>9, <1>10, <1>11, <1>12, <1>13,
     <1>14, <1>15, <1>16, <1>17, <1>18, <1>19, <1>20, <1>21, <1>22, <1>23, <1>24,
     <1>25, <1>26, <1>27, <1>28, <1>29, <1>30, <1>31, <1>32, <1>33, <1>34 DEF Next,
     Handler, Program, MainHandler, MainProgram

\* A thread that executes its program is the most urgent one that can run
\* (MostUrgentRuns), of any number of threads, whatever they lock and wherever a
\* tick finds them, if only main defines threads.
THEOREM UrgentRuns == ASSUME FixedTasks PROVE Spec => []MostUrgentRuns
<1>1. Init => TInv /\ UrgentInv
  <2> SUFFICES ASSUME Init PROVE UrgentInv
    BY InitTInv
  <2> QED
    BY Constants DEF Init, UrgentInv, Urgent, Defining
<1>2. TInv /\ UrgentInv /\ [Next]_vars => (TInv /\ UrgentInv)'
  BY StepTInv, StepUrgent, StepDefining DEF UrgentInv
<1>3. UrgentInv => MostUrgentRuns
  BY DEF UrgentInv, Urgent, MostUrgentRuns, Here, Settled
<1> QED
  BY <1>1, <1>2, <1>3, PTL DEF Spec

-----------------------------------------------------------------------------
(* Budgets. *)

\* i has time left, and no more than its computation time.
Funded(i) == remaining_work[i] > 0 /\ remaining_work[i] <= task[i].c

Budget ==
  /\ \A i \in User : /\ state[i] \notin {"Defunct", "Waiting"} => Funded(i)
                     /\ state[i] = "Waiting" => remaining_work[i] <= task[i].c
  /\ active_thread_index \in User => Funded(active_thread_index)
  /\ \A i \in User, m \in Locks : Listed(i, m) => Funded(i)

\* A switch that charges nothing.
LEMMA SwitchBudget ==
  ASSUME TInv, NEW n \in Tcb, NEW st \in [Tcb -> States], NEW k, IsNext(n, st, k), SwitchTo(n, st),
         \A i \in User : /\ st[i] \notin {"Defunct", "Waiting"} => Funded(i)'
                         /\ st[i] = "Waiting" => remaining_work'[i] <= task'[i].c,
         \A i \in User, m \in Locks : Listed(i, m)' => Funded(i)'
  PROVE  Budget'
<1>1. active_thread_index' = n /\ \A i \in Tcb : state'[i] = IF i = n THEN "Running" ELSE st[i]
  BY DEF SwitchTo
<1>2. n \in User => st[n] = "Ready"
  BY NextLive
<1> QED
  BY <1>1, <1>2, Constants DEF Budget

\* What a refused thread adds to the lists, ...
LEMMA AppendElements ==
  \A q \in Seq(User), i \in User : Elements(Append(q, i)) = Elements(q) \cup {i}
<1> SUFFICES ASSUME NEW q \in Seq(User), NEW i \in User
             PROVE  Elements(Append(q, i)) = Elements(q) \cup {i}
  OBVIOUS
<1>1. /\ Len(q) \in Nat /\ DOMAIN q = 1 .. Len(q)
      /\ DOMAIN Append(q, i) = 1 .. Len(q) + 1
      /\ \A k \in 1 .. Len(q) : Append(q, i)[k] = q[k]
      /\ Append(q, i)[Len(q) + 1] = i
  OBVIOUS
<1>2. \A k \in 1 .. Len(q) + 1 : k \in 1 .. Len(q) \/ k = Len(q) + 1
  BY <1>1
<1>3. 1 .. Len(q) \subseteq 1 .. Len(q) + 1 /\ Len(q) + 1 \in 1 .. Len(q) + 1
  BY <1>1
<1> QED
  BY <1>1, <1>2, <1>3, Zenon DEF Elements

\* The thread that is refused is put on the list of the lock that it waits on.
LEMMA BlockLists ==
  ASSUME TInv, NEW i \in Tcb, LockBlock(i)
  PROVE  /\ i \in User /\ lk[i] \in Locks /\ active_thread_index = i
         /\ \A j \in User, m \in Locks :
              Listed(j, m)' => Listed(j, m) \/ (j = i /\ m = WaitsOn(i))
         /\ \A j \in User, m \in Locks : Listed(j, m) => Listed(j, m)'
         /\ \A h \in Locks : h = WaitsOn(i) /\ fault' = "none" => Listed(i, h)'
<1> USE Constants DEF TInv, TypeOK
<1>1. i \in User /\ lk[i] \in Locks /\ active_thread_index = i /\ fault = "none"
  BY DEF LockBlock, At, FramesOK
<1>2. WaitsOn(i) \in Locks \cup {NoLock}
  BY <1>1 DEF WaitsOn, TypeSync, Locks, NoLock
<1>3. CASE WaitsOn(i) # NoLock /\ Len(blocked_threads[WaitsOn(i)]) < MaxBlocked
  <2>1. blocked_threads' = [blocked_threads EXCEPT ![WaitsOn(i)] = Append(@, i)]
    BY <1>3 DEF LockBlock
  <2>2. \A m \in Locks : blocked_threads'[m] =
          IF m = WaitsOn(i) THEN Append(blocked_threads[m], i) ELSE blocked_threads[m]
    BY <1>2, <1>3, <2>1 DEF TypeSync
  <2>3. \A m \in Locks : Elements(blocked_threads'[m]) =
          IF m = WaitsOn(i) THEN Elements(blocked_threads[m]) \cup {i}
          ELSE Elements(blocked_threads[m])
    BY <1>1, <2>2, AppendElements DEF TypeSync
  <2> QED
    BY <1>1, <1>2, <1>3, <2>3 DEF Listed
<1>4. CASE WaitsOn(i) = NoLock
  <2>1. UNCHANGED blocked_threads
    BY <1>4 DEF LockBlock
  <2> QED
    BY <1>1, <1>4, <2>1 DEF Listed, NoLock, Locks
<1>5. CASE WaitsOn(i) # NoLock /\ ~(Len(blocked_threads[WaitsOn(i)]) < MaxBlocked)
  <2>1. blocked_threads[WaitsOn(i)] \in Seq(User)
    BY <1>2, <1>5 DEF TypeSync
  <2>2. Len(blocked_threads[WaitsOn(i)]) >= MaxBlocked
    BY <1>5, <2>1, MaxBlockedAssumption
  <2>3. UNCHANGED blocked_threads /\ fault' = "overflow"
    BY <1>5, <2>2 DEF LockBlock
  <2> QED
    BY <1>1, <2>3 DEF Listed
<1> QED
  BY <1>3, <1>4, <1>5

\* ... and what a thread that opens the locks in M takes off them.
LEMMA OpenLists ==
  ASSUME TInv, NEW i \in Tcb, NEW M, Open(i, M)
  PROVE  \A j \in User, m \in Locks : Listed(j, m)' <=> m \notin M /\ Listed(j, m)
BY DEF Open, Listed, Elements

\* Every step keeps the budgets, if a thread that is charged waits for no lock.
LEMMA StepBudget ==
  ASSUME TInv, Budget, SysTick => \A m \in Locks : ~Listed(active_thread_index, m), [Next]_vars
  PROVE  Budget'
<1> USE Constants DEF TInv, TypeOK, TypeSwitch
<1>1. ASSUME NEW i \in Tcb, Return(i) PROVE Budget'
  BY <1>1 DEF Return, At, Goto, Budget, Funded, Listed, Elements, kernelVars, tcbVars,
     syncVars, lockVars, switchVars
<1>2. ASSUME NEW i \in Tcb, YieldPend(i) PROVE Budget'
  <2>1. PICK n \in Tcb : IsNext(n, state, num_active_threads) /\ SwitchTo(n, state)
    BY <1>2 DEF YieldPend, PendSV
  <2>2. UNCHANGED <<remaining_work, task, blocked_threads>>
    BY <1>2 DEF YieldPend, kernelVars, tcbVars, syncVars, lockVars
  <2> QED
    BY <2>1, <2>2, SwitchBudget DEF Budget, Funded, Listed, Elements
<1>3. ASSUME NEW i \in Tcb, LockAcquire(i) PROVE Budget'
  BY <1>3 DEF LockAcquire, At, Goto, Budget, Funded, Listed, Elements, kernelVars,
     tcbVars, syncVars, lockVars, switchVars
<1>4. ASSUME NEW i \in Tcb, LockBlock(i) PROVE Budget'
  <2>1. /\ state' = [state EXCEPT ![i] = "Blocked"]
        /\ UNCHANGED <<active_thread_index, task, remaining_work>>
    BY <1>4 DEF LockBlock, kernelVars, tcbVars
  <2> QED
    BY <1>4, <2>1, BlockLists DEF Budget, Funded
<1>5. ASSUME NEW i \in Tcb, LockPend(i) PROVE Budget'
  <2>1. PICK n \in Tcb : IsNext(n, state, num_active_threads) /\ SwitchTo(n, state)
    BY <1>5 DEF LockPend, PendSV
  <2>2. UNCHANGED <<remaining_work, task, blocked_threads>>
    BY <1>5 DEF LockPend, kernelVars, tcbVars, syncVars, lockVars
  <2> QED
    BY <2>1, <2>2, SwitchBudget DEF Budget, Funded, Listed, Elements
<1>6. ASSUME NEW i \in Tcb, UnlockWake(i) PROVE Budget'
  <2> DEFINE j == blocked_threads[lk[i]][wi[i]]
  <2>1. /\ active_thread_index = i /\ lk[i] \in Locks
        /\ state' = [state EXCEPT ![j] = "Ready"]
        /\ wi[i] \in DOMAIN blocked_threads[lk[i]]
        /\ UNCHANGED <<active_thread_index, task, remaining_work, blocked_threads>>
    BY <1>6, SMTT(30) DEF UnlockWake, At, Running, FramesOK, TypeFrame, TypeSync, kernelVars,
       tcbVars, syncVars, lockVars
  <2>2. j \in User /\ Listed(j, lk[i])
    BY <2>1, ListedUser DEF TypeSync, Listed, Elements
  <2> HIDE DEF j
  <2> QED
    BY <2>1, <2>2 DEF Budget, Funded, Listed
<1>7. ASSUME NEW i \in Tcb, UnlockWoken(i) PROVE Budget'
  BY <1>7 DEF UnlockWoken, At, Goto, Budget, Funded, Listed, Elements, kernelVars,
     tcbVars, syncVars, lockVars, switchVars
<1>8. ASSUME NEW i \in Tcb, UnlockReset(i) PROVE Budget'
  <2>1. /\ state' = [state EXCEPT ![i] = "Ready"]
        /\ UNCHANGED <<active_thread_index, task, remaining_work>>
        /\ Open(i, {lk[i]}) /\ active_thread_index = i /\ i \in User
    BY <1>8 DEF UnlockReset, kernelVars, tcbVars, At, FramesOK
  <2> QED
    BY <1>8, <2>1, OpenLists DEF Budget, Funded
<1>9. ASSUME NEW i \in Tcb, UnlockPend(i) PROVE Budget'
  <2>1. PICK n \in Tcb : IsNext(n, state, num_active_threads) /\ SwitchTo(n, state)
    BY <1>9 DEF UnlockPend, PendSV
  <2>2. UNCHANGED <<remaining_work, task, blocked_threads>>
    BY <1>9 DEF UnlockPend, kernelVars, tcbVars, syncVars, lockVars
  <2> QED
    BY <2>1, <2>2, SwitchBudget DEF Budget, Funded, Listed, Elements
<1>10. ASSUME NEW i \in Tcb, EndUnlock(i) PROVE Budget'
  BY <1>10 DEF EndUnlock, At, Goto, Budget, Funded, Listed, Elements, kernelVars,
     tcbVars, syncVars, lockVars, switchVars
<1>11. ASSUME NEW i \in Tcb, EndDefunct(i) PROVE Budget'
  BY <1>11 DEF EndDefunct, At, Goto, Running, Budget, Funded, Listed, Elements,
     kernelVars, tcbVars, syncVars, lockVars, switchVars
<1>12. ASSUME NEW i \in Tcb, EndDec(i) PROVE Budget'
  BY <1>12 DEF EndDec, At, Goto, Budget, Funded, Listed, Elements, kernelVars, tcbVars,
     syncVars, lockVars, switchVars
<1>13. ASSUME NEW i \in Tcb, EndPend(i) PROVE Budget'
  <2>1. PICK n \in Tcb : IsNext(n, state, num_active_threads) /\ SwitchTo(n, state)
    BY <1>13 DEF EndPend, PendSV
  <2>2. UNCHANGED <<remaining_work, task, blocked_threads>>
    BY <1>13 DEF EndPend, kernelVars, tcbVars, syncVars, lockVars
  <2> QED
    BY <2>1, <2>2, SwitchBudget DEF Budget, Funded, Listed, Elements
<1>14. ASSUME NEW i \in Tcb, DefineFill(i) PROVE Budget'
  <2> DEFINE d == df[i]
  <2>1. /\ task' = [task EXCEPT ![d.slot] = d.task]
        /\ remaining_work' = [remaining_work EXCEPT ![d.slot] = d.task.c]
        /\ state' = [state EXCEPT ![d.slot] = "Ready"]
        /\ UNCHANGED <<active_thread_index, blocked_threads>>
    BY <1>14 DEF DefineFill, syncVars, lockVars
  <2>2. d.slot \in User /\ d.task.c \in Nat /\ d.task.c > 0
    BY DEF TypeFrame, Tasks
  <2> HIDE DEF d
  <2>3. \A j \in User : Funded(j)' <=> Funded(j) \/ j = d.slot
    BY <2>1, <2>2 DEF Funded, TypeKernel
  <2>4. \A j \in User : state'[j] = IF j = d.slot THEN "Ready" ELSE state[j]
    BY <2>1, <2>2
  <2> QED
    BY <2>1, <2>2, <2>3, <2>4 DEF Budget, Funded, Listed, TypeKernel
<1>15. ASSUME NEW i \in Tcb, DefineFrames(i) PROVE Budget'
  BY <1>15 DEF DefineFrames, At, Budget, Funded, Listed, Elements, kernelVars, tcbVars,
     syncVars, lockVars, switchVars
<1>16. ASSUME NEW i \in Tcb, DefineCount(i) PROVE Budget'
  BY <1>16 DEF DefineCount, At, Goto, Budget, Funded, Listed, Elements, kernelVars,
     tcbVars, syncVars, lockVars, switchVars
<1>17. ASSUME NEW i \in Tcb, OrderClear(i) PROVE Budget'
  BY <1>17 DEF OrderClear, At, Goto, Budget, Funded, Listed, Elements, kernelVars,
     tcbVars, syncVars, lockVars, switchVars
<1>18. ASSUME NEW i \in Tcb, OrderAssign(i) PROVE Budget'
  BY <1>18 DEF OrderAssign, At, Budget, Funded, Listed, Elements, kernelVars, tcbVars,
     syncVars, lockVars, switchVars
<1>19. ASSUME NEW i \in Tcb, OrderDone(i) PROVE Budget'
  BY <1>19 DEF OrderDone, At, Goto, Budget, Funded, Listed, Elements, kernelVars,
     tcbVars, syncVars, lockVars, switchVars
<1>20. ASSUME NEW i \in Tcb, Yield(i) PROVE Budget'
  BY <1>20 DEF Yield, Yielded, Enter, At, Goto, Running, Budget, Funded, Listed,
     Elements, kernelVars, tcbVars, syncVars, lockVars, switchVars
<1>21. ASSUME NEW i \in Tcb, SleepMs(i) PROVE Budget'
  BY <1>21 DEF SleepMs, Enter, At, Goto, Running, Budget, Funded, Listed, Elements,
     kernelVars, tcbVars, syncVars, lockVars, switchVars
<1>22. ASSUME NEW i \in Tcb, Exit(i) PROVE Budget'
  BY <1>22 DEF Exit, At, Budget, Funded, Listed, Elements, kernelVars, tcbVars,
     syncVars, lockVars, switchVars
<1>23. ASSUME NEW i \in Tcb, NEW m \in Locks, LockEnter(i, m) PROVE Budget'
  BY <1>23 DEF LockEnter, Enter, At, Goto, Running, Budget, Funded, Listed, Elements,
     kernelVars, tcbVars, syncVars, lockVars, switchVars
<1>24. ASSUME NEW i \in Tcb, NEW m \in Locks, UnlockEnter(i, m) PROVE Budget'
  BY <1>24 DEF UnlockEnter, Enter, At, Goto, Running, Budget, Funded, Listed, Elements,
     kernelVars, tcbVars, syncVars, lockVars, switchVars
<1>25. ASSUME NEW i \in Tcb, EndEnter(i) PROVE Budget'
  BY <1>25 DEF EndEnter, Enter, At, Goto, Running, Budget, Funded, Listed, Elements,
     kernelVars, tcbVars, syncVars, lockVars, switchVars
<1>26. ASSUME NEW i \in Tcb, MemFault(i) PROVE Budget'
  <2> DEFINE woken == UNION {{blocked_threads[m][k] : k \in DOMAIN blocked_threads[m]} :
                               m \in Held(i)}
             st    == [j \in Tcb |-> IF j = i THEN "Defunct"
                                     ELSE IF j \in woken THEN "Ready" ELSE state[j]]
  <2>1. PICK n \in Tcb : IsNext(n, st, num_active_threads') /\ SwitchTo(n, st)
    BY <1>26, Zenon DEF MemFault
  <2>2. st \in [Tcb -> States]
    BY DEF States
  <2>3. /\ UNCHANGED <<remaining_work, task>>
        /\ blocked_threads' = [m \in Locks |-> IF m \in Held(i) THEN <<>> ELSE blocked_threads[m]]
    BY <1>26 DEF MemFault, Open, tcbVars
  <2>4. \A j \in woken \cap User : Funded(j)
    BY DEF Budget, Listed, Elements, Held
  <2>5. \A j \in User : /\ st[j] \notin {"Defunct", "Waiting"} => Funded(j)
                        /\ st[j] = "Waiting" => remaining_work[j] <= task[j].c
    BY <2>4 DEF Budget
  <2>6. \A j \in User, m \in Locks : Listed(j, m)' => Funded(j)'
    BY <2>3 DEF Budget, Listed, Elements, Funded
  <2> HIDE DEF st
  <2> QED
    BY <2>1, <2>2, <2>3, <2>5, <2>6, SwitchBudget DEF Funded
<1>27. ASSUME NEW i \in Tcb, NEW tk \in TaskSet, DefineEnter(i, tk) PROVE Budget'
  BY <1>27 DEF DefineEnter, Enter, At, Goto, Running, Budget, Funded, Listed, Elements,
     kernelVars, tcbVars, syncVars, lockVars, switchVars
<1>28. ASSUME StartPend PROVE Budget'
  <2>1. PICK n \in Tcb : IsNext(n, state, num_active_threads) /\ SwitchTo(n, state)
    BY <1>28 DEF StartPend, PendSV
  <2>2. UNCHANGED <<remaining_work, task, blocked_threads>>
    BY <1>28 DEF StartPend, kernelVars, tcbVars, syncVars, lockVars
  <2> QED
    BY <2>1, <2>2, SwitchBudget DEF Budget, Funded, Listed, Elements
<1>29. ASSUME StartJoin PROVE Budget'
  BY <1>29 DEF StartJoin, At, Goto, Budget, Funded, Listed, Elements, kernelVars,
     tcbVars, syncVars, lockVars, switchVars
<1>30. ASSUME NEW id \in {tk.id : tk \in TaskSet}, LockInit(id) PROVE Budget'
  BY <1>30 DEF LockInit, At, Budget, Funded, Listed, Elements, kernelVars, tcbVars,
     syncVars, lockVars, switchVars
<1>31. ASSUME StartRefused PROVE Budget'
  BY <1>31 DEF StartRefused, At, Budget, Funded, Listed, Elements, kernelVars, tcbVars,
     syncVars, lockVars, switchVars
<1>32. ASSUME NEW bins \in Bins, StartEnter(bins) PROVE Budget'
  BY <1>32 DEF StartEnter, Enter, At, Goto, Running, Budget, Funded, Listed, Elements,
     kernelVars, tcbVars, syncVars, lockVars, switchVars
<1>33. ASSUME SysTick PROVE Budget'
  <2>1. UNCHANGED <<task, blocked_threads>> /\ \A m \in Locks : ~Listed(active_thread_index, m)
    BY <1>33, Zenon DEF SysTick, syncVars, lockVars
  <2>2. CASE timer_wrap_around # timer_wrap_comparison
    BY <1>33, <2>1, <2>2 DEF SysTick, switchVars, Budget, Funded, Listed, Elements
  <2>3. CASE timer_wrap_around = timer_wrap_comparison
    <3> DEFINE a == active_thread_index
               st == [i \in Tcb |-> IF i \in Released(ChargedState)
                                    THEN "Ready" ELSE ChargedState[i]]
    <3>1. PICK n \in Tcb :
            /\ IsNext(n, ChargedState, num_active_threads) /\ SwitchTo(n, st)
            /\ remaining_work' = [i \in Tcb |-> IF i \in Released(ChargedState)
                                                THEN task[i].c ELSE ChargedWork[i]]
      BY <1>33, <2>3, Zenon DEF SysTick, PreemptPendSV
    <3>2. /\ active_thread_index' = n
          /\ \A i \in Tcb : state'[i] = IF i = n THEN "Running" ELSE st[i]
          /\ n \in User => ChargedState[n] = "Ready"
      BY <3>1, ChargedType, NextLive DEF SwitchTo
    <3>3. \A i \in User : i # a => ChargedWork[i] = remaining_work[i] /\ ChargedState[i] = state[i]
      BY DEF ChargedWork, ChargedState, TypeKernel
    <3>4. a \in User => /\ ChargedWork[a] = remaining_work[a] - 1
                        /\ ChargedState[a] = IF ChargedWork[a] = 0 THEN "Waiting" ELSE "Ready"
      BY DEF ChargedWork, ChargedState, TypeKernel, Budget, Funded, Dec
    <3>5. \A i \in Tcb : remaining_work[i] \in Nat /\ task[i].c \in Nat /\ task[i].c > 0
      BY DEF TypeKernel, Tasks
    <3>6. \A i \in User : /\ ChargedState[i] \notin {"Defunct", "Waiting"} =>
                               ChargedWork[i] > 0 /\ ChargedWork[i] <= task[i].c
                          /\ ChargedState[i] = "Waiting" => ChargedWork[i] <= task[i].c
      BY <3>3, <3>4, <3>5 DEF Budget, Funded
    <3>7. \A i \in User, m \in Locks : Listed(i, m) => Funded(i)'
      BY <2>1, <3>1, <3>3, <3>5 DEF Budget, Funded
    <3>8. \A i \in User : /\ st[i] \notin {"Defunct", "Waiting"} => Funded(i)'
                          /\ st[i] = "Waiting" => remaining_work'[i] <= task'[i].c
      BY <2>1, <3>1, <3>5, <3>6 DEF Funded
    <3>9. \A i \in User : ChargedState[i] = "Ready" => Funded(i)'
      BY <2>1, <3>1, <3>5, <3>6 DEF Funded
    <3>10. \A i \in User, m \in Locks : Listed(i, m)' => Listed(i, m)
      BY <2>1 DEF Listed, Elements
    <3> HIDE DEF st
    <3> QED
      BY <3>2, <3>7, <3>8, <3>9, <3>10 DEF Budget
  <2> QED
    BY <2>2, <2>3
<1>34. CASE UNCHANGED vars
  BY <1>34 DEF vars, kernelVars, timerVars, admitVars, tcbVars, ceilVars, syncVars,
     lockVars, switchVars, frameVars, Budget, Funded, Listed, Elements, kernelVars,
     tcbVars, syncVars, lockVars, switchVars
<1> QED
  BY <1>1, <1>2, <1>3, <1>4, <1>5, <1>6, <1>7, <1>8, <1>9, <1>10, <1>11, <1>12, <1>13,
     <1>14, <1>15, <1>16, <1>17, <1>18, <1>19, <1>20, <1>21, <1>22, <1>23, <1>24,
     <1>25, <1>26, <1>27, <1>28, <1>29, <1>30, <1>31, <1>32, <1>33, <1>34 DEF Next,
     Handler, Program, MainHandler, MainProgram

\* No thread has a budget initially.
LEMMA InitBudget == Init => Budget
<1> SUFFICES ASSUME Init PROVE Budget
  OBVIOUS
<1>1. \A i \in User : state[i] = "Defunct"
  BY Constants DEF Init, Idle, Main, User, Tcb
<1>2. active_thread_index \notin User
  BY Constants DEF Init
<1>3. \A i \in User, m \in Locks : ~Listed(i, m)
  BY DEF Init, Listed, Elements
<1> QED
  BY <1>1, <1>2, <1>3 DEF Budget

\* The invariant is stronger than BudgetKept.
LEMMA BudgetIsKept == TInv /\ Budget => BudgetKept
BY DEF TInv, TypeOK, TypeSwitch, States, Budget, Funded, BudgetKept, Live

-----------------------------------------------------------------------------
(* Programs without locks: budgets. *)

\* Then no thread that has ended is on a list.
LEMMA LockFreeLive == LockFree => ListedLive
BY NoneListed DEF ListedLive

\* No thread overruns its budget (BudgetKept), wherever the ticks expire.
THEOREM LockFreeBudget == ASSUME NoLocking PROVE Spec => []BudgetKept
<1>1. Init => TInv /\ LockFree /\ Budget
  BY InitTInv, InitLockFree, InitBudget
<1>2. TInv /\ LockFree /\ Budget /\ [Next]_vars => (TInv /\ LockFree /\ Budget)'
  <2> SUFFICES ASSUME TInv, LockFree, Budget, [Next]_vars PROVE (TInv /\ LockFree /\ Budget)'
    OBVIOUS
  <2>1. SysTick => \A m \in Locks : ~Listed(active_thread_index, m)
    <3>1. ASSUME NEW m \in Locks PROVE ~Listed(active_thread_index, m)
      BY DEF LockFree, Listed, Elements
    <3> QED
      BY <3>1
  <2> QED
    BY <2>1, StepTInv, StepLockFree, StepBudget
<1>3. TInv /\ Budget => BudgetKept
  BY BudgetIsKept
<1> QED
  BY <1>1, <1>2, <1>3, PTL DEF Spec

-----------------------------------------------------------------------------
(* Priority ceilings. *)

\* A lock that nobody holds is open once it is defined, and nobody waits for it.
Freed ==
  \A m \in Locks : current_locker[m] = Nobody =>
    (\A i \in User : ~Listed(i, m)) /\ (m <= num_defined_locks => s[m] = 1)

\* A thread holds no lock whose ceiling is less urgent than itself.
Entitled ==
  \A m \in Locks : current_locker[m] # Nobody =>
    static_priority[current_locker[m]] >= priority_ceiling[m]

\* A thread's priority is its own, or raised at most to the ceiling of a lock it holds.
Inherits ==
  \A i \in User :
    /\ dynamic_priority[i] <= static_priority[i]
    /\ dynamic_priority[i] = static_priority[i]
         \/ \E q \in Held(i) : dynamic_priority[i] >= priority_ceiling[q]

\* x could preempt y while y held its locks: it is more urgent than their ceilings.
Above(x, y) == \A m \in Held(y) : static_priority[x] < priority_ceiling[m]

\* Of two threads that hold locks one is above the other.
Nested ==
  \A x, y \in User : x # y /\ Held(x) # {} /\ Held(y) # {} => Above(x, y) \/ Above(y, x)

\* A listed thread waits for a lock of another, whose ceiling is as urgent as it is.
Refused ==
  \A i \in User, m \in Locks : Listed(i, m) =>
    /\ dynamic_priority[i] >= priority_ceiling[m]
    /\ current_locker[m] # Nobody /\ current_locker[m] # i

\* Priorities are positions in the order of the threads.
Positions == \A i \in User : static_priority[i] \in User \cup {Lowest}

Resources ==
  Freed /\ CeilingExact /\ Entitled /\ Inherits /\ Nested /\ Refused /\ Positions

\* The owner of the lock that a listed thread asked for inherits its priority.
AskedInherit ==
  \A i \in User, m \in Locks : Listed(i, m) /\ lk[i] = m =>
    dynamic_priority[current_locker[m]] <= dynamic_priority[i]

Numbers ==
  /\ \A i \in User : static_priority[i] \in 0 .. WordMax /\ dynamic_priority[i] \in 0 .. WordMax
  /\ \A m \in Locks : priority_ceiling[m] \in 0 .. WordMax
                      /\ current_locker[m] \in User \cup {Nobody}
  /\ global_priority_ceiling \in 0 .. WordMax
  /\ Nobody \notin User /\ Lowest = WordMax /\ WordMax \in Nat

\* The typing invariant gives those ranges.
LEMMA NumbersType == TInv => Numbers
BY Constants DEF TInv, TypeOK, TypeKernel, TypeSync, Numbers, Nobody, User, Lowest

\* The locks of a thread.
LEMMA HeldBy == \A i \in User, m \in Locks : m \in Held(i) <=> current_locker[m] = i
BY DEF Held

\* A thread that is granted l is above all that hold locks, or holds the highest.
LEMMA AcquireResources ==
  ASSUME TInv, OwnedLocked, Resources, NEW i \in User, NEW l \in Locks,
         s[l] = 1, MayLock(i), static_priority[i] >= priority_ceiling[l],
         s' = [s EXCEPT ![l] = 0], current_locker' = [current_locker EXCEPT ![l] = i],
         IF priority_ceiling[l] < global_priority_ceiling
         THEN /\ global_priority_ceiling' = priority_ceiling[l]
              /\ highest_priority_lock' = l
         ELSE UNCHANGED <<global_priority_ceiling, highest_priority_lock>>,
         UNCHANGED <<static_priority, dynamic_priority, blocked_threads, ceilVars>>
  PROVE  Resources'
<1>0. Numbers /\ Freed /\ CeilingExact /\ Entitled /\ Inherits /\ Nested /\ Refused /\ Positions
  BY NumbersType DEF Resources
<1>1. current_locker[l] = Nobody /\ \A j \in User : ~Listed(j, l)
  BY <1>0 DEF OwnedLocked, Freed
<1>2. /\ UNCHANGED <<priority_ceiling, num_defined_locks>>
      /\ \A j \in User, m \in Locks : Listed(j, m)' <=> Listed(j, m)
  BY DEF ceilVars, Listed, Elements
<1>3. /\ \A m \in Locks : current_locker'[m] = IF m = l THEN i ELSE current_locker[m]
      /\ \A m \in Locks : s'[m] = IF m = l THEN 0 ELSE s[m]
  BY DEF TInv, TypeOK, TypeSync
<1>4. \A j \in User : Held(j)' = IF j = i THEN Held(i) \cup {l} ELSE Held(j)
  BY <1>0, <1>1, <1>3 DEF Held, Numbers
<1>5. Freed'
  BY <1>0, <1>2, <1>3 DEF Freed, Numbers
<1>6. CeilingExact'
  BY <1>0, <1>1, <1>2, <1>3 DEF CeilingExact, Numbers, Locks, NoLock
<1>7. Entitled'
  BY <1>0, <1>2, <1>3 DEF Entitled
<1>8. Inherits'
  BY <1>0, <1>2, <1>4 DEF Inherits
<1>9. Nested'
  <2>1. \A x, y \in User : y # i => (Above(x, y)' <=> Above(x, y))
    BY <1>2, <1>4 DEF Above
  <2>2. ASSUME NEW y \in User, y # i, Held(y) # {}
        PROVE  Above(i, y)
    <3>1. \A q \in Held(y) : /\ q \in Locks /\ current_locker[q] = y
                             /\ global_priority_ceiling <= priority_ceiling[q]
                             /\ static_priority[y] >= priority_ceiling[q]
      BY <1>0, <2>2 DEF CeilingExact, Entitled, Held, Numbers
    <3>2. CASE dynamic_priority[i] < global_priority_ceiling
      <4>1. static_priority[i] = dynamic_priority[i]
        <5>1. \A q \in Held(i) : q \in Locks /\ global_priority_ceiling <= priority_ceiling[q]
          BY <1>0 DEF CeilingExact, Held, Numbers
        <5> QED
          BY <1>0, <3>2, <5>1 DEF Inherits, Numbers
      <4> QED
        BY <1>0, <3>1, <3>2, <4>1 DEF Above, Numbers
    <3>3. CASE highest_priority_lock # NoLock /\ current_locker[highest_priority_lock] = i
      <4> DEFINE h == highest_priority_lock
      <4>1. h \in Held(i) /\ priority_ceiling[h] = global_priority_ceiling
        BY <1>0, <3>3 DEF CeilingExact, Held, Numbers
      <4>2. Above(i, y) \/ Above(y, i)
        BY <1>0, <2>2, <4>1 DEF Nested
      <4>3. ~Above(y, i)
        BY <1>0, <2>2, <3>1, <4>1 DEF Above, Numbers
      <4> QED
        BY <4>2, <4>3
    <3> QED
      BY <3>2, <3>3 DEF MayLock
  <2>3. \A x, y \in User : x # i /\ y # i /\ x # y /\ Held(x)' # {} /\ Held(y)' # {}
          => Above(x, y)' \/ Above(y, x)'
    BY <1>0, <1>4, <2>1 DEF Nested
  <2>4. \A y \in User : y # i /\ Held(y)' # {} => Above(i, y)'
    BY <1>4, <2>1, <2>2
  <2> QED
    BY <2>3, <2>4 DEF Nested
<1>10. Refused'
  BY <1>0, <1>1, <1>2, <1>3 DEF Refused
<1>11. Positions'
  BY <1>0 DEF Positions
<1> QED
  BY <1>5, <1>6, <1>7, <1>8, <1>9, <1>10, <1>11 DEF Resources

\* A thread that is listed waits below every lock that it holds: the lock it waits
\* for has an owner above it.
LEMMA WaitBelow ==
  ASSUME TInv, Resources, NEW x \in User, NEW m \in Locks, Listed(x, m), NEW l \in Held(x)
  PROVE  /\ current_locker[m] \in User /\ current_locker[m] # x
         /\ priority_ceiling[m] <= static_priority[current_locker[m]]
         /\ static_priority[current_locker[m]] < priority_ceiling[l]
         /\ priority_ceiling[l] <= static_priority[x]
<1> DEFINE y == current_locker[m]
<1>0. Numbers /\ Entitled /\ Inherits /\ Nested /\ Refused
  BY NumbersType DEF Resources
<1>1. y # Nobody /\ y # x /\ dynamic_priority[x] >= priority_ceiling[m]
  BY <1>0 DEF Refused
<1>2. y \in User /\ m \in Held(y)
  BY <1>0, <1>1 DEF Numbers, Held
<1>3. ~Above(x, y)
  BY <1>0, <1>1, <1>2 DEF Above, Inherits, Numbers
<1>4. Above(y, x)
  BY <1>0, <1>1, <1>2, <1>3 DEF Nested
<1>5. l \in Locks /\ current_locker[l] = x /\ x # Nobody
  BY <1>0 DEF Held, Numbers
<1> QED
  BY <1>0, <1>1, <1>2, <1>4, <1>5 DEF Above, Entitled

\* The owner of the lock that a thread finds locked has a ceiling that is as urgent.
LEMMA LockedBelow ==
  ASSUME TInv, Resources, NEW i \in User, NEW l \in Locks, current_locker[l] # Nobody,
         current_locker[l] # i, static_priority[i] >= priority_ceiling[l]
  PROVE  dynamic_priority[i] >= priority_ceiling[l]
<1> DEFINE x == current_locker[l]
<1>0. Numbers /\ Entitled /\ Inherits /\ Nested
  BY NumbersType DEF Resources
<1>1. x \in User /\ l \in Held(x) /\ static_priority[x] >= priority_ceiling[l]
  BY <1>0 DEF Numbers, Held, Entitled
<1>2. CASE dynamic_priority[i] = static_priority[i]
  BY <1>2
<1>3. ASSUME NEW q \in Held(i), dynamic_priority[i] >= priority_ceiling[q]
      PROVE  dynamic_priority[i] >= priority_ceiling[l]
  <2>1. ~Above(i, x)
    BY <1>0, <1>1 DEF Above, Numbers
  <2>2. Above(x, i)
    BY <1>0, <1>1, <1>3, <2>1 DEF Nested
  <2>3. static_priority[x] < priority_ceiling[q] /\ q \in Locks
    BY <1>3, <2>2 DEF Above, Held
  <2> QED
    BY <1>0, <1>1, <1>3, <2>3 DEF Numbers
<1> QED
  BY <1>0, <1>2, <1>3 DEF Inherits

\* What a refused thread waits for.
LEMMA RefusedLock ==
  ASSUME TInv, OwnedLocked, Resources, NEW i \in User, lk[i] \in 1 .. num_defined_locks,
         lk[i] \in Locks, ~Granted(i), static_priority[i] >= priority_ceiling[lk[i]],
         current_locker[lk[i]] # i, static_priority[i] < Lowest
  PROVE  /\ WaitsOn(i) \in Locks
         /\ current_locker[WaitsOn(i)] # Nobody /\ current_locker[WaitsOn(i)] # i
         /\ dynamic_priority[i] >= priority_ceiling[WaitsOn(i)]
         /\ current_locker[lk[i]] # Nobody => WaitsOn(i) = lk[i]
<1> DEFINE l == lk[i]
<1>0. Numbers /\ Freed /\ CeilingExact /\ Inherits
  BY NumbersType DEF Resources
<1>1. s[l] \in {0, 1}
  BY DEF TInv, TypeOK, TypeSync
<1>2. CASE s[l] = 0
  <2>1. current_locker[l] # Nobody
    BY <1>0, <1>2 DEF Freed
  <2> QED
    BY <1>2, <2>1, LockedBelow DEF WaitsOn
<1>3. CASE s[l] = 1
  <2>1. WaitsOn(i) = highest_priority_lock /\ ~MayLock(i) /\ current_locker[l] = Nobody
    BY <1>3 DEF WaitsOn, Granted, IsOpen, OwnedLocked
  <2>2. global_priority_ceiling <= dynamic_priority[i] /\ global_priority_ceiling < Lowest
    BY <1>0, <2>1 DEF MayLock, Numbers, Inherits
  <2>3. /\ highest_priority_lock \in Locks /\ current_locker[highest_priority_lock] # Nobody
        /\ priority_ceiling[highest_priority_lock] = global_priority_ceiling
    BY <1>0, <2>2 DEF CeilingExact
  <2>4. highest_priority_lock # NoLock
    BY <2>3 DEF Locks, NoLock
  <2> QED
    BY <2>1, <2>2, <2>3, <2>4 DEF MayLock
<1> QED
  BY <1>1, <1>2, <1>3

\* A thread that is refused is put on the list of a lock that another holds; the
\* owner of the lock it asked for inherits its priority.
LEMMA BlockResources ==
  ASSUME TInv, OwnedLocked, Resources, AskedInherit, NEW i \in Tcb, LockBlock(i),
         lk[i] \in 1 .. num_defined_locks, static_priority[i] >= priority_ceiling[lk[i]],
         current_locker[lk[i]] # i, static_priority[i] < Lowest
  PROVE  Resources' /\ AskedInherit'
<1> DEFINE l == lk[i]
           h == WaitsOn(i)
           x == current_locker[l]
<1>0. Numbers /\ Freed /\ CeilingExact /\ Entitled /\ Inherits /\ Nested /\ Refused /\ Positions
  BY NumbersType DEF Resources
<1>1. /\ i \in User /\ l \in Locks
      /\ \A j \in User, m \in Locks : Listed(j, m)' => Listed(j, m) \/ (j = i /\ m = h)
  BY BlockLists
<1>2. /\ h \in Locks /\ current_locker[h] # Nobody /\ current_locker[h] # i
      /\ dynamic_priority[i] >= priority_ceiling[h]
      /\ x # Nobody => h = l
  BY <1>1, RefusedLock DEF LockBlock
<1>3. /\ UNCHANGED <<static_priority, s, current_locker, priority_ceiling, num_defined_locks>>
      /\ UNCHANGED <<global_priority_ceiling, highest_priority_lock, lk>>
  BY DEF LockBlock, kernelVars, tcbVars, ceilVars, frameVars
<1>4. x \in User \cup {Nobody}
  BY <1>0, <1>1 DEF Numbers
<1>5. \A j \in User : dynamic_priority'[j] =
        IF j = x THEN Lesser(dynamic_priority[j], dynamic_priority[i]) ELSE dynamic_priority[j]
  BY <1>0, <1>1, <1>4, Constants DEF LockBlock, TInv, TypeOK, TypeSync, Numbers
<1>6. \A j \in User : Held(j)' = Held(j)
  BY <1>3 DEF Held
<1> HIDE DEF h, l
<1>7. Freed'
  BY <1>0, <1>1, <1>2, <1>3 DEF Freed
<1>8. CeilingExact' /\ Entitled' /\ Positions'
  BY <1>0, <1>3 DEF CeilingExact, Entitled, Positions
<1>9. Nested'
  BY <1>0, <1>3, <1>6 DEF Nested, Above
<1>10. x # Nobody => /\ x \in User /\ x # i /\ l \in Held(x)
                     /\ dynamic_priority[i] >= priority_ceiling[l]
  BY <1>1, <1>2, <1>4 DEF l, Held
<1>11. Inherits'
  <2>1. ASSUME NEW j \in User PROVE /\ dynamic_priority'[j] <= static_priority[j]
                                    /\ dynamic_priority'[j] = static_priority[j]
                                         \/ \E q \in Held(j) : dynamic_priority'[j] >= priority_ceiling[q]
    <3>1. CASE dynamic_priority'[j] = dynamic_priority[j]
      BY <1>0, <3>1 DEF Inherits
    <3>2. CASE /\ j = x /\ dynamic_priority'[j] = dynamic_priority[i]
                  /\ dynamic_priority[i] < dynamic_priority[j]
      <4>1. dynamic_priority[j] <= static_priority[j]
        BY <1>0 DEF Inherits
      <4>2. x # Nobody
        BY <1>0, <3>2 DEF Numbers
      <4>3. l \in Held(j) /\ dynamic_priority'[j] >= priority_ceiling[l]
        BY <1>10, <3>2, <4>2
      <4> QED
        BY <1>0, <1>1, <3>2, <4>1, <4>3 DEF Numbers
    <3> QED
      BY <1>0, <1>1, <1>5, <3>1, <3>2 DEF Lesser, Numbers
  <2> QED
    BY <1>3, <1>6, <2>1 DEF Inherits
<1>12. ASSUME NEW m \in Locks, x \in User, Listed(x, m)
       PROVE  /\ dynamic_priority[i] >= priority_ceiling[m]
              /\ current_locker[m] \in User /\ current_locker[m] # x
              /\ dynamic_priority[current_locker[m]] <= dynamic_priority[i]
  <2>1. x # Nobody
    BY <1>0, <1>12 DEF Numbers
  <2>2. /\ current_locker[m] \in User /\ current_locker[m] # x
        /\ priority_ceiling[m] <= static_priority[current_locker[m]]
        /\ static_priority[current_locker[m]] < priority_ceiling[l]
    BY <1>10, <1>12, <2>1, WaitBelow
  <2>3. dynamic_priority[current_locker[m]] <= static_priority[current_locker[m]]
    BY <1>0, <2>2 DEF Inherits
  <2> QED
    BY <1>0, <1>1, <1>10, <2>1, <2>2, <2>3 DEF Numbers
<1>13. ASSUME NEW j \in User, NEW m \in Locks, Listed(j, m)
       PROVE  dynamic_priority'[j] >= priority_ceiling[m]
  <2>1. dynamic_priority[j] >= priority_ceiling[m]
    BY <1>0, <1>13 DEF Refused
  <2> QED
    BY <1>5, <1>12, <1>13, <2>1 DEF Lesser
<1>14. Refused'
  <2>1. dynamic_priority'[i] = dynamic_priority[i]
    BY <1>1, <1>4, <1>5, <1>10, <1>0 DEF Numbers
  <2> QED
    BY <1>0, <1>1, <1>2, <1>3, <1>13, <2>1 DEF Refused
<1>15. AskedInherit'
  <2> SUFFICES ASSUME NEW j \in User, NEW m \in Locks, Listed(j, m)', lk[j] = m
               PROVE  dynamic_priority'[current_locker[m]] <= dynamic_priority'[j]
    BY <1>3 DEF AskedInherit
  <2> DEFINE y == current_locker[m]
  <2>1. y \in User /\ y # j
    BY <1>0, <1>3, <1>14 DEF Refused, Numbers
  <2>2. dynamic_priority'[y] <= dynamic_priority[y]
    BY <1>0, <1>1, <1>5, <2>1 DEF Lesser, Numbers
  <2>3. CASE j = i /\ m = h /\ ~Listed(j, m)
    <3>1. m = l /\ y = x
      BY <2>3 DEF l
    <3> QED
      BY <1>0, <1>1, <1>5, <2>1, <2>3, <3>1 DEF Lesser, Numbers
  <2>4. CASE Listed(j, m)
    <3>1. dynamic_priority[y] <= dynamic_priority[j]
      BY <2>4 DEF AskedInherit
    <3>2. CASE j = x
      <4>1. dynamic_priority[y] <= dynamic_priority[i]
        BY <1>12, <2>4, <3>2
      <4> QED
        BY <1>0, <1>1, <1>5, <2>1, <2>2, <3>1, <3>2, <4>1 DEF Lesser, Numbers
    <3>3. CASE j # x
      <4>1. dynamic_priority'[j] = dynamic_priority[j] /\ dynamic_priority'[y] \in 0 .. WordMax
        BY <1>0, <1>1, <1>5, <2>1, <3>3 DEF Lesser, Numbers
      <4> QED
        BY <1>0, <2>1, <2>2, <3>1, <4>1 DEF Numbers
    <3> QED
      BY <3>2, <3>3
  <2> QED
    BY <1>1, <2>3, <2>4
<1> QED
  BY <1>7, <1>8, <1>9, <1>11, <1>14, <1>15 DEF Resources

\* A thread that waits for nothing opens the locks in M, and falls back to what the
\* locks it still holds give it.
LEMMA OpenResources ==
  ASSUME TInv, OwnedLocked, UndefinedFree, Resources, AskedInherit, NEW i \in User,
         NEW M \in SUBSET Held(i), Open(i, M), \A m \in Locks : ~Listed(i, m),
         UNCHANGED <<static_priority, priority_ceiling, num_defined_locks>>,
         \A j \in User : j # i => lk'[j] = lk[j]
  PROVE  Resources' /\ AskedInherit'
<1> DEFINE L == StillLocked(M)
<1>0. Numbers /\ Freed /\ CeilingExact /\ Entitled /\ Inherits /\ Nested /\ Refused /\ Positions
  BY NumbersType DEF Resources
<1>1. \A j \in User, m \in Locks : Listed(j, m)' <=> m \notin M /\ Listed(j, m)
  BY OpenLists, Constants
<1>2. /\ \A m \in Locks : current_locker'[m] = IF m \in M THEN Nobody ELSE current_locker[m]
      /\ \A m \in Locks : s'[m] = IF m \in M THEN 1 ELSE s[m]
  BY DEF Open
<1>3. \A m \in Locks : m \in L <=> current_locker'[m] # Nobody
  <2>1. \A m \in Locks : s[m] = 0 /\ m <= num_defined_locks <=> current_locker[m] # Nobody
    BY <1>0 DEF Freed, OwnedLocked, UndefinedFree, TInv, TypeOK, TypeKernel, Locks
  <2>2. \A m \in Locks : m \in 1 .. num_defined_locks <=> m <= num_defined_locks
    BY DEF TInv, TypeOK, TypeKernel, Locks
  <2> QED
    BY <1>2, <2>1, <2>2 DEF StillLocked
<1>4. L \subseteq Locks
  BY Constants DEF StillLocked, TInv, TypeOK, TypeKernel, Locks
<1>5. \A j \in User : Held(j)' = Held(j) \ M
  BY <1>0, <1>2 DEF Held, Numbers
<1>6. Held(i)' = {m \in L : current_locker[m] = i}
  BY <1>0, <1>2, <1>3, <1>4 DEF Held, Numbers
<1>7. \A j \in User : j # i => dynamic_priority'[j] = dynamic_priority[j]
  BY DEF Open, TInv, TypeOK, TypeSync, User, Tcb
<1>8. /\ dynamic_priority'[i] \in Inherited(i, L)
      /\ \A e \in Inherited(i, L) : dynamic_priority'[i] <= e
  BY Constants DEF Open, TInv, TypeOK, TypeSync
<1>9. \A e : e \in Inherited(i, L) <=>
        \/ e = static_priority[i]
        \/ \E j \in User, m \in Held(i)' : Listed(j, m) /\ e = dynamic_priority[j]
  <2>1. \A m \in Locks : \A k \in DOMAIN blocked_threads[m] : blocked_threads[m][k] \in User
    BY ListedUser DEF TInv, TypeOK, TypeSync
  <2> QED
    BY <1>4, <1>6, <2>1 DEF Inherited, Listed, Elements
<1> HIDE DEF L
<1>10. Freed'
  BY <1>0, <1>1, <1>2 DEF Freed
<1>11. CeilingExact'
  <2>1. PICK h \in 0 .. NumLocks :
          /\ IsHighest(h, L)
          /\ highest_priority_lock' = h
          /\ global_priority_ceiling' = IF h = NoLock THEN Lowest ELSE priority_ceiling[h]
    BY DEF Open, L
  <2>2. CASE h = NoLock
    <3>1. \A m \in L : ~(priority_ceiling[m] < Lowest)
      BY <1>4, <2>1, <2>2 DEF IsHighest, Locks, NoLock
    <3> QED
      BY <1>0, <1>3, <1>4, <2>1, <2>2, <3>1 DEF CeilingExact, Numbers
  <2>3. CASE h # NoLock
    <3>1. /\ h \in L /\ priority_ceiling[h] < Lowest
          /\ \A m \in L : priority_ceiling[m] < Lowest => priority_ceiling[h] <= priority_ceiling[m]
      BY <1>0, <1>4, <2>1, <2>3 DEF IsHighest, Numbers
    <3>2. global_priority_ceiling' = priority_ceiling[h] /\ highest_priority_lock' = h
      BY <2>1, <2>3
    <3>3. \A m \in L : priority_ceiling[h] <= priority_ceiling[m]
      BY <1>0, <1>4, <3>1 DEF Numbers
    <3> QED
      BY <1>0, <1>3, <1>4, <3>1, <3>2, <3>3 DEF CeilingExact, Numbers
  <2> QED
    BY <2>2, <2>3
<1>12. Entitled' /\ Positions'
  BY <1>0, <1>2 DEF Entitled, Positions
<1>13. Inherits'
  <2>1. ASSUME NEW j \in User PROVE /\ dynamic_priority'[j] <= static_priority[j]
                                    /\ dynamic_priority'[j] = static_priority[j]
                                         \/ \E q \in Held(j)' : dynamic_priority'[j] >= priority_ceiling[q]
    <3>1. CASE j = i
      <4>1. dynamic_priority'[i] <= static_priority[i]
        BY <1>8, <1>9
      <4>2. \A k \in User, m \in Held(i)' : Listed(k, m) => dynamic_priority[k] >= priority_ceiling[m]
        BY <1>0, <1>5 DEF Refused, Held
      <4> QED
        BY <1>8, <1>9, <3>1, <4>1, <4>2
    <3>2. CASE j # i
      <4>1. Held(j)' = Held(j)
        BY <1>0, <1>5, <3>2 DEF Held
      <4> QED
        BY <1>0, <1>7, <3>2, <4>1 DEF Inherits
    <3> QED
      BY <3>1, <3>2
  <2> QED
    BY <2>1 DEF Inherits
<1>14. Nested'
  <2>1. \A x, y \in User : Above(x, y) => Above(x, y)'
    BY <1>5 DEF Above
  <2> QED
    BY <1>0, <1>5, <2>1 DEF Nested
<1>15. Refused'
  BY <1>0, <1>1, <1>2, <1>7 DEF Refused
<1>16. AskedInherit'
  <2> SUFFICES ASSUME NEW j \in User, NEW m \in Locks, Listed(j, m)', lk'[j] = m
               PROVE  dynamic_priority'[current_locker'[m]] <= dynamic_priority'[j]
    BY DEF AskedInherit
  <2>1. Listed(j, m) /\ m \notin M /\ j # i /\ lk[j] = m /\ dynamic_priority'[j] = dynamic_priority[j]
    BY <1>1, <1>7
  <2>2. CASE current_locker[m] = i
    <3>1. m \in Held(i)'
      BY <1>5, <2>1, <2>2 DEF Held
    <3> QED
      BY <1>2, <1>8, <1>9, <2>1, <2>2, <3>1
  <2>3. CASE current_locker[m] # i
    <3>1. current_locker[m] \in User
      BY <1>0, <2>1 DEF Refused, Numbers
    <3> QED
      BY <1>2, <1>7, <2>1, <2>3, <3>1 DEF AskedInherit
  <2> QED
    BY <2>2, <2>3
<1> QED
  BY <1>10, <1>11, <1>12, <1>13, <1>14, <1>15, <1>16 DEF Resources

-----------------------------------------------------------------------------

\* The variables that Resources is about.
resVars == <<static_priority, dynamic_priority, s, current_locker, blocked_threads,
             priority_ceiling, num_defined_locks, global_priority_ceiling,
             highest_priority_lock>>

\* What does not touch the tables of locks keeps it.
LEMMA ResourcesSame == Resources /\ UNCHANGED resVars => Resources'
BY DEF resVars, Resources, Freed, CeilingExact, Entitled, Inherits, Nested, Above, Held,
       Refused, Listed, Elements, Positions

NoneHeld == \A m \in Locks : current_locker[m] = Nobody

\* While no lock is held ...
Vacant ==
  /\ NoneHeld
  /\ \A i \in User : dynamic_priority[i] = static_priority[i]
  /\ \A i \in User, m \in Locks : ~Listed(i, m)
  /\ global_priority_ceiling = Lowest /\ highest_priority_lock = NoLock
  /\ \A m \in Locks : m <= num_defined_locks => s[m] = 1
  /\ Positions

\* If no lock is held the tables are vacant.
LEMMA ResourcesVacant == TInv /\ Resources /\ NoneHeld => Vacant
<1> SUFFICES ASSUME TInv, Resources, NoneHeld PROVE Vacant
  OBVIOUS
<1>1. Numbers
  BY NumbersType
<1>2. \A i \in User : Held(i) = {}
  BY <1>1 DEF NoneHeld, Held, Numbers
<1> QED
  BY <1>1, <1>2 DEF Resources, Freed, CeilingExact, Inherits, Positions, NoneHeld,
     Vacant, Numbers

\* If they are vacant the protocol holds.
LEMMA VacantResources == TInv /\ Vacant => Resources /\ AskedInherit
<1> SUFFICES ASSUME TInv, Vacant PROVE Resources /\ AskedInherit
  OBVIOUS
<1>1. Numbers
  BY NumbersType
<1>2. \A i \in User : Held(i) = {}
  BY <1>1 DEF Vacant, NoneHeld, Held, Numbers
<1>3. AskedInherit /\ Freed /\ Entitled /\ Nested /\ Refused /\ Positions
  BY <1>2 DEF Vacant, AskedInherit, Freed, Entitled, Nested, Refused, NoneHeld
<1>4. CeilingExact
  BY <1>1 DEF Vacant, NoneHeld, CeilingExact, Numbers
<1>5. Inherits
  BY <1>1 DEF Vacant, Inherits, Numbers
<1> QED
  BY <1>3, <1>4, <1>5 DEF Resources

\* They are vacant initially.
LEMMA InitVacant == Init => Vacant
<1> SUFFICES ASSUME Init PROVE Vacant
  OBVIOUS
<1>1. \A i \in User, m \in Locks : ~Listed(i, m)
  BY DEF Init, Listed, Elements
<1>2. \A m \in Locks : m > 0
  BY DEF Locks
<1> QED
  BY <1>1, <1>2, Constants DEF Init, Vacant, NoneHeld, Positions, Locks, User, Tcb

-----------------------------------------------------------------------------
(* What the steps do to the locks and to the thread that executes. *)

Resting == {"user", "ret", "lock", "end", "join"}
Leaving == {"user", "yieldPend", "lockPend", "unlockPend", "endPend", "startPend"}

\* A thread that does not execute is not in the middle of a handler, unless a tick
\* came there.
Rest == \A i \in Tcb : i # active_thread_index =>
  pc[i] \in Resting \/ (pc[i] \in TickAt /\ ~(Bins \subseteq {0}))

\* The steps of main that set priorities or ceilings, or define a lock.
MainSets ==
  \/ \E id \in {tk.id : tk \in TaskSet} : LockInit(id)
  \/ StartRefused
  \/ \E bins \in Bins : StartEnter(bins)
  \/ OrderClear(Main) \/ OrderAssign(Main)

\* The steps that change the tables of threads and locks.
LEMMA StepTables ==
  ASSUME FixedTasks, TInv, Phases, [Next]_vars
  PROVE  \/ UNCHANGED resVars
         \/ \E i \in Tcb : LockAcquire(i) \/ LockBlock(i) \/ UnlockReset(i) \/ MemFault(i)
         \/ MainSets
<1> USE DEF TInv
<1> DEFINE Goal == \/ UNCHANGED resVars
                   \/ \E i \in Tcb : LockAcquire(i) \/ LockBlock(i) \/ UnlockReset(i) \/ MemFault(i)
                   \/ MainSets
<1>1. ASSUME NEW i \in Tcb, Return(i) PROVE Goal
  BY <1>1 DEF Return, At, Goto, resVars, kernelVars, tcbVars, ceilVars, syncVars,
     lockVars
<1>2. ASSUME NEW i \in Tcb, YieldPend(i) PROVE Goal
  BY <1>2 DEF YieldPend, At, Goto, resVars, kernelVars, tcbVars, ceilVars, syncVars,
     lockVars
<1>3. ASSUME NEW i \in Tcb, LockAcquire(i) PROVE Goal
  BY <1>3
<1>4. ASSUME NEW i \in Tcb, LockBlock(i) PROVE Goal
  BY <1>4
<1>5. ASSUME NEW i \in Tcb, LockPend(i) PROVE Goal
  BY <1>5 DEF LockPend, At, Goto, resVars, kernelVars, tcbVars, ceilVars, syncVars,
     lockVars
<1>6. ASSUME NEW i \in Tcb, UnlockWake(i) PROVE Goal
  BY <1>6 DEF UnlockWake, At, Running, resVars, kernelVars, tcbVars, ceilVars,
     syncVars, lockVars
<1>7. ASSUME NEW i \in Tcb, UnlockWoken(i) PROVE Goal
  BY <1>7 DEF UnlockWoken, At, Goto, resVars, kernelVars, tcbVars, ceilVars, syncVars,
     lockVars
<1>8. ASSUME NEW i \in Tcb, UnlockReset(i) PROVE Goal
  BY <1>8
<1>9. ASSUME NEW i \in Tcb, UnlockPend(i) PROVE Goal
  BY <1>9 DEF UnlockPend, At, Goto, resVars, kernelVars, tcbVars, ceilVars, syncVars,
     lockVars
<1>10. ASSUME NEW i \in Tcb, EndUnlock(i) PROVE Goal
  BY <1>10 DEF EndUnlock, At, Goto, resVars, kernelVars, tcbVars, ceilVars, syncVars,
     lockVars
<1>11. ASSUME NEW i \in Tcb, EndDefunct(i) PROVE Goal
  BY <1>11 DEF EndDefunct, At, Goto, Running, resVars, kernelVars, tcbVars, ceilVars,
     syncVars, lockVars
<1>12. ASSUME NEW i \in Tcb, EndDec(i) PROVE Goal
  BY <1>12 DEF EndDec, At, Goto, resVars, kernelVars, tcbVars, ceilVars, syncVars,
     lockVars
<1>13. ASSUME NEW i \in Tcb, EndPend(i) PROVE Goal
  BY <1>13 DEF EndPend, At, Goto, resVars, kernelVars, tcbVars, ceilVars, syncVars,
     lockVars
<1>14. ASSUME NEW i \in Tcb, DefineFill(i) PROVE Goal
  BY <1>14 DEF DefineFill, At, Goto, resVars, kernelVars, tcbVars, ceilVars, syncVars,
     lockVars
<1>15. ASSUME NEW i \in Tcb, DefineFrames(i) PROVE Goal
  BY <1>15 DEF DefineFrames, At, resVars, kernelVars, tcbVars, ceilVars, syncVars,
     lockVars
<1>16. ASSUME NEW i \in Tcb, DefineCount(i) PROVE Goal
  BY <1>16 DEF DefineCount, At, Goto, resVars, kernelVars, tcbVars, ceilVars, syncVars,
     lockVars
<1>17. ASSUME NEW i \in Tcb, OrderClear(i) PROVE Goal
  BY <1>17 DEF OrderClear, At, MainSets, Phases
<1>18. ASSUME NEW i \in Tcb, OrderAssign(i) PROVE Goal
  BY <1>18 DEF OrderAssign, At, MainSets, Phases
<1>19. ASSUME NEW i \in Tcb, OrderDone(i) PROVE Goal
  BY <1>19 DEF OrderDone, At, Goto, resVars, kernelVars, tcbVars, ceilVars, syncVars,
     lockVars
<1>20. ASSUME NEW i \in Tcb, Yield(i) PROVE Goal
  BY <1>20 DEF Yield, Yielded, Enter, At, Goto, Running, resVars, kernelVars, tcbVars,
     ceilVars, syncVars, lockVars
<1>21. ASSUME NEW i \in Tcb, SleepMs(i) PROVE Goal
  BY <1>21 DEF SleepMs, Enter, At, Goto, Running, resVars, kernelVars, tcbVars,
     ceilVars, syncVars, lockVars
<1>22. ASSUME NEW i \in Tcb, Exit(i) PROVE Goal
  BY <1>22 DEF Exit, At, resVars, kernelVars, tcbVars, ceilVars, syncVars, lockVars
<1>23. ASSUME NEW i \in Tcb, NEW m \in Locks, LockEnter(i, m) PROVE Goal
  BY <1>23 DEF LockEnter, Enter, At, Goto, Running, resVars, kernelVars, tcbVars,
     ceilVars, syncVars, lockVars
<1>24. ASSUME NEW i \in Tcb, NEW m \in Locks, UnlockEnter(i, m) PROVE Goal
  BY <1>24 DEF UnlockEnter, Enter, At, Goto, Running, resVars, kernelVars, tcbVars,
     ceilVars, syncVars, lockVars
<1>25. ASSUME NEW i \in Tcb, EndEnter(i) PROVE Goal
  BY <1>25 DEF EndEnter, Enter, At, Goto, Running, resVars, kernelVars, tcbVars,
     ceilVars, syncVars, lockVars
<1>26. ASSUME NEW i \in Tcb, MemFault(i) PROVE Goal
  BY <1>26
<1>27. ASSUME NEW i \in Tcb, NEW tk \in TaskSet, DefineEnter(i, tk) PROVE Goal
  BY <1>27 DEF DefineEnter, Enter, At, Goto, Running, resVars, kernelVars, tcbVars,
     ceilVars, syncVars, lockVars
<1>28. ASSUME StartPend PROVE Goal
  BY <1>28 DEF StartPend, At, Goto, resVars, kernelVars, tcbVars, ceilVars, syncVars,
     lockVars
<1>29. ASSUME StartJoin PROVE Goal
  BY <1>29 DEF StartJoin, At, Goto, resVars, kernelVars, tcbVars, ceilVars, syncVars,
     lockVars
<1>30. ASSUME NEW id \in {tk.id : tk \in TaskSet}, LockInit(id) PROVE Goal
  BY <1>30 DEF MainSets
<1>31. ASSUME StartRefused PROVE Goal
  BY <1>31 DEF MainSets
<1>32. ASSUME NEW bins \in Bins, StartEnter(bins) PROVE Goal
  BY <1>32 DEF MainSets
<1>33. ASSUME SysTick PROVE Goal
  BY <1>33 DEF SysTick, resVars, kernelVars, tcbVars, ceilVars, syncVars, lockVars
<1>34. CASE UNCHANGED vars
  BY <1>34 DEF vars, kernelVars, timerVars, admitVars, tcbVars, ceilVars, syncVars,
     lockVars, switchVars, frameVars, resVars, kernelVars, tcbVars, ceilVars, syncVars,
     lockVars
<1> QED
  BY <1>1, <1>2, <1>3, <1>4, <1>5, <1>6, <1>7, <1>8, <1>9, <1>10, <1>11, <1>12, <1>13,
     <1>14, <1>15, <1>16, <1>17, <1>18, <1>19, <1>20, <1>21, <1>22, <1>23, <1>24,
     <1>25, <1>26, <1>27, <1>28, <1>29, <1>30, <1>31, <1>32, <1>33, <1>34 DEF Next,
     Handler, Program, MainHandler, MainProgram

\* Where the executing thread goes: it leaves the processor only between handlers or by
\* a tick, to main if no thread is left or to a thread that has a priority, and leaves
\* the loop of lock only with the lock.
LEMMA StepThread ==
  ASSUME TInv, [Next]_vars, NEW a \in Tcb, a = active_thread_index
  PROVE  /\ active_thread_index' = a \/ pc'[a] \in Resting \/ (systick_on /\ pc'[a] = pc[a] /\ pc[a] \in TickAt)
         /\ active_thread_index' = a \/ (active_thread_index' \in User
                => dynamic_priority[active_thread_index'] < Lowest)
         /\ active_thread_index' = a \/ active_thread_index' # Main \/ num_active_threads' = 0
         /\ active_thread_index' = a \/ pc[a] \in Leaving \/ (systick_on /\ pc[a] \in TickAt)
         /\ pc'[a] \in Loop => \/ pc[a] \in Loop /\ UNCHANGED <<lk, current_locker>>
                               \/ \E m \in Locks : LockEnter(a, m)
                               \/ pc[a] = "endPend"
         /\ pc[a] \in Loop => pc'[a] \in Loop \/ LockAcquire(a)
         /\ fault' = "none" => fault = "none"
<1> USE Constants DEF TInv, TypeOK, TypeFrame, TypeSwitch, Loop, Resting, Leaving
<1> DEFINE Goal ==
  /\ active_thread_index' = a \/ pc'[a] \in Resting \/ (systick_on /\ pc'[a] = pc[a] /\ pc[a] \in TickAt)
  /\ active_thread_index' = a \/ (active_thread_index' \in User
         => dynamic_priority[active_thread_index'] < Lowest)
  /\ active_thread_index' = a \/ active_thread_index' # Main \/ num_active_threads' = 0
  /\ active_thread_index' = a \/ pc[a] \in Leaving \/ (systick_on /\ pc[a] \in TickAt)
  /\ pc'[a] \in Loop => \/ pc[a] \in Loop /\ UNCHANGED <<lk, current_locker>>
                        \/ \E m \in Locks : LockEnter(a, m)
                        \/ pc[a] = "endPend"
  /\ pc[a] \in Loop => pc'[a] \in Loop \/ LockAcquire(a)
  /\ fault' = "none" => fault = "none"
<1>1. ASSUME NEW i \in Tcb, Return(i) PROVE Goal
  BY <1>1 DEF Return, At, Goto, kernelVars, admitVars, switchVars, frameVars, syncVars,
     lockVars
<1>2. ASSUME NEW i \in Tcb, YieldPend(i) PROVE Goal
  <2>1. PICK n \in Tcb : IsNext(n, state, num_active_threads) /\ SwitchTo(n, state)
    BY <1>2 DEF YieldPend, PendSV
  <2>2. /\ active_thread_index' = n /\ (n \in User => dynamic_priority[n] < Lowest)
        /\ n = Main => num_active_threads = 0
    BY <2>1, NextMain DEF SwitchTo, IsNext, Eligible
  <2> QED
    BY <1>2, <2>2 DEF YieldPend, At, Goto, frameVars, syncVars, lockVars, kernelVars,
       admitVars
<1>3. ASSUME NEW i \in Tcb, LockAcquire(i) PROVE Goal
  BY <1>3 DEF LockAcquire, At, Goto, kernelVars, admitVars, switchVars, frameVars,
     syncVars, lockVars
<1>4. ASSUME NEW i \in Tcb, LockBlock(i) PROVE Goal
  BY <1>4 DEF LockBlock, At, Goto, kernelVars, admitVars, switchVars, frameVars,
     syncVars, lockVars
<1>5. ASSUME NEW i \in Tcb, LockPend(i) PROVE Goal
  <2>1. PICK n \in Tcb : IsNext(n, state, num_active_threads) /\ SwitchTo(n, state)
    BY <1>5 DEF LockPend, PendSV
  <2>2. /\ active_thread_index' = n /\ (n \in User => dynamic_priority[n] < Lowest)
        /\ n = Main => num_active_threads = 0
    BY <2>1, NextMain DEF SwitchTo, IsNext, Eligible
  <2> QED
    BY <1>5, <2>2 DEF LockPend, At, Goto, frameVars, syncVars, lockVars, kernelVars,
       admitVars
<1>6. ASSUME NEW i \in Tcb, UnlockWake(i) PROVE Goal
  BY <1>6 DEF UnlockWake, At, Running, kernelVars, admitVars, switchVars, frameVars,
     syncVars, lockVars
<1>7. ASSUME NEW i \in Tcb, UnlockWoken(i) PROVE Goal
  BY <1>7 DEF UnlockWoken, At, Goto, kernelVars, admitVars, switchVars, frameVars,
     syncVars, lockVars
<1>8. ASSUME NEW i \in Tcb, UnlockReset(i) PROVE Goal
  BY <1>8 DEF UnlockReset, At, Goto, kernelVars, admitVars, switchVars, frameVars,
     syncVars, lockVars
<1>9. ASSUME NEW i \in Tcb, UnlockPend(i) PROVE Goal
  <2>1. PICK n \in Tcb : IsNext(n, state, num_active_threads) /\ SwitchTo(n, state)
    BY <1>9 DEF UnlockPend, PendSV
  <2>2. /\ active_thread_index' = n /\ (n \in User => dynamic_priority[n] < Lowest)
        /\ n = Main => num_active_threads = 0
    BY <2>1, NextMain DEF SwitchTo, IsNext, Eligible
  <2> QED
    BY <1>9, <2>2 DEF UnlockPend, At, Goto, frameVars, syncVars, lockVars, kernelVars,
       admitVars
<1>10. ASSUME NEW i \in Tcb, EndUnlock(i) PROVE Goal
  BY <1>10 DEF EndUnlock, At, Goto, kernelVars, admitVars, switchVars, frameVars,
     syncVars, lockVars
<1>11. ASSUME NEW i \in Tcb, EndDefunct(i) PROVE Goal
  BY <1>11 DEF EndDefunct, At, Goto, Running, kernelVars, admitVars, switchVars,
     frameVars, syncVars, lockVars
<1>12. ASSUME NEW i \in Tcb, EndDec(i) PROVE Goal
  BY <1>12 DEF EndDec, At, Goto, kernelVars, admitVars, switchVars, frameVars,
     syncVars, lockVars
<1>13. ASSUME NEW i \in Tcb, EndPend(i) PROVE Goal
  <2>1. PICK n \in Tcb : IsNext(n, state, num_active_threads) /\ SwitchTo(n, state)
    BY <1>13 DEF EndPend, PendSV
  <2>2. /\ active_thread_index' = n /\ (n \in User => dynamic_priority[n] < Lowest)
        /\ n = Main => num_active_threads = 0
    BY <2>1, NextMain DEF SwitchTo, IsNext, Eligible
  <2> QED
    BY <1>13, <2>2 DEF EndPend, At, Goto, frameVars, syncVars, lockVars, kernelVars,
       admitVars
<1>14. ASSUME NEW i \in Tcb, DefineFill(i) PROVE Goal
  BY <1>14 DEF DefineFill, At, Goto, kernelVars, admitVars, switchVars, frameVars,
     syncVars, lockVars
<1>15. ASSUME NEW i \in Tcb, DefineFrames(i) PROVE Goal
  BY <1>15 DEF DefineFrames, At, kernelVars, admitVars, switchVars, frameVars,
     syncVars, lockVars
<1>16. ASSUME NEW i \in Tcb, DefineCount(i) PROVE Goal
  BY <1>16 DEF DefineCount, At, Goto, kernelVars, admitVars, switchVars, frameVars,
     syncVars, lockVars
<1>17. ASSUME NEW i \in Tcb, OrderClear(i) PROVE Goal
  BY <1>17 DEF OrderClear, At, Goto, kernelVars, admitVars, switchVars, frameVars,
     syncVars, lockVars
<1>18. ASSUME NEW i \in Tcb, OrderAssign(i) PROVE Goal
  BY <1>18 DEF OrderAssign, At, kernelVars, admitVars, switchVars, frameVars, syncVars,
     lockVars
<1>19. ASSUME NEW i \in Tcb, OrderDone(i) PROVE Goal
  BY <1>19 DEF OrderDone, At, Goto, kernelVars, admitVars, switchVars, frameVars,
     syncVars, lockVars
<1>20. ASSUME NEW i \in Tcb, Yield(i) PROVE Goal
  BY <1>20 DEF Yield, Yielded, Enter, At, Goto, Running, kernelVars, admitVars,
     switchVars, frameVars, syncVars, lockVars
<1>21. ASSUME NEW i \in Tcb, SleepMs(i) PROVE Goal
  BY <1>21 DEF SleepMs, Enter, At, Goto, Running, kernelVars, admitVars, switchVars,
     frameVars, syncVars, lockVars
<1>22. ASSUME NEW i \in Tcb, Exit(i) PROVE Goal
  BY <1>22 DEF Exit, At, kernelVars, admitVars, switchVars, frameVars, syncVars,
     lockVars
<1>23. ASSUME NEW i \in Tcb, NEW m \in Locks, LockEnter(i, m) PROVE Goal
  BY <1>23 DEF LockEnter, Enter, At, Goto, Running, kernelVars, admitVars, switchVars,
     frameVars, syncVars, lockVars
<1>24. ASSUME NEW i \in Tcb, NEW m \in Locks, UnlockEnter(i, m) PROVE Goal
  BY <1>24 DEF UnlockEnter, Enter, At, Goto, Running, kernelVars, admitVars,
     switchVars, frameVars, syncVars, lockVars
<1>25. ASSUME NEW i \in Tcb, EndEnter(i) PROVE Goal
  BY <1>25 DEF EndEnter, Enter, At, Goto, Running, kernelVars, admitVars, switchVars,
     frameVars, syncVars, lockVars
<1>26. ASSUME NEW i \in Tcb, MemFault(i) PROVE Goal
  <2> DEFINE Chosen(n, st) == IsNext(n, st, num_active_threads') /\ SwitchTo(n, st)
  <2>0. \E n \in Tcb : \E st : Chosen(n, st)
    BY <1>26, Zenon DEF MemFault
  <2>1. PICK n \in Tcb : \E st : Chosen(n, st)
    BY <2>0
  <2>2. /\ active_thread_index' = n /\ (n \in User => dynamic_priority[n] < Lowest)
        /\ n = Main => num_active_threads' = 0
    BY <2>1, NextMain DEF SwitchTo, IsNext, Eligible
  <2> QED
    BY <1>26, <2>2 DEF MemFault, At
<1>27. ASSUME NEW i \in Tcb, NEW tk \in TaskSet, DefineEnter(i, tk) PROVE Goal
  BY <1>27 DEF DefineEnter, Enter, At, Goto, Running, kernelVars, admitVars,
     switchVars, frameVars, syncVars, lockVars
<1>28. ASSUME StartPend PROVE Goal
  <2>1. PICK n \in Tcb : IsNext(n, state, num_active_threads) /\ SwitchTo(n, state)
    BY <1>28 DEF StartPend, PendSV
  <2>2. /\ active_thread_index' = n /\ (n \in User => dynamic_priority[n] < Lowest)
        /\ n = Main => num_active_threads = 0
    BY <2>1, NextMain DEF SwitchTo, IsNext, Eligible
  <2> QED
    BY <1>28, <2>2 DEF StartPend, At, Goto, frameVars, syncVars, lockVars, kernelVars,
       admitVars
<1>29. ASSUME StartJoin PROVE Goal
  BY <1>29 DEF StartJoin, At, Goto, kernelVars, admitVars, switchVars, frameVars,
     syncVars, lockVars
<1>30. ASSUME NEW id \in {tk.id : tk \in TaskSet}, LockInit(id) PROVE Goal
  BY <1>30 DEF LockInit, At, kernelVars, admitVars, switchVars, frameVars, syncVars,
     lockVars
<1>31. ASSUME StartRefused PROVE Goal
  BY <1>31 DEF StartRefused, At, kernelVars, admitVars, switchVars, frameVars,
     syncVars, lockVars
<1>32. ASSUME NEW bins \in Bins, StartEnter(bins) PROVE Goal
  BY <1>32 DEF StartEnter, Enter, At, Goto, Running, kernelVars, admitVars, switchVars,
     frameVars, syncVars, lockVars
<1>33. ASSUME SysTick PROVE Goal
  <2>1. pc[a] \in TickAt /\ UNCHANGED <<pc, lk, current_locker, num_active_threads>>
    BY <1>33, Zenon DEF SysTick, frameVars, admitVars, syncVars, lockVars
  <2>2. fault = "none" /\ systick_on
    BY <1>33, Zenon DEF SysTick
  <2>3. CASE UNCHANGED switchVars
    BY <2>1, <2>2, <2>3 DEF switchVars
  <2>4. CASE PreemptPendSV
    <3>1. PICK n \in Tcb : \E st, sw : IsNext(n, st, num_active_threads)
                                         /\ SwitchTo(n, sw)
      BY <2>4, Zenon DEF PreemptPendSV
    <3>2. /\ active_thread_index' = n /\ (n \in User => dynamic_priority[n] < Lowest)
          /\ n = Main => num_active_threads = 0
      BY <3>1, NextMain DEF SwitchTo, IsNext, Eligible
    <3> QED
      BY <2>1, <2>2, <3>2
  <2> QED
    BY <1>33, <2>3, <2>4, Zenon DEF SysTick
<1>34. CASE UNCHANGED vars
  BY <1>34 DEF vars, kernelVars, timerVars, admitVars, tcbVars, ceilVars, syncVars,
     lockVars, switchVars, frameVars, kernelVars, admitVars, switchVars, frameVars,
     syncVars, lockVars
<1> QED
  BY <1>1, <1>2, <1>3, <1>4, <1>5, <1>6, <1>7, <1>8, <1>9, <1>10, <1>11, <1>12, <1>13,
     <1>14, <1>15, <1>16, <1>17, <1>18, <1>19, <1>20, <1>21, <1>22, <1>23, <1>24,
     <1>25, <1>26, <1>27, <1>28, <1>29, <1>30, <1>31, <1>32, <1>33, <1>34 DEF Next,
     Handler, Program, MainHandler, MainProgram

\* Only lock blocks a thread.
LEMMA StepBlocked ==
  ASSUME TInv, [Next]_vars, NEW j \in User, state'[j] = "Blocked"
  PROVE  \/ state[j] = "Blocked"
         \/ LockBlock(j)
<1> USE Constants DEF TInv, TypeOK, TypeSwitch
<1> DEFINE Goal == \/ state[j] = "Blocked"
                   \/ LockBlock(j)
<1>1. ASSUME NEW i \in Tcb, Return(i) PROVE Goal
  BY <1>1 DEF Return, At, Goto, switchVars
<1>2. ASSUME NEW i \in Tcb, YieldPend(i) PROVE Goal
  <2>1. PICK n \in Tcb : SwitchTo(n, state)
    BY <1>2 DEF YieldPend, PendSV
  <2> QED
    BY <2>1 DEF SwitchTo
<1>3. ASSUME NEW i \in Tcb, LockAcquire(i) PROVE Goal
  BY <1>3 DEF LockAcquire, At, Goto, switchVars
<1>4. ASSUME NEW i \in Tcb, LockBlock(i) PROVE Goal
  BY <1>4 DEF LockBlock, At, Goto, switchVars
<1>5. ASSUME NEW i \in Tcb, LockPend(i) PROVE Goal
  <2>1. PICK n \in Tcb : SwitchTo(n, state)
    BY <1>5 DEF LockPend, PendSV
  <2> QED
    BY <2>1 DEF SwitchTo
<1>6. ASSUME NEW i \in Tcb, UnlockWake(i) PROVE Goal
  BY <1>6 DEF UnlockWake, At, Running, switchVars
<1>7. ASSUME NEW i \in Tcb, UnlockWoken(i) PROVE Goal
  BY <1>7 DEF UnlockWoken, At, Goto, switchVars
<1>8. ASSUME NEW i \in Tcb, UnlockReset(i) PROVE Goal
  BY <1>8 DEF UnlockReset, At, Goto, switchVars
<1>9. ASSUME NEW i \in Tcb, UnlockPend(i) PROVE Goal
  <2>1. PICK n \in Tcb : SwitchTo(n, state)
    BY <1>9 DEF UnlockPend, PendSV
  <2> QED
    BY <2>1 DEF SwitchTo
<1>10. ASSUME NEW i \in Tcb, EndUnlock(i) PROVE Goal
  BY <1>10 DEF EndUnlock, At, Goto, switchVars
<1>11. ASSUME NEW i \in Tcb, EndDefunct(i) PROVE Goal
  BY <1>11 DEF EndDefunct, At, Goto, Running, switchVars
<1>12. ASSUME NEW i \in Tcb, EndDec(i) PROVE Goal
  BY <1>12 DEF EndDec, At, Goto, switchVars
<1>13. ASSUME NEW i \in Tcb, EndPend(i) PROVE Goal
  <2>1. PICK n \in Tcb : SwitchTo(n, state)
    BY <1>13 DEF EndPend, PendSV
  <2> QED
    BY <2>1 DEF SwitchTo
<1>14. ASSUME NEW i \in Tcb, DefineFill(i) PROVE Goal
  BY <1>14 DEF DefineFill, At, Goto, switchVars
<1>15. ASSUME NEW i \in Tcb, DefineFrames(i) PROVE Goal
  BY <1>15 DEF DefineFrames, At, switchVars
<1>16. ASSUME NEW i \in Tcb, DefineCount(i) PROVE Goal
  BY <1>16 DEF DefineCount, At, Goto, switchVars
<1>17. ASSUME NEW i \in Tcb, OrderClear(i) PROVE Goal
  BY <1>17 DEF OrderClear, At, Goto, switchVars
<1>18. ASSUME NEW i \in Tcb, OrderAssign(i) PROVE Goal
  BY <1>18 DEF OrderAssign, At, switchVars
<1>19. ASSUME NEW i \in Tcb, OrderDone(i) PROVE Goal
  BY <1>19 DEF OrderDone, At, Goto, switchVars
<1>20. ASSUME NEW i \in Tcb, Yield(i) PROVE Goal
  BY <1>20 DEF Yield, Yielded, Enter, At, Goto, Running, switchVars
<1>21. ASSUME NEW i \in Tcb, SleepMs(i) PROVE Goal
  BY <1>21 DEF SleepMs, Enter, At, Goto, Running, switchVars
<1>22. ASSUME NEW i \in Tcb, Exit(i) PROVE Goal
  BY <1>22 DEF Exit, At, switchVars
<1>23. ASSUME NEW i \in Tcb, NEW m \in Locks, LockEnter(i, m) PROVE Goal
  BY <1>23 DEF LockEnter, Enter, At, Goto, Running, switchVars
<1>24. ASSUME NEW i \in Tcb, NEW m \in Locks, UnlockEnter(i, m) PROVE Goal
  BY <1>24 DEF UnlockEnter, Enter, At, Goto, Running, switchVars
<1>25. ASSUME NEW i \in Tcb, EndEnter(i) PROVE Goal
  BY <1>25 DEF EndEnter, Enter, At, Goto, Running, switchVars
<1>26. ASSUME NEW i \in Tcb, MemFault(i) PROVE Goal
  <2> DEFINE woken == UNION {{blocked_threads[m][k] : k \in DOMAIN blocked_threads[m]} :
                               m \in Held(i)}
             st    == [k \in Tcb |-> IF k = i THEN "Defunct"
                                     ELSE IF k \in woken THEN "Ready" ELSE state[k]]
  <2>1. PICK n \in Tcb : SwitchTo(n, st)
    BY <1>26, Zenon DEF MemFault
  <2> QED
    BY <2>1 DEF SwitchTo
<1>27. ASSUME NEW i \in Tcb, NEW tk \in TaskSet, DefineEnter(i, tk) PROVE Goal
  BY <1>27 DEF DefineEnter, Enter, At, Goto, Running, switchVars
<1>28. ASSUME StartPend PROVE Goal
  <2>1. PICK n \in Tcb : SwitchTo(n, state)
    BY <1>28 DEF StartPend, PendSV
  <2> QED
    BY <2>1 DEF SwitchTo
<1>29. ASSUME StartJoin PROVE Goal
  BY <1>29 DEF StartJoin, At, Goto, switchVars
<1>30. ASSUME NEW id \in {tk.id : tk \in TaskSet}, LockInit(id) PROVE Goal
  BY <1>30 DEF LockInit, At, switchVars
<1>31. ASSUME StartRefused PROVE Goal
  BY <1>31 DEF StartRefused, At, switchVars
<1>32. ASSUME NEW bins \in Bins, StartEnter(bins) PROVE Goal
  BY <1>32 DEF StartEnter, Enter, At, Goto, Running, switchVars
<1>33. ASSUME SysTick PROVE Goal
  <2>1. CASE UNCHANGED switchVars
    BY <2>1 DEF switchVars
  <2>2. CASE PreemptPendSV
    <3> DEFINE st == [i \in Tcb |-> IF i \in Released(ChargedState)
                                    THEN "Ready" ELSE ChargedState[i]]
    <3>1. PICK n \in Tcb : SwitchTo(n, st)
      BY <2>2, Zenon DEF PreemptPendSV
    <3> QED
      BY <3>1 DEF SwitchTo, ChargedState
  <2> QED
    BY <1>33, <2>1, <2>2, Zenon DEF SysTick
<1>34. CASE UNCHANGED vars
  BY <1>34 DEF vars, kernelVars, timerVars, admitVars, tcbVars, ceilVars, syncVars,
     lockVars, switchVars, frameVars, switchVars
<1> QED
  BY <1>1, <1>2, <1>3, <1>4, <1>5, <1>6, <1>7, <1>8, <1>9, <1>10, <1>11, <1>12, <1>13,
     <1>14, <1>15, <1>16, <1>17, <1>18, <1>19, <1>20, <1>21, <1>22, <1>23, <1>24,
     <1>25, <1>26, <1>27, <1>28, <1>29, <1>30, <1>31, <1>32, <1>33, <1>34 DEF Next,
     Handler, Program, MainHandler, MainProgram

\* The half-made slot of thread_define gets its context at once.
LEMMA StepFrames ==
  ASSUME CriticalUninterrupted, TInv, Phases, [Next]_vars, NEW a \in Tcb, a = active_thread_index
  PROVE  /\ pc[a] = "frames" => DefineFrames(a) \/ UNCHANGED <<pc, df, active_thread_index>>
         /\ pc[a] = "fill" => UNCHANGED <<df, active_thread_index>>
<1> USE DEF TInv, TypeOK, TypeSwitch
<1> DEFINE Goal == /\ pc[a] = "frames" =>
                        DefineFrames(a) \/ UNCHANGED <<pc, df, active_thread_index>>
                   /\ pc[a] = "fill" => UNCHANGED <<df, active_thread_index>>
<1>1. ASSUME NEW i \in Tcb, Return(i) PROVE Goal
  BY <1>1 DEF Return, At, Goto, switchVars, frameVars
<1>2. ASSUME NEW i \in Tcb, YieldPend(i) PROVE Goal
  BY <1>2 DEF YieldPend, At, Goto, switchVars, frameVars
<1>3. ASSUME NEW i \in Tcb, LockAcquire(i) PROVE Goal
  BY <1>3 DEF LockAcquire, At, Goto, switchVars, frameVars
<1>4. ASSUME NEW i \in Tcb, LockBlock(i) PROVE Goal
  BY <1>4 DEF LockBlock, At, Goto, switchVars, frameVars
<1>5. ASSUME NEW i \in Tcb, LockPend(i) PROVE Goal
  BY <1>5 DEF LockPend, At, Goto, switchVars, frameVars
<1>6. ASSUME NEW i \in Tcb, UnlockWake(i) PROVE Goal
  BY <1>6 DEF UnlockWake, At, Running, switchVars, frameVars
<1>7. ASSUME NEW i \in Tcb, UnlockWoken(i) PROVE Goal
  BY <1>7 DEF UnlockWoken, At, Goto, switchVars, frameVars
<1>8. ASSUME NEW i \in Tcb, UnlockReset(i) PROVE Goal
  BY <1>8 DEF UnlockReset, At, Goto, switchVars, frameVars
<1>9. ASSUME NEW i \in Tcb, UnlockPend(i) PROVE Goal
  BY <1>9 DEF UnlockPend, At, Goto, switchVars, frameVars
<1>10. ASSUME NEW i \in Tcb, EndUnlock(i) PROVE Goal
  BY <1>10 DEF EndUnlock, At, Goto, switchVars, frameVars
<1>11. ASSUME NEW i \in Tcb, EndDefunct(i) PROVE Goal
  BY <1>11 DEF EndDefunct, At, Goto, Running,
     switchVars, frameVars
<1>12. ASSUME NEW i \in Tcb, EndDec(i) PROVE Goal
  BY <1>12 DEF EndDec, At, Goto, switchVars, frameVars
<1>13. ASSUME NEW i \in Tcb, EndPend(i) PROVE Goal
  BY <1>13 DEF EndPend, At, Goto, switchVars, frameVars
<1>14. ASSUME NEW i \in Tcb, DefineFill(i) PROVE Goal
  BY <1>14 DEF DefineFill, At, Goto, switchVars, frameVars
<1>15. ASSUME NEW i \in Tcb, DefineFrames(i) PROVE Goal
  BY <1>15 DEF DefineFrames, At, switchVars, frameVars
<1>16. ASSUME NEW i \in Tcb, DefineCount(i) PROVE Goal
  BY <1>16 DEF DefineCount, At, Goto, switchVars, frameVars
<1>17. ASSUME NEW i \in Tcb, OrderClear(i) PROVE Goal
  BY <1>17 DEF OrderClear, At, Goto, switchVars, frameVars
<1>18. ASSUME NEW i \in Tcb, OrderAssign(i) PROVE Goal
  BY <1>18 DEF OrderAssign, At, switchVars, frameVars
<1>19. ASSUME NEW i \in Tcb, OrderDone(i) PROVE Goal
  BY <1>19 DEF OrderDone, At, Goto, switchVars, frameVars
<1>20. ASSUME NEW i \in Tcb, Yield(i) PROVE Goal
  BY <1>20 DEF Yield, Yielded, Enter, At, Goto, Running, CriticalUninterrupted,
     Critical, switchVars, frameVars
<1>21. ASSUME NEW i \in Tcb, SleepMs(i) PROVE Goal
  BY <1>21 DEF SleepMs, Enter, At, Goto, Running,
     switchVars, frameVars
<1>22. ASSUME NEW i \in Tcb, Exit(i) PROVE Goal
  BY <1>22 DEF Exit, At, switchVars, frameVars
<1>23. ASSUME NEW i \in Tcb, NEW m \in Locks, LockEnter(i, m) PROVE Goal
  BY <1>23 DEF LockEnter, Enter, At, Goto, Running,
     switchVars, frameVars
<1>24. ASSUME NEW i \in Tcb, NEW m \in Locks, UnlockEnter(i, m) PROVE Goal
  BY <1>24 DEF UnlockEnter, Enter, At, Goto, Running,
     switchVars, frameVars
<1>25. ASSUME NEW i \in Tcb, EndEnter(i) PROVE Goal
  BY <1>25 DEF EndEnter, Enter, At, Goto, Running,
     switchVars, frameVars
<1>26. ASSUME NEW i \in Tcb, MemFault(i) PROVE Goal
  BY <1>26 DEF MemFault, At, switchVars, frameVars
<1>27. ASSUME NEW i \in Tcb, NEW tk \in TaskSet, DefineEnter(i, tk) PROVE Goal
  BY <1>27 DEF DefineEnter, Enter, At, Goto, Running,
     switchVars, frameVars
<1>28. ASSUME StartPend PROVE Goal
  BY <1>28 DEF StartPend, At, Goto, switchVars, frameVars
<1>29. ASSUME StartJoin PROVE Goal
  BY <1>29 DEF StartJoin, At, Goto, switchVars, frameVars
<1>30. ASSUME NEW id \in {tk.id : tk \in TaskSet}, LockInit(id) PROVE Goal
  BY <1>30 DEF LockInit, At, switchVars, frameVars
<1>31. ASSUME StartRefused PROVE Goal
  BY <1>31 DEF StartRefused, At, switchVars, frameVars
<1>32. ASSUME NEW bins \in Bins, StartEnter(bins) PROVE Goal
  BY <1>32 DEF StartEnter, Enter, At, Goto, Running,
     switchVars, frameVars
<1>33. ASSUME SysTick PROVE Goal
  BY <1>33, NoTickInCritical DEF SysTick, Critical, Defining, Here
<1>34. CASE UNCHANGED vars
  BY <1>34 DEF vars, kernelVars, timerVars, admitVars, tcbVars, ceilVars, syncVars,
     lockVars, switchVars, frameVars, switchVars, frameVars
<1> QED
  BY <1>1, <1>2, <1>3, <1>4, <1>5, <1>6, <1>7, <1>8, <1>9, <1>10, <1>11, <1>12, <1>13,
     <1>14, <1>15, <1>16, <1>17, <1>18, <1>19, <1>20, <1>21, <1>22, <1>23, <1>24,
     <1>25, <1>26, <1>27, <1>28, <1>29, <1>30, <1>31, <1>32, <1>33, <1>34 DEF Next,
     Handler, Program, MainHandler, MainProgram

-----------------------------------------------------------------------------
(* Where the threads are that wait for locks. *)

\* A listed thread is in the loop of lock.
Waits == \A i \in User, m \in Locks : Listed(i, m) => pc[i] \in Loop /\ state[i] # "Defunct"

\* A thread is in that loop for a lock that it may take and does not hold.
InLoop ==
  active_thread_index # Main =>
    \A i \in Live : pc[i] \in Loop =>
      /\ lk[i] \in 1 .. num_defined_locks
      /\ static_priority[i] >= priority_ceiling[lk[i]]
      /\ current_locker[lk[i]] # i

\* A thread that has run has a priority.
Scheduled ==
  active_thread_index # Main =>
    \A i \in Live : i = active_thread_index \/ pc[i] # "user" \/ Held(i) # {}
                      => static_priority[i] < Lowest

Owners == \A m \in Locks : current_locker[m] # Nobody => state[current_locker[m]] # "Defunct"

\* Main runs while nobody holds a lock and no thread is in a call.
MainAlone ==
  active_thread_index = Main =>
    /\ NoneHeld
    /\ \A i \in Live : pc[i] = "user" \/ (Here = "frames" /\ i = Slot)

Waiting == CountInv /\ MainAlone /\ Waits /\ InLoop /\ Scheduled /\ Owners

\* What the priority ceiling protocol rests on.
Ceiling == Ownership /\ Waiting /\ Resources /\ AskedInherit

\* A thread that executes is live.
LEMMA ActiveLive ==
  ASSUME Waiting, active_thread_index \in User, Here \notin {"endDec", "endPend"}
  PROVE  active_thread_index \in Live /\ active_thread_index # Main
BY Constants DEF Waiting, CountInv, Phases, Live

\* Nobody is listed while main runs.
LEMMA MainUnlisted ==
  ASSUME TInv, Resources, MainAlone, active_thread_index = Main, NEW i \in User, NEW m \in Locks
  PROVE  ~Listed(i, m)
BY DEF MainAlone, NoneHeld, Resources, Refused

\* A listed thread that retries is refused again: the owner of the lock it waits for
\* is above every thread that could be let through.
LEMMA ListedRefused ==
  ASSUME TInv, Resources, NEW i \in User, NEW m \in Locks, Listed(i, m)
  PROVE  ~MayLock(i)
<1> DEFINE h == highest_priority_lock
<1>0. Numbers /\ CeilingExact /\ Refused
  BY NumbersType DEF Resources
<1>1. dynamic_priority[i] >= priority_ceiling[m] /\ current_locker[m] # Nobody
  BY <1>0 DEF Refused
<1>2. global_priority_ceiling <= priority_ceiling[m]
  BY <1>0, <1>1 DEF CeilingExact
<1>3. ~(dynamic_priority[i] < global_priority_ceiling)
  BY <1>0, <1>1, <1>2 DEF Numbers
<1>4. ASSUME h # NoLock, current_locker[h] = i
      PROVE  FALSE
  <2>1. global_priority_ceiling < Lowest
    BY <1>0, <1>4 DEF CeilingExact, Numbers
  <2>2. h \in Held(i) /\ priority_ceiling[h] = global_priority_ceiling
    BY <1>0, <1>4, <2>1 DEF CeilingExact, Held
  <2>3. /\ priority_ceiling[m] <= static_priority[current_locker[m]]
        /\ static_priority[current_locker[m]] < priority_ceiling[h]
        /\ current_locker[m] \in User
    BY <2>2, WaitBelow
  <2> QED
    BY <1>0, <1>2, <2>2, <2>3 DEF Numbers
<1> QED
  BY <1>3, <1>4 DEF MayLock

\* A listed thread stays in the loop, for the same lock.
LEMMA ListedStays ==
  ASSUME FixedTasks, Waiting, Resources, [Next]_vars,
         NEW i \in User, NEW m \in Locks, Listed(i, m)
  PROVE  pc'[i] \in Loop /\ lk'[i] = lk[i]
<1>0. TInv /\ Phases /\ MainAlone /\ pc[i] \in Loop
  BY DEF Waiting, CountInv, Waits
<1>1. i \in Tcb /\ active_thread_index \in Tcb
  BY <1>0, Constants DEF TInv, TypeOK, TypeSwitch
<1>2. CASE i # active_thread_index
  <2>1. active_thread_index # Main
    BY <1>0, MainUnlisted
  <2>2. Here # "frames"
    BY <1>0, <1>1, <2>1 DEF Phases, Here
  <2>3. Unmoved(i)
    BY <1>0, <1>1, <1>2, <2>2, OthersUnmoved
  <2> QED
    BY <1>0, <2>3 DEF Unmoved
<1>3. CASE i = active_thread_index
  <2>1. ~LockAcquire(i)
    BY <1>0, ListedRefused DEF LockAcquire, Granted
  <2>2. pc'[i] \in Loop
    BY <1>0, <1>1, <1>3, <2>1, StepThread
  <2>3. ~(\E l \in Locks : LockEnter(i, l)) /\ pc[i] # "endPend"
    BY <1>0, Zenon DEF LockEnter, Enter, At, Loop
  <2>4. UNCHANGED lk
    BY <1>0, <1>1, <1>3, <2>2, <2>3, StepThread
  <2> QED
    BY <2>2, <2>4
<1> QED
  BY <1>2, <1>3

\* The steps of main set priorities and ceilings while no lock is held.
LEMMA MainSetsVacant ==
  ASSUME FixedTasks, Waiting, UndefinedFree, Vacant, MainSets
  PROVE  Vacant'
<1>0. TInv /\ Phases /\ Counted
  BY DEF Waiting, CountInv
<1>a. \A x, y \in Nat : y <= x + 1 => y <= x \/ y = x + 1
  OBVIOUS
<1>b. num_defined_locks \in Nat /\ Locks \subseteq Nat
  BY <1>0, Constants DEF TInv, TypeOK, TypeKernel, TypeSync, Locks
<1>c. \A m \in Locks : m <= num_defined_locks + 1 =>
        m <= num_defined_locks \/ m = num_defined_locks + 1
  BY <1>a, <1>b
<1> USE Constants DEF TInv, TypeOK, TypeKernel, TypeSync
<1>1. ASSUME NEW id \in {tk.id : tk \in TaskSet}, LockInit(id)
      PROVE  Vacant'
  <2> DEFINE d == num_defined_locks + 1
  <2>1. /\ num_defined_locks' = d /\ d \in Locks
        /\ s' = [s EXCEPT ![d] = 1]
        /\ current_locker' = [current_locker EXCEPT ![d] = Nobody]
        /\ blocked_threads' = [blocked_threads EXCEPT ![d] = <<>>]
        /\ UNCHANGED <<static_priority, dynamic_priority, global_priority_ceiling,
                       highest_priority_lock>>
    BY <1>0, <1>1 DEF LockInit, tcbVars, Locks
  <2>2. \A m \in Locks : m <= d => m <= num_defined_locks \/ m = d
    BY <1>c, Zenon
  <2>3. \A i \in User, m \in Locks : ~Listed(i, m)'
    BY <1>0, <2>1, SMTT(30) DEF Vacant, Listed, Elements
  <2> QED
    BY <1>0, <2>1, <2>2, <2>3 DEF Vacant, NoneHeld, Positions
<1>2. ASSUME StartRefused PROVE Vacant'
  BY <1>2 DEF StartRefused, Vacant, NoneHeld, Positions, Listed, Elements, syncVars,
     lockVars, tcbVars
<1>3. ASSUME NEW bins \in Bins, StartEnter(bins) PROVE Vacant'
  BY <1>3 DEF StartEnter, Vacant, NoneHeld, Positions, Listed, Elements, tcbVars
<1>4. ASSUME OrderClear(Main) PROVE Vacant'
  <2>1. \A i \in User : /\ static_priority'[i] \in {static_priority[i], Lowest}
                        /\ dynamic_priority'[i] = static_priority'[i]
    BY <1>0, <1>4 DEF OrderClear, Vacant
  <2>2. UNCHANGED <<s, current_locker, blocked_threads, global_priority_ceiling,
                    highest_priority_lock, num_defined_locks>>
    BY <1>4 DEF OrderClear, lockVars, ceilVars
  <2> QED
    BY <2>1, <2>2 DEF Vacant, NoneHeld, Positions, Listed, Elements
<1>5. ASSUME OrderAssign(Main) PROVE Vacant'
  <2>1. UNCHANGED <<s, current_locker, blocked_threads, global_priority_ceiling,
                    highest_priority_lock, num_defined_locks>>
    BY <1>5 DEF OrderAssign, lockVars, ceilVars
  <2>2. wi[Main] \in Nat /\ wi[Main] < N
    <3>1. num_active_threads = Cardinality(Live) /\ Cardinality(Live) \in 0 .. N
      BY <1>0, <1>5, LiveFinite DEF OrderAssign, At, Counted, Off, Here
    <3> QED
      BY <1>0, <1>5, <3>1, SMTT(30) DEF OrderAssign, TypeFrame
  <2>3. Word(wi[Main]) \in User
    BY <2>2, NAssumption DEF Word, User
  <2>4. \A i \in User : /\ static_priority'[i] \in {static_priority[i], Word(wi[Main])}
                        /\ dynamic_priority'[i] = static_priority'[i]
    BY <1>0, <1>5 DEF OrderAssign, Vacant, Unordered
  <2> QED
    BY <2>1, <2>3, <2>4 DEF Vacant, NoneHeld, Positions, Listed, Elements
<1> QED
  BY <1>1, <1>2, <1>3, <1>4, <1>5 DEF MainSets

\* They are steps of main.
LEMMA MainStays == MainSets => active_thread_index = Main /\ active_thread_index' = Main
BY DEF MainSets, LockInit, StartRefused, StartEnter, OrderClear, OrderAssign, Enter, At,
   Running,
       switchVars

\* Only a thread that is granted a lock comes to hold it.
LEMMA StepHeld ==
  ASSUME FixedTasks, TInv, Phases, [Next]_vars, NEW m \in Locks
  PROVE  \/ current_locker'[m] \in {current_locker[m], Nobody}
         \/ /\ LockAcquire(active_thread_index)
            /\ current_locker'[m] = active_thread_index
<1> USE DEF TInv, TypeOK, TypeSync
<1>1. CASE UNCHANGED resVars
  BY <1>1 DEF resVars
<1>2. ASSUME NEW i \in Tcb, LockAcquire(i) \/ LockBlock(i) \/ UnlockReset(i) \/ MemFault(i)
      PROVE  \/ current_locker'[m] \in {current_locker[m], Nobody}
             \/ /\ LockAcquire(active_thread_index)
                /\ current_locker'[m] = active_thread_index
  <2>1. CASE LockAcquire(i)
    BY <2>1 DEF LockAcquire, At
  <2>2. CASE LockBlock(i) \/ UnlockReset(i) \/ MemFault(i)
    BY <2>2 DEF LockBlock, UnlockReset, MemFault, Open
  <2> QED
    BY <1>2, <2>1, <2>2
<1>3. CASE MainSets
  BY <1>3 DEF MainSets, LockInit, StartRefused, StartEnter, OrderClear, OrderAssign,
     syncVars,
     lockVars
<1> QED
  BY <1>1, <1>2, <1>3, StepTables

\* Only a thread that is refused a lock comes onto a list.
LEMMA StepLists ==
  ASSUME FixedTasks, TInv, Phases, [Next]_vars, NEW j \in User, NEW m \in Locks, Listed(j, m)'
  PROVE  Listed(j, m) \/ LockBlock(j)
<1> USE DEF TInv, TypeOK, TypeSync
<1>1. CASE UNCHANGED resVars
  BY <1>1 DEF resVars, Listed, Elements
<1>2. ASSUME NEW i \in Tcb, LockAcquire(i) \/ LockBlock(i) \/ UnlockReset(i) \/ MemFault(i)
      PROVE  Listed(j, m) \/ LockBlock(j)
  <2>1. CASE LockAcquire(i)
    BY <2>1 DEF LockAcquire, Listed, Elements
  <2>2. CASE LockBlock(i)
    BY <2>2, BlockLists
  <2>3. CASE UnlockReset(i) \/ MemFault(i)
    BY <2>3, OpenLists DEF UnlockReset, MemFault
  <2> QED
    BY <1>2, <2>1, <2>2, <2>3
<1>3. CASE MainSets
  <2>1. blocked_threads'[m] \in {blocked_threads[m], <<>>}
    BY <1>3 DEF MainSets, LockInit, StartRefused, StartEnter, OrderClear, OrderAssign,
       syncVars,
       lockVars
  <2> QED
    BY <2>1 DEF Listed, Elements
<1> QED
  BY <1>1, <1>2, <1>3, StepTables

\* Priorities and ceilings stay while a thread runs.
LEMMA StepFixed ==
  ASSUME FixedTasks, TInv, Phases, [Next]_vars, active_thread_index' # Main
  PROVE  UNCHANGED <<static_priority, priority_ceiling, num_defined_locks>>
<1>1. CASE UNCHANGED resVars
  BY <1>1 DEF resVars
<1>2. ASSUME NEW i \in Tcb, LockAcquire(i) \/ LockBlock(i) \/ UnlockReset(i) \/ MemFault(i)
      PROVE  UNCHANGED <<static_priority, priority_ceiling, num_defined_locks>>
  BY <1>2 DEF LockAcquire, LockBlock, UnlockReset, MemFault, kernelVars, tcbVars, ceilVars
<1> QED
  BY <1>1, <1>2, StepTables, MainStays

\* The live threads, and the ones that are neither made nor moved.
LEMMA StepOthers ==
  ASSUME CriticalUninterrupted, FixedTasks, Waiting, [Next]_vars, active_thread_index' # Main
  PROVE  /\ Live' \subseteq Live
         /\ \A i \in Live : i \in Live' \/ i = active_thread_index
         /\ \A j \in Tcb : j # active_thread_index => Unmoved(j)
<1>0. /\ TInv /\ Phases /\ ListedLive /\ Phases'
      /\ active_thread_index \in Tcb
  <2>1. TInv /\ Phases /\ ListedLive
    BY DEF Waiting, CountInv, ListedLive, Waits
  <2> QED
    BY <2>1, StepPhases DEF TInv, TypeOK, TypeSwitch
<1>1. Here \notin {"fill", "frames"}
  <2>1. CASE Here \in {"fill", "frames"}
    <3>1. active_thread_index = Main
      BY <1>0, <2>1 DEF Phases, Here
    <3>2. active_thread_index' = active_thread_index
      BY <1>0, <2>1, StepThread, NoTickInCritical DEF Leaving, Here, Critical
    <3> QED
      BY <3>1, <3>2
  <2> QED
    BY <2>1
<1>2. SameLive \/ EndedLive
  BY <1>0, <1>1, StepLive DEF NewLive
<1> QED
  BY <1>0, <1>1, <1>2, OthersUnmoved DEF SameLive, EndedLive

\* A thread that leaves the processor leaves it where it may rest.
LEMMA StepRest ==
  ASSUME TInv, Phases, Rest, CriticalUninterrupted, FixedTasks, [Next]_vars
  PROVE  Rest'
<1>0. active_thread_index \in Tcb
  BY DEF TInv, TypeOK, TypeSwitch
<1> SUFFICES ASSUME NEW j \in Tcb, j # active_thread_index'
             PROVE  pc'[j] \in Resting \/ (pc'[j] \in TickAt /\ ~(Bins \subseteq {0}))
  BY DEF Rest
<1>1. CASE j = active_thread_index
  BY <1>0, <1>1, StepThread DEF Phases
<1>2. CASE j # active_thread_index /\ Unmoved(j)
  BY <1>0, <1>2 DEF Rest, Unmoved
<1>3. CASE j # active_thread_index /\ Here = "frames" /\ j = Slot
  <2>1. CASE DefineFrames(active_thread_index)
    BY <1>0, <1>3, <2>1 DEF DefineFrames, TInv, TypeOK, TypeFrame, Resting, Slot
  <2>2. CASE UNCHANGED pc
    BY <1>0, <1>3, <2>2 DEF Rest
  <2> QED
    BY <1>0, <1>3, <2>1, <2>2, StepFrames DEF Here
<1> QED
  BY <1>0, <1>1, <1>2, <1>3, OthersUnmoved

\* A listed thread stays listed in the loop of lock and alive.
LEMMA StepWaits ==
  ASSUME CriticalUninterrupted, FixedTasks, Waiting, Resources, [Next]_vars
  PROVE  Waits'
<1>0. TInv /\ Phases /\ ListedLive
  BY DEF Waiting, CountInv, ListedLive, Waits
<1> SUFFICES ASSUME NEW j \in User, NEW m \in Locks, Listed(j, m)'
             PROVE  pc'[j] \in Loop /\ state'[j] # "Defunct"
  BY DEF Waits
<1>1. CASE LockBlock(j)
  BY <1>0, <1>1, Constants DEF LockBlock, Goto, TInv, TypeOK, TypeFrame, TypeSwitch, Loop
<1>2. CASE Listed(j, m)
  <2>1. pc'[j] \in Loop
    BY <1>2, ListedStays
  <2>2. j \in Live /\ pc[j] \in Loop
    BY <1>2 DEF Waiting, Waits, Live
  <2>3. CASE EndedLive /\ \E i \in User : EndDefunct(i) \/ MemFault(i)
    <3>1. PICK i \in User : EndDefunct(i) \/ MemFault(i)
      BY <2>3
    <3>2. i = active_thread_index /\ pc[i] \in {"end", "user"}
      BY <3>1 DEF EndDefunct, MemFault, At
    <3>3. j # i
      BY <2>2, <3>2 DEF Loop
    <3> QED
      BY <2>1, <2>2, <2>3, <3>2, <3>3 DEF EndedLive, Live
  <2>4. CASE SameLive \/ NewLive
    BY <2>1, <2>2, <2>4 DEF SameLive, NewLive, Live
  <2> QED
    BY <1>0, <2>3, <2>4, StepLive
<1> QED
  BY <1>0, <1>1, <1>2, StepLists

\* A lock that is held is held by a live thread.
LEMMA StepOwners ==
  ASSUME CriticalUninterrupted, FixedTasks, Waiting, [Next]_vars
  PROVE  Owners'
<1>0. TInv /\ Phases /\ ListedLive /\ Owners
  BY DEF Waiting, CountInv, ListedLive, Waits
<1> SUFFICES ASSUME NEW m \in Locks, current_locker'[m] # Nobody
             PROVE  state'[current_locker'[m]] # "Defunct"
  BY DEF Owners
<1>1. CASE LockAcquire(active_thread_index) /\ current_locker'[m] = active_thread_index
  BY <1>0, <1>1 DEF LockAcquire, At, switchVars, Phases, Here
<1>2. CASE current_locker'[m] = current_locker[m]
  <2> DEFINE x == current_locker[m]
  <2>1. x \in Live /\ m \in Held(x)
    BY <1>0, <1>2 DEF Owners, Live, TInv, TypeOK, TypeSync, Held
  <2>2. CASE EndedLive /\ \E i \in User : EndDefunct(i) \/ MemFault(i)
    <3>1. PICK i \in User : EndDefunct(i) \/ MemFault(i)
      BY <2>2
    <3>2. i = active_thread_index
      BY <3>1 DEF EndDefunct, MemFault, At
    <3>3. x # i
      BY <1>2, <2>1, <3>1 DEF EndDefunct, MemFault, Open
    <3> QED
      BY <1>2, <2>1, <2>2, <3>2, <3>3 DEF EndedLive, Live
  <2>3. CASE SameLive \/ NewLive
    BY <1>2, <2>1, <2>3 DEF SameLive, NewLive, Live
  <2> QED
    BY <1>0, <2>2, <2>3, StepLive
<1> QED
  BY <1>0, <1>1, <1>2, StepHeld

\* A thread enters the loop of lock only for a lock that it may take.
LEMMA StepInLoop ==
  ASSUME CriticalUninterrupted, FixedTasks, Waiting, Resources, [Next]_vars
  PROVE  InLoop'
<1> DEFINE a == active_thread_index
<1>0. /\ TInv /\ Phases /\ MainAlone /\ InLoop
      /\ a \in Tcb
  BY DEF Waiting, CountInv, TInv, TypeOK, TypeSwitch
<1> SUFFICES ASSUME active_thread_index' # Main, NEW i \in Live', pc'[i] \in Loop
             PROVE  /\ lk'[i] \in 1 .. num_defined_locks'
                    /\ static_priority'[i] >= priority_ceiling'[lk'[i]]
                    /\ current_locker'[lk'[i]] # i
  BY DEF InLoop
<1>1. UNCHANGED <<static_priority, priority_ceiling, num_defined_locks>>
  BY <1>0, StepFixed
<1>2. i \in Live /\ i \in User /\ i \in Tcb
  BY StepOthers, Constants DEF Live
<1>3. CASE i # a
  <2>1. pc'[i] = pc[i] /\ lk'[i] = lk[i]
    BY <1>2, <1>3, StepOthers DEF Unmoved
  <2>2. a # Main
    <3>1. Here = "frames" => FALSE
      <4>1. Here = "frames" => a = Main /\ a' = a
        BY <1>0, StepThread, NoTickInCritical DEF Phases, Here, Leaving, Critical
      <4> QED
        BY <4>1
    <3> QED
      BY <1>0, <1>2, <2>1, <3>1 DEF MainAlone, Loop
  <2>3. /\ lk[i] \in 1 .. num_defined_locks
        /\ static_priority[i] >= priority_ceiling[lk[i]]
        /\ current_locker[lk[i]] # i
    BY <1>0, <1>2, <2>1, <2>2 DEF InLoop
  <2>4. lk[i] \in Locks
    BY <1>0, <2>3, Constants DEF TInv, TypeOK, TypeKernel, Locks
  <2>5. current_locker'[lk[i]] # i
    BY <1>0, <1>2, <1>3, <2>3, <2>4, StepHeld, NumbersType DEF Numbers
  <2> QED
    BY <1>1, <2>1, <2>3, <2>5
<1>4. CASE i = a
  <2>1. CASE pc[a] \in Loop /\ UNCHANGED <<lk, current_locker>>
    BY <1>0, <1>1, <1>2, <1>4, <2>1, Constants DEF InLoop
  <2>2. ASSUME NEW m \in Locks, LockEnter(a, m)
        PROVE  /\ lk'[i] \in 1 .. num_defined_locks'
               /\ static_priority'[i] >= priority_ceiling'[lk'[i]]
               /\ current_locker'[lk'[i]] # i
    <3>1. pc'[a] # "end"
      BY <1>4 DEF Loop
    <3>2. ~(static_priority[a] < priority_ceiling[m])
      BY <1>0, <2>2, <3>1 DEF LockEnter, Enter, Goto, TInv, TypeOK, TypeFrame
    <3>3. /\ lk'[a] = m /\ UNCHANGED current_locker /\ current_locker[m] # a
          /\ m <= num_defined_locks
      BY <1>0, <2>2, <3>2 DEF LockEnter, TInv, TypeOK, TypeFrame, syncVars, lockVars
    <3>4. static_priority[a] >= priority_ceiling[m]
      BY <1>0, <1>2, <1>4, <3>2, NumbersType DEF Numbers
    <3>5. m \in 1 .. num_defined_locks
      BY <1>0, <3>3 DEF TInv, TypeOK, TypeKernel, Locks
    <3> QED
      BY <1>1, <1>4, <3>3, <3>4, <3>5
  <2>3. CASE pc[a] = "endPend"
    BY <1>0, <1>2, <1>4, <2>3 DEF Phases, Here, Live
  <2> QED
    BY <1>0, <1>4, <2>1, <2>2, <2>3, StepThread
<1> QED
  BY <1>3, <1>4

\* A thread that runs, or has run, has a priority.
LEMMA StepScheduled ==
  ASSUME CriticalUninterrupted, FixedTasks, Waiting, Resources, [Next]_vars
  PROVE  Scheduled'
<1> DEFINE a == active_thread_index
           b == active_thread_index'
<1>0. /\ TInv /\ Phases /\ MainAlone /\ Scheduled /\ Inherits /\ Numbers
      /\ a \in Tcb
  BY NumbersType DEF Waiting, CountInv, TInv, TypeOK, TypeSwitch, Resources
<1> SUFFICES ASSUME b # Main, NEW i \in Live',
                    i = b \/ pc'[i] # "user" \/ Held(i)' # {}
             PROVE  static_priority'[i] < Lowest
  BY DEF Scheduled
<1>1. UNCHANGED static_priority
  BY <1>0, StepFixed
<1>2. i \in Live /\ i \in User /\ i \in Tcb
  BY StepOthers, Constants DEF Live
<1>3. CASE i = a
  BY <1>0, <1>1, <1>2, <1>3, Constants DEF Scheduled
<1>4. CASE i # a
  <2>1. pc'[i] = pc[i]
    BY <1>2, <1>4, StepOthers DEF Unmoved
  <2>2. Held(i)' \subseteq Held(i)
    BY <1>0, <1>2, <1>4, StepHeld DEF Held, Numbers
  <2>3. CASE a # Main /\ (pc'[i] # "user" \/ Held(i) # {})
    BY <1>0, <1>1, <1>2, <2>1, <2>3 DEF Scheduled
  <2>4. a = Main => pc[i] = "user" /\ Held(i) = {}
    <3>1. Here = "frames" => FALSE
      <4>1. Here = "frames" => a = Main /\ b = a
        BY <1>0, StepThread, NoTickInCritical DEF Phases, Here, Leaving, Critical
      <4> QED
        BY <4>1
    <3> QED
      BY <1>0, <1>2, <3>1 DEF MainAlone, NoneHeld, Held, Numbers
  <2>5. CASE i = b /\ Held(i) = {}
    <3>1. dynamic_priority[i] < Lowest
      BY <1>0, <1>2, <1>4, <2>5, StepThread
    <3>2. static_priority[i] = dynamic_priority[i]
      BY <1>0, <1>2, <2>5 DEF Inherits
    <3> QED
      BY <1>1, <3>1, <3>2
  <2> QED
    BY <2>1, <2>2, <2>3, <2>4, <2>5
<1> QED
  BY <1>3, <1>4

\* Where no thread is counted, outside the handlers that count, none is live.
LEMMA NoneLive == CountInv /\ Here \in Starting /\ num_active_threads = 0 => Live = {}
<1> SUFFICES ASSUME CountInv, Here \in Starting, num_active_threads = 0
             PROVE  Live = {}
  OBVIOUS
<1>1. Cardinality(Live) = 0
  BY LiveFinite DEF CountInv, Counted, Off, Starting
<1> QED
  BY <1>1, LiveFinite, FS_EmptySet

\* Main is scheduled only when all others are done.
LEMMA StepMainAlone ==
  ASSUME CriticalUninterrupted, FixedTasks, Waiting, [Next]_vars
  PROVE  MainAlone'
<1> DEFINE a == active_thread_index
<1>0. /\ TInv /\ Phases /\ MainAlone /\ ListedLive
      /\ a \in Tcb /\ CountInv'
  <2>1. TInv /\ Phases /\ MainAlone /\ ListedLive /\ CountInv
    BY DEF Waiting, CountInv, ListedLive, Waits
  <2> QED
    BY <2>1, StepCountInv DEF TInv, TypeOK, TypeSwitch
<1> SUFFICES ASSUME active_thread_index' = Main
             PROVE  /\ NoneHeld'
                    /\ \A i \in Live' : pc'[i] = "user" \/ (Here = "frames" /\ i = Slot)'
  BY DEF MainAlone
<1>1. CASE a = Main
  <2>1. NoneHeld'
    <3>1. ~LockAcquire(a)
      BY <1>0, <1>1, Constants DEF LockAcquire, At, TInv, FramesOK
    <3> QED
      BY <1>0, <1>1, <3>1, StepHeld DEF MainAlone, NoneHeld
  <2>2. ASSUME NEW i \in Live' PROVE pc'[i] = "user" \/ (Here = "frames" /\ i = Slot)'
    <3>1. i \in User /\ i \in Tcb /\ i # a
      BY <1>1, Constants DEF Live
    <3>2. CASE i \notin Live
      <4>1. NewLive
        BY <1>0, <3>1, <3>2, StepLive DEF SameLive, EndedLive
      <4>2. i = Slot /\ Here' = "frames" /\ pc[a] = "fill"
        BY <3>2, <4>1 DEF NewLive, Here
      <4>3. Slot' = Slot
        BY <1>0, <4>2, StepFrames DEF Slot
      <4> QED
        BY <4>2, <4>3
    <3>3. CASE i \in Live /\ pc[a] = "frames"
      <4>1. CASE DefineFrames(a)
        BY <1>0, <1>1, <3>1, <3>3, <4>1 DEF DefineFrames, At, TInv, TypeOK, TypeFrame,
           MainAlone, Slot
      <4>2. CASE UNCHANGED <<pc, df, active_thread_index>>
        BY <1>1, <1>0, <3>3, <4>2 DEF MainAlone, Here, Slot
      <4> QED
        BY <1>0, <3>3, <4>1, <4>2, StepFrames
    <3>4. CASE i \in Live /\ pc[a] # "frames"
      BY <1>0, <1>1, <3>1, <3>4, OthersUnmoved DEF MainAlone, Here, Unmoved
    <3> QED
      BY <3>2, <3>3, <3>4
  <2> QED
    BY <2>1, <2>2
<1>2. CASE a # Main
  <2>1. pc[Main] \in Starting
    BY <1>0, <1>2 DEF Phases
  <2>2. ~(Here = "frames" /\ Main = Slot)
    BY <1>0, <1>2 DEF Phases, Here
  <2>3. pc'[Main] \in Starting
    BY <1>0, <1>2, <2>1, <2>2, OthersUnmoved, Constants DEF Unmoved
  <2>4. num_active_threads' = 0
    BY <1>0, <1>2, StepThread
  <2>5. Live' = {}
    <3>1. CountInv' /\ (Here \in Starting)' /\ (num_active_threads = 0)' => (Live = {})'
      BY NoneLive, PTL
    <3> QED
      BY <1>0, <2>3, <2>4, <3>1 DEF Here
  <2>6. Owners' /\ TInv'
    BY <1>0, StepOwners DEF CountInv
  <2>7. NoneHeld'
    BY <2>5, <2>6 DEF NoneHeld, Owners, Live, TInv, TypeOK, TypeSync
  <2> QED
    BY <2>5, <2>7
<1> QED
  BY <1>1, <1>2

\* Every step keeps the tables of locks as the protocol wants them.
LEMMA StepResources ==
  ASSUME CriticalUninterrupted, FixedTasks, Ceiling, [Next]_vars
  PROVE  Resources' /\ AskedInherit'
<1>0. /\ TInv /\ Phases /\ Waiting /\ Resources /\ AskedInherit
      /\ OwnedLocked /\ UndefinedFree /\ UnlockingOwned
      /\ active_thread_index \in Tcb
  BY DEF Ceiling, Ownership, Waiting, CountInv, TInv, TypeOK, TypeSwitch
<1>1. \A j \in User, m \in Locks : Listed(j, m) => pc[j] \in Loop /\ lk'[j] = lk[j]
  BY <1>0, ListedStays DEF Waiting, Waits
<1>2. CASE UNCHANGED resVars
  <2>1. Resources'
    BY <1>0, <1>2, ResourcesSame
  <2>2. \A j \in User, m \in Locks : Listed(j, m)' <=> Listed(j, m)
    BY <1>2 DEF resVars, Listed, Elements
  <2>3. AskedInherit'
    BY <1>0, <1>1, <1>2, <2>2 DEF resVars, AskedInherit
  <2> QED
    BY <2>1, <2>3
<1>3. ASSUME NEW i \in Tcb, LockAcquire(i) PROVE Resources' /\ AskedInherit'
  <2> DEFINE l == lk[i]
  <2>1. i = active_thread_index /\ i \in User /\ l \in Locks /\ pc[i] = "lock"
    BY <1>0, <1>3 DEF LockAcquire, At, TInv, FramesOK
  <2>2. i \in Live /\ i # Main
    BY <1>0, <2>1, ActiveLive DEF Here
  <2>3. static_priority[i] >= priority_ceiling[l]
    BY <1>0, <2>1, <2>2 DEF Waiting, InLoop, Loop
  <2>4. /\ s[l] = 1 /\ MayLock(i)
        /\ s' = [s EXCEPT ![l] = 0] /\ current_locker' = [current_locker EXCEPT ![l] = i]
        /\ IF priority_ceiling[l] < global_priority_ceiling
           THEN /\ global_priority_ceiling' = priority_ceiling[l]
                /\ highest_priority_lock' = l
           ELSE UNCHANGED <<global_priority_ceiling, highest_priority_lock>>
        /\ UNCHANGED <<static_priority, dynamic_priority, blocked_threads, ceilVars>>
    BY <1>3 DEF LockAcquire, Granted, IsOpen, kernelVars, tcbVars
  <2>5. Resources'
    BY <1>0, <2>1, <2>3, <2>4, AcquireResources
  <2>6. \A j \in User, m \in Locks : Listed(j, m)' <=> Listed(j, m)
    BY <2>4 DEF Listed, Elements
  <2>7. \A j \in User, m \in Locks : Listed(j, m) => current_locker'[m] = current_locker[m]
    BY <1>0, <2>1, <2>4 DEF Resources, Refused, OwnedLocked, TInv, TypeOK, TypeSync
  <2>8. AskedInherit'
    BY <1>0, <1>1, <2>4, <2>6, <2>7 DEF AskedInherit
  <2> QED
    BY <2>5, <2>8
<1>4. ASSUME NEW i \in Tcb, LockBlock(i) PROVE Resources' /\ AskedInherit'
  <2>1. i = active_thread_index /\ i \in User /\ lk[i] \in Locks /\ pc[i] = "lock"
    BY <1>0, <1>4 DEF LockBlock, At, TInv, FramesOK
  <2>2. i \in Live /\ i # Main
    BY <1>0, <2>1, ActiveLive DEF Here
  <2>3. /\ lk[i] \in 1 .. num_defined_locks
        /\ static_priority[i] >= priority_ceiling[lk[i]]
        /\ current_locker[lk[i]] # i
        /\ static_priority[i] < Lowest
    BY <1>0, <2>1, <2>2 DEF Waiting, InLoop, Scheduled, Loop
  <2> QED
    BY <1>0, <1>4, <2>3, BlockResources
<1>5. ASSUME NEW i \in Tcb, NEW M \in SUBSET Held(i), Open(i, M),
             UnlockReset(i) \/ MemFault(i)
      PROVE  Resources' /\ AskedInherit'
  <2>1. i \in User /\ pc[i] \in {"reset", "user"}
    BY <1>0, <1>5 DEF UnlockReset, MemFault, At, TInv, FramesOK
  <2>2. \A m \in Locks : ~Listed(i, m)
    BY <1>1, <2>1 DEF Loop
  <2>3. UNCHANGED <<static_priority, priority_ceiling, num_defined_locks>>
    BY <1>5 DEF UnlockReset, MemFault, kernelVars, tcbVars, ceilVars
  <2>4. \A j \in User : j # i => lk'[j] = lk[j]
    BY <1>0, <1>5, Constants DEF UnlockReset, MemFault, TInv, TypeOK, TypeFrame
  <2> QED
    BY <1>0, <1>5, <2>1, <2>2, <2>3, <2>4, OpenResources
<1>6. ASSUME NEW i \in Tcb, UnlockReset(i) PROVE Resources' /\ AskedInherit'
  <2>1. Open(i, {lk[i]}) /\ {lk[i]} \in SUBSET Held(i)
    BY <1>0, <1>6 DEF UnlockReset, At, UnlockingOwned, Held, TInv, FramesOK
  <2> QED
    BY <1>5, <1>6, <2>1
<1>7. ASSUME NEW i \in Tcb, MemFault(i) PROVE Resources' /\ AskedInherit'
  BY <1>5, <1>7 DEF MemFault
<1>8. CASE MainSets
  <2>1. Vacant
    BY <1>0, <1>8, MainStays, ResourcesVacant DEF Waiting, MainAlone
  <2>2. Vacant'
    BY <1>0, <1>8, <2>1, MainSetsVacant
  <2>3. TInv' /\ (TInv' /\ Vacant' => Resources' /\ AskedInherit')
    BY <1>0, StepTInv, VacantResources, PTL
  <2> QED
    BY <2>2, <2>3
<1> QED
  BY <1>0, <1>2, <1>3, <1>4, <1>6, <1>7, <1>8, StepTables

\* The invariant holds initially.
LEMMA InitCeiling == Init => Ceiling
<1> SUFFICES ASSUME Init PROVE Ceiling
  OBVIOUS
<1>1. TInv /\ CountInv /\ Ownership /\ Vacant
  BY InitTInv, InitCountInv, InitOwnership, InitVacant
<1>2. Resources /\ AskedInherit /\ NoneHeld
  BY <1>1, VacantResources DEF Vacant
<1>3. Live = {} /\ active_thread_index = Main
  BY Constants DEF Init, Live, Idle, Main, User, Tcb
<1>5. Waits
  BY <1>1 DEF Vacant, Waits
<1>6. InLoop /\ Scheduled /\ Owners /\ MainAlone
  BY <1>2, <1>3 DEF InLoop, Scheduled, Owners, MainAlone, NoneHeld
<1> QED
  BY <1>1, <1>2, <1>5, <1>6 DEF Ceiling, Waiting

\* Every step keeps it.
LEMMA StepCeiling ==
  ASSUME CriticalUninterrupted, FixedTasks, Ceiling, [Next]_vars
  PROVE  Ceiling'
<1>1. Waiting /\ Resources /\ LInv /\ CountInv /\ ListedLive
  BY DEF Ceiling, LInv, Waiting, CountInv, Waits, ListedLive
<1>2. Ownership' /\ CountInv'
  BY <1>1, StepOwnership, StepCountInv
<1>3. MainAlone' /\ Waits' /\ InLoop' /\ Scheduled' /\ Owners'
  BY <1>1, StepMainAlone, StepWaits, StepInLoop, StepScheduled, StepOwners
<1> QED
  BY <1>2, <1>3, StepResources DEF Ceiling, Waiting

\* The system ceiling is that of the locks that are held (CeilingExact).
THEOREM CeilingIsExact ==
  ASSUME CriticalUninterrupted, FixedTasks PROVE Spec => []CeilingExact
<1>1. Ceiling /\ [Next]_vars => Ceiling'
  BY StepCeiling
<1>2. Ceiling => CeilingExact
  BY DEF Ceiling, Resources
<1> QED
  BY <1>1, <1>2, InitCeiling, PTL DEF Spec

\* Of the threads less urgent than one, at most one holds locks that can block it
\* (SingleBlocker).
THEOREM BlockedOnce ==
  ASSUME CriticalUninterrupted, FixedTasks PROVE Spec => []SingleBlocker
<1>1. Ceiling /\ [Next]_vars => Ceiling'
  BY StepCeiling
<1>2. Ceiling => SingleBlocker
  <2> SUFFICES ASSUME Ceiling, NEW i \in Live, NEW l \in Locks, NEW m \in Locks,
                      current_locker[l] # Nobody, current_locker[m] # Nobody,
                      priority_ceiling[l] <= static_priority[i],
                      priority_ceiling[m] <= static_priority[i],
                      static_priority[current_locker[l]] > static_priority[i],
                      static_priority[current_locker[m]] > static_priority[i],
                      current_locker[l] # current_locker[m]
               PROVE  FALSE
    BY DEF SingleBlocker
  <2>1. Numbers /\ Nested /\ i \in User
    BY NumbersType DEF Ceiling, Waiting, CountInv, Resources, Live
  <2>2. /\ current_locker[l] \in User /\ l \in Held(current_locker[l])
        /\ current_locker[m] \in User /\ m \in Held(current_locker[m])
    BY <2>1 DEF Numbers, Held
  <2>3. Above(current_locker[l], current_locker[m]) \/ Above(current_locker[m], current_locker[l])
    BY <2>1, <2>2 DEF Nested
  <2> QED
    BY <2>1, <2>2, <2>3 DEF Above, Numbers
<1> QED
  BY <1>1, <1>2, InitCeiling, PTL DEF Spec

\* A thread that holds nothing has its own priority (PriorityRestored).
THEOREM OwnPriority ==
  ASSUME CriticalUninterrupted, FixedTasks PROVE Spec => []PriorityRestored
<1>1. Ceiling /\ [Next]_vars => Ceiling'
  BY StepCeiling
<1>2. Ceiling => PriorityRestored
  BY DEF Ceiling, Resources, Inherits, PriorityRestored, Live
<1> QED
  BY <1>1, <1>2, InitCeiling, PTL DEF Spec

\* The owner of a lock is as urgent as those that have asked for it, found it locked and
\* wait on its list (OwnerInherits).  (Whoever holds the ceiling that refuses a thread an
\* open lock inherits nothing from it.)
THEOREM Inheritance ==
  ASSUME CriticalUninterrupted, FixedTasks PROVE Spec => []OwnerInherits
<1>1. Ceiling /\ [Next]_vars => Ceiling'
  BY StepCeiling
<1>2. Ceiling => OwnerInherits
  <2> SUFFICES ASSUME Ceiling, NEW i \in User, lk[i] # NoLock,
                      i \in Elements(blocked_threads[lk[i]])
               PROVE  dynamic_priority[current_locker[lk[i]]] <= dynamic_priority[i]
    BY DEF OwnerInherits
  <2>1. lk[i] \in Locks
    BY Constants DEF Ceiling, Waiting, CountInv, TInv, TypeOK, TypeFrame, Locks, NoLock
  <2> QED
    BY <2>1 DEF Ceiling, AskedInherit, Listed
<1> QED
  BY <1>1, <1>2, InitCeiling, PTL DEF Spec

-----------------------------------------------------------------------------
(* Blocked threads. *)

\* The wake-up loop of unlock leaves none of the threads that it has passed blocked.
Woken ==
  fault = "none" =>
    \A k \in DOMAIN blocked_threads[lk[active_thread_index]] :
      Here = "reset" \/ (Here = "wake" /\ k < wi[active_thread_index]) =>
        state[blocked_threads[lk[active_thread_index]][k]] # "Blocked"

\* A blocked thread is on a list.
BlockedListed ==
  fault = "none" => \A i \in User : state[i] = "Blocked" => \E m \in Locks : Listed(i, m)

\* What an unlock needs to find the threads it has to wake.
Queues == Rest /\ Woken /\ BlockedListed

\* The queues are empty initially.
LEMMA InitQueues == Init => Queues
<1> SUFFICES ASSUME Init PROVE Queues
  OBVIOUS
<1>1. \A i \in User : state[i] # "Blocked"
  BY Constants DEF Init, Idle, Main, User, Tcb
<1>2. Here = "user"
  BY Constants DEF Init, Here
<1>3. Rest
  BY DEF Init, Rest, Resting
<1> QED
  BY <1>1, <1>2, <1>3 DEF Queues, Woken, BlockedListed

\* The positions of a list.
LEMMA ListPositions ==
  \A q \in Seq(User) : /\ \A k \in DOMAIN q : k \in Nat /\ ~(k < 1) /\ k <= Len(q) /\ q[k] \in User
                       /\ Len(q) \in Nat
OBVIOUS

\* Below the next index is below this one or at it.
LEMMA NextIndex == \A k, w \in Nat : k < w + 1 => k < w \/ k = w
OBVIOUS

\* The thread that goes on executing is in the wake-up loop.
LEMMA StayWoken ==
  ASSUME UnlockUninterrupted, TInv, Phases, Woken, [Next]_vars,
         active_thread_index' = active_thread_index
  PROVE  Woken'
<1> USE Constants DEF TInv, TypeOK, TypeFrame, TypeSwitch
<1>1. ASSUME NEW i \in Tcb, Return(i) PROVE Woken'
  <2>1. Here' \notin {"wake", "reset"}
    BY <1>1 DEF Here, Return, At, Goto, frameVars, switchVars
  <2> QED
    BY <2>1 DEF Woken
<1>2. ASSUME NEW i \in Tcb, YieldPend(i) PROVE Woken'
  <2>1. Here' \notin {"wake", "reset"}
    BY <1>2 DEF YieldPend, At, Goto, Here
  <2> QED
    BY <2>1 DEF Woken
<1>3. ASSUME NEW i \in Tcb, LockAcquire(i) PROVE Woken'
  <2>1. Here' \notin {"wake", "reset"}
    BY <1>3 DEF Here, LockAcquire, At, Goto, frameVars, switchVars
  <2> QED
    BY <2>1 DEF Woken
<1>4. ASSUME NEW i \in Tcb, LockBlock(i) PROVE Woken'
  <2>1. Here' \notin {"wake", "reset"}
    BY <1>4 DEF Here, LockBlock, At, Goto, frameVars, switchVars
  <2> QED
    BY <2>1 DEF Woken
<1>5. ASSUME NEW i \in Tcb, LockPend(i) PROVE Woken'
  <2>1. Here' \notin {"wake", "reset"}
    BY <1>5 DEF LockPend, At, Goto, Here
  <2> QED
    BY <2>1 DEF Woken
<1>6. ASSUME NEW i \in Tcb, UnlockWake(i) PROVE Woken'
  <2> DEFINE j == blocked_threads[lk[i]][wi[i]]
  <2>1. /\ Here = "wake" /\ Here' = "wake" /\ active_thread_index = i /\ lk[i] \in Locks
        /\ wi'[i] = wi[i] + 1 /\ wi[i] \in Nat
        /\ state' = [state EXCEPT ![j] = "Ready"]
        /\ UNCHANGED <<blocked_threads, fault, lk>>
    BY <1>6 DEF UnlockWake, At, Running, FramesOK, Here, syncVars, lockVars
  <2>2. \A k \in DOMAIN blocked_threads[lk[i]] :
          k \in Nat /\ blocked_threads[lk[i]][k] \in Tcb
    BY <2>1, ListPositions DEF TypeSync
  <2>3. \A k \in Nat : k < wi[i] + 1 => k < wi[i] \/ k = wi[i]
    BY <2>1, NextIndex
  <2>4. \A k \in Tcb : state'[k] # "Blocked" \/ (state[k] = "Blocked" /\ k # j /\ state'[k] = state[k])
    BY <2>1
  <2> HIDE DEF j
  <2>5. ASSUME fault = "none", NEW k \in DOMAIN blocked_threads[lk[i]], k < wi[i] + 1
        PROVE  state'[blocked_threads[lk[i]][k]] # "Blocked"
    BY <2>1, <2>2, <2>3, <2>4, <2>5 DEF Woken, j
  <2> QED
    BY <2>1, <2>5 DEF Woken
<1>7. ASSUME NEW i \in Tcb, UnlockWoken(i) PROVE Woken'
  <2>1. /\ Here = "wake" /\ wi[i] > Len(blocked_threads[lk[i]])
        /\ active_thread_index = i /\ lk[i] \in Locks
        /\ UNCHANGED <<blocked_threads, fault, lk, state>>
    BY <1>7 DEF UnlockWoken, At, FramesOK, Here, syncVars, lockVars, switchVars
  <2>2. \A k \in DOMAIN blocked_threads[lk[i]] : k < wi[i]
    BY <2>1, SMTT(30) DEF TypeSync
  <2> QED
    BY <2>1, <2>2 DEF Woken
<1>8. ASSUME NEW i \in Tcb, UnlockReset(i) PROVE Woken'
  <2>1. Here' \notin {"wake", "reset"}
    BY <1>8 DEF Here, UnlockReset, At, Goto, frameVars, switchVars
  <2> QED
    BY <2>1 DEF Woken
<1>9. ASSUME NEW i \in Tcb, UnlockPend(i) PROVE Woken'
  <2>1. Here' \notin {"wake", "reset"}
    BY <1>9 DEF UnlockPend, At, Goto, Here
  <2> QED
    BY <2>1 DEF Woken
<1>10. ASSUME NEW i \in Tcb, EndUnlock(i) PROVE Woken'
  <2>1. wi'[i] = 1 /\ Here' = "wake" /\ active_thread_index = i
    BY <1>10 DEF EndUnlock, At, Goto, Here, switchVars
  <2>2. UNCHANGED <<blocked_threads, fault>> /\ lk'[i] \in Locks
    BY <1>10 DEF EndUnlock, At, Goto, Held, syncVars, lockVars
  <2>3. \A k \in DOMAIN blocked_threads'[lk'[i]] : ~(k < 1)
    <3>1. blocked_threads'[lk'[i]] \in Seq(User)
      BY <2>2 DEF TypeSync
    <3> QED
      BY <3>1, ListPositions
  <2> QED
    BY <2>1, <2>3 DEF Woken
<1>11. ASSUME NEW i \in Tcb, EndDefunct(i) PROVE Woken'
  <2>1. Here' \notin {"wake", "reset"}
    BY <1>11 DEF Here, EndDefunct, At, Goto, Running, frameVars, switchVars
  <2> QED
    BY <2>1 DEF Woken
<1>12. ASSUME NEW i \in Tcb, EndDec(i) PROVE Woken'
  <2>1. Here' \notin {"wake", "reset"}
    BY <1>12 DEF Here, EndDec, At, Goto, frameVars, switchVars
  <2> QED
    BY <2>1 DEF Woken
<1>13. ASSUME NEW i \in Tcb, EndPend(i) PROVE Woken'
  <2>1. Here' \notin {"wake", "reset"}
    BY <1>13 DEF EndPend, At, Goto, Here
  <2> QED
    BY <2>1 DEF Woken
<1>14. ASSUME NEW i \in Tcb, DefineFill(i) PROVE Woken'
  <2>1. Here' \notin {"wake", "reset"}
    BY <1>14 DEF Here, DefineFill, At, Goto, frameVars, switchVars
  <2> QED
    BY <2>1 DEF Woken
<1>15. ASSUME NEW i \in Tcb, DefineFrames(i) PROVE Woken'
  <2>1. Here' \notin {"wake", "reset"}
    BY <1>15 DEF Here, DefineFrames, At, frameVars, switchVars
  <2> QED
    BY <2>1 DEF Woken
<1>16. ASSUME NEW i \in Tcb, DefineCount(i) PROVE Woken'
  <2>1. Here' \notin {"wake", "reset"}
    BY <1>16 DEF Here, DefineCount, At, Goto, frameVars, switchVars
  <2> QED
    BY <2>1 DEF Woken
<1>17. ASSUME NEW i \in Tcb, OrderClear(i) PROVE Woken'
  <2>1. Here' \notin {"wake", "reset"}
    BY <1>17 DEF Here, OrderClear, At, Goto, frameVars, switchVars
  <2> QED
    BY <2>1 DEF Woken
<1>18. ASSUME NEW i \in Tcb, OrderAssign(i) PROVE Woken'
  <2>1. Here' \notin {"wake", "reset"}
    BY <1>18 DEF Here, OrderAssign, At, frameVars, switchVars
  <2> QED
    BY <2>1 DEF Woken
<1>19. ASSUME NEW i \in Tcb, OrderDone(i) PROVE Woken'
  <2>1. Here' \notin {"wake", "reset"}
    BY <1>19 DEF Here, OrderDone, At, Goto, frameVars, switchVars
  <2> QED
    BY <2>1 DEF Woken
<1>20. ASSUME NEW i \in Tcb, Yield(i) PROVE Woken'
  <2>1. Here' \notin {"wake", "reset"}
    BY <1>20 DEF Here, Yield, Yielded, Enter, At, Goto, Running, frameVars, switchVars
  <2> QED
    BY <2>1 DEF Woken
<1>21. ASSUME NEW i \in Tcb, SleepMs(i) PROVE Woken'
  <2>1. Here' \notin {"wake", "reset"}
    BY <1>21 DEF Here, SleepMs, Enter, At, Goto, Running, frameVars, switchVars
  <2> QED
    BY <2>1 DEF Woken
<1>22. ASSUME NEW i \in Tcb, Exit(i) PROVE Woken'
  <2>1. Here' \notin {"wake", "reset"}
    BY <1>22 DEF Here, Exit, At, frameVars, switchVars
  <2> QED
    BY <2>1 DEF Woken
<1>23. ASSUME NEW i \in Tcb, NEW m \in Locks, LockEnter(i, m) PROVE Woken'
  <2>1. Here' \notin {"wake", "reset"}
    BY <1>23 DEF Here, LockEnter, Enter, At, Goto, Running, frameVars, switchVars
  <2> QED
    BY <2>1 DEF Woken
<1>24. ASSUME NEW i \in Tcb, NEW m \in Locks, UnlockEnter(i, m) PROVE Woken'
  <2>1. wi'[i] = 1 /\ Here' = "wake" /\ active_thread_index = i
    BY <1>24 DEF UnlockEnter, Enter, At, Goto, Running, Here, switchVars
  <2>2. UNCHANGED <<blocked_threads, fault>> /\ lk'[i] \in Locks
    BY <1>24 DEF UnlockEnter, Enter, At, Goto, Running, Held, syncVars, lockVars
  <2>3. \A k \in DOMAIN blocked_threads'[lk'[i]] : ~(k < 1)
    <3>1. blocked_threads'[lk'[i]] \in Seq(User)
      BY <2>2 DEF TypeSync
    <3> QED
      BY <3>1, ListPositions
  <2> QED
    BY <2>1, <2>3 DEF Woken
<1>25. ASSUME NEW i \in Tcb, EndEnter(i) PROVE Woken'
  <2>1. Here' \notin {"wake", "reset"}
    BY <1>25 DEF Here, EndEnter, Enter, At, Goto, Running, frameVars, switchVars
  <2> QED
    BY <2>1 DEF Woken
<1>26. ASSUME NEW i \in Tcb, MemFault(i) PROVE Woken'
  <2>1. Here' \notin {"wake", "reset"}
    BY <1>26 DEF Here, MemFault, At, frameVars, switchVars
  <2> QED
    BY <2>1 DEF Woken
<1>27. ASSUME NEW i \in Tcb, NEW tk \in TaskSet, DefineEnter(i, tk) PROVE Woken'
  <2>1. Here' \notin {"wake", "reset"}
    BY <1>27 DEF Here, DefineEnter, Enter, At, Goto, Running, frameVars, switchVars
  <2> QED
    BY <2>1 DEF Woken
<1>28. ASSUME StartPend PROVE Woken'
  <2>1. Here' \notin {"wake", "reset"}
    BY <1>28 DEF StartPend, At, Goto, Here
  <2> QED
    BY <2>1 DEF Woken
<1>29. ASSUME StartJoin PROVE Woken'
  <2>1. Here' \notin {"wake", "reset"}
    BY <1>29 DEF Here, StartJoin, At, Goto, frameVars, switchVars
  <2> QED
    BY <2>1 DEF Woken
<1>30. ASSUME NEW id \in {tk.id : tk \in TaskSet}, LockInit(id) PROVE Woken'
  <2>1. Here' \notin {"wake", "reset"}
    BY <1>30 DEF Here, LockInit, At, frameVars, switchVars
  <2> QED
    BY <2>1 DEF Woken
<1>31. ASSUME StartRefused PROVE Woken'
  <2>1. Here' \notin {"wake", "reset"}
    BY <1>31 DEF Here, StartRefused, At, frameVars, switchVars
  <2> QED
    BY <2>1 DEF Woken
<1>32. ASSUME NEW bins \in Bins, StartEnter(bins) PROVE Woken'
  <2>1. Here' \notin {"wake", "reset"}
    BY <1>32 DEF Here, StartEnter, Enter, At, Goto, Running, frameVars, switchVars
  <2> QED
    BY <2>1 DEF Woken
<1>33. ASSUME SysTick PROVE Woken'
  <2>1. pc' = pc /\ Here \in TickAt /\ systick_on
    BY <1>33, Zenon DEF SysTick, Here
  <2>2. Here' \notin {"wake", "reset"}
    BY <2>1 DEF UnlockUninterrupted, Cooperative, Phases, Here
  <2> QED
    BY <2>2 DEF Woken
<1>34. CASE UNCHANGED vars
  BY <1>34 DEF vars, kernelVars, timerVars, admitVars, tcbVars, ceilVars, syncVars,
     lockVars, switchVars, frameVars, Woken, Here
<1> QED
  BY <1>1, <1>2, <1>3, <1>4, <1>5, <1>6, <1>7, <1>8, <1>9, <1>10, <1>11, <1>12, <1>13,
     <1>14, <1>15, <1>16, <1>17, <1>18, <1>19, <1>20, <1>21, <1>22, <1>23, <1>24,
     <1>25, <1>26, <1>27, <1>28, <1>29, <1>30, <1>31, <1>32, <1>33, <1>34 DEF Next,
     Handler, Program, MainHandler, MainProgram

\* A switch does not lead into the wake-up loop.
LEMMA StepWoken ==
  ASSUME CriticalUninterrupted, UnlockUninterrupted, FixedTasks, Waiting, Rest, Woken, [Next]_vars
  PROVE  Woken'
<1> DEFINE a == active_thread_index
           b == active_thread_index'
<1>0. TInv /\ TInv' /\ Phases /\ a \in Tcb /\ b \in Tcb
  BY StepTInv DEF Waiting, CountInv, TInv, TypeOK, TypeSwitch
<1>1. CASE b = a
  BY <1>0, <1>1, StayWoken
<1>2. CASE b # a
  <2>1. Here # "frames"
    BY <1>0, <1>2, StepThread, NoTickInCritical DEF Here, Leaving, Critical
  <2>2. pc'[b] = pc[b]
    BY <1>0, <1>2, <2>1, OthersUnmoved DEF Unmoved
  <2>3. Here' \notin {"wake", "reset"}
    BY <1>0, <1>2, <2>2 DEF Rest, Resting, Here, UnlockUninterrupted, Cooperative
  <2> QED
    BY <2>3 DEF Woken
<1> QED
  BY <1>1, <1>2

\* A thread is blocked on a list, and taken off it awake.
LEMMA StepBlockedListed ==
  ASSUME CriticalUninterrupted, FixedTasks, Ceiling, Woken, BlockedListed, [Next]_vars
  PROVE  BlockedListed'
<1>0. TInv /\ Phases /\ Waiting /\ Resources /\ OwnedLocked /\ active_thread_index \in Tcb
  BY DEF Ceiling, Ownership, Waiting, CountInv, TInv, TypeOK, TypeSwitch
<1> SUFFICES ASSUME fault' = "none", NEW j \in User, state'[j] = "Blocked"
             PROVE  \E m \in Locks : Listed(j, m)'
  BY DEF BlockedListed
<1>1. CASE LockBlock(j)
  <2>1. j = active_thread_index /\ pc[j] = "lock" /\ lk[j] \in Locks /\ j \in Tcb
    BY <1>0, <1>1, Constants DEF LockBlock, At, TInv, FramesOK
  <2>2. j \in Live /\ j # Main
    BY <1>0, <2>1, ActiveLive DEF Here
  <2>3. /\ lk[j] \in 1 .. num_defined_locks
        /\ static_priority[j] >= priority_ceiling[lk[j]]
        /\ current_locker[lk[j]] # j
        /\ static_priority[j] < Lowest
    BY <1>0, <2>1, <2>2 DEF Waiting, InLoop, Scheduled, Loop
  <2>4. ~Granted(j)
    BY <1>1 DEF LockBlock
  <2>5. WaitsOn(j) \in Locks
    BY <1>0, <2>1, <2>3, <2>4, RefusedLock
  <2> QED
    BY <1>0, <1>1, <2>1, <2>5, BlockLists
<1>2. CASE state[j] = "Blocked"
  <2>1. fault = "none"
    BY <1>0, StepThread
  <2>2. PICK m \in Locks : Listed(j, m)
    BY <1>2, <2>1 DEF BlockedListed
  <2>3. CASE UNCHANGED resVars
    BY <2>2, <2>3 DEF resVars, Listed, Elements
  <2>4. ASSUME NEW i \in Tcb, LockAcquire(i) PROVE Listed(j, m)'
    BY <2>2, <2>4 DEF LockAcquire, Listed, Elements
  <2>5. ASSUME NEW i \in Tcb, LockBlock(i) PROVE Listed(j, m)'
    BY <1>0, <2>2, <2>5, BlockLists
  <2>6. ASSUME NEW i \in Tcb, UnlockReset(i) PROVE Listed(j, m)'
    <3>1. i = active_thread_index /\ Here = "reset" /\ Open(i, {lk[i]})
      BY <2>6 DEF UnlockReset, At, Here
    <3>2. m # lk[i]
      BY <1>2, <2>1, <2>2, <3>1 DEF Woken, Listed, Elements
    <3> QED
      BY <1>0, <2>2, <3>1, <3>2, OpenLists
  <2>7. ASSUME NEW i \in Tcb, MemFault(i) PROVE Listed(j, m)'
    <3> DEFINE woken == UNION {{blocked_threads[l][k] : k \in DOMAIN blocked_threads[l]} :
                                 l \in Held(i)}
               st    == [k \in Tcb |-> IF k = i THEN "Defunct"
                                       ELSE IF k \in woken THEN "Ready" ELSE state[k]]
    <3>1. PICK n \in Tcb : SwitchTo(n, st)
      BY <2>7, Zenon DEF MemFault
    <3>2. j \in Tcb /\ j \notin woken
      BY <3>1, Constants DEF SwitchTo
    <3>3. m \notin Held(i)
      BY <2>2, <3>2 DEF Listed, Elements
    <3> QED
      BY <1>0, <2>2, <2>7, <3>3, OpenLists DEF MemFault
  <2>8. CASE MainSets
    BY <1>0, <2>2, <2>8, MainStays, MainUnlisted DEF Waiting
  <2> QED
    BY <1>0, <2>3, <2>4, <2>5, <2>6, <2>7, <2>8, StepTables
<1> QED
  BY <1>0, <1>1, <1>2, StepBlocked

\* Every step keeps both.
LEMMA StepQueues ==
  ASSUME CriticalUninterrupted, UnlockUninterrupted, FixedTasks, Ceiling, Queues, [Next]_vars
  PROVE  Ceiling' /\ Queues'
BY StepCeiling, StepRest, StepWoken, StepBlockedListed DEF Ceiling, Queues, Waiting,
   CountInv

\* Under the cooperative scheduler a blocked thread is on the list of a lock that is held
\* (BlockedIsQueued), so that an unlock will find it.  (Under a frequency it is not: a
\* tick between the wake-up loop and the reset of unlock loses a waiter.)
THEOREM Queued ==
  ASSUME Cooperative, FixedTasks
  PROVE  Spec => []BlockedIsQueued
<1>1. Init => Ceiling /\ Queues
  BY InitCeiling, InitQueues
<1>2. Ceiling /\ Queues /\ [Next]_vars => (Ceiling /\ Queues)'
  BY StepQueues DEF CriticalUninterrupted, UnlockUninterrupted
<1>3. Ceiling /\ Queues => BlockedIsQueued
  BY DEF Queues, Ceiling, Resources, Refused, BlockedListed, BlockedIsQueued, Listed
<1> QED
  BY <1>1, <1>2, <1>3, PTL DEF Spec

\* Of the owners that wait for one another the most urgent would have to wait for a
\* more urgent one.
LEMMA NoCycle ==
  ASSUME Ceiling, BlockedListed, fault = "none", NEW S \in SUBSET User, S # {},
         \A i \in S : state[i] = "Blocked" /\ WaitsFor(i) \subseteq S
  PROVE  FALSE
<1>0. TInv /\ Resources /\ Numbers /\ Positions /\ Refused
  BY NumbersType DEF Ceiling, Waiting, CountInv, Resources
<1>1. \A i \in S : \E m \in Locks : Listed(i, m) /\ current_locker[m] \in S
                                    /\ m \in Held(current_locker[m])
  BY <1>0 DEF BlockedListed, WaitsFor, Listed, Refused, Held
<1> DEFINE O == {y \in S : Held(y) # {}}
           P == {p \in User : \E y \in O : static_priority[y] = p}
<1>2. \A y \in O : \E z \in O : static_priority[z] < static_priority[y]
  <2> SUFFICES ASSUME NEW y \in O
               PROVE  \E z \in O : static_priority[z] < static_priority[y]
    OBVIOUS
  <2>1. PICK m \in Locks : Listed(y, m) /\ current_locker[m] \in S /\ m \in Held(current_locker[m])
    BY <1>1
  <2>2. PICK l \in Held(y) : TRUE
    OBVIOUS
  <2>3. /\ static_priority[current_locker[m]] < priority_ceiling[l]
        /\ priority_ceiling[l] <= static_priority[y]
    BY <1>0, <2>1, <2>2, WaitBelow
  <2>4. l \in Locks
    BY DEF Held
  <2> QED
    BY <1>0, <2>1, <2>3, <2>4 DEF Numbers
<1>3. \A y \in O : \E p \in P : p < static_priority[y]
  BY <1>0, <1>2 DEF Numbers, Positions
<1>4. PICK y \in O : TRUE
  BY <1>1
<1>5. P # {}
  BY <1>3, <1>4
<1>6. PICK p \in P : \A q \in P : p <= q
  BY <1>5, First
<1>7. PICK x \in O : static_priority[x] = p
  BY <1>6
<1>8. PICK q \in P : q < p
  BY <1>3, <1>7
<1> QED
  BY <1>6, <1>8 DEF User

\* The blocked threads do not wait for one another alone (DeadlockFree).
THEOREM NoDeadlock ==
  ASSUME CriticalUninterrupted, UnlockUninterrupted, FixedTasks
  PROVE  Spec => []DeadlockFree
<1>1. Init => Ceiling /\ Queues
  BY InitCeiling, InitQueues
<1>2. Ceiling /\ Queues /\ [Next]_vars => (Ceiling /\ Queues)'
  BY StepQueues
<1>3. Ceiling /\ Queues => DeadlockFree
  <2> SUFFICES ASSUME Ceiling, Queues, fault = "none", NEW S \in (SUBSET User) \ {{}}
               PROVE  \E i \in S : state[i] # "Blocked" \/ ~ WaitsFor(i) \subseteq S
    BY DEF DeadlockFree
  <2>1. S \in SUBSET User /\ S # {}
    OBVIOUS
  <2> QED
    BY <2>1, NoCycle DEF Queues
<1> QED
  BY <1>1, <1>2, <1>3, PTL DEF Spec

-----------------------------------------------------------------------------
(* The rate-monotonic order. *)

\* The index of the loops is 0 outside them.
IndexZero == \A i \in Tcb : pc[i] \notin {"wake", "clear", "assign"} => wi[i] = 0

\* The tasks of the slots are those that were asked for.
TasksAsked ==
  \A i \in Tcb : task[i] \in TaskSet \cup {NoTask} /\ df[i].task \in TaskSet \cup {NoTask}

\* The order of period and then id.
Before(i, j) ==
  task[i].t < task[j].t \/ (task[i].t = task[j].t /\ task[i].id < task[j].id)
Monotone(S) == \A i, j \in S : Before(i, j) => static_priority[i] < static_priority[j]

\* The threads that the second loop of order_absolute_priorities has ordered.
Placed == {j \in Live : static_priority[j] # Lowest}

\* The loops of order_absolute_priorities, and what they leave.
Ordering ==
  LET k == wi[active_thread_index] IN
  /\ Here = "clear" => k < N /\ \A j \in User : j < k => static_priority[j] = Lowest
  /\ Here = "assign" =>
       /\ k <= num_active_threads /\ Cardinality(Unordered) = num_active_threads - k
       /\ Monotone(Placed)
       /\ \A i \in Placed : static_priority[i] < k
       /\ \A i \in Placed, j \in Unordered : ~Before(j, i)
  /\ Here \notin Defining => Monotone(Live) /\ \A j \in Live : static_priority[j] < N

\* The loops reset their index.
LEMMA StepIndex == ASSUME TInv, IndexZero, [Next]_vars PROVE IndexZero'
<1> USE Constants DEF TInv, TypeOK, TypeFrame
<1>1. ASSUME NEW i \in Tcb, Return(i) PROVE IndexZero'
  BY <1>1 DEF Return, At, Goto, IndexZero, frameVars
<1>2. ASSUME NEW i \in Tcb, YieldPend(i) PROVE IndexZero'
  BY <1>2 DEF YieldPend, At, Goto, IndexZero, frameVars
<1>3. ASSUME NEW i \in Tcb, LockAcquire(i) PROVE IndexZero'
  BY <1>3 DEF LockAcquire, At, Goto, IndexZero, frameVars
<1>4. ASSUME NEW i \in Tcb, LockBlock(i) PROVE IndexZero'
  BY <1>4 DEF LockBlock, At, Goto, IndexZero, frameVars
<1>5. ASSUME NEW i \in Tcb, LockPend(i) PROVE IndexZero'
  BY <1>5 DEF LockPend, At, Goto, IndexZero, frameVars
<1>6. ASSUME NEW i \in Tcb, UnlockWake(i) PROVE IndexZero'
  BY <1>6 DEF UnlockWake, At, Running, IndexZero, frameVars
<1>7. ASSUME NEW i \in Tcb, UnlockWoken(i) PROVE IndexZero'
  BY <1>7 DEF UnlockWoken, At, Goto, IndexZero, frameVars
<1>8. ASSUME NEW i \in Tcb, UnlockReset(i) PROVE IndexZero'
  BY <1>8 DEF UnlockReset, At, Goto, IndexZero, frameVars
<1>9. ASSUME NEW i \in Tcb, UnlockPend(i) PROVE IndexZero'
  BY <1>9 DEF UnlockPend, At, Goto, IndexZero, frameVars
<1>10. ASSUME NEW i \in Tcb, EndUnlock(i) PROVE IndexZero'
  BY <1>10 DEF EndUnlock, At, Goto, IndexZero, frameVars
<1>11. ASSUME NEW i \in Tcb, EndDefunct(i) PROVE IndexZero'
  BY <1>11 DEF EndDefunct, At, Goto, Running, IndexZero, frameVars
<1>12. ASSUME NEW i \in Tcb, EndDec(i) PROVE IndexZero'
  BY <1>12 DEF EndDec, At, Goto, IndexZero, frameVars
<1>13. ASSUME NEW i \in Tcb, EndPend(i) PROVE IndexZero'
  BY <1>13 DEF EndPend, At, Goto, IndexZero, frameVars
<1>14. ASSUME NEW i \in Tcb, DefineFill(i) PROVE IndexZero'
  BY <1>14 DEF DefineFill, At, Goto, IndexZero, frameVars
<1>15. ASSUME NEW i \in Tcb, DefineFrames(i) PROVE IndexZero'
  BY <1>15 DEF IndexZero, DefineFrames, At
<1>16. ASSUME NEW i \in Tcb, DefineCount(i) PROVE IndexZero'
  BY <1>16 DEF DefineCount, At, Goto, IndexZero, frameVars
<1>17. ASSUME NEW i \in Tcb, OrderClear(i) PROVE IndexZero'
  BY <1>17 DEF OrderClear, At, Goto, IndexZero, frameVars
<1>18. ASSUME NEW i \in Tcb, OrderAssign(i) PROVE IndexZero'
  BY <1>18 DEF OrderAssign, At, IndexZero, frameVars
<1>19. ASSUME NEW i \in Tcb, OrderDone(i) PROVE IndexZero'
  BY <1>19 DEF OrderDone, At, Goto, IndexZero, frameVars
<1>20. ASSUME NEW i \in Tcb, Yield(i) PROVE IndexZero'
  BY <1>20 DEF Yield, Yielded, Enter, At, Goto, Running, IndexZero, frameVars
<1>21. ASSUME NEW i \in Tcb, SleepMs(i) PROVE IndexZero'
  BY <1>21 DEF SleepMs, Enter, At, Goto, Running, IndexZero, frameVars
<1>22. ASSUME NEW i \in Tcb, Exit(i) PROVE IndexZero'
  BY <1>22 DEF Exit, At, IndexZero, frameVars
<1>23. ASSUME NEW i \in Tcb, NEW m \in Locks, LockEnter(i, m) PROVE IndexZero'
  BY <1>23 DEF LockEnter, Enter, At, Goto, Running, IndexZero, frameVars
<1>24. ASSUME NEW i \in Tcb, NEW m \in Locks, UnlockEnter(i, m) PROVE IndexZero'
  BY <1>24 DEF UnlockEnter, Enter, At, Goto, Running, IndexZero, frameVars
<1>25. ASSUME NEW i \in Tcb, EndEnter(i) PROVE IndexZero'
  BY <1>25 DEF EndEnter, Enter, At, Goto, Running, IndexZero, frameVars
<1>26. ASSUME NEW i \in Tcb, MemFault(i) PROVE IndexZero'
  BY <1>26 DEF MemFault, At, IndexZero, frameVars
<1>27. ASSUME NEW i \in Tcb, NEW tk \in TaskSet, DefineEnter(i, tk) PROVE IndexZero'
  BY <1>27 DEF DefineEnter, Enter, At, Goto, Running, IndexZero, frameVars
<1>28. ASSUME StartPend PROVE IndexZero'
  BY <1>28 DEF StartPend, At, Goto, IndexZero, frameVars
<1>29. ASSUME StartJoin PROVE IndexZero'
  BY <1>29 DEF StartJoin, At, Goto, IndexZero, frameVars
<1>30. ASSUME NEW id \in {tk.id : tk \in TaskSet}, LockInit(id) PROVE IndexZero'
  BY <1>30 DEF LockInit, At, IndexZero, frameVars
<1>31. ASSUME StartRefused PROVE IndexZero'
  BY <1>31 DEF StartRefused, At, IndexZero, frameVars
<1>32. ASSUME NEW bins \in Bins, StartEnter(bins) PROVE IndexZero'
  BY <1>32 DEF StartEnter, Enter, At, Goto, Running, IndexZero, frameVars
<1>33. ASSUME SysTick PROVE IndexZero'
  BY <1>33 DEF SysTick, IndexZero, frameVars
<1>34. CASE UNCHANGED vars
  BY <1>34 DEF vars, kernelVars, timerVars, admitVars, tcbVars, ceilVars, syncVars,
     lockVars, switchVars, frameVars, IndexZero, frameVars
<1> QED
  BY <1>1, <1>2, <1>3, <1>4, <1>5, <1>6, <1>7, <1>8, <1>9, <1>10, <1>11, <1>12, <1>13,
     <1>14, <1>15, <1>16, <1>17, <1>18, <1>19, <1>20, <1>21, <1>22, <1>23, <1>24,
     <1>25, <1>26, <1>27, <1>28, <1>29, <1>30, <1>31, <1>32, <1>33, <1>34 DEF Next,
     Handler, Program, MainHandler, MainProgram

\* The slots get the tasks that were asked for.
LEMMA StepTasks == ASSUME TInv, TasksAsked, [Next]_vars PROVE TasksAsked'
<1> USE Constants DEF TInv, TypeOK, TypeFrame, TypeKernel
<1>0. NoDef.task = NoTask
  BY DEF NoDef
<1>1. ASSUME NEW i \in Tcb, Return(i) PROVE TasksAsked'
  BY <1>1, <1>0 DEF Return, At, Goto, TasksAsked, kernelVars, tcbVars, frameVars
<1>2. ASSUME NEW i \in Tcb, YieldPend(i) PROVE TasksAsked'
  BY <1>2, <1>0 DEF YieldPend, At, Goto, TasksAsked, kernelVars, tcbVars, frameVars
<1>3. ASSUME NEW i \in Tcb, LockAcquire(i) PROVE TasksAsked'
  BY <1>3, <1>0 DEF LockAcquire, At, Goto, TasksAsked, kernelVars, tcbVars, frameVars
<1>4. ASSUME NEW i \in Tcb, LockBlock(i) PROVE TasksAsked'
  BY <1>4, <1>0 DEF LockBlock, At, Goto, TasksAsked, kernelVars, tcbVars, frameVars
<1>5. ASSUME NEW i \in Tcb, LockPend(i) PROVE TasksAsked'
  BY <1>5, <1>0 DEF LockPend, At, Goto, TasksAsked, kernelVars, tcbVars, frameVars
<1>6. ASSUME NEW i \in Tcb, UnlockWake(i) PROVE TasksAsked'
  BY <1>6, <1>0 DEF UnlockWake, At, Running, TasksAsked, kernelVars, tcbVars, frameVars
<1>7. ASSUME NEW i \in Tcb, UnlockWoken(i) PROVE TasksAsked'
  BY <1>7, <1>0 DEF UnlockWoken, At, Goto, TasksAsked, kernelVars, tcbVars, frameVars
<1>8. ASSUME NEW i \in Tcb, UnlockReset(i) PROVE TasksAsked'
  BY <1>8, <1>0 DEF UnlockReset, At, Goto, TasksAsked, kernelVars, tcbVars, frameVars
<1>9. ASSUME NEW i \in Tcb, UnlockPend(i) PROVE TasksAsked'
  BY <1>9, <1>0 DEF UnlockPend, At, Goto, TasksAsked, kernelVars, tcbVars, frameVars
<1>10. ASSUME NEW i \in Tcb, EndUnlock(i) PROVE TasksAsked'
  BY <1>10, <1>0 DEF EndUnlock, At, Goto, TasksAsked, kernelVars, tcbVars, frameVars
<1>11. ASSUME NEW i \in Tcb, EndDefunct(i) PROVE TasksAsked'
  BY <1>11, <1>0 DEF EndDefunct, At, Goto, Running, TasksAsked, kernelVars, tcbVars,
     frameVars
<1>12. ASSUME NEW i \in Tcb, EndDec(i) PROVE TasksAsked'
  BY <1>12, <1>0 DEF EndDec, At, Goto, TasksAsked, kernelVars, tcbVars, frameVars
<1>13. ASSUME NEW i \in Tcb, EndPend(i) PROVE TasksAsked'
  BY <1>13, <1>0 DEF EndPend, At, Goto, TasksAsked, kernelVars, tcbVars, frameVars
<1>14. ASSUME NEW i \in Tcb, DefineFill(i) PROVE TasksAsked'
  BY <1>14, <1>0 DEF DefineFill, At, Goto, TasksAsked, kernelVars, tcbVars, frameVars
<1>15. ASSUME NEW i \in Tcb, DefineFrames(i) PROVE TasksAsked'
  BY <1>15, <1>0 DEF DefineFrames, At, TasksAsked, kernelVars, tcbVars, frameVars
<1>16. ASSUME NEW i \in Tcb, DefineCount(i) PROVE TasksAsked'
  BY <1>16, <1>0 DEF DefineCount, At, Goto, TasksAsked, kernelVars, tcbVars, frameVars
<1>17. ASSUME NEW i \in Tcb, OrderClear(i) PROVE TasksAsked'
  BY <1>17, <1>0 DEF OrderClear, At, Goto, TasksAsked, kernelVars, tcbVars, frameVars
<1>18. ASSUME NEW i \in Tcb, OrderAssign(i) PROVE TasksAsked'
  BY <1>18, <1>0 DEF OrderAssign, At, TasksAsked, kernelVars, tcbVars, frameVars
<1>19. ASSUME NEW i \in Tcb, OrderDone(i) PROVE TasksAsked'
  BY <1>19, <1>0 DEF OrderDone, At, Goto, TasksAsked, kernelVars, tcbVars, frameVars
<1>20. ASSUME NEW i \in Tcb, Yield(i) PROVE TasksAsked'
  BY <1>20, <1>0 DEF Yield, Yielded, Enter, At, Goto, Running, TasksAsked, kernelVars,
     tcbVars, frameVars
<1>21. ASSUME NEW i \in Tcb, SleepMs(i) PROVE TasksAsked'
  BY <1>21, <1>0 DEF SleepMs, Enter, At, Goto, Running, TasksAsked, kernelVars,
     tcbVars, frameVars
<1>22. ASSUME NEW i \in Tcb, Exit(i) PROVE TasksAsked'
  BY <1>22, <1>0 DEF Exit, At, TasksAsked, kernelVars, tcbVars, frameVars
<1>23. ASSUME NEW i \in Tcb, NEW m \in Locks, LockEnter(i, m) PROVE TasksAsked'
  BY <1>23, <1>0 DEF LockEnter, Enter, At, Goto, Running, TasksAsked, kernelVars,
     tcbVars, frameVars
<1>24. ASSUME NEW i \in Tcb, NEW m \in Locks, UnlockEnter(i, m) PROVE TasksAsked'
  BY <1>24, <1>0 DEF UnlockEnter, Enter, At, Goto, Running, TasksAsked, kernelVars,
     tcbVars, frameVars
<1>25. ASSUME NEW i \in Tcb, EndEnter(i) PROVE TasksAsked'
  BY <1>25, <1>0 DEF EndEnter, Enter, At, Goto, Running, TasksAsked, kernelVars,
     tcbVars, frameVars
<1>26. ASSUME NEW i \in Tcb, MemFault(i) PROVE TasksAsked'
  BY <1>26, <1>0 DEF MemFault, At, TasksAsked, kernelVars, tcbVars, frameVars
<1>27. ASSUME NEW i \in Tcb, NEW tk \in TaskSet, DefineEnter(i, tk) PROVE TasksAsked'
  BY <1>27, <1>0 DEF DefineEnter, Enter, At, Goto, Running, TasksAsked, kernelVars,
     tcbVars, frameVars
<1>28. ASSUME StartPend PROVE TasksAsked'
  BY <1>28, <1>0 DEF StartPend, At, Goto, TasksAsked, kernelVars, tcbVars, frameVars
<1>29. ASSUME StartJoin PROVE TasksAsked'
  BY <1>29, <1>0 DEF StartJoin, At, Goto, TasksAsked, kernelVars, tcbVars, frameVars
<1>30. ASSUME NEW id \in {tk.id : tk \in TaskSet}, LockInit(id) PROVE TasksAsked'
  BY <1>30, <1>0 DEF LockInit, At, TasksAsked, kernelVars, tcbVars, frameVars
<1>31. ASSUME StartRefused PROVE TasksAsked'
  BY <1>31, <1>0 DEF StartRefused, At, TasksAsked, kernelVars, tcbVars, frameVars
<1>32. ASSUME NEW bins \in Bins, StartEnter(bins) PROVE TasksAsked'
  BY <1>32, <1>0 DEF StartEnter, Enter, At, Goto, Running, TasksAsked, kernelVars,
     tcbVars, frameVars
<1>33. ASSUME SysTick PROVE TasksAsked'
  BY <1>33, <1>0 DEF SysTick, TasksAsked, kernelVars, tcbVars, frameVars
<1>34. CASE UNCHANGED vars
  BY <1>34, <1>0 DEF vars, kernelVars, timerVars, admitVars, tcbVars, ceilVars,
     syncVars, lockVars, switchVars, frameVars, TasksAsked, kernelVars, tcbVars,
     frameVars
<1> QED
  BY <1>1, <1>2, <1>3, <1>4, <1>5, <1>6, <1>7, <1>8, <1>9, <1>10, <1>11, <1>12, <1>13,
     <1>14, <1>15, <1>16, <1>17, <1>18, <1>19, <1>20, <1>21, <1>22, <1>23, <1>24,
     <1>25, <1>26, <1>27, <1>28, <1>29, <1>30, <1>31, <1>32, <1>33, <1>34 DEF Next,
     Handler, Program, MainHandler, MainProgram

\* The steps of thread_define, and those that leave priorities and tasks alone.
LEMMA DefiningSteps ==
  ASSUME CriticalUninterrupted, TInv, Phases, [Next]_vars, NEW a \in Tcb, a = active_thread_index
  PROVE  \/ /\ UNCHANGED <<static_priority, task>>
            /\ pc[a] \notin Defining /\ pc'[a] \notin Defining
         \/ \E tk \in TaskSet : DefineEnter(a, tk)
         \/ DefineFill(a) \/ DefineFrames(a) \/ DefineCount(a)
         \/ OrderClear(a) \/ OrderAssign(a) \/ OrderDone(a)
         \/ UNCHANGED vars
<1> USE Constants DEF TInv, TypeOK, TypeFrame, TypeSwitch, Defining
<1> DEFINE Goal ==
  \/ /\ UNCHANGED <<static_priority, task>>
     /\ pc[a] \notin Defining /\ pc'[a] \notin Defining
  \/ \E tk \in TaskSet : DefineEnter(a, tk)
  \/ DefineFill(a) \/ DefineFrames(a) \/ DefineCount(a)
  \/ OrderClear(a) \/ OrderAssign(a) \/ OrderDone(a)
  \/ UNCHANGED vars
<1>1. ASSUME NEW i \in Tcb, Return(i) PROVE Goal
  BY <1>1 DEF Return, At, Goto, kernelVars, tcbVars
<1>2. ASSUME NEW i \in Tcb, YieldPend(i) PROVE Goal
  BY <1>2 DEF YieldPend, At, Goto, kernelVars, tcbVars
<1>3. ASSUME NEW i \in Tcb, LockAcquire(i) PROVE Goal
  BY <1>3 DEF LockAcquire, At, Goto, kernelVars, tcbVars
<1>4. ASSUME NEW i \in Tcb, LockBlock(i) PROVE Goal
  BY <1>4 DEF LockBlock, At, Goto, kernelVars, tcbVars
<1>5. ASSUME NEW i \in Tcb, LockPend(i) PROVE Goal
  BY <1>5 DEF LockPend, At, Goto, kernelVars, tcbVars
<1>6. ASSUME NEW i \in Tcb, UnlockWake(i) PROVE Goal
  BY <1>6 DEF UnlockWake, At, Running, kernelVars, tcbVars
<1>7. ASSUME NEW i \in Tcb, UnlockWoken(i) PROVE Goal
  BY <1>7 DEF UnlockWoken, At, Goto, kernelVars, tcbVars
<1>8. ASSUME NEW i \in Tcb, UnlockReset(i) PROVE Goal
  BY <1>8 DEF UnlockReset, At, Goto, kernelVars, tcbVars
<1>9. ASSUME NEW i \in Tcb, UnlockPend(i) PROVE Goal
  BY <1>9 DEF UnlockPend, At, Goto, kernelVars, tcbVars
<1>10. ASSUME NEW i \in Tcb, EndUnlock(i) PROVE Goal
  BY <1>10 DEF EndUnlock, At, Goto, kernelVars, tcbVars
<1>11. ASSUME NEW i \in Tcb, EndDefunct(i) PROVE Goal
  BY <1>11 DEF EndDefunct, At, Goto, Running, kernelVars, tcbVars
<1>12. ASSUME NEW i \in Tcb, EndDec(i) PROVE Goal
  BY <1>12 DEF EndDec, At, Goto, kernelVars, tcbVars
<1>13. ASSUME NEW i \in Tcb, EndPend(i) PROVE Goal
  BY <1>13 DEF EndPend, At, Goto, kernelVars, tcbVars
<1>14. ASSUME NEW i \in Tcb, DefineFill(i) PROVE Goal
  BY <1>14 DEF DefineFill, At
<1>15. ASSUME NEW i \in Tcb, DefineFrames(i) PROVE Goal
  BY <1>15 DEF DefineFrames, At
<1>16. ASSUME NEW i \in Tcb, DefineCount(i) PROVE Goal
  BY <1>16 DEF DefineCount, At
<1>17. ASSUME NEW i \in Tcb, OrderClear(i) PROVE Goal
  BY <1>17 DEF OrderClear, At
<1>18. ASSUME NEW i \in Tcb, OrderAssign(i) PROVE Goal
  BY <1>18 DEF OrderAssign, At
<1>19. ASSUME NEW i \in Tcb, OrderDone(i) PROVE Goal
  BY <1>19 DEF OrderDone, At
<1>20. ASSUME NEW i \in Tcb, Yield(i) PROVE Goal
  BY <1>20 DEF Yield, Yielded, Enter, At, Goto, Running, kernelVars, tcbVars
<1>21. ASSUME NEW i \in Tcb, SleepMs(i) PROVE Goal
  BY <1>21 DEF SleepMs, Enter, At, Goto, Running, kernelVars, tcbVars
<1>22. ASSUME NEW i \in Tcb, Exit(i) PROVE Goal
  BY <1>22 DEF Exit, At, kernelVars, tcbVars
<1>23. ASSUME NEW i \in Tcb, NEW m \in Locks, LockEnter(i, m) PROVE Goal
  BY <1>23 DEF LockEnter, Enter, At, Goto, Running, kernelVars, tcbVars
<1>24. ASSUME NEW i \in Tcb, NEW m \in Locks, UnlockEnter(i, m) PROVE Goal
  BY <1>24 DEF UnlockEnter, Enter, At, Goto, Running, kernelVars, tcbVars
<1>25. ASSUME NEW i \in Tcb, EndEnter(i) PROVE Goal
  BY <1>25 DEF EndEnter, Enter, At, Goto, Running, kernelVars, tcbVars
<1>26. ASSUME NEW i \in Tcb, MemFault(i) PROVE Goal
  BY <1>26 DEF MemFault, At, kernelVars, tcbVars
<1>27. ASSUME NEW i \in Tcb, NEW tk \in TaskSet, DefineEnter(i, tk) PROVE Goal
  BY <1>27 DEF DefineEnter, Enter, At
<1>28. ASSUME StartPend PROVE Goal
  BY <1>28 DEF StartPend, At, Goto, kernelVars, tcbVars
<1>29. ASSUME StartJoin PROVE Goal
  BY <1>29 DEF StartJoin, At, Goto, kernelVars, tcbVars
<1>30. ASSUME NEW id \in {tk.id : tk \in TaskSet}, LockInit(id) PROVE Goal
  BY <1>30 DEF LockInit, At, kernelVars, tcbVars
<1>31. ASSUME StartRefused PROVE Goal
  BY <1>31 DEF StartRefused, At, kernelVars, tcbVars
<1>32. ASSUME NEW bins \in Bins, StartEnter(bins) PROVE Goal
  BY <1>32 DEF StartEnter, Enter, At, Goto, Running, kernelVars, tcbVars
<1>33. ASSUME SysTick PROVE Goal
  BY <1>33, NoTickInCritical DEF SysTick, tcbVars, Critical, Here
<1>34. CASE UNCHANGED vars
  BY <1>34
<1> QED
  BY <1>1, <1>2, <1>3, <1>4, <1>5, <1>6, <1>7, <1>8, <1>9, <1>10, <1>11, <1>12, <1>13,
     <1>14, <1>15, <1>16, <1>17, <1>18, <1>19, <1>20, <1>21, <1>22, <1>23, <1>24,
     <1>25, <1>26, <1>27, <1>28, <1>29, <1>30, <1>31, <1>32, <1>33, <1>34 DEF Next,
     Handler, Program, MainHandler, MainProgram

\* The order in which the loop chooses is the order of period and id.
LEMMA Precede ==
  ASSUME TInv, NEW i \in User, NEW j \in User
  PROVE  ~Before(i, i) /\ (Precedes(i, j) => ~Before(j, i))
<1>1. task[i].t \in Nat /\ task[i].id \in Nat /\ task[j].t \in Nat /\ task[j].id \in Nat
  BY Constants DEF TInv, TypeOK, TypeKernel, Tasks
<1> QED
  BY <1>1 DEF Before, Precedes

\* Facts of arithmetic on indices.
LEMMA Indices ==
  \A j, k, n \in Nat : /\ j < k + 1 => j < k \/ j = k
                       /\ j < n /\ k = n - 1 => j < k \/ j = k
                       /\ k < n /\ k # n - 1 => k + 1 < n
                       /\ k < n => n - k # 0 /\ k + 1 <= n /\ n - k - 1 = n - (k + 1)
OBVIOUS

\* A position is a word, and not the lowest priority.
LEMMA WordPosition == \A k \in Nat : k < N => Word(k) = k /\ k # Lowest
<1>1. \A k, n, w \in Nat : k < n /\ n <= 14 /\ w >= 15 => k < w + 1 /\ k # w
  OBVIOUS
<1>2. \A k, d \in Nat : k < d => k % d = k
  OBVIOUS
<1> QED
  BY <1>1, <1>2, NAssumption, WordMaxAssumption DEF Word, Lowest

\* A live thread is ordered or has the lowest priority.
LEMMA LivePlaced ==
  ASSUME TInv, NoSentinel, TasksAsked
  PROVE  /\ \A j \in User : task[j].t < Lowest \/ task[j].id < Lowest
         /\ Unordered = {j \in Live : static_priority[j] = Lowest}
         /\ Live = Placed \cup Unordered
<1>1. \A j \in User : task[j].t < Lowest \/ task[j].id < Lowest
  BY Constants DEF TasksAsked, NoSentinel, NoTask, Lowest
<1> QED
  BY <1>1 DEF Unordered, Placed, Live

\* An iteration of the first loop.
LEMMA StepClear ==
  ASSUME CountInv, NoSentinel, TasksAsked, Ordering,
         NEW a \in Tcb, a = active_thread_index, OrderClear(a)
  PROVE  Ordering'
<1> DEFINE k == wi[a]
<1> USE Constants DEF TInv, TypeOK, TypeFrame, TypeKernel
<1>1. /\ TInv /\ Here = "clear" /\ k \in Nat /\ k < N
      /\ \A j \in User : j < k => static_priority[j] = Lowest
  BY DEF CountInv, Ordering, OrderClear, At, Here
<1>2. /\ active_thread_index' = a /\ UNCHANGED <<task, state, num_active_threads>>
      /\ static_priority' = [static_priority EXCEPT ![k] = Lowest]
  BY DEF OrderClear, switchVars, admitVars
<1>3. \A j \in User : j < k \/ j = k => static_priority'[j] = Lowest
  BY <1>1, <1>2
<1>4. \A j \in User : /\ j < k + 1 => j < k \/ j = k
                      /\ k = N - 1 => j < k \/ j = k
  <2> SUFFICES ASSUME NEW j \in User
               PROVE  /\ j < k + 1 => j < k \/ j = k
                      /\ k = N - 1 => j < k \/ j = k
    OBVIOUS
  <2>1. j \in Nat /\ j < N /\ k \in Nat /\ N \in Nat
    BY <1>1 DEF User
  <2> HIDE DEF k
  <2> QED
    BY <2>1, Indices
<1>5. CASE k = N - 1
  <2>1. Here' = "assign" /\ wi'[a] = 0
    BY <1>1, <1>2, <1>5 DEF OrderClear, Goto, Here
  <2>2. Live' = Live /\ \A j \in User : static_priority'[j] = Lowest
    BY <1>2, <1>3, <1>4, <1>5 DEF Live
  <2>3. Unordered' = {j \in Live' : static_priority'[j] = Lowest}
    BY <1>1, <1>2, LivePlaced DEF Unordered, Live
  <2>4. Unordered' = Live /\ Placed' = {}
    BY <2>2, <2>3 DEF Placed, Live
  <2>5. num_active_threads = Cardinality(Live) /\ num_active_threads \in Nat
    BY <1>1, LiveFinite DEF CountInv, Counted, Off
  <2>6. /\ 0 <= num_active_threads' /\ Cardinality(Unordered') = num_active_threads' - 0
    BY <1>2, <2>4, <2>5
  <2> QED
    BY <1>2, <2>1, <2>4, <2>6 DEF Ordering, Defining, Monotone
<1>6. CASE k # N - 1
  <2>1. Here' = "clear" /\ wi'[a] = k + 1
    BY <1>1, <1>2, <1>6 DEF OrderClear, Here
  <2>2. k + 1 < N
    BY <1>1, <1>6, Indices
  <2>3. \A j \in User : j < k + 1 => static_priority'[j] = Lowest
    BY <1>3, <1>4
  <2> QED
    BY <1>2, <2>1, <2>2, <2>3 DEF Ordering, Defining
<1> QED
  BY <1>5, <1>6

\* An iteration of the second loop: the next position goes to the first of the rest.
LEMMA StepAssign ==
  ASSUME CountInv, NoSentinel, TasksAsked, Ordering,
         NEW a \in Tcb, a = active_thread_index, OrderAssign(a)
  PROVE  Ordering'
<1> DEFINE k == wi[a]
<1> USE Constants DEF TInv, TypeOK, TypeFrame, TypeKernel
<1>1. /\ TInv /\ Here = "assign" /\ k \in Nat /\ k < num_active_threads
      /\ Cardinality(Unordered) = num_active_threads - k /\ Monotone(Placed)
      /\ \A i \in Placed : static_priority[i] < k
      /\ \A i \in Placed, j \in Unordered : ~Before(j, i)
  BY DEF CountInv, Ordering, OrderAssign, At, Here
<1>2. /\ active_thread_index' = a /\ UNCHANGED <<task, state, num_active_threads>>
      /\ Here' = "assign" /\ wi'[a] = k + 1
  BY <1>1 DEF OrderAssign, switchVars, admitVars, Here
<1>3. num_active_threads = Cardinality(Live) /\ num_active_threads \in 0 .. N
  BY <1>1, LiveFinite DEF CountInv, Counted, Off
<1>4. Word(k) = k /\ k # Lowest /\ k \in Nat
  <2>1. k < N
    BY <1>1, <1>3
  <2> QED
    BY <1>1, <2>1, WordPosition
<1>5. IsFiniteSet(Unordered) /\ Unordered # {}
  <2>1. IsFiniteSet(Unordered)
    BY LiveFinite, FS_Subset DEF Unordered, Live
  <2>2. num_active_threads - k # 0
    BY <1>1, <1>3, Indices
  <2> QED
    BY <1>1, <2>1, <2>2, FS_EmptySet
<1>6. PICK j \in Unordered :
        /\ \A i \in Unordered : Precedes(j, i)
        /\ static_priority' = [static_priority EXCEPT ![j] = k]
  BY <1>4, <1>5 DEF OrderAssign
<1>7. j \in User /\ j \in Live /\ static_priority[j] = Lowest
  BY <1>6 DEF Unordered, Live
<1>8. Live' = Live /\ \A x, y \in User : Before(x, y)' <=> Before(x, y)
  BY <1>2 DEF Live, Before
<1>9. /\ Unordered = {i \in Live : static_priority[i] = Lowest}
      /\ Unordered' = {i \in Live : static_priority'[i] = Lowest}
  BY <1>1, <1>2, LivePlaced DEF Unordered, Live
<1>a. static_priority'[j] = k /\ \A i \in Live : i # j => static_priority'[i] = static_priority[i]
  BY <1>1, <1>6, <1>7 DEF Live
<1>10. Unordered' = Unordered \ {j} /\ Placed' = Placed \cup {j}
  <2>1. Placed' = {i \in Live : static_priority'[i] # Lowest}
    BY <1>8 DEF Placed
  <2> HIDE DEF k
  <2> QED
    BY <1>4, <1>7, <1>9, <1>a, <2>1 DEF Placed
<1>11. Cardinality(Unordered') = num_active_threads' - (k + 1)
  <2>1. Cardinality(Unordered \ {j}) = Cardinality(Unordered) - 1
    BY <1>5, <1>6, FS_RemoveElement
  <2> QED
    BY <1>1, <1>2, <1>3, <1>10, <2>1
<1>12. /\ \A i \in Placed : i \in User /\ i # j /\ static_priority'[i] = static_priority[i]
       /\ static_priority'[j] = k
  BY <1>7, <1>a DEF Placed, Live
<1>13. \A i \in Placed' : static_priority'[i] < k + 1
  <2>1. \A i \in Placed : static_priority[i] < k /\ static_priority[i] \in Nat
    BY <1>1, <1>12
  <2> QED
    BY <1>4, <1>10, <1>12, <2>1
<1>14. Monotone(Placed)'
  <2> SUFFICES ASSUME NEW x \in Placed', NEW y \in Placed', Before(x, y)
               PROVE  static_priority'[x] < static_priority'[y]
    BY <1>7, <1>8, <1>10, <1>12 DEF Monotone
  <2>1. CASE x \in Placed /\ y \in Placed
    BY <1>1, <1>12, <2>1 DEF Monotone
  <2>2. CASE x \in Placed /\ y = j
    BY <1>1, <1>12, <2>2
  <2>3. CASE x = j /\ y \in Placed
    BY <1>1, <1>6, <2>3
  <2>4. CASE x = j /\ y = j
    BY <1>1, <1>7, <2>4, Precede
  <2> QED
    BY <1>10, <2>1, <2>2, <2>3, <2>4
<1>15. \A i \in Placed', u \in Unordered' : ~Before(u, i)'
  <2>1. \A u \in Unordered : u \in User /\ ~Before(u, j)
    BY <1>1, <1>6, <1>7, Precede DEF Unordered
  <2> QED
    BY <1>1, <1>7, <1>8, <1>10, <1>12, <2>1
<1>16. k + 1 <= num_active_threads'
  BY <1>1, <1>2, <1>3
<1> QED
  BY <1>2, <1>11, <1>13, <1>14, <1>15, <1>16 DEF Ordering, Defining

\* Every step keeps the order.
LEMMA StepOrdering ==
  ASSUME CriticalUninterrupted, NoSentinel, CountInv, ListedLive, IndexZero, TasksAsked,
         Ordering, [Next]_vars
  PROVE  Ordering'
<1> DEFINE a == active_thread_index
<1>0. /\ TInv /\ Phases /\ a \in Tcb
      /\ Here = pc[a]
  BY DEF CountInv, TInv, TypeOK, TypeSwitch, Here
<1> USE Constants DEF TInv, TypeOK, TypeFrame, TypeSwitch
<1>1. CASE /\ UNCHANGED <<static_priority, task>>
           /\ pc[a] \notin Defining /\ pc'[a] \notin Defining
  <2>1. Here' \notin Defining
    <3>1. CASE active_thread_index' = a
      BY <1>1, <3>1 DEF Here
    <3>2. CASE active_thread_index' # a
      <4>1. active_thread_index' \in Tcb
        BY <1>0, StepTInv
      <4>2. pc'[active_thread_index'] = pc[active_thread_index']
        BY <1>0, <1>1, <3>2, <4>1, OthersUnmoved DEF Unmoved, Defining
      <4> QED
        BY <1>0, <3>2, <4>1, <4>2 DEF Phases, Critical, Defining, Here
    <3> QED
      BY <3>1, <3>2
  <2>2. Live' \subseteq Live
    BY <1>0, <1>1, StepLive DEF SameLive, NewLive, EndedLive, Defining
  <2>3. Monotone(Live) /\ \A j \in Live : static_priority[j] < N
    BY <1>0, <1>1 DEF Ordering
  <2>4. Monotone(Live)' /\ \A j \in Live' : static_priority'[j] < N
    BY <1>1, <2>2, <2>3 DEF Monotone, Before
  <2> QED
    BY <2>1, <2>4 DEF Ordering, Defining
<1>2. CASE \E tk \in TaskSet : DefineEnter(a, tk)
  <2>1. Here' = "fill"
    BY <1>0, <1>2 DEF DefineEnter, Enter, Goto, Running, Here
  <2> QED
    BY <2>1 DEF Ordering, Defining
<1>3. CASE DefineFill(a)
  <2>1. Here' = "frames"
    BY <1>0, <1>3 DEF DefineFill, Goto, Here
  <2> QED
    BY <2>1 DEF Ordering, Defining
<1>4. CASE DefineFrames(a)
  <2>1. Here' = "count"
    BY <1>0, <1>4 DEF DefineFrames, switchVars, Here
  <2> QED
    BY <2>1 DEF Ordering, Defining
<1>5. CASE DefineCount(a)
  <2>1. Here' = "clear" /\ wi'[active_thread_index'] = 0
    BY <1>0, <1>5 DEF DefineCount, At, Goto, switchVars, frameVars, Here, IndexZero
  <2>2. 0 < N /\ \A j \in User : ~(j < 0)
    BY DEF User
  <2> QED
    BY <2>1, <2>2 DEF Ordering, Defining
<1>6. CASE OrderClear(a)
  BY <1>0, <1>6, StepClear
<1>7. CASE OrderAssign(a)
  BY <1>0, <1>7, StepAssign
<1>8. CASE OrderDone(a)
  <2> DEFINE k == wi[a]
  <2>1. /\ Here = "assign" /\ k >= num_active_threads /\ k <= num_active_threads
        /\ Cardinality(Unordered) = num_active_threads - k
        /\ Monotone(Placed) /\ \A i \in Placed : static_priority[i] < k
    BY <1>0, <1>8 DEF Ordering, OrderDone, At
  <2>2. Here' = "ret" /\ UNCHANGED <<static_priority, task, state>>
    BY <1>0, <1>8 DEF OrderDone, Goto, switchVars, kernelVars, tcbVars, Here
  <2>3. num_active_threads = Cardinality(Live) /\ num_active_threads \in 0 .. N /\ k \in Nat
    BY <1>0, <2>1, LiveFinite DEF CountInv, Counted, Off
  <2>4. k = num_active_threads
    BY <2>1, <2>3
  <2>5. Unordered = {}
    <3>1. IsFiniteSet(Unordered)
      BY LiveFinite, FS_Subset DEF Unordered, Live
    <3>2. Cardinality(Unordered) = 0
      BY <2>1, <2>3, <2>4
    <3> QED
      BY <3>1, <3>2, FS_EmptySet
  <2>6. Live = Placed
    BY <1>0, <2>5, LivePlaced
  <2>7. \A j \in Live : static_priority[j] < N
    <3>1. \A j \in Live : static_priority[j] \in Nat
      BY <1>0 DEF Live, TypeKernel
    <3> QED
      BY <2>1, <2>3, <2>4, <2>6, <3>1
  <2> QED
    BY <2>1, <2>2, <2>6, <2>7 DEF Ordering, Defining, Monotone, Live, Before
<1>9. CASE UNCHANGED vars
  <2>1. UNCHANGED <<active_thread_index, num_active_threads, state, task, static_priority, pc, wi>>
    BY <1>9 DEF vars, kernelVars, admitVars, tcbVars, switchVars, frameVars
  <2> QED
    BY <2>1 DEF Ordering, Monotone, Placed, Unordered, Live, Before, Here
<1> QED
  BY <1>0, <1>1, <1>2, <1>3, <1>4, <1>5, <1>6, <1>7, <1>8, <1>9, DefiningSteps

\* Nothing is to be ordered initially.
LEMMA InitOrdering == Init => IndexZero /\ TasksAsked /\ Ordering
<1> SUFFICES ASSUME Init PROVE IndexZero /\ TasksAsked /\ Ordering
  OBVIOUS
<1>1. IndexZero /\ TasksAsked
  BY DEF Init, IndexZero, TasksAsked, NoDef
<1>2. Here = "user" /\ Live = {}
  BY Constants DEF Init, Here, Live, Idle, Main, User, Tcb
<1> QED
  BY <1>1, <1>2 DEF Ordering, Defining, Monotone

\* The threads are counted, whether they lock or define threads.
LEMMA Counting ==
  ASSUME CriticalUninterrupted, NoLocking \/ FixedTasks
  PROVE  Spec => [](CountInv /\ ListedLive)
<1>1. CASE NoLocking
  <2>1. Init => CountInv /\ LockFree
    BY InitCountInv, InitLockFree
  <2>2. CountInv /\ LockFree /\ [Next]_vars => (CountInv /\ LockFree)'
    BY <1>1, StepCountInv, StepLockFree, LockFreeLive DEF CountInv
  <2>3. CountInv /\ LockFree => CountInv /\ ListedLive
    BY LockFreeLive
  <2> QED
    BY <2>1, <2>2, <2>3, PTL DEF Spec
<1>2. CASE FixedTasks
  <2>1. Ceiling /\ [Next]_vars => Ceiling'
    BY <1>2, StepCeiling
  <2>2. Ceiling => CountInv /\ ListedLive
    BY DEF Ceiling, Waiting, Waits, ListedLive
  <2> QED
    BY <2>1, <2>2, InitCeiling, PTL DEF Spec
<1> QED
  BY <1>1, <1>2

\* Under the cooperative scheduler num_active_threads is the number of live threads, but
\* for the thread that a call in progress has already labelled (CountMatches).  (Under
\* a frequency it is not: a tick in thread_end, after the label Defunct, revives the
\* thread, and it is subtracted twice.)
THEOREM CountOfLive ==
  ASSUME Cooperative, NoLocking \/ FixedTasks
  PROVE  Spec => []CountMatches
<1>1. CountInv => CountMatches
  BY CountInvMatches
<1>2. Spec => [](CountInv /\ ListedLive)
  BY Counting DEF CriticalUninterrupted
<1> QED
  BY <1>1, <1>2, PTL

\* Under the cooperative scheduler main comes back from multitask_start only when every
\* thread has ended (JoinSafety).  (Under a frequency it may come back early.)
THEOREM JoinOfAll ==
  ASSUME Cooperative, NoLocking \/ FixedTasks
  PROVE  Spec => []JoinSafety
<1>1. CountInv => JoinSafety
  BY CountInvJoin
<1>2. Spec => [](CountInv /\ ListedLive)
  BY Counting DEF CriticalUninterrupted
<1> QED
  BY <1>1, <1>2, PTL

\* Outside thread_define the live threads have the priorities that the rate-monotonic
\* order gives them (RateMonotonic).
THEOREM RateMonotonicOrder ==
  ASSUME CriticalUninterrupted, NoSentinel, NoLocking \/ FixedTasks
  PROVE  Spec => []RateMonotonic
<1> DEFINE Inv == IndexZero /\ TasksAsked /\ Ordering
<1>1. Init => Inv
  BY InitOrdering
<1>2. CountInv /\ ListedLive /\ Inv /\ [Next]_vars => Inv'
  BY StepOrdering, StepIndex, StepTasks DEF CountInv
<1>3. CountInv /\ Inv => RateMonotonic
  <2> SUFFICES ASSUME CountInv, Inv,
                      \A i \in Tcb : pc[i] \notin Defining
               PROVE  Monotone(Live) /\ \A j \in Live : static_priority[j] < N
    BY DEF RateMonotonic, Monotone, Before, Defining
  <2>1. Here \notin Defining
    BY DEF CountInv, TInv, TypeOK, TypeSwitch, Here
  <2> QED
    BY <2>1 DEF Ordering
<1>4. Spec => [](CountInv /\ ListedLive)
  BY Counting
<1> HIDE DEF Inv
<1> QED
  BY <1>1, <1>2, <1>3, <1>4, PTL DEF Spec

-----------------------------------------------------------------------------
(* The sum of the utilizations. *)

\* f adds up g.
IsSum(f, g) == f = [i \in -1 .. N - 1 |-> IF i = -1 THEN 0 ELSE f[i - 1] + g[i]]

\* What each thread adds to total_utilization.
Weights == [i \in User |-> IF i \in Live THEN Util(task[i]) ELSE 0]

\* The total is that sum, and thread_define is about to store it.
Totalled ==
  /\ \A f : IsSum(f, Weights) => total_utilization = f[N - 1]
  /\ Here = "fill" => df[active_thread_index].util =
                        Util(df[active_thread_index].task) + total_utilization

\* Induction over the slots.
LEMMA UserInduction ==
  ASSUME NEW S, 0 \in S, \A k \in User : k + 1 \in User /\ k \in S => k + 1 \in S
  PROVE  User \subseteq S
<1> SUFFICES ASSUME User \ S # {} PROVE FALSE
  OBVIOUS
<1>1. PICK m \in User \ S : \A k \in User \ S : m <= k
  BY First
<1>2. m # 0 /\ m \in 0 .. N - 1 /\ N \in Nat
  BY <1>1, Constants DEF User
<1>3. m - 1 \in User /\ (m - 1) + 1 = m /\ ~(m <= m - 1)
  BY <1>2 DEF User
<1>4. m - 1 \in S
  BY <1>1, <1>3
<1> QED
  BY <1>1, <1>3, <1>4

\* The values of a sum.
LEMMA SumValues ==
  ASSUME NEW g \in [User -> Int], NEW f, IsSum(f, g)
  PROVE  f[-1] = 0 /\ \A i \in User : f[i] = f[i - 1] + g[i] /\ f[i] \in Int
<1>1. -1 \in -1 .. N - 1 /\ \A i \in User : i \in -1 .. N - 1 /\ i # -1
  BY Constants DEF User
<1>2. f[-1] = 0 /\ \A i \in User : f[i] = f[i - 1] + g[i]
  BY <1>1 DEF IsSum
<1> DEFINE S == {i \in User : f[i] \in Int}
<1>3. 0 \in S
  <2>1. 0 \in User /\ 0 - 1 = -1
    BY Constants DEF User
  <2> QED
    BY <1>2, <2>1
<1>4. ASSUME NEW k \in User, k + 1 \in User, k \in S PROVE k + 1 \in S
  <2>1. (k + 1) - 1 = k
    BY Constants DEF User
  <2> QED
    BY <1>2, <1>4, <2>1
<1>5. User \subseteq S
  <2> HIDE DEF S
  <2> QED
    BY <1>3, <1>4, UserInduction
<1> QED
  BY <1>2, <1>5

\* There is one.
LEMMA SumExists ==
  ASSUME NEW g \in [User -> Int]
  PROVE  \E f : IsSum(f, g)
<1> DEFINE Upto(k) == \E f : /\ f \in [-1 .. k -> Int] /\ f[-1] = 0
                             /\ \A i \in 0 .. k : f[i] = f[i - 1] + g[i]
           S == {k \in User : Upto(k)}
<1>0. \A i \in User : i \in Nat /\ i < N
  BY Constants DEF User
<1>1. 0 \in S
  <2> DEFINE f == [i \in -1 .. 0 |-> IF i = -1 THEN 0 ELSE g[0]]
  <2>1. 0 \in User
    BY Constants DEF User
  <2>2. g[0] \in Int
    BY <2>1
  <2>3. f \in [-1 .. 0 -> Int]
    BY <2>2
  <2>4. f[-1] = 0 /\ f[0] = g[0]
    OBVIOUS
  <2>5. \A i \in 0 .. 0 : f[i] = f[i - 1] + g[i]
    BY <2>2, <2>4
  <2> QED
    BY <2>1, <2>3, <2>4, <2>5
<1>2. ASSUME NEW k \in User, k + 1 \in User, k \in S PROVE k + 1 \in S
  <2>1. PICK f : /\ f \in [-1 .. k -> Int] /\ f[-1] = 0
                 /\ \A i \in 0 .. k : f[i] = f[i - 1] + g[i]
    BY <1>2
  <2> DEFINE h == [i \in -1 .. k + 1 |-> IF i = k + 1 THEN f[k] + g[k + 1] ELSE f[i]]
  <2>2. k \in Nat /\ g[k + 1] \in Int /\ f[k] \in Int
    BY <1>0, <1>2, <2>1
  <2>3. \A i \in -1 .. k : i \in -1 .. k + 1 /\ i # k + 1
    BY <2>2
  <2>4. h \in [-1 .. k + 1 -> Int]
    BY <2>1, <2>2
  <2>5. h[k + 1] = f[k] + g[k + 1] /\ \A i \in -1 .. k : h[i] = f[i]
    BY <2>2, <2>3
  <2> HIDE DEF h
  <2>6. ASSUME NEW i \in 0 .. k + 1 PROVE h[i] = h[i - 1] + g[i]
    <3>1. CASE i = k + 1
      BY <2>2, <2>5, <3>1
    <3>2. CASE i # k + 1
      <4>1. i \in 0 .. k /\ i \in -1 .. k /\ i - 1 \in -1 .. k
        BY <2>2, <3>2
      <4> QED
        BY <2>1, <2>5, <4>1
    <3> QED
      BY <3>1, <3>2
  <2>7. h[-1] = 0
    BY <2>1, <2>2, <2>5
  <2>8. Upto(k + 1)
    BY <2>4, <2>6, <2>7
  <2> QED
    BY <1>2, <2>8
<1>3. User \subseteq S
  <2> HIDE DEF S
  <2> QED
    BY <1>1, <1>2, UserInduction
<1>4. N - 1 \in User
  BY Constants DEF User
<1>5. PICK f : /\ f \in [-1 .. N - 1 -> Int] /\ f[-1] = 0
               /\ \A i \in 0 .. N - 1 : f[i] = f[i - 1] + g[i]
  BY <1>3, <1>4
<1>6. \A i \in -1 .. N - 1 : f[i] = IF i = -1 THEN 0 ELSE f[i - 1] + g[i]
  BY <1>5, Constants
<1> QED
  BY <1>5, <1>6 DEF IsSum

\* A change of one summand changes the sum by as much.
LEMMA SumChange ==
  ASSUME NEW g \in [User -> Int], NEW j \in User, NEW x \in Int, NEW f, NEW h,
         IsSum(f, g), IsSum(h, [g EXCEPT ![j] = x])
  PROVE  h[N - 1] = f[N - 1] + (x - g[j])
<1> DEFINE e == [g EXCEPT ![j] = x]
           S == {k \in User : h[k] = f[k] + (IF k < j THEN 0 ELSE x - g[j])}
<1>0. e \in [User -> Int] /\ e[j] = x /\ \A i \in User : i # j => e[i] = g[i]
  OBVIOUS
<1> HIDE DEF e
<1>1. /\ f[-1] = 0 /\ \A i \in User : f[i] = f[i - 1] + g[i] /\ f[i] \in Int
      /\ h[-1] = 0 /\ \A i \in User : h[i] = h[i - 1] + e[i] /\ h[i] \in Int
  BY <1>0, SumValues DEF e
<1>2. \A i \in User : i \in Nat /\ i < N
  BY Constants DEF User
<1>3. 0 \in S
  <2>1. 0 \in User /\ 0 - 1 = -1
    BY Constants DEF User
  <2>2. f[0] = g[0] /\ h[0] = e[0]
    BY <1>0, <1>1, <2>1
  <2>3. CASE j = 0
    BY <1>0, <2>1, <2>2, <2>3
  <2>4. CASE j # 0
    BY <1>0, <1>2, <2>1, <2>2, <2>4
  <2> QED
    BY <2>3, <2>4
<1>4. ASSUME NEW k \in User, k + 1 \in User, k \in S PROVE k + 1 \in S
  <2>1. (k + 1) - 1 = k /\ k \in Nat /\ j \in Nat
    BY <1>2
  <2>2. /\ f[k + 1] = f[k] + g[k + 1] /\ h[k + 1] = h[k] + e[k + 1]
        /\ f[k] \in Int /\ h[k] \in Int /\ g[k + 1] \in Int /\ g[j] \in Int
        /\ h[k] = f[k] + (IF k < j THEN 0 ELSE x - g[j])
    BY <1>1, <1>4, <2>1
  <2>3. CASE j = k + 1
    BY <1>0, <1>4, <2>1, <2>2, <2>3
  <2>4. CASE j # k + 1
    <3>1. e[k + 1] = g[k + 1] /\ (k + 1 < j <=> k < j)
      BY <1>0, <1>4, <2>1, <2>4
    <3> QED
      BY <1>4, <2>1, <2>2, <3>1
  <2> QED
    BY <2>3, <2>4
<1>5. User \subseteq S
  <2> HIDE DEF S
  <2> QED
    BY <1>3, <1>4, UserInduction
<1>6. N - 1 \in User /\ ~(N - 1 < j)
  BY <1>2, Constants DEF User
<1> QED
  BY <1>5, <1>6

\* The steps that change the total or a task, and those that do not.
LEMMA UtilSteps ==
  ASSUME TInv, [Next]_vars, NEW a \in Tcb, a = active_thread_index
  PROVE  /\ \/ UNCHANGED <<task, total_utilization>> /\ ~(pc[a] = "fill" /\ pc'[a] = "frames")
            \/ DefineFill(a)
            \/ \E i \in User : EndDefunct(i) \/ MemFault(i)
         /\ pc'[a] = "fill" => \/ \E tk \in TaskSet : DefineEnter(a, tk)
                               \/ UNCHANGED <<df, total_utilization>> /\ pc[a] = "fill"
<1> USE Constants DEF TInv, TypeOK, TypeFrame, TypeSwitch
<1> DEFINE Goal ==
  /\ \/ UNCHANGED <<task, total_utilization>> /\ ~(pc[a] = "fill" /\ pc'[a] = "frames")
     \/ DefineFill(a)
     \/ \E i \in User : EndDefunct(i) \/ MemFault(i)
  /\ pc'[a] = "fill" => \/ \E tk \in TaskSet : DefineEnter(a, tk)
                        \/ UNCHANGED <<df, total_utilization>> /\ pc[a] = "fill"
<1>1. ASSUME NEW i \in Tcb, Return(i) PROVE Goal
  BY <1>1 DEF Return, At, Goto, kernelVars, admitVars, tcbVars, frameVars, FramesOK
<1>2. ASSUME NEW i \in Tcb, YieldPend(i) PROVE Goal
  BY <1>2 DEF YieldPend, At, Goto, kernelVars, admitVars, tcbVars, frameVars, FramesOK
<1>3. ASSUME NEW i \in Tcb, LockAcquire(i) PROVE Goal
  BY <1>3 DEF LockAcquire, At, Goto, kernelVars, admitVars, tcbVars, frameVars,
     FramesOK
<1>4. ASSUME NEW i \in Tcb, LockBlock(i) PROVE Goal
  BY <1>4 DEF LockBlock, At, Goto, kernelVars, admitVars, tcbVars, frameVars, FramesOK
<1>5. ASSUME NEW i \in Tcb, LockPend(i) PROVE Goal
  BY <1>5 DEF LockPend, At, Goto, kernelVars, admitVars, tcbVars, frameVars, FramesOK
<1>6. ASSUME NEW i \in Tcb, UnlockWake(i) PROVE Goal
  BY <1>6 DEF UnlockWake, At, Running, kernelVars, admitVars, tcbVars, frameVars,
     FramesOK
<1>7. ASSUME NEW i \in Tcb, UnlockWoken(i) PROVE Goal
  BY <1>7 DEF UnlockWoken, At, Goto, kernelVars, admitVars, tcbVars, frameVars,
     FramesOK
<1>8. ASSUME NEW i \in Tcb, UnlockReset(i) PROVE Goal
  BY <1>8 DEF UnlockReset, At, Goto, kernelVars, admitVars, tcbVars, frameVars,
     FramesOK
<1>9. ASSUME NEW i \in Tcb, UnlockPend(i) PROVE Goal
  BY <1>9 DEF UnlockPend, At, Goto, kernelVars, admitVars, tcbVars, frameVars, FramesOK
<1>10. ASSUME NEW i \in Tcb, EndUnlock(i) PROVE Goal
  BY <1>10 DEF EndUnlock, At, Goto, kernelVars, admitVars, tcbVars, frameVars, FramesOK
<1>11. ASSUME NEW i \in Tcb, EndDefunct(i) PROVE Goal
  BY <1>11 DEF EndDefunct, At, Goto, Running, kernelVars, admitVars, tcbVars,
     frameVars, FramesOK
<1>12. ASSUME NEW i \in Tcb, EndDec(i) PROVE Goal
  BY <1>12 DEF EndDec, At, Goto, kernelVars, admitVars, tcbVars, frameVars, FramesOK
<1>13. ASSUME NEW i \in Tcb, EndPend(i) PROVE Goal
  BY <1>13 DEF EndPend, At, Goto, kernelVars, admitVars, tcbVars, frameVars, FramesOK
<1>14. ASSUME NEW i \in Tcb, DefineFill(i) PROVE Goal
  BY <1>14 DEF DefineFill, At, Goto, kernelVars, admitVars, tcbVars, frameVars,
     FramesOK
<1>15. ASSUME NEW i \in Tcb, DefineFrames(i) PROVE Goal
  BY <1>15 DEF DefineFrames, At, kernelVars, admitVars, tcbVars, frameVars, FramesOK
<1>16. ASSUME NEW i \in Tcb, DefineCount(i) PROVE Goal
  BY <1>16 DEF DefineCount, At, Goto, kernelVars, admitVars, tcbVars, frameVars,
     FramesOK
<1>17. ASSUME NEW i \in Tcb, OrderClear(i) PROVE Goal
  BY <1>17 DEF OrderClear, At, Goto, kernelVars, admitVars, tcbVars, frameVars,
     FramesOK
<1>18. ASSUME NEW i \in Tcb, OrderAssign(i) PROVE Goal
  BY <1>18 DEF OrderAssign, At, kernelVars, admitVars, tcbVars, frameVars, FramesOK
<1>19. ASSUME NEW i \in Tcb, OrderDone(i) PROVE Goal
  BY <1>19 DEF OrderDone, At, Goto, kernelVars, admitVars, tcbVars, frameVars, FramesOK
<1>20. ASSUME NEW i \in Tcb, Yield(i) PROVE Goal
  BY <1>20 DEF Yield, Yielded, Enter, At, Goto, Running, kernelVars, admitVars,
     tcbVars, frameVars, FramesOK
<1>21. ASSUME NEW i \in Tcb, SleepMs(i) PROVE Goal
  BY <1>21 DEF SleepMs, Enter, At, Goto, Running, kernelVars, admitVars, tcbVars,
     frameVars, FramesOK
<1>22. ASSUME NEW i \in Tcb, Exit(i) PROVE Goal
  BY <1>22 DEF Exit, At, kernelVars, admitVars, tcbVars, frameVars, FramesOK
<1>23. ASSUME NEW i \in Tcb, NEW m \in Locks, LockEnter(i, m) PROVE Goal
  BY <1>23 DEF LockEnter, Enter, At, Goto, Running, kernelVars, admitVars, tcbVars,
     frameVars, FramesOK
<1>24. ASSUME NEW i \in Tcb, NEW m \in Locks, UnlockEnter(i, m) PROVE Goal
  BY <1>24 DEF UnlockEnter, Enter, At, Goto, Running, kernelVars, admitVars, tcbVars,
     frameVars, FramesOK
<1>25. ASSUME NEW i \in Tcb, EndEnter(i) PROVE Goal
  BY <1>25 DEF EndEnter, Enter, At, Goto, Running, kernelVars, admitVars, tcbVars,
     frameVars, FramesOK
<1>26. ASSUME NEW i \in Tcb, MemFault(i) PROVE Goal
  BY <1>26 DEF MemFault, At, kernelVars, admitVars, tcbVars, frameVars, FramesOK
<1>27. ASSUME NEW i \in Tcb, NEW tk \in TaskSet, DefineEnter(i, tk) PROVE Goal
  BY <1>27 DEF DefineEnter, Enter, At, Goto, Running, kernelVars, admitVars, tcbVars,
     frameVars, FramesOK
<1>28. ASSUME StartPend PROVE Goal
  BY <1>28 DEF StartPend, At, Goto, kernelVars, admitVars, tcbVars, frameVars, FramesOK
<1>29. ASSUME StartJoin PROVE Goal
  BY <1>29 DEF StartJoin, At, Goto, kernelVars, admitVars, tcbVars, frameVars, FramesOK
<1>30. ASSUME NEW id \in {tk.id : tk \in TaskSet}, LockInit(id) PROVE Goal
  BY <1>30 DEF LockInit, At, kernelVars, admitVars, tcbVars, frameVars, FramesOK
<1>31. ASSUME StartRefused PROVE Goal
  BY <1>31 DEF StartRefused, At, kernelVars, admitVars, tcbVars, frameVars, FramesOK
<1>32. ASSUME NEW bins \in Bins, StartEnter(bins) PROVE Goal
  BY <1>32 DEF StartEnter, Enter, At, Goto, Running, kernelVars, admitVars, tcbVars,
     frameVars, FramesOK
<1>33. ASSUME SysTick PROVE Goal
  BY <1>33 DEF SysTick, kernelVars, admitVars, tcbVars, frameVars, FramesOK
<1>34. CASE UNCHANGED vars
  BY <1>34 DEF vars, kernelVars, timerVars, admitVars, tcbVars, ceilVars, syncVars,
     lockVars, switchVars, frameVars, kernelVars, admitVars, tcbVars, frameVars,
     FramesOK
<1> QED
  BY <1>1, <1>2, <1>3, <1>4, <1>5, <1>6, <1>7, <1>8, <1>9, <1>10, <1>11, <1>12, <1>13,
     <1>14, <1>15, <1>16, <1>17, <1>18, <1>19, <1>20, <1>21, <1>22, <1>23, <1>24,
     <1>25, <1>26, <1>27, <1>28, <1>29, <1>30, <1>31, <1>32, <1>33, <1>34 DEF Next,
     Handler, Program, MainHandler, MainProgram

\* They are numbers.
LEMMA WeightsType == TInv => Weights \in [User -> Int]
BY UtilType, Constants DEF TInv, TypeOK, TypeKernel, Weights

\* A step of one summand that the total follows.
LEMMA Follows ==
  ASSUME TInv, Totalled, NEW j \in User, NEW x \in Int,
         Weights' = [Weights EXCEPT ![j] = x],
         total_utilization' = total_utilization + (x - Weights[j])
  PROVE  \A h : IsSum(h, Weights') => total_utilization' = h[N - 1]
<1>1. Weights \in [User -> Int]
  BY WeightsType
<1>2. PICK f : IsSum(f, Weights)
  BY <1>1, SumExists
<1>3. total_utilization = f[N - 1]
  BY <1>2 DEF Totalled
<1> SUFFICES ASSUME NEW h, IsSum(h, Weights') PROVE total_utilization' = h[N - 1]
  OBVIOUS
<1>4. h[N - 1] = f[N - 1] + (x - Weights[j])
  BY <1>1, <1>2, SumChange, ZenonT(40)
<1> QED
  BY <1>3, <1>4

\* A thread that is switched to is in no critical handler.
LEMMA SwitchedOut ==
  ASSUME CriticalUninterrupted, TInv, Phases, [Next]_vars, Here' \in Critical
  PROVE  active_thread_index' = active_thread_index
<1> DEFINE b == active_thread_index'
<1> SUFFICES ASSUME b # active_thread_index PROVE FALSE
  OBVIOUS
<1>1. active_thread_index \in Tcb /\ b \in Tcb
  BY StepTInv DEF TInv, TypeOK, TypeSwitch
<1>2. Here # "frames"
  BY <1>1, StepThread, NoTickInCritical DEF Here, Leaving, Critical
<1>3. pc'[b] = pc[b]
  BY <1>1, <1>2, OthersUnmoved DEF Unmoved
<1> QED
  BY <1>1, <1>3 DEF Phases, Here

\* A thread that ends was live.
LEMMA EndsLive ==
  ASSUME TInv, Phases, ListedLive, NEW i \in User, EndDefunct(i) \/ MemFault(i)
  PROVE  i \in Live /\ i \notin Live'
<1>1. CASE EndDefunct(i)
  BY <1>1, Constants DEF EndDefunct, At, Running, Phases, Here, Live, TInv, TypeOK,
     TypeSwitch
<1>2. CASE MemFault(i)
  <2>1. EndedLive /\ i = active_thread_index
    BY <1>2, MemFaultLive, Constants DEF MemFault, At
  <2> QED
    BY <2>1 DEF EndedLive
<1> QED
  BY <1>1, <1>2

\* Every step keeps the total.
LEMMA StepTotalled ==
  ASSUME CriticalUninterrupted, CountInv, ListedLive, Totalled, [Next]_vars
  PROVE  Totalled'
<1> DEFINE a == active_thread_index
<1>0. TInv /\ Phases /\ a \in Tcb /\ Here = pc[a]
  BY DEF CountInv, TInv, TypeOK, TypeSwitch, Here
<1>1. \A h : IsSum(h, Weights') => total_utilization' = h[N - 1]
  <2>1. CASE UNCHANGED <<task, total_utilization>> /\ SameLive
    <3>1. Weights' = Weights
      BY <2>1 DEF Weights, SameLive
    <3> QED
      BY <2>1, <3>1 DEF Totalled
  <2>2. CASE DefineFill(a)
    <3> DEFINE d == df[a]
    <3>1. d.slot \in User /\ d.task \in Tasks /\ state[d.slot] = "Defunct" /\ Here = "fill"
      BY <1>0, <2>2 DEF TInv, TypeOK, TypeFrame, Phases, DefineFill, At, Here, Slot
    <3>2. /\ task' = [task EXCEPT ![d.slot] = d.task]
          /\ state' = [state EXCEPT ![d.slot] = "Ready"]
          /\ total_utilization' = d.util
      BY <2>2 DEF DefineFill
    <3>3. Weights' = [Weights EXCEPT ![d.slot] = Util(d.task)]
      BY <1>0, <3>1, <3>2, Constants
         DEF Weights, Live, TInv, TypeOK, TypeKernel, TypeSwitch, States
    <3>4. Weights[d.slot] = 0 /\ Util(d.task) \in Int
      BY <3>1, UtilType DEF Weights, Live
    <3>5. total_utilization' = total_utilization + (Util(d.task) - Weights[d.slot])
      <4>1. total_utilization \in Int
        BY <1>0 DEF TInv, TypeOK, TypeKernel
      <4> QED
        BY <3>1, <3>2, <3>4, <4>1 DEF Totalled
    <3> HIDE DEF d
    <3> QED
      BY <1>0, <3>1, <3>3, <3>4, <3>5, Follows
  <2>3. ASSUME NEW i \in User, EndDefunct(i) \/ MemFault(i)
        PROVE  \A h : IsSum(h, Weights') => total_utilization' = h[N - 1]
    <3>1. i = a /\ total_utilization' = total_utilization - Util(task[i]) /\ task' = task
          /\ pc[i] \in {"end", "user"}
      BY <2>3 DEF EndDefunct, MemFault, At, UtilWithout, tcbVars
    <3>2. i \in Live /\ Live' = Live \ {i}
      <4>1. EndedLive \/ SameLive
        BY <1>0, <3>1, StepLive DEF NewLive
      <4>2. i \in Live /\ i \notin Live'
        BY <1>0, <2>3, <3>1, EndsLive
      <4> QED
        BY <3>1, <4>1, <4>2 DEF EndedLive, SameLive
    <3>3. Weights' = [Weights EXCEPT ![i] = 0]
      BY <3>1, <3>2 DEF Weights
    <3>4. Weights[i] = Util(task[i]) /\ Util(task[i]) \in Int
      BY <1>0, <3>2, UtilType, Constants DEF Weights, TInv, TypeOK, TypeKernel
    <3>5. total_utilization' = total_utilization + (0 - Weights[i])
      <4>1. total_utilization \in Int
        BY <1>0 DEF TInv, TypeOK, TypeKernel
      <4> QED
        BY <3>1, <3>4, <4>1
    <3>6. PICK z \in Int : z = 0
      OBVIOUS
    <3>7. Weights' = [Weights EXCEPT ![i] = z]
      BY <3>3, <3>6
    <3>8. total_utilization' = total_utilization + (z - Weights[i])
      BY <3>5, <3>6
    <3> QED
      BY <1>0, <3>7, <3>8, Follows
  <2>4. /\ UNCHANGED <<task, total_utilization>> => ~NewLive \/ DefineFill(a)
        /\ \/ UNCHANGED <<task, total_utilization>> /\ ~NewLive
           \/ DefineFill(a)
           \/ \E i \in User : EndDefunct(i) \/ MemFault(i)
    <3>1. NewLive => active_thread_index' = a
      BY <1>0, StepThread, NoTickInCritical DEF NewLive, Here, Leaving, Critical
    <3>2. NewLive => pc[a] = "fill" /\ pc'[a] = "frames"
      BY <1>0, <3>1 DEF NewLive, Here
    <3> QED
      BY <1>0, <3>2, UtilSteps DEF EndDefunct, MemFault, At
  <2> QED
    BY <1>0, <2>1, <2>2, <2>3, <2>4, StepLive
<1>2. Here' = "fill" => df'[active_thread_index'].util =
                          Util(df'[active_thread_index'].task) + total_utilization'
  <2> SUFFICES ASSUME Here' = "fill"
               PROVE  df'[active_thread_index'].util =
                        Util(df'[active_thread_index'].task) + total_utilization'
    OBVIOUS
  <2>1. active_thread_index' = a
    <3>1. Here' = "fill" => active_thread_index' = a
      BY <1>0, SwitchedOut DEF Critical
    <3> QED
      BY <3>1
  <2>2. pc'[a] = "fill"
    BY <2>1 DEF Here
  <2>3. CASE UNCHANGED <<df, total_utilization>> /\ pc[a] = "fill"
    BY <1>0, <2>1, <2>3 DEF Totalled
  <2>4. ASSUME NEW tk \in TaskSet, DefineEnter(a, tk)
        PROVE  df'[a].util = Util(df'[a].task) + total_utilization'
    <3>1. PICK slot \in User : df' = [df EXCEPT ![a] =
                 [slot |-> slot, task |-> tk, util |-> Util(tk) + total_utilization]]
      BY <2>4 DEF DefineEnter, Spare
    <3>2. total_utilization' = total_utilization
      BY <2>4 DEF DefineEnter, kernelVars, admitVars
    <3> QED
      BY <1>0, <3>1, <3>2 DEF TInv, TypeOK, TypeFrame
  <2> QED
    BY <1>0, <2>1, <2>2, <2>3, <2>4, UtilSteps
<1> QED
  BY <1>1, <1>2 DEF Totalled

\* It is 0 initially.
LEMMA InitTotalled == Init => Totalled
<1> SUFFICES ASSUME Init PROVE Totalled
  OBVIOUS
<1>1. Here = "user" /\ total_utilization = 0 /\ Live = {}
  BY Constants DEF Init, Here, Live, Idle, Main, User, Tcb
<1>2. ASSUME NEW f, IsSum(f, Weights) PROVE f[N - 1] = 0
  <2>1. Weights \in [User -> Int] /\ \A i \in User : Weights[i] = 0
    BY <1>1 DEF Weights
  <2>2. f[-1] = 0 /\ \A i \in User : f[i] = f[i - 1] + 0 /\ f[i] \in Int
    BY <1>2, <2>1, SumValues
  <2> DEFINE S == {i \in User : f[i] = 0}
  <2>3. 0 \in S
    <3>1. 0 \in User /\ 0 - 1 = -1
      BY Constants DEF User
    <3> QED
      BY <2>2, <3>1
  <2>4. ASSUME NEW k \in User, k + 1 \in User, k \in S PROVE k + 1 \in S
    <3>1. (k + 1) - 1 = k
      BY Constants DEF User
    <3> QED
      BY <2>2, <2>4, <3>1
  <2>5. User \subseteq S
    <3> HIDE DEF S
    <3> QED
      BY <2>3, <2>4, UserInduction
  <2>6. N - 1 \in User
    BY Constants DEF User
  <2> QED
    BY <2>5, <2>6
<1> QED
  BY <1>1, <1>2 DEF Totalled

\* It is the sum that UtilizationMatches defines.
LEMMA TotalMatches == TInv /\ Totalled => UtilizationMatches
<1> SUFFICES ASSUME TInv, Totalled PROVE UtilizationMatches
  OBVIOUS
<1> DEFINE sum[i \in -1 .. N - 1] ==
             IF i = -1 THEN 0
             ELSE sum[i - 1] + (IF i \in Live THEN Util(task[i]) ELSE 0)
<1>1. PICK f : IsSum(f, Weights)
  BY WeightsType, SumExists
<1>2. \A i \in -1 .. N - 1 : i # -1 => i \in User
  BY Constants DEF User
<1>3. f = [i \in -1 .. N - 1 |-> IF i = -1 THEN 0
                                 ELSE f[i - 1] + (IF i \in Live THEN Util(task[i]) ELSE 0)]
  BY <1>1, <1>2 DEF IsSum, Weights
<1>4. sum = [i \in -1 .. N - 1 |-> IF i = -1 THEN 0
                                   ELSE sum[i - 1] + (IF i \in Live THEN Util(task[i]) ELSE 0)]
  BY <1>3, Zenon
<1> HIDE DEF sum
<1>5. IsSum(sum, Weights)
  BY <1>2, <1>4 DEF IsSum, Weights
<1>6. total_utilization = sum[N - 1]
  BY <1>5 DEF Totalled
<1> QED
  BY <1>6 DEF UtilizationMatches, sum

\* Under the cooperative scheduler total_utilization is the sum of the live threads'
\* utilizations (UtilizationMatches).
THEOREM UtilizationOfLive ==
  ASSUME Cooperative, NoLocking \/ FixedTasks
  PROVE  Spec => []UtilizationMatches
<1>1. Init => Totalled
  BY InitTotalled
<1>2. CountInv /\ ListedLive /\ Totalled /\ [Next]_vars => Totalled'
  BY StepTotalled DEF CriticalUninterrupted
<1>3. CountInv /\ Totalled => UtilizationMatches
  BY TotalMatches DEF CountInv
<1>4. Spec => [](CountInv /\ ListedLive)
  BY Counting DEF CriticalUninterrupted
<1> QED
  BY <1>1, <1>2, <1>3, <1>4, PTL DEF Spec

-----------------------------------------------------------------------------
(* Response times: sums and quotients. *)

\* Of two sums over the threads, one of which is at least the other in every summand
\* and more by x in one: the sum is more by x.
LEMMA SumGain ==
  ASSUME NEW g \in [User -> Int], NEW h \in [User -> Int], \A i \in User : g[i] <= h[i],
         NEW a \in User, NEW x \in Int, g[a] + x <= h[a],
         NEW f, NEW e, IsSum(f, g), IsSum(e, h)
  PROVE  f[N - 1] \in Int /\ e[N - 1] \in Int /\ f[N - 1] + x <= e[N - 1]
<1> DEFINE S == {k \in User : f[k] + (IF k < a THEN 0 ELSE x) <= e[k]}
<1>1. /\ f[-1] = 0 /\ \A i \in User : f[i] = f[i - 1] + g[i] /\ f[i] \in Int
      /\ e[-1] = 0 /\ \A i \in User : e[i] = e[i - 1] + h[i] /\ e[i] \in Int
  BY SumValues
<1>2. \A i \in User : i \in Nat /\ i < N /\ g[i] \in Int /\ h[i] \in Int
  BY Constants DEF User
<1>3. 0 \in S
  <2>1. 0 \in User /\ 0 - 1 = -1
    BY Constants DEF User
  <2>2. f[0] = g[0] /\ e[0] = h[0]
    BY <1>1, <1>2, <2>1
  <2>3. CASE a = 0
    BY <1>2, <2>1, <2>2, <2>3
  <2>4. CASE a # 0
    BY <1>2, <2>1, <2>2, <2>4
  <2> QED
    BY <2>3, <2>4
<1>4. ASSUME NEW k \in User, k + 1 \in User, k \in S PROVE k + 1 \in S
  <2>1. (k + 1) - 1 = k /\ k \in Nat /\ a \in Nat
    BY <1>2
  <2>2. /\ f[k + 1] = f[k] + g[k + 1] /\ e[k + 1] = e[k] + h[k + 1]
        /\ f[k] \in Int /\ e[k] \in Int /\ g[k + 1] \in Int /\ h[k + 1] \in Int
        /\ g[k + 1] <= h[k + 1]
        /\ f[k] + (IF k < a THEN 0 ELSE x) <= e[k]
    BY <1>1, <1>2, <1>4, <2>1
  <2>3. CASE a = k + 1
    BY <1>4, <2>1, <2>2, <2>3
  <2>4. CASE a # k + 1
    <3>1. k + 1 < a <=> k < a
      BY <2>1, <2>4
    <3> QED
      BY <1>4, <2>1, <2>2, <3>1
  <2> QED
    BY <2>3, <2>4
<1>5. User \subseteq S
  <2> HIDE DEF S
  <2> QED
    BY <1>3, <1>4, UserInduction
<1>6. N - 1 \in User /\ ~(N - 1 < a)
  BY <1>2, Constants DEF User
<1> QED
  BY <1>1, <1>5, <1>6

\* One that is at least the other in every summand.
LEMMA SumMonotone ==
  ASSUME NEW g \in [User -> Int], NEW h \in [User -> Int], \A i \in User : g[i] <= h[i],
         NEW f, NEW e, IsSum(f, g), IsSum(e, h)
  PROVE  f[N - 1] \in Int /\ e[N - 1] \in Int /\ f[N - 1] <= e[N - 1]
<1>1. PICK a \in User, x \in Int : x = 0
  BY Constants DEF User
<1>2. f[N - 1] \in Int /\ e[N - 1] \in Int /\ f[N - 1] + x <= e[N - 1]
  BY <1>1, SumGain
<1> QED
  BY <1>1, <1>2

\* One that is more by one in two summands.
LEMMA SumGainTwo ==
  ASSUME NEW g \in [User -> Int], NEW h \in [User -> Int], \A i \in User : g[i] <= h[i],
         NEW a \in User, NEW b \in User, a # b, g[a] + 1 <= h[a], g[b] + 1 <= h[b],
         NEW f, NEW e, IsSum(f, g), IsSum(e, h)
  PROVE  f[N - 1] \in Int /\ e[N - 1] \in Int /\ f[N - 1] + 2 <= e[N - 1]
<1>0. PICK x \in Int : x = 1
  OBVIOUS
<1> DEFINE d == [g EXCEPT ![a] = g[a] + 1]
<1>1. d \in [User -> Int] /\ (\A i \in User : g[i] <= d[i] /\ d[i] <= h[i])
      /\ g[a] + x <= d[a] /\ d[b] + x <= h[b]
  BY <1>0
<1> HIDE DEF d
<1>2. PICK q : IsSum(q, d)
  BY <1>1, SumExists
<1>3. f[N - 1] \in Int /\ q[N - 1] \in Int /\ f[N - 1] + x <= q[N - 1]
  BY <1>0, <1>1, <1>2, SumGain
<1>4. e[N - 1] \in Int /\ q[N - 1] + x <= e[N - 1]
  BY <1>0, <1>1, <1>2, SumGain
<1> QED
  BY <1>0, <1>3, <1>4

\* No summand is more than a sum of natural numbers.
LEMMA SumNatural ==
  ASSUME NEW g \in [User -> Int], \A i \in User : g[i] >= 0, NEW f, IsSum(f, g)
  PROVE  f[N - 1] \in Int /\ f[N - 1] >= 0 /\ \A a \in User : g[a] <= f[N - 1]
<1> DEFINE S == {k \in User : f[k] >= 0 /\ \A a \in User : a <= k => g[a] <= f[k]}
<1>1. f[-1] = 0 /\ \A i \in User : f[i] = f[i - 1] + g[i] /\ f[i] \in Int
  BY SumValues
<1>0. \A i \in User : i \in Nat /\ i < N /\ g[i] \in Int
  BY Constants DEF User
<1>2. 0 \in S
  <2>1. 0 \in User /\ 0 - 1 = -1
    BY Constants DEF User
  <2> QED
    BY <1>0, <1>1, <2>1
<1>3. ASSUME NEW k \in User, k + 1 \in User, k \in S PROVE k + 1 \in S
  <2>1. (k + 1) - 1 = k
    BY <1>0
  <2>2. f[k + 1] = f[k] + g[k + 1] /\ g[k + 1] >= 0 /\ f[k] \in Int /\ f[k] >= 0
        /\ g[k + 1] \in Int
    BY <1>0, <1>1, <1>3, <2>1
  <2>3. ASSUME NEW a \in User, a <= k + 1 PROVE g[a] <= f[k + 1]
    <3>1. CASE a = k + 1
      BY <2>2, <3>1
    <3>2. CASE a # k + 1
      <4>1. a <= k
        BY <1>0, <2>3, <3>2
      <4> QED
        BY <1>0, <1>3, <2>2, <4>1
    <3> QED
      BY <3>1, <3>2
  <2> QED
    BY <1>3, <2>2, <2>3
<1>4. User \subseteq S
  <2> HIDE DEF S
  <2> QED
    BY <1>2, <1>3, UserInduction
<1>5. N - 1 \in User /\ \A a \in User : a <= N - 1
  BY Constants DEF User
<1> QED
  BY <1>1, <1>4, <1>5

\* A sum of one period more is divided by it once more.
LEMMA Quotient ==
  \A x \in Nat, t \in Nat \ {0} : x \div t \in Nat /\ (x + t) \div t = x \div t + 1
OBVIOUS

\* A period is divided by itself once.
LEMMA QuotientOne == \A t \in Nat \ {0} : t \div t = 1
OBVIOUS

\* Division keeps the order.
LEMMA QuotientMonotone ==
  \A x, y \in Nat, t \in Nat \ {0} : x <= y => x \div t <= y \div t
OBVIOUS

\* So does multiplication.
LEMMA ProductMonotone ==
  \A c, x, y \in Nat : x <= y => c * x <= c * y
OBVIOUS

\* One factor more is one summand more.
LEMMA ProductStep ==
  \A c, x \in Nat : c * (x + 1) = c * x + c
OBVIOUS

\* A multiple is as large as what is multiplied.
LEMMA ProductLeast ==
  \A x \in Nat, c \in Nat \ {0} : x <= c * x
OBVIOUS

-----------------------------------------------------------------------------
(* Response times: the work of the threads as urgent as i in a window of R ticks.      *)
(*                                                                                     *)
(* The argument is that of the busy period.  At a tick, either none of these threads   *)
(* competes or one executes (BusyActive); so in a window that starts when one begins   *)
(* to compete each tick but the first is work done for them, and Progress, which is    *)
(* the work they have competed with less what they have left, grows by one.  If what   *)
(* they can compete with in R ticks (Needs) is less than R, there is a tick within R   *)
(* at which nothing is left (WindowEnds).  Thread i itself begins to compete at most   *)
(* its period minus one tick before it restarts, so that its job is done by then.      *)

\* The work that j is released with in R ticks, if it is as urgent as i.
Needs(i, R) ==
  [j \in User |-> IF j \in Level(i) THEN task[j].c * ((R + task[j].t - 1) \div task[j].t) ELSE 0]

\* There is room for it.
Fits(i, R) == static_priority[i] < Lowest /\ \A f : IsSum(f, Needs(i, R)) => f[N - 1] < R

\* j has work left of a job that it competes with.
Competes(j) == state[j] \in {"Ready", "Running"} /\ time_until_release[j] # task[j].t
Backlog(j)  == IF Competes(j) THEN remaining_work[j] ELSE 0

\* The jobs with which j has competed in a window of w ticks.
Left(j) == IF time_until_release[j] = task[j].t THEN 0 ELSE time_until_release[j]
Arrived(j, w) == (w + Left(j)) \div task[j].t

\* What the threads as urgent as i have done, at least, of them.
Progress(i, w) ==
  [j \in User |-> IF j \in Level(i) THEN task[j].c * Arrived(j, w) - Backlog(j) ELSE 0]

\* None of them has anything to do; they have been busy for w ticks.
Quiet(i)   == \A j \in Level(i) : ~Competes(j)
Busy(i, w) == /\ \A f : IsSum(f, Progress(i, w)) => f[N - 1] >= w - 1
              /\ Competes(i) => task[i].t - time_until_release[i] <= w

\* While the timer runs, they are busy for fewer ticks than they fit in.
Windows ==
  systick_on => \A i \in User, R \in Nat \ {0} :
    Fits(i, R) => Quiet(i) \/ \E w \in 1 .. R - 1 : Busy(i, w)

\* A thread has its whole computation time before it is started.
Fresh ==
  pc[Main] \notin Starting =>
    \A j \in Live : remaining_work[j] = task[j].c /\ time_until_release[j] = task[j].t - 1

\* A period of more than one tick is being counted down.
Releases == \A j \in User : task[j].t > 1 => time_until_release[j] \in 1 .. task[j].t

\* The numbers that the lemmas below compute with.
LEMMA Numbered ==
  ASSUME TInv, NEW i \in User
  PROVE  /\ task[i].c \in Nat \ {0} /\ task[i].t \in Nat \ {0}
         /\ time_until_release[i] \in Nat /\ remaining_work[i] \in Nat
         /\ static_priority[i] \in Nat /\ i \in Level(i) /\ Level(i) \subseteq User
         /\ Left(i) \in Nat
<1>1. i \in Tcb /\ WordMax \in Nat
  BY Constants
<1> QED
  BY <1>1, Constants DEF TInv, TypeOK, TypeKernel, Tasks, Level, Left

\* What is needed is a natural number for each thread, ...
LEMMA NeedsType ==
  ASSUME TInv, NEW i \in User, NEW R \in Nat \ {0}
  PROVE  Needs(i, R) \in [User -> Int] /\ \A j \in User : Needs(i, R)[j] >= 0
<1>1. ASSUME NEW j \in User
      PROVE  task[j].c * ((R + task[j].t - 1) \div task[j].t) \in Nat
  <2> DEFINE x == R + task[j].t - 1
  <2>1. task[j].c \in Nat /\ task[j].t \in Nat \ {0} /\ x \in Nat
    BY Numbered
  <2>2. x \div task[j].t \in Nat
    <3> HIDE DEF x
    <3> QED
      BY <2>1, Quotient
  <2> QED
    BY <2>1, <2>2
<1> QED
  BY <1>1 DEF Needs

\* ... and what is done is a number.
LEMMA ProgressType ==
  ASSUME TInv, NEW i \in User, NEW w \in Nat
  PROVE  Progress(i, w) \in [User -> Int]
<1>1. ASSUME NEW j \in User PROVE task[j].c * Arrived(j, w) - Backlog(j) \in Int
  <2>1. task[j].c \in Nat /\ task[j].t \in Nat \ {0} /\ w + Left(j) \in Nat /\ Backlog(j) \in Int
    BY Numbered DEF Backlog
  <2>2. Arrived(j, w) \in Nat
    BY <2>1, Quotient DEF Arrived
  <2> QED
    BY <2>1, <2>2
<1> QED
  BY <1>1 DEF Progress

\* What fits takes two ticks at least, and nobody as urgent has a period of one.
LEMMA FitsPeriods ==
  ASSUME TInv, NEW i \in User, NEW R \in Nat \ {0}, Fits(i, R)
  PROVE  R >= 2 /\ \A j \in Level(i) : task[j].t > 1
<1>1. PICK f : IsSum(f, Needs(i, R))
  BY NeedsType, SumExists
<1>2. f[N - 1] \in Int /\ f[N - 1] < R /\ \A j \in User : Needs(i, R)[j] <= f[N - 1]
  BY <1>1, NeedsType, SumNatural DEF Fits
<1>3. ASSUME NEW j \in Level(i)
      PROVE  (R - 1) \div task[j].t + 1 < R
  <2> DEFINE q == (R - 1) \div task[j].t
  <2>1. j \in User /\ task[j].t \in Nat \ {0} /\ task[j].c \in Nat \ {0} /\ R - 1 \in Nat
    BY Numbered
  <2>2. q \in Nat /\ R + task[j].t - 1 = (R - 1) + task[j].t
        /\ ((R - 1) + task[j].t) \div task[j].t = q + 1
    BY <2>1, Quotient
  <2>3. Needs(i, R)[j] = task[j].c * (q + 1)
    BY <2>1, <2>2 DEF Needs
  <2> HIDE DEF q
  <2>4. q + 1 <= task[j].c * (q + 1)
    BY <2>1, <2>2, ProductLeast
  <2>5. task[j].c * (q + 1) < R
    <3>1. Needs(i, R)[j] \in Int /\ Needs(i, R)[j] <= f[N - 1]
      BY <1>2, <2>1, NeedsType
    <3>2. Needs(i, R)[j] < R
      BY <1>2, <3>1
    <3> QED
      BY <2>3, <3>2
  <2> QED
    BY <2>1, <2>2, <2>4, <2>5 DEF q
<1>4. i \in Level(i) /\ (R - 1) \div task[i].t \in Nat
  <2>1. i \in Level(i) /\ task[i].t \in Nat \ {0} /\ R - 1 \in Nat
    BY Numbered
  <2> QED
    BY <2>1, Quotient
<1>5. ASSUME NEW j \in Level(i), task[j].t = 1 PROVE FALSE
  <2>1. (R - 1) \div 1 = R - 1
    OBVIOUS
  <2> QED
    BY <1>3, <1>5, <2>1
<1>6. \A j \in Level(i) : task[j].t \in Nat \ {0}
  BY Numbered
<1> QED
  BY <1>3, <1>4, <1>5, <1>6

\* At the end of the window that fits, what has been done and what is left are together
\* no more than what was asked for.
NoMore ==
  \A i \in User, R \in Nat \ {0} : Fits(i, R) => \A j \in User :
    /\ Progress(i, R)[j] <= Needs(i, R)[j]
    /\ j \in Level(i) => Progress(i, R)[j] + Backlog(j) <= Needs(i, R)[j]

\* That follows from the periods.
LEMMA Closing == TInv /\ Releases => NoMore
<1> SUFFICES ASSUME TInv, Releases, NEW i \in User, NEW R \in Nat \ {0}, Fits(i, R),
                    NEW j \in User
             PROVE  /\ Progress(i, R)[j] <= Needs(i, R)[j]
                    /\ j \in Level(i) => Progress(i, R)[j] + Backlog(j) <= Needs(i, R)[j]
  BY DEF NoMore
<1>1. CASE j \notin Level(i)
  BY <1>1 DEF Progress, Needs
<1>2. CASE j \in Level(i)
  <2>1. /\ task[j].t \in Nat \ {0} /\ task[j].t > 1 /\ task[j].c \in Nat
        /\ Left(j) \in Nat /\ Left(j) <= task[j].t - 1
        /\ Backlog(j) \in Nat
    BY <1>2, FitsPeriods, Numbered DEF Releases, Left, Backlog
  <2> DEFINE x == R + Left(j)
             y == R + task[j].t - 1
  <2>2. x \in Nat /\ y \in Nat /\ x <= y
    BY <2>1
  <2>3. x \div task[j].t \in Nat /\ y \div task[j].t \in Nat /\ x \div task[j].t <= y \div task[j].t
    <3> HIDE DEF x, y
    <3> QED
      BY <2>1, <2>2, Quotient, QuotientMonotone
  <2>4. task[j].c * (x \div task[j].t) <= task[j].c * (y \div task[j].t)
    BY <2>1, <2>3, ProductMonotone
  <2>5. /\ Progress(i, R)[j] = task[j].c * (x \div task[j].t) - Backlog(j)
        /\ Needs(i, R)[j] = task[j].c * (y \div task[j].t)
    BY <1>2 DEF Progress, Needs, Arrived
  <2>6. task[j].c * (x \div task[j].t) \in Nat /\ task[j].c * (y \div task[j].t) \in Nat
    BY <2>1, <2>3
  <2> HIDE DEF x, y
  <2> QED
    BY <2>1, <2>4, <2>5, <2>6
<1> QED
  BY <1>1, <1>2

\* A window that ends leaves nothing to do: what the threads have done and what they have left fit.
EndsQuiet ==
  \A i \in User, R \in Nat \ {0} :
    Fits(i, R) /\ (\A f : IsSum(f, Progress(i, R)) => f[N - 1] >= R - 1) => Quiet(i)

\* That follows from the budgets.
LEMMA WindowEnds == TInv /\ Releases /\ Budget => EndsQuiet
<1> SUFFICES ASSUME TInv, Releases, Budget, NEW i \in User, NEW R \in Nat \ {0}, Fits(i, R),
                    \A f : IsSum(f, Progress(i, R)) => f[N - 1] >= R - 1,
                    NEW j \in Level(i), Competes(j)
             PROVE  FALSE
  BY DEF EndsQuiet, Quiet
<1>1. PICK f, e : IsSum(f, Progress(i, R)) /\ IsSum(e, Needs(i, R))
  BY NeedsType, ProgressType, SumExists
<1>2. j \in User /\ Backlog(j) \in Nat /\ Backlog(j) >= 1
  BY Numbered DEF Backlog, Competes, Budget, Funded
<1>3. f[N - 1] \in Int /\ e[N - 1] \in Int /\ f[N - 1] + Backlog(j) <= e[N - 1]
  <2>1. PICK x \in Int : x = Backlog(j)
    BY <1>2
  <2>2. \A k \in User : Progress(i, R)[k] <= Needs(i, R)[k]
    BY Closing DEF NoMore
  <2>3. Progress(i, R)[j] + x <= Needs(i, R)[j]
    BY <1>2, <2>1, Closing DEF NoMore
  <2>4. Progress(i, R) \in [User -> Int] /\ Needs(i, R) \in [User -> Int]
    BY NeedsType, ProgressType
  <2> QED
    BY <1>1, <1>2, <2>1, <2>2, <2>3, <2>4, SumGain
<1>4. e[N - 1] < R /\ f[N - 1] >= R - 1
  BY <1>1 DEF Fits
<1> QED
  BY <1>2, <1>3, <1>4

-----------------------------------------------------------------------------
(* Response times: the steps between two ticks. *)

\* Where a thread is that has been labelled and still executes.
Labelled == {"yieldPend", "endDec", "endPend"}

\* Only the thread that executes is labelled Running, from the switch to it up to
\* the call that gives up the processor.
Execution ==
  /\ \A j \in User : /\ state[j] # "Blocked"
                     /\ state[j] = "Running" => j = active_thread_index
  /\ active_thread_index \in User =>
       state[active_thread_index] \in
         IF Here \in Labelled THEN {"Waiting", "Defunct"} ELSE {"Running"}

\* A step without a switch, which at most labels the thread that executes.
Keeps ==
  /\ UNCHANGED <<active_thread_index, tcbVars, dynamic_priority>>
  /\ systick_on' => systick_on
  /\ \/ /\ UNCHANGED state
        /\ active_thread_index \in User => (Here \in Labelled <=> Here' \in Labelled)
     \/ /\ active_thread_index \in User /\ Here \notin Labelled /\ Here' \in Labelled
        /\ \E l \in {"Waiting", "Defunct"} : state' = [state EXCEPT ![active_thread_index] = l]
  /\ pc[Main] \in Starting =>
       pc'[Main] \in Starting \/ (Here = "join" /\ active_thread_index = Main)

\* A switch that charges nothing.
Switches ==
  /\ \E n \in Tcb, st \in [Tcb -> States], k \in Nat :
       /\ IsNext(n, st, k) /\ SwitchTo(n, st)
       /\ \A j \in User : j # active_thread_index => st[j] = state[j]
       /\ active_thread_index \in User => st[active_thread_index] \in {"Waiting", "Defunct"}
  /\ \A j \in Tcb : \/ dynamic_priority'[j] = dynamic_priority[j]
                    \/ dynamic_priority'[j] = static_priority[j] /\ j = active_thread_index
  /\ UNCHANGED <<tcbVars, systick_on>>
  /\ pc'[active_thread_index] \notin Labelled
  /\ active_thread_index = Main => pc'[Main] \in Starting
  /\ \A j \in Tcb : j # active_thread_index => pc'[j] = pc[j]

\* A step of thread_define, in main.
Defines ==
  /\ active_thread_index = Main /\ pc[Main] \notin Starting /\ UNCHANGED active_thread_index
  /\ ~systick_on /\ ~systick_on'
  /\ pc'[Main] \notin Starting
  /\ \/ DefineFill(Main)
     \/ /\ UNCHANGED <<state, task, remaining_work, time_until_release>>
        /\ \A j \in Tcb : \/ /\ static_priority'[j] = static_priority[j]
                             /\ dynamic_priority'[j] = dynamic_priority[j]
                          \/ static_priority'[j] = dynamic_priority'[j]

\* The start of the threads.
Starts == \E bins \in Bins : StartEnter(bins)

\* A tick that is due.
Due == SysTick /\ timer_wrap_around = timer_wrap_comparison

\* Without locks a step is one of these.
LEMMA StepKind ==
  ASSUME NoLocking, FixedTasks, TInv, Phases, LockFree, Execution, [Next]_vars
  PROVE  Keeps \/ Switches \/ Defines \/ Starts \/ Due
<1> USE Constants DEF TInv, TypeOK, TypeFrame, TypeSwitch, TypeKernel, TypeSync
<1> DEFINE Goal == Keeps \/ Switches \/ Defines \/ Starts \/ Due
<1>0. /\ LockFree
      /\ \A i \in Tcb : pc[i] \in Defining => i = Main
      /\ systick_on => pc[Main] \in Starting
      /\ \A i \in Tcb : Held(i) = {}
  <2>1. \A i \in Tcb : Held(i) = {}
    BY DEF LockFree, Held, Nobody, Tcb
  <2> QED
    BY <2>1 DEF Phases, Defining
<1>c. num_active_threads \in Nat /\ CountWithout \in Nat
  BY DEF CountWithout
<1>1. ASSUME NEW i \in Tcb, Return(i) PROVE Goal
  BY <1>1, <1>0 DEF Return, Keeps, Labelled, Starting, Here, Goto, At, Enter, Running,
     kernelVars, timerVars, admitVars, tcbVars, switchVars, syncVars
<1>2. ASSUME NEW i \in Tcb, YieldPend(i) PROVE Goal
  <2>1. PICK n \in Tcb : IsNext(n, state, num_active_threads) /\ SwitchTo(n, state)
    BY <1>2 DEF YieldPend, PendSV
  <2>2. /\ active_thread_index = i /\ pc[i] = "yieldPend"
        /\ \E l \in {"ret", "lock", "join"} : pc' = [pc EXCEPT ![i] = l]
                                              /\ (i = Main => l = "join")
        /\ UNCHANGED <<tcbVars, systick_on, dynamic_priority>>
    BY <1>2 DEF YieldPend, At, Goto, kernelVars, timerVars, syncVars, TInv, FramesOK, Phases
  <2>3. active_thread_index \in User => state[active_thread_index] \in {"Waiting", "Defunct"}
    BY <2>2 DEF Execution, Here, Labelled
  <2>4. pc'[active_thread_index] \notin Labelled
        /\ (active_thread_index = Main => pc'[Main] \in Starting)
        /\ \A j \in Tcb : j # active_thread_index => pc'[j] = pc[j]
    BY <2>2 DEF Labelled, Starting
  <2> QED
    BY <1>c, <2>1, <2>2, <2>3, <2>4 DEF Switches
<1>3. ASSUME NEW i \in Tcb, LockAcquire(i) PROVE Goal
  BY <1>3, <1>0 DEF LockAcquire, At, NoLocking, LockFree
<1>4. ASSUME NEW i \in Tcb, LockBlock(i) PROVE Goal
  BY <1>4, <1>0 DEF LockBlock, At, NoLocking, LockFree
<1>5. ASSUME NEW i \in Tcb, LockPend(i) PROVE Goal
  BY <1>5, <1>0 DEF LockPend, At, NoLocking, LockFree
<1>6. ASSUME NEW i \in Tcb, UnlockWake(i) PROVE Goal
  BY <1>6, <1>0 DEF UnlockWake, At, NoLocking, LockFree
<1>7. ASSUME NEW i \in Tcb, UnlockWoken(i) PROVE Goal
  BY <1>7, <1>0 DEF UnlockWoken, At, NoLocking, LockFree
<1>8. ASSUME NEW i \in Tcb, UnlockReset(i) PROVE Goal
  BY <1>8, <1>0 DEF UnlockReset, At, NoLocking, LockFree
<1>9. ASSUME NEW i \in Tcb, UnlockPend(i) PROVE Goal
  BY <1>9, <1>0 DEF UnlockPend, At, NoLocking, LockFree
<1>10. ASSUME NEW i \in Tcb, EndUnlock(i) PROVE Goal
  BY <1>10, <1>0 DEF EndUnlock
<1>11. ASSUME NEW i \in Tcb, EndDefunct(i) PROVE Goal
  BY <1>11, <1>0 DEF EndDefunct, TInv, FramesOK, Keeps, Labelled, Starting, Here, Goto,
     At, Enter, Running, kernelVars, timerVars, admitVars, tcbVars, switchVars, syncVars
<1>12. ASSUME NEW i \in Tcb, EndDec(i) PROVE Goal
  BY <1>12, <1>0 DEF EndDec, TInv, FramesOK, Keeps, Labelled, Starting, Here, Goto, At,
     Enter, Running, kernelVars, timerVars, admitVars, tcbVars, switchVars, syncVars
<1>13. ASSUME NEW i \in Tcb, EndPend(i) PROVE Goal
  <2>1. PICK n \in Tcb : IsNext(n, state, num_active_threads) /\ SwitchTo(n, state)
    BY <1>13 DEF EndPend, PendSV
  <2>2. /\ active_thread_index = i /\ pc[i] = "endPend"
        /\ \E l \in {"ret", "lock", "join"} : pc' = [pc EXCEPT ![i] = l]
                                              /\ (i = Main => l = "join")
        /\ UNCHANGED <<tcbVars, systick_on, dynamic_priority>>
    BY <1>13 DEF EndPend, At, Goto, kernelVars, timerVars, syncVars, TInv, FramesOK, Phases
  <2>3. active_thread_index \in User => state[active_thread_index] \in {"Waiting", "Defunct"}
    BY <2>2 DEF Execution, Here, Labelled
  <2>4. pc'[active_thread_index] \notin Labelled
        /\ (active_thread_index = Main => pc'[Main] \in Starting)
        /\ \A j \in Tcb : j # active_thread_index => pc'[j] = pc[j]
    BY <2>2 DEF Labelled, Starting
  <2> QED
    BY <1>c, <2>1, <2>2, <2>3, <2>4 DEF Switches
<1>14. ASSUME NEW i \in Tcb, DefineFill(i) PROVE Goal
  BY <1>14, <1>0 DEF DefineFill, Defines, Defining, Starting, Phases, At, Goto, Here,
     timerVars, syncVars, switchVars, admitVars
<1>15. ASSUME NEW i \in Tcb, DefineFrames(i) PROVE Goal
  BY <1>15, <1>0 DEF DefineFrames, Slot, Defining, Keeps, Labelled, Starting, Here,
     Goto, At, Enter, Running, kernelVars, timerVars, admitVars, tcbVars, switchVars,
     syncVars
<1>16. ASSUME NEW i \in Tcb, DefineCount(i) PROVE Goal
  BY <1>16, <1>0 DEF DefineCount, Keeps, Labelled, Starting, Here, Goto, At, Enter,
     Running, kernelVars, timerVars, admitVars, tcbVars, switchVars, syncVars
<1>17. ASSUME NEW i \in Tcb, OrderClear(i) PROVE Goal
  BY <1>17, <1>0, ZenonT(60) DEF OrderClear, Defines, Defining, Starting, Phases, At, Goto, Here,
     timerVars, syncVars, switchVars, admitVars
<1>18. ASSUME NEW i \in Tcb, OrderAssign(i) PROVE Goal
  <2>1. /\ active_thread_index = Main /\ i = Main /\ pc[Main] = "assign"
        /\ UNCHANGED <<active_thread_index, systick_on, pc, state, task, remaining_work,
                        time_until_release>>
    BY <1>18, <1>0 DEF OrderAssign, Defining, At, timerVars, switchVars
  <2>2. CASE UNCHANGED <<static_priority, dynamic_priority>>
    BY <1>0, <2>1, <2>2 DEF Defines, Starting
  <2>3. CASE \E j \in Unordered :
               /\ static_priority' = [static_priority EXCEPT ![j] = Word(wi[i])]
               /\ dynamic_priority' = [dynamic_priority EXCEPT ![j] = Word(wi[i])]
    BY <1>0, <2>1, <2>3 DEF Defines, Starting, Unordered
  <2> QED
    BY <1>18, <2>2, <2>3, Zenon DEF OrderAssign
<1>19. ASSUME NEW i \in Tcb, OrderDone(i) PROVE Goal
  <2>1. /\ active_thread_index = i /\ pc[i] = "assign" /\ pc' = [pc EXCEPT ![i] = "ret"]
        /\ UNCHANGED <<active_thread_index, tcbVars, dynamic_priority, systick_on, state>>
    BY <1>19 DEF OrderDone, At, Goto, kernelVars, timerVars, syncVars, switchVars
  <2> QED
    BY <1>0, <2>1 DEF Keeps, Labelled, Starting, Here
<1>20. ASSUME NEW i \in Tcb, Yield(i) PROVE Goal
  <2>1. /\ active_thread_index = i /\ pc[i] = "user" /\ pc' = [pc EXCEPT ![i] = "yieldPend"]
        /\ UNCHANGED <<active_thread_index, tcbVars, dynamic_priority, systick_on>>
        /\ state' = Yielded(i) /\ i # Main
    BY <1>20 DEF Yield, Enter, At, Goto, Running, kernelVars, timerVars, syncVars
  <2>2. Here = "user" /\ Here' = "yieldPend" /\ pc'[Main] = pc[Main]
    BY <2>1 DEF Here
  <2>3. CASE i = Idle
    BY <2>1, <2>2, <2>3 DEF Keeps, Yielded
  <2>4. CASE i # Idle
    <3>1. i \in User
      BY <2>1, <2>4 DEF User, Tcb, Idle, Main
    <3> QED
      BY <2>1, <2>2, <2>4, <3>1 DEF Keeps, Yielded, Labelled
  <2> QED
    BY <2>3, <2>4
<1>21. ASSUME NEW i \in Tcb, SleepMs(i) PROVE Goal
  BY <1>21, <1>0 DEF SleepMs, Keeps, Labelled, Starting, Here, Goto, At, Enter, Running,
     kernelVars, timerVars, admitVars, tcbVars, switchVars, syncVars
<1>22. ASSUME NEW i \in Tcb, Exit(i) PROVE Goal
  BY <1>22, <1>0 DEF Exit, Keeps, Labelled, Starting, Here, Goto, At, Enter, Running,
     kernelVars, timerVars, admitVars, tcbVars, switchVars, syncVars
<1>23. ASSUME NEW i \in Tcb, NEW m \in Locks, LockEnter(i, m) PROVE Goal
  BY <1>23, <1>0 DEF LockEnter, At, NoLocking, LockFree
<1>24. ASSUME NEW i \in Tcb, NEW m \in Locks, UnlockEnter(i, m) PROVE Goal
  BY <1>24, <1>0 DEF UnlockEnter, At, NoLocking, LockFree
<1>25. ASSUME NEW i \in Tcb, EndEnter(i) PROVE Goal
  BY <1>25, <1>0 DEF EndEnter, Keeps, Labelled, Starting, Here, Goto, At, Enter,
     Running, kernelVars, timerVars, admitVars, tcbVars, switchVars, syncVars
<1>26. ASSUME NEW i \in Tcb, MemFault(i) PROVE Goal
  <2> DEFINE woken == UNION {{blocked_threads[m][k] : k \in DOMAIN blocked_threads[m]} :
                               m \in Held(i)}
             st    == [j \in Tcb |-> IF j = i THEN "Defunct"
                                     ELSE IF j \in woken THEN "Ready" ELSE state[j]]
  <2>1. PICK n \in Tcb : IsNext(n, st, num_active_threads') /\ SwitchTo(n, st)
    BY <1>26, Zenon DEF MemFault
  <2>2. st \in [Tcb -> States]
    BY DEF States
  <2>3. woken = {}
    BY <1>0
  <2>4. (\A j \in User : j # i => st[j] = state[j]) /\ st[i] = "Defunct"
    BY <2>3
  <2>5. i = active_thread_index /\ i \in User /\ pc[i] = "user"
        /\ UNCHANGED <<tcbVars, systick_on, pc>>
    BY <1>26 DEF MemFault, At, timerVars
  <2>6. \A j \in Tcb : dynamic_priority'[j] =
          IF j = i THEN static_priority[i] ELSE dynamic_priority[j]
    <3>1. Inherited(i, StillLocked(Held(i))) = {static_priority[i]}
      <4>1. \A l \in StillLocked(Held(i)) : l \in Locks
        BY DEF StillLocked, Locks
      <4>2. {l \in StillLocked(Held(i)) : current_locker[l] = i} = {}
        BY <1>0, <4>1 DEF Held
      <4> HIDE DEF TInv
      <4> QED
        BY <4>2, Zenon DEF Inherited
    <3> QED
      BY <1>26, <3>1 DEF MemFault, Open
  <2>7. num_active_threads' \in Nat
    BY <1>26, <1>c DEF MemFault
  <2> HIDE DEF st
  <2> QED
    BY <2>1, <2>2, <2>4, <2>5, <2>6, <2>7 DEF Switches, Labelled
<1>27. ASSUME NEW i \in Tcb, NEW tk \in TaskSet, DefineEnter(i, tk) PROVE Goal
  BY <1>27, <1>0 DEF DefineEnter, Keeps, Labelled, Starting, Here, Goto, At, Enter,
     Running, kernelVars, timerVars, admitVars, tcbVars, switchVars, syncVars
<1>28. ASSUME StartPend PROVE Goal
  <2>1. PICK n \in Tcb : IsNext(n, state, num_active_threads) /\ SwitchTo(n, state)
    BY <1>28 DEF StartPend, PendSV
  <2>2. /\ active_thread_index = Main /\ pc[Main] = "startPend"
        /\ \E l \in {"ret", "lock", "join"} : pc' = [pc EXCEPT ![Main] = l]
                                              /\ (Main = Main => l = "join")
        /\ UNCHANGED <<tcbVars, systick_on, dynamic_priority>>
    BY <1>28 DEF StartPend, At, Goto, kernelVars, timerVars, syncVars, TInv, FramesOK, Phases
  <2>3. active_thread_index \in User => state[active_thread_index] \in {"Waiting", "Defunct"}
    BY <2>2 DEF Execution, Here, Labelled
  <2>4. pc'[active_thread_index] \notin Labelled
        /\ (active_thread_index = Main => pc'[Main] \in Starting)
        /\ \A j \in Tcb : j # active_thread_index => pc'[j] = pc[j]
    BY <2>2 DEF Labelled, Starting
  <2> QED
    BY <1>c, <2>1, <2>2, <2>3, <2>4 DEF Switches
<1>29. ASSUME StartJoin PROVE Goal
  BY <1>29, <1>0 DEF StartJoin, Keeps, Labelled, Starting, Here, Goto, At, Enter,
     Running, kernelVars, timerVars, admitVars, tcbVars, switchVars, syncVars
<1>30. ASSUME NEW id \in {tk.id : tk \in TaskSet}, LockInit(id) PROVE Goal
  BY <1>30, <1>0 DEF LockInit, Keeps, Labelled, Starting, Here, Goto, At, Enter,
     Running, kernelVars, timerVars, admitVars, tcbVars, switchVars, syncVars
<1>31. ASSUME StartRefused PROVE Goal
  BY <1>31, <1>0 DEF StartRefused, Keeps, Labelled, Starting, Here, Goto, At, Enter,
     Running, kernelVars, timerVars, admitVars, tcbVars, switchVars, syncVars
<1>32. ASSUME NEW bins \in Bins, StartEnter(bins) PROVE Goal
  BY <1>32 DEF Starts
<1>33. ASSUME SysTick PROVE Goal
  BY <1>33 DEF SysTick, Due, Keeps, Labelled, Starting, Here, Goto, At, Enter, Running,
     kernelVars, timerVars, admitVars, tcbVars, switchVars, syncVars
<1>34. CASE UNCHANGED vars
  BY <1>34, <1>0 DEF vars, Keeps, Labelled, Starting, Here, Goto, At, Enter, Running,
     kernelVars, timerVars, admitVars, tcbVars, switchVars, syncVars
<1> QED
  BY <1>1, <1>2, <1>3, <1>4, <1>5, <1>6, <1>7, <1>8, <1>9, <1>10, <1>11, <1>12, <1>13,
     <1>14, <1>15, <1>16, <1>17, <1>18, <1>19, <1>20, <1>21, <1>22, <1>23, <1>24, <1>25,
     <1>26, <1>27, <1>28, <1>29, <1>30, <1>31, <1>32, <1>33, <1>34 DEF Next,
     Handler, Program, MainHandler, MainProgram

\* A thread in these states can run.
Pending == {"Ready", "Running"}

\* No thread that could have run competes while the idle thread runs.
Idling ==
  active_thread_index = Idle =>
    \A j \in User : state[j] = "Ready" /\ time_until_release[j] # task[j].t =>
      dynamic_priority[j] = Lowest

\* Without locks every thread has its own priority.
Own == \A j \in User : dynamic_priority[j] = static_priority[j]

\* What is proved of the scheduler without locks.
Base == CountInv /\ LockFree /\ UrgentInv /\ Budget /\ Rest /\ Execution

\* A tick that is due in programs without locks: ...
LEMMA DueHere ==
  ASSUME SwitchUninterrupted, CriticalUninterrupted, Base, Due
  PROVE  /\ active_thread_index \in User =>
              /\ state[active_thread_index] = "Running" /\ Here \in Settled
              /\ remaining_work[active_thread_index] >= 1
         /\ active_thread_index \in {Main, Idle} \cup User
         /\ Live # {} => num_active_threads # 0 /\ active_thread_index # Main
<1> USE Constants DEF Base, CountInv, TInv, TypeOK, TypeSwitch, TypeFrame
<1>1. systick_on /\ Here \in TickAt /\ Here \notin Critical /\ pc[Main] \in Starting
  BY NoTickInCritical DEF Due, SysTick, Phases, Here
<1>2. Here \notin {"yieldPend", "startPend"} /\ Here \notin Labelled
  BY <1>1 DEF SwitchUninterrupted, Labelled, Critical
<1>3. ASSUME active_thread_index \in User
      PROVE  /\ state[active_thread_index] = "Running" /\ Here \in Settled
             /\ remaining_work[active_thread_index] >= 1
  <2>1. state[active_thread_index] = "Running"
    BY <1>2, <1>3 DEF Execution
  <2>2. Here \in Labels /\ Here \notin Starting /\ Here \notin Defining
        /\ Here \notin {"lock", "lockPend", "wake", "reset", "unlockPend"}
    BY <1>1, <1>3 DEF Here, Phases, UrgentInv, LockFree
  <2>3. Here \in Settled
    BY <1>1, <1>2, <2>2 DEF Labels, Starting, Defining, Critical, Settled
  <2> QED
    BY <1>3, <2>1, <2>3 DEF Budget, Funded, TypeKernel
<1>4. active_thread_index \in {Main, Idle} \cup User
  BY DEF Main, Idle, Tcb, User
<1>5. ASSUME Live # {}
      PROVE  num_active_threads # 0 /\ active_thread_index # Main
  <2>1. Cardinality(Live) \in Nat /\ Cardinality(Live) # 0
    BY <1>5, LiveFinite, FS_EmptySet
  <2>2. Off(Here) = 0
    BY <1>1 DEF Off, Critical
  <2>3. num_active_threads # 0
    BY <2>1, <2>2 DEF Counted
  <2> QED
    BY <1>1, <1>2, <2>3 DEF Joined, Here, Starting
<1> QED
  BY <1>3, <1>4, <1>5

\* ... what it does to a thread.
LEMMA DueTimes ==
  ASSUME SwitchUninterrupted, CriticalUninterrupted, Base, Releases, Due
  PROVE  /\ UNCHANGED <<task, static_priority, dynamic_priority, systick_on, pc>>
         /\ \A j \in User : state[j] = "Defunct" =>
              state'[j] = "Defunct" /\ time_until_release'[j] = time_until_release[j]
         /\ \A j \in Live : task[j].t > 1 =>
              IF time_until_release[j] = 1
              THEN time_until_release'[j] = task[j].t
              ELSE /\ time_until_release'[j] = time_until_release[j] - 1
                   /\ state'[j] \in Pending <=> ChargedState[j] \in Pending
                   /\ remaining_work'[j] = ChargedWork[j]
         /\ \A j \in User :
              IF j = active_thread_index
              THEN /\ ChargedWork[j] = remaining_work[j] - 1
                   /\ ChargedState[j] = IF remaining_work[j] = 1 THEN "Waiting" ELSE "Ready"
              ELSE ChargedWork[j] = remaining_work[j] /\ ChargedState[j] = state[j]
<1> USE Constants DEF Base, CountInv, TInv, TypeOK, TypeSwitch, TypeKernel
<1> DEFINE st == [i \in Tcb |-> IF i \in Released(ChargedState) THEN "Ready" ELSE ChargedState[i]]
<1>1. UNCHANGED <<task, static_priority, dynamic_priority, systick_on, pc>>
  BY DEF Due, SysTick, syncVars
<1>2. PICK n \in Tcb :
        /\ IsNext(n, ChargedState, num_active_threads) /\ SwitchTo(n, st)
        /\ remaining_work' = [i \in Tcb |-> IF i \in Released(ChargedState)
                                            THEN task[i].c ELSE ChargedWork[i]]
        /\ time_until_release' =
             [i \in Tcb |-> IF i \in Released(ChargedState) THEN task[i].t
                            ELSE IF i \in Swept(ChargedState)
                                 THEN Dec(time_until_release[i])
                                 ELSE time_until_release[i]]
  BY Zenon DEF Due, SysTick, PreemptPendSV
<1>3. \A j \in User :
        IF j = active_thread_index
        THEN /\ ChargedWork[j] = remaining_work[j] - 1
             /\ ChargedState[j] = IF remaining_work[j] = 1 THEN "Waiting" ELSE "Ready"
        ELSE ChargedWork[j] = remaining_work[j] /\ ChargedState[j] = state[j]
  <2> SUFFICES ASSUME NEW j \in User
               PROVE  IF j = active_thread_index
                      THEN /\ ChargedWork[j] = remaining_work[j] - 1
                           /\ ChargedState[j] = IF remaining_work[j] = 1 THEN "Waiting" ELSE "Ready"
                      ELSE ChargedWork[j] = remaining_work[j] /\ ChargedState[j] = state[j]
    OBVIOUS
  <2>1. CASE j # active_thread_index
    BY <2>1 DEF ChargedWork, ChargedState
  <2>2. CASE j = active_thread_index
    <3>1. remaining_work[j] \in Nat /\ remaining_work[j] >= 1 /\ j # Idle
      BY <2>2, DueHere
    <3>2. ChargedWork[j] = remaining_work[j] - 1
      BY <2>2, <3>1 DEF ChargedWork, Dec
    <3>3. ChargedState[j] = IF ChargedWork[j] = 0 THEN "Waiting" ELSE "Ready"
      BY <2>2 DEF ChargedState
    <3> QED
      BY <2>2, <3>1, <3>2, <3>3
  <2> QED
    BY <2>1, <2>2
<1>4. \A j \in User : state[j] = "Defunct" <=> ChargedState[j] = "Defunct"
  BY <1>3, DueHere
<1>5. /\ \A j \in Tcb : state'[j] = IF j = n THEN "Running" ELSE st[j]
      /\ n \in User => ChargedState[n] = "Ready"
  BY <1>2, ChargedType, NextLive DEF SwitchTo
<1>6. ASSUME NEW j \in User, state[j] = "Defunct"
      PROVE  state'[j] = "Defunct" /\ time_until_release'[j] = time_until_release[j]
  <2>1. j \notin Swept(ChargedState) /\ j \notin Released(ChargedState) /\ j # n
    BY <1>4, <1>5, <1>6 DEF Swept, Released
  <2> QED
    BY <1>2, <1>4, <1>5, <1>6, <2>1
<1>7. ASSUME NEW j \in Live, task[j].t > 1
      PROVE  IF time_until_release[j] = 1
             THEN time_until_release'[j] = task[j].t
             ELSE /\ time_until_release'[j] = time_until_release[j] - 1
                  /\ state'[j] \in Pending <=> ChargedState[j] \in Pending
                  /\ remaining_work'[j] = ChargedWork[j]
  <2>1. j \in User /\ state[j] # "Defunct" /\ num_active_threads # 0
    BY DueHere DEF Live
  <2>2. j \in Swept(ChargedState)
    BY <1>4, <2>1 DEF Swept
  <2>3. time_until_release[j] \in Nat /\ time_until_release[j] >= 1
    BY <1>7, <2>1 DEF Releases
  <2>4. Dec(time_until_release[j]) = time_until_release[j] - 1
    BY <2>3 DEF Dec
  <2>5. j \in Released(ChargedState) <=> time_until_release[j] = 1
    BY <2>2, <2>3, <2>4 DEF Released
  <2>6. CASE time_until_release[j] = 1
    BY <1>2, <2>1, <2>5, <2>6
  <2>7. CASE time_until_release[j] # 1
    <3>1. st[j] = ChargedState[j]
      BY <2>1, <2>5, <2>7
    <3> HIDE DEF st
    <3> QED
      BY <1>2, <1>5, <2>1, <2>2, <2>4, <2>5, <2>7, <3>1 DEF Pending
  <2> QED
    BY <2>6, <2>7
<1> QED
  BY <1>1, <1>3, <1>6, <1>7

\* Every step keeps the labels of the threads, ...
LEMMA StepExecution ==
  ASSUME NoLocking, FixedTasks, SwitchUninterrupted, CriticalUninterrupted, Base, [Next]_vars
  PROVE  Execution'
<1> USE Constants DEF Base, CountInv, TInv, TypeOK, TypeSwitch, TypeFrame
<1>0. Rest' /\ active_thread_index' \in Tcb /\ Phases'
  BY StepRest, StepCountInv, LockFreeLive, StepTInv
<1>1. CASE Keeps
  <2>1. CASE UNCHANGED state
    BY <1>1, <2>1 DEF Keeps, Execution
  <2>2. CASE ~UNCHANGED state
    BY <1>1, <2>2 DEF Keeps, Execution
  <2> QED
    BY <2>1, <2>2
<1>2. ASSUME NEW n \in Tcb, NEW st \in [Tcb -> States], NEW k, IsNext(n, st, k), SwitchTo(n, st),
             \A j \in User : st[j] \notin {"Running", "Blocked"},
             n # active_thread_index \/ pc'[active_thread_index] \notin Labelled,
             \A j \in Tcb : j # active_thread_index => pc'[j] = pc[j]
      PROVE  Execution'
  <2>1. active_thread_index' = n /\ \A j \in Tcb : state'[j] = IF j = n THEN "Running" ELSE st[j]
    BY <1>2 DEF SwitchTo
  <2>2. n # active_thread_index => pc[n] \in Resting \cup TickAt /\ pc[n] \notin Critical
    BY DEF Rest, Phases
  <2>3. pc'[n] \notin Labelled
    BY <1>2, <2>2 DEF SwitchUninterrupted, Resting, Critical, Labelled
  <2> QED
    BY <1>2, <2>1, <2>3 DEF Execution, Here
<1>3. CASE Switches
  <2>1. PICK n \in Tcb, st \in [Tcb -> States], k \in Nat :
          /\ IsNext(n, st, k) /\ SwitchTo(n, st)
          /\ \A j \in User : j # active_thread_index => st[j] = state[j]
          /\ active_thread_index \in User => st[active_thread_index] \in {"Waiting", "Defunct"}
    BY <1>3 DEF Switches
  <2>2. \A j \in User : st[j] \notin {"Running", "Blocked"}
    BY <2>1 DEF Execution
  <2> QED
    BY <1>2, <1>3, <2>1, <2>2 DEF Switches
<1>4. CASE Defines
  <2>1. active_thread_index = Main /\ active_thread_index' = Main /\ df[Main].slot \in User
    BY <1>4 DEF Defines
  <2>2. CASE UNCHANGED state
    BY <2>1, <2>2 DEF Execution
  <2>3. CASE DefineFill(Main)
    BY <2>1, <2>3 DEF Execution, DefineFill
  <2> QED
    BY <1>4, <2>2, <2>3 DEF Defines
<1>5. CASE Starts
  BY <1>5 DEF Starts, StartEnter, Enter, At, Running, Execution
<1>6. CASE Due
  <2> DEFINE st == [i \in Tcb |-> IF i \in Released(ChargedState) THEN "Ready" ELSE ChargedState[i]]
  <2>1. PICK n \in Tcb : IsNext(n, ChargedState, num_active_threads) /\ SwitchTo(n, st)
    BY <1>6, Zenon DEF Due, SysTick, PreemptPendSV
  <2>2. UNCHANGED pc
    BY <1>6 DEF Due, SysTick
  <2>3. \A j \in User : ChargedState[j] \notin {"Running", "Blocked"}
    BY DEF ChargedState, Execution
  <2>4. \A j \in User : st[j] \notin {"Running", "Blocked"}
    BY <2>3
  <2>5. active_thread_index' = n /\ \A j \in Tcb : state'[j] = IF j = n THEN "Running" ELSE st[j]
    BY <2>1 DEF SwitchTo
  <2>6. Here \in TickAt /\ Here \notin Critical
    BY <1>6, NoTickInCritical DEF Due, SysTick, Here
  <2>7. pc[n] \notin Labelled
    <3>1. n # active_thread_index => pc[n] \in Resting \cup TickAt /\ pc[n] \notin Critical
      BY DEF Rest, Phases
    <3> QED
      BY <2>6, <3>1 DEF SwitchUninterrupted, Resting, Critical, Labelled, Here
  <2> HIDE DEF st
  <2> QED
    BY <2>2, <2>4, <2>5, <2>7 DEF Execution, Here
<1> QED
  BY <1>1, <1>3, <1>4, <1>5, <1>6, StepKind

\* ... and with them what is proved of the scheduler, ...
LEMMA StepBase ==
  ASSUME NoLocking, FixedTasks, SwitchUninterrupted, CriticalUninterrupted, Base, [Next]_vars
  PROVE  Base'
<1>1. CountInv' /\ LockFree' /\ Rest'
  BY StepCountInv, LockFreeLive, StepLockFree, StepRest DEF Base, CountInv
<1>2. UrgentInv'
  BY StepUrgent, StepDefining DEF Base, CountInv, UrgentInv
<1>3. SysTick => \A m \in Locks : ~Listed(active_thread_index, m)
  BY DEF Base, LockFree, Listed, Elements
<1>4. Budget'
  BY <1>3, StepBudget DEF Base, CountInv
<1> QED
  BY <1>1, <1>2, <1>4, StepExecution DEF Base

\* The idle thread runs only while nobody else can.
LEMMA SwitchIdle ==
  ASSUME TInv, NEW n \in Tcb, NEW st, NEW k, IsNext(n, st, k), NEW st2 \in [Tcb -> States],
         SwitchTo(n, st2),
         \A j \in User : st[j] = "Ready" => dynamic_priority'[j] = dynamic_priority[j],
         \A j \in User : st2[j] = "Ready" /\ time_until_release'[j] # task'[j].t => st[j] = "Ready"
  PROVE  Idling'
<1> USE Constants DEF TInv, TypeOK
<1>1. SUFFICES ASSUME n = Idle, NEW j \in User, state'[j] = "Ready",
                      time_until_release'[j] # task'[j].t
               PROVE  dynamic_priority'[j] = Lowest
  BY DEF SwitchTo, Idling
<1>2. st[j] = "Ready" /\ dynamic_priority'[j] = dynamic_priority[j]
  BY <1>1 DEF SwitchTo
<1>3. j \notin Eligible(st)
  <2>1. Idle # Main
    BY DEF Idle, Main
  <2> QED
    BY <1>1, <2>1 DEF IsNext, Eligible
<1> QED
  BY <1>1, <1>2, <1>3 DEF Eligible, Lowest, TypeSync

\* Every step keeps that, ...
LEMMA StepIdling ==
  ASSUME NoLocking, FixedTasks, Base, Idling, [Next]_vars
  PROVE  Idling'
<1> USE Constants DEF Base, CountInv, TInv, TypeOK, TypeSwitch
<1>1. CASE Keeps
  BY <1>1 DEF Keeps, Idling, tcbVars
<1>2. CASE Switches
  <2>1. PICK n \in Tcb, st \in [Tcb -> States], k \in Nat :
          /\ IsNext(n, st, k) /\ SwitchTo(n, st)
          /\ active_thread_index \in User => st[active_thread_index] \in {"Waiting", "Defunct"}
    BY <1>2 DEF Switches
  <2>2. \A j \in User : st[j] = "Ready" => dynamic_priority'[j] = dynamic_priority[j]
    BY <1>2, <2>1 DEF Switches
  <2> QED
    BY <2>1, <2>2, SwitchIdle
<1>3. CASE Defines \/ Starts
  <2>1. active_thread_index' = Main
    BY <1>3 DEF Defines, Starts, StartEnter, Enter, At, Running
  <2> QED
    BY <2>1 DEF Idling, Main, Idle
<1>4. CASE Due
  <2> DEFINE st == [i \in Tcb |-> IF i \in Released(ChargedState) THEN "Ready" ELSE ChargedState[i]]
  <2>1. PICK n \in Tcb :
          /\ IsNext(n, ChargedState, num_active_threads) /\ SwitchTo(n, st)
          /\ time_until_release' =
               [i \in Tcb |-> IF i \in Released(ChargedState) THEN task[i].t
                              ELSE IF i \in Swept(ChargedState)
                                   THEN Dec(time_until_release[i])
                                   ELSE time_until_release[i]]
    BY <1>4, Zenon DEF Due, SysTick, PreemptPendSV
  <2>2. st \in [Tcb -> States]
    BY ChargedType DEF States
  <2>3. UNCHANGED <<task, dynamic_priority>>
    BY <1>4, Zenon DEF Due, SysTick, syncVars
  <2>4. \A j \in User : st[j] = "Ready" /\ time_until_release'[j] # task'[j].t
                        => ChargedState[j] = "Ready"
    BY <2>1, <2>3
  <2> HIDE DEF st
  <2> QED
    BY <2>1, <2>2, <2>3, <2>4, SwitchIdle
<1> QED
  BY <1>1, <1>2, <1>3, <1>4, StepKind

\* ... the priorities, ...
LEMMA StepOwn ==
  ASSUME NoLocking, FixedTasks, SwitchUninterrupted, CriticalUninterrupted, Base, Releases, Own,
         [Next]_vars
  PROVE  Own'
<1> USE Constants DEF Base, CountInv, TInv, TypeOK, TypeSwitch
<1>1. CASE Keeps
  BY <1>1 DEF Keeps, Own, tcbVars
<1>2. CASE Switches
  BY <1>2 DEF Switches, Own, tcbVars
<1>3. CASE Defines
  BY <1>3 DEF Defines, DefineFill, Own, syncVars
<1>4. CASE Starts
  BY <1>4 DEF Starts, StartEnter, Own, tcbVars
<1>5. CASE Due
  BY <1>5, DueTimes DEF Own
<1> QED
  BY <1>1, <1>2, <1>3, <1>4, <1>5, StepKind

\* ... the periods, ...
LEMMA StepReleases ==
  ASSUME NoLocking, FixedTasks, SwitchUninterrupted, CriticalUninterrupted, Base, Releases,
         [Next]_vars
  PROVE  Releases'
<1> USE Constants DEF Base, CountInv, TInv, TypeOK, TypeSwitch
<1>1. CASE Keeps
  BY <1>1 DEF Keeps, Releases, tcbVars
<1>2. CASE Switches
  BY <1>2 DEF Switches, Releases, tcbVars
<1>3. CASE Defines
  <2>1. CASE UNCHANGED <<task, time_until_release>>
    BY <2>1 DEF Releases
  <2>2. CASE DefineFill(Main)
    <3> DEFINE d == df[Main]
    <3>1. /\ d.slot \in User /\ d.task.t \in Nat
          /\ task' = [task EXCEPT ![d.slot] = d.task]
          /\ time_until_release' = [time_until_release EXCEPT ![d.slot] = d.task.t - 1]
      BY <2>2 DEF DefineFill, TypeFrame, Tasks
    <3> HIDE DEF d
    <3>2. \A j \in User : IF j = d.slot
                          THEN task'[j] = d.task /\ time_until_release'[j] = d.task.t - 1
                          ELSE task'[j] = task[j] /\ time_until_release'[j] = time_until_release[j]
      BY <3>1 DEF TypeKernel
    <3> QED
      BY <3>1, <3>2 DEF Releases
  <2> QED
    BY <1>3, <2>1, <2>2 DEF Defines
<1>4. CASE Starts
  BY <1>4 DEF Starts, StartEnter, Releases, tcbVars
<1>5. CASE Due
  <2> SUFFICES ASSUME NEW j \in User, task[j].t > 1
               PROVE  time_until_release'[j] \in 1 .. task[j].t
    BY <1>5, DueTimes DEF Releases
  <2>1. time_until_release[j] \in 1 .. task[j].t /\ task[j].t \in Nat
    BY Numbered DEF Releases
  <2>2. CASE state[j] = "Defunct"
    BY <1>5, <2>1, <2>2, DueTimes
  <2>3. CASE state[j] # "Defunct"
    BY <1>5, <2>1, <2>3, DueTimes DEF Live
  <2> QED
    BY <2>2, <2>3
<1> QED
  BY <1>1, <1>2, <1>3, <1>4, <1>5, StepKind

\* ... and, before the start, the computation times.
LEMMA StepFresh ==
  ASSUME NoLocking, FixedTasks, SwitchUninterrupted, CriticalUninterrupted, Base, Fresh,
         [Next]_vars
  PROVE  Fresh'
<1> SUFFICES ASSUME pc'[Main] \notin Starting, NEW j \in Live'
             PROVE  remaining_work'[j] = task'[j].c /\ time_until_release'[j] = task'[j].t - 1
  BY DEF Fresh
<1> USE Constants DEF Base, CountInv, TInv, TypeOK, TypeSwitch
<1>0. j \in User /\ state'[j] # "Defunct"
  BY DEF Live
<1>1. CASE Keeps
  <2>1. state[j] # "Defunct"
    BY <1>0, <1>1 DEF Keeps, Execution
  <2>2. pc[Main] \notin Starting
    <3>1. CASE pc[Main] \in Starting
      <4>1. active_thread_index = Main /\ pc[Main] = "join"
        BY <1>1, <3>1 DEF Keeps, Here
      <4>2. Live = {}
        BY <4>1, CountInvJoin DEF JoinSafety
      <4> QED
        BY <1>0, <2>1, <4>2 DEF Live
    <3> QED
      BY <3>1
  <2> QED
    BY <1>0, <1>1, <2>1, <2>2 DEF Keeps, Fresh, Live, tcbVars
<1>2. CASE Switches
  <2>1. pc[Main] \in Starting
    BY <1>2 DEF Switches, Phases
  <2>2. active_thread_index # Main
    BY <1>2 DEF Switches
  <2> QED
    BY <1>2, <2>1, <2>2 DEF Switches
<1>3. CASE Defines
  <2>1. CASE UNCHANGED <<state, task, remaining_work, time_until_release>>
    BY <1>0, <1>3, <2>1 DEF Defines, Fresh, Live
  <2>2. CASE DefineFill(Main)
    <3> DEFINE d == df[Main]
    <3>1. /\ d.slot \in User /\ d.task.t \in Nat
          /\ task' = [task EXCEPT ![d.slot] = d.task]
          /\ state' = [state EXCEPT ![d.slot] = "Ready"]
          /\ remaining_work' = [remaining_work EXCEPT ![d.slot] = d.task.c]
          /\ time_until_release' = [time_until_release EXCEPT ![d.slot] = d.task.t - 1]
      BY <2>2 DEF DefineFill, TypeFrame, Tasks
    <3> HIDE DEF d
    <3>2. CASE j = d.slot
      BY <1>0, <3>1, <3>2 DEF TypeKernel
    <3>3. CASE j # d.slot
      BY <1>0, <1>3, <3>1, <3>3 DEF TypeKernel, Defines, Fresh, Live
    <3> QED
      BY <3>2, <3>3
  <2> QED
    BY <1>3, <2>1, <2>2 DEF Defines
<1>4. CASE Starts
  BY <1>4 DEF Starts, StartEnter, Enter, Goto, Starting, TypeFrame
<1>5. CASE Due
  BY <1>5 DEF Due, SysTick, Phases
<1> QED
  BY <1>1, <1>2, <1>3, <1>4, <1>5, StepKind

\* What a tick that is due finds.
Settling == Base /\ Idling /\ Own /\ Releases

\* While a thread as urgent as i competes, one executes.
LEMMA BusyActive ==
  ASSUME SwitchUninterrupted, CriticalUninterrupted, Settling, Due,
         NEW i \in User, static_priority[i] < Lowest, ~Quiet(i)
  PROVE  active_thread_index \in Level(i)
<1> USE Constants DEF Settling, Base, CountInv
<1>1. PICK j \in Level(i) : Competes(j)
  BY DEF Quiet
<1>2. /\ j \in User /\ static_priority[j] <= static_priority[i]
      /\ static_priority[i] \in Nat /\ static_priority[j] \in Nat
      /\ dynamic_priority[j] = static_priority[j]
  BY <1>1, Numbered DEF Level, Own
<1>3. CASE j = active_thread_index
  BY <1>1, <1>3
<1>4. CASE j # active_thread_index
  <2>1. state[j] = "Ready" /\ time_until_release[j] # task[j].t
    BY <1>1, <1>2, <1>4 DEF Competes, Execution
  <2>2. Live # {}
    BY <1>2, <2>1 DEF Live
  <2>3. active_thread_index \in User \cup {Idle}
    BY <2>2, DueHere
  <2>4. active_thread_index # Idle
    BY <1>2, <2>1 DEF Idling, Lowest
  <2>5. active_thread_index \in User /\ Here \in Settled
    BY <2>3, <2>4, DueHere
  <2>6. /\ dynamic_priority[active_thread_index] <= dynamic_priority[j]
        /\ dynamic_priority[active_thread_index] = static_priority[active_thread_index]
        /\ static_priority[active_thread_index] \in Nat
    BY <1>2, <2>1, <2>5, Numbered DEF UrgentInv, Urgent, Own
  <2> QED
    BY <1>2, <2>5, <2>6 DEF Level
<1> QED
  BY <1>3, <1>4

\* What j has done at least after a tick more: as much, and one more if it executed, and
\* all that was left if its period restarts.
LEMMA TickProgress ==
  ASSUME SwitchUninterrupted, CriticalUninterrupted, Settling, Due, TInv',
         NEW j \in User, task[j].t > 1, NEW w \in Nat
  PROVE  LET before == task[j].c * Arrived(j, w) - Backlog(j)
             after  == task[j].c * Arrived(j, w + 1)' - Backlog(j)'
         IN /\ before \in Int /\ after \in Int /\ before <= after
            /\ j = active_thread_index => before + 1 <= after
            /\ time_until_release[j] = 1 => before + Backlog(j) <= after
<1> USE Constants DEF Settling, Base, CountInv
<1> DEFINE t == task[j].t
           c == task[j].c
           u == time_until_release[j]
<1>1. /\ task' = task
      /\ t \in Nat \ {0} /\ t > 1 /\ c \in Nat \ {0} /\ u \in 1 .. t
      /\ remaining_work[j] \in Nat /\ remaining_work'[j] \in Nat
  <2>1. remaining_work'[j] \in Nat
    BY DEF TInv, TypeOK, TypeKernel
  <2> QED
    BY <2>1, DueTimes, Numbered DEF Releases
<1>2. Backlog(j) \in Nat /\ Backlog(j) <= c
  BY <1>1 DEF Backlog, Competes, Budget, Funded
<1>3. /\ Arrived(j, w) = (w + (IF u = t THEN 0 ELSE u)) \div t
      /\ Arrived(j, w + 1)' =
           ((w + 1) + (IF time_until_release'[j] = t THEN 0 ELSE time_until_release'[j])) \div t
  BY <1>1 DEF Arrived, Left
<1>4. j = active_thread_index => state[j] = "Running" /\ remaining_work[j] >= 1
  BY DueHere
<1> HIDE DEF t, c, u
<1>5. Arrived(j, w) \in Nat
  <2>1. w + (IF u = t THEN 0 ELSE u) \in Nat
    BY <1>1
  <2> QED
    BY <1>1, <1>3, <2>1, Quotient, ZenonT(60)
<1> DEFINE q == Arrived(j, w)
<1>6. \A p \in Nat : c * p \in Nat /\ c * (p + 1) = c * p + c
  BY <1>1, ProductStep
<1> SUFFICES /\ Backlog(j)' \in Nat
             /\ \/ /\ Arrived(j, w + 1)' = q + 1
                   /\ Backlog(j)' <= c /\ Backlog(j) = 0 /\ u # 1
                   /\ j = active_thread_index => Backlog(j)' + 1 <= c
                \/ /\ Arrived(j, w + 1)' = q
                   /\ Backlog(j)' <= Backlog(j)
                   /\ j = active_thread_index => Backlog(j)' + 1 <= Backlog(j)
                   /\ u = 1 => Backlog(j)' = 0
                \/ /\ Arrived(j, w + 1)' \in Nat /\ Arrived(j, w + 1)' >= q
                   /\ Backlog(j)' = 0 /\ Backlog(j) = 0 /\ j # active_thread_index
  <2> DEFINE before == c * Arrived(j, w) - Backlog(j)
             after  == c * Arrived(j, w + 1)' - Backlog(j)'
             Goal == /\ before \in Int /\ after \in Int /\ before <= after
                     /\ j = active_thread_index => before + 1 <= after
                     /\ u = 1 => before + Backlog(j) <= after
  <2>1. PICK x \in Nat : x = c * Arrived(j, w)
    BY <1>5, <1>6
  <2>2. CASE /\ Arrived(j, w + 1)' = q + 1
             /\ Backlog(j)' <= c /\ Backlog(j) = 0 /\ u # 1
             /\ j = active_thread_index => Backlog(j)' + 1 <= c
    <3>1. c * Arrived(j, w + 1)' = x + c
      BY <1>5, <1>6, <2>1, <2>2
    <3>2. Goal
      BY <1>1, <2>1, <2>2, <3>1
    <3> QED
      BY <3>2 DEF c, u
  <2>3. CASE /\ Arrived(j, w + 1)' = q
             /\ Backlog(j)' <= Backlog(j)
             /\ j = active_thread_index => Backlog(j)' + 1 <= Backlog(j)
             /\ u = 1 => Backlog(j)' = 0
    <3>1. c * Arrived(j, w + 1)' = x
      BY <2>1, <2>3
    <3>2. Goal
      BY <1>1, <1>2, <2>1, <2>3, <3>1
    <3> QED
      BY <3>2 DEF c, u
  <2>4. CASE /\ Arrived(j, w + 1)' \in Nat /\ Arrived(j, w + 1)' >= q
             /\ Backlog(j)' = 0 /\ Backlog(j) = 0 /\ j # active_thread_index
    <3>1. c * Arrived(j, w + 1)' \in Nat /\ x <= c * Arrived(j, w + 1)'
      BY <1>1, <1>5, <1>6, <2>1, <2>4, ProductMonotone
    <3>2. Goal
      BY <2>1, <2>4, <3>1
    <3> QED
      BY <3>2 DEF c, u
  <2> QED
    BY <2>2, <2>3, <2>4
<1>7. CASE state[j] = "Defunct"
  <2>1. state'[j] = "Defunct" /\ time_until_release'[j] = u
    BY <1>7, DueTimes DEF u
  <2>2. Backlog(j)' = 0 /\ Backlog(j) = 0 /\ j # active_thread_index
    BY <1>4, <1>7, <2>1 DEF Backlog, Competes
  <2> DEFINE x == w + (IF u = t THEN 0 ELSE u)
  <2>3. x \in Nat /\ x <= x + 1 /\ x + 1 \in Nat
        /\ Arrived(j, w + 1)' = (x + 1) \div t /\ q = x \div t
    BY <1>1, <1>3, <2>1
  <2> HIDE DEF x, q
  <2>4. (x + 1) \div t \in Nat /\ x \div t <= (x + 1) \div t
    BY <1>1, <2>3, Quotient, QuotientMonotone
  <2> QED
    BY <2>2, <2>3, <2>4
<1>8. CASE state[j] # "Defunct" /\ u = 1
  <2>1. time_until_release'[j] = t
    BY <1>1, <1>8, DueTimes DEF Live, t, u
  <2>2. Backlog(j)' = 0
    BY <1>1, <2>1 DEF Backlog, Competes, t
  <2>3. Arrived(j, w + 1)' = q
    BY <1>1, <1>3, <1>8, <2>1
  <2>4. j = active_thread_index => Backlog(j) >= 1
    BY <1>1, <1>4, <1>8 DEF Backlog, Competes, t, u
  <2> QED
    BY <1>2, <2>2, <2>3, <2>4
<1>9. CASE state[j] # "Defunct" /\ u # 1
  <2>1. /\ time_until_release'[j] = u - 1
        /\ state'[j] \in Pending <=> ChargedState[j] \in Pending
        /\ remaining_work'[j] = ChargedWork[j]
    BY <1>1, <1>9, DueTimes DEF Live, t, u
  <2>2. Backlog(j)' = IF ChargedState[j] \in Pending THEN ChargedWork[j] ELSE 0
    BY <1>1, <2>1 DEF Backlog, Competes, Pending, t, u
  <2>3. IF j = active_thread_index
        THEN /\ ChargedWork[j] = remaining_work[j] - 1
             /\ ChargedState[j] = IF remaining_work[j] = 1 THEN "Waiting" ELSE "Ready"
        ELSE ChargedWork[j] = remaining_work[j] /\ ChargedState[j] = state[j]
    BY DueTimes
  <2>4. IF j = active_thread_index
        THEN Backlog(j)' = remaining_work[j] - 1 /\ state[j] \in Pending
        ELSE Backlog(j)' = IF state[j] \in Pending THEN remaining_work[j] ELSE 0
    BY <1>1, <1>4, <2>2, <2>3 DEF Pending
  <2>5. state[j] \in Pending => remaining_work[j] <= c
    BY DEF Pending, Budget, Funded, c
  <2>6. CASE u = t
    <3>1. Backlog(j) = 0
      BY <2>6 DEF Backlog, Competes, t, u
    <3>2. Arrived(j, w + 1)' = q + 1
      <4>1. q = w \div t /\ Arrived(j, w + 1)' = ((w + 1) + (t - 1)) \div t
        BY <1>1, <1>3, <2>1, <2>6
      <4>2. (w + 1) + (t - 1) = w + t
        BY <1>1
      <4> HIDE DEF q
      <4> QED
        BY <1>1, <4>1, <4>2, Quotient
    <3> QED
      BY <1>1, <1>4, <1>9, <2>4, <2>5, <3>1, <3>2
  <2>7. CASE u # t
    <3>1. Backlog(j) = IF state[j] \in Pending THEN remaining_work[j] ELSE 0
      BY <2>7 DEF Backlog, Competes, Pending, t, u
    <3>2. Arrived(j, w + 1)' = q
      <4>1. (w + 1) + (u - 1) = w + u /\ u - 1 # t
        BY <1>1, <2>7
      <4> QED
        BY <1>3, <2>1, <2>7, <4>1
    <3> QED
      BY <1>1, <1>4, <1>9, <2>4, <3>1, <3>2
  <2> QED
    BY <2>6, <2>7
<1> QED
  BY <1>7, <1>8, <1>9

-----------------------------------------------------------------------------
(* Response times: the windows. *)

\* The same for all that are as urgent as i.
LEMMA TickSum ==
  ASSUME SwitchUninterrupted, CriticalUninterrupted, Settling, Due, TInv',
         NEW i \in User, NEW R \in Nat \ {0}, Fits(i, R), NEW w \in Nat
  PROVE  /\ Progress(i, w) \in [User -> Int] /\ Progress(i, w + 1)' \in [User -> Int]
         /\ \A j \in User : Progress(i, w)[j] <= Progress(i, w + 1)'[j]
         /\ \A j \in Level(i) :
              /\ j = active_thread_index => Progress(i, w)[j] + 1 <= Progress(i, w + 1)'[j]
              /\ time_until_release[j] = 1 =>
                   Progress(i, w)[j] + Backlog(j) <= Progress(i, w + 1)'[j]
<1>0. TInv
  BY DEF Settling, Base, CountInv
<1>1. UNCHANGED <<task, static_priority>>
  BY DueTimes DEF Settling
<1>2. Level(i)' = Level(i)
  BY <1>1 DEF Level
<1>3. Progress(i, w) \in [User -> Int]
  BY <1>0, ProgressType
<1>4. Progress(i, w + 1)' \in [User -> Int]
  <2>1. ASSUME NEW j \in Level(i) PROVE task[j].c * Arrived(j, w + 1)' - Backlog(j)' \in Int
    <3>1. j \in User /\ task[j].t > 1
      BY <1>0, FitsPeriods DEF Level
    <3> QED
      BY <3>1, TickProgress
  <2> QED
    BY <1>1, <1>2, <2>1 DEF Progress
<1>5. ASSUME NEW j \in Level(i)
      PROVE  /\ Progress(i, w)[j] <= Progress(i, w + 1)'[j]
             /\ j = active_thread_index => Progress(i, w)[j] + 1 <= Progress(i, w + 1)'[j]
             /\ time_until_release[j] = 1 =>
                  Progress(i, w)[j] + Backlog(j) <= Progress(i, w + 1)'[j]
  <2>1. j \in User /\ task[j].t > 1
    BY <1>0, FitsPeriods DEF Level
  <2>2. /\ Progress(i, w)[j] = task[j].c * Arrived(j, w) - Backlog(j)
        /\ Progress(i, w + 1)'[j] = task[j].c * Arrived(j, w + 1)' - Backlog(j)'
    BY <1>1, <1>2, <2>1 DEF Progress
  <2> QED
    BY <2>1, <2>2, TickProgress
<1>6. ASSUME NEW j \in User, j \notin Level(i)
      PROVE  Progress(i, w)[j] <= Progress(i, w + 1)'[j]
  BY <1>2, <1>6 DEF Progress
<1> QED
  BY <1>3, <1>4, <1>5, <1>6

\* What fits after a step that changes no task and no priority did before.
LEMMA FitsSame ==
  ASSUME UNCHANGED <<task, static_priority>>, NEW i, NEW R
  PROVE  Level(i)' = Level(i) /\ Needs(i, R)' = Needs(i, R) /\ Fits(i, R)' = Fits(i, R)
<1>1. Level(i)' = Level(i)
  BY DEF Level
<1>2. Needs(i, R)' = Needs(i, R)
  BY <1>1 DEF Needs
<1> QED
  BY <1>1, <1>2 DEF Fits

\* A tick leaves them with nothing to do, or busy for one tick or one more.
LEMMA TickWindows ==
  ASSUME SwitchUninterrupted, CriticalUninterrupted, Settling, Windows, Due,
         TInv', Releases', Budget'
  PROVE  Windows'
<1>0. TInv /\ systick_on /\ UNCHANGED <<task, static_priority>>
  BY DueTimes DEF Settling, Base, CountInv, Due, SysTick
<1> SUFFICES ASSUME NEW i \in User, NEW R \in Nat \ {0}, Fits(i, R)
             PROVE  Quiet(i)' \/ \E w \in 1 .. R - 1 : Busy(i, w)'
  BY <1>0, FitsSame DEF Windows
<1>1. /\ R \in Nat /\ R >= 2 /\ task[i].t > 1 /\ task[i].t \in Nat
      /\ i \in Level(i) /\ Level(i) \subseteq User
      /\ time_until_release[i] \in 1 .. task[i].t
      /\ static_priority[i] < Lowest
  BY <1>0, FitsPeriods, Numbered DEF Settling, Releases, Fits
\* How long i has competed.
<1>2. ASSUME NEW w \in Nat, Competes(i) => task[i].t - time_until_release[i] <= w,
             Competes(i)'
      PROVE  task'[i].t - time_until_release'[i] <= w + 1
  <2>1. state'[i] \in Pending /\ time_until_release'[i] # task[i].t
    BY <1>0, <1>2 DEF Competes, Pending
  <2>2. i \in Live
    BY <2>1, DueTimes DEF Settling, Live, Pending
  <2>3. /\ time_until_release'[i] = time_until_release[i] - 1
        /\ ChargedState[i] \in Pending
    BY <1>1, <2>1, <2>2, DueTimes DEF Settling
  <2>4. state[i] \in Pending
    BY <2>3, DueTimes, DueHere DEF Settling, Pending
  <2> QED
    BY <1>0, <1>1, <1>2, <2>3, <2>4 DEF Competes, Pending
<1>3. CASE Quiet(i)
  <2>1. PICK z \in Nat : z = 0
    OBVIOUS
  <2>2. \A j \in User : 0 <= Progress(i, z)[j]
    <3>1. ASSUME NEW j \in Level(i) PROVE 0 <= task[j].c * Arrived(j, z) - Backlog(j)
      <4>1. Backlog(j) = 0
        BY <1>3 DEF Quiet, Backlog
      <4>2. Arrived(j, z) \in Nat
        <5>1. z + Left(j) \in Nat /\ task[j].t \in Nat \ {0}
          BY <1>0, <1>1, Numbered
        <5> QED
          BY <5>1, Quotient DEF Arrived
      <4>3. task[j].c \in Nat
        BY <1>0, <1>1, Numbered
      <4>4. task[j].c * Arrived(j, z) \in Nat
        BY <4>2, <4>3
      <4> QED
        BY <4>1, <4>4
    <3> QED
      BY <3>1 DEF Progress
  <2>3. /\ Progress(i, z) \in [User -> Int] /\ Progress(i, z + 1)' \in [User -> Int]
        /\ \A j \in User : Progress(i, z)[j] <= Progress(i, z + 1)'[j]
    BY TickSum
  <2>4. \A j \in User : Progress(i, z + 1)'[j] >= 0
    BY <2>2, <2>3
  <2>5. \A f : IsSum(f, Progress(i, z + 1)') => f[N - 1] >= 0
    BY <2>3, <2>4, SumNatural
  <2>6. Competes(i)' => task'[i].t - time_until_release'[i] <= z + 1
    <3>1. ~Competes(i)
      BY <1>1, <1>3 DEF Quiet
    <3> QED
      BY <1>2, <3>1
  <2>7. Busy(i, z + 1)'
    BY <2>1, <2>5, <2>6 DEF Busy, IsSum
  <2> QED
    BY <1>1, <2>1, <2>7
<1>4. CASE ~Quiet(i)
  <2>1. PICK w \in 1 .. R - 1 : Busy(i, w)
    BY <1>0, <1>4 DEF Windows
  <2>2. active_thread_index \in Level(i)
    BY <1>1, <1>4, BusyActive
  <2>3. w \in Nat /\ w >= 1 /\ w <= R - 1
    BY <1>1, <2>1
  <2>4. /\ Progress(i, w) \in [User -> Int] /\ Progress(i, w + 1)' \in [User -> Int]
        /\ \A j \in User : Progress(i, w)[j] <= Progress(i, w + 1)'[j]
        /\ Progress(i, w)[active_thread_index] + 1 <= Progress(i, w + 1)'[active_thread_index]
    BY <2>2, <2>3, TickSum
  <2>5. ASSUME NEW e, IsSum(e, Progress(i, w + 1)') PROVE e[N - 1] >= (w + 1) - 1
    <3>1. PICK f : IsSum(f, Progress(i, w))
      BY <2>4, SumExists
    <3>2. PICK x \in Int : x = 1
      OBVIOUS
    <3>3. active_thread_index \in User
      BY <1>1, <2>2
    <3>4. Progress(i, w)[active_thread_index] + x <= Progress(i, w + 1)'[active_thread_index]
      BY <2>4, <3>2
    <3> DEFINE g == Progress(i, w)
               h == Progress(i, w + 1)'
               a == active_thread_index
    <3>5. /\ g \in [User -> Int] /\ h \in [User -> Int] /\ \A j \in User : g[j] <= h[j]
          /\ a \in User /\ g[a] + x <= h[a] /\ IsSum(f, g) /\ IsSum(e, h)
      BY <2>4, <2>5, <3>1, <3>3, <3>4
    <3> HIDE DEF g, h, a
    <3>6. f[N - 1] \in Int /\ e[N - 1] \in Int /\ f[N - 1] + x <= e[N - 1]
      BY <3>2, <3>5, SumGain
    <3>7. f[N - 1] >= w - 1
      BY <2>1, <3>1 DEF Busy
    <3> QED
      BY <2>3, <3>2, <3>6, <3>7
  <2>6. Competes(i)' => task'[i].t - time_until_release'[i] <= w + 1
    BY <1>2, <2>1, <2>3 DEF Busy
  <2>7. CASE w + 1 <= R - 1
    <3>1. Busy(i, w + 1)'
      BY <2>5, <2>6 DEF Busy, IsSum
    <3> QED
      BY <1>1, <2>3, <2>7, <3>1
  <2>8. CASE w + 1 = R
    <3>1. \A f : IsSum(f, Progress(i, R)') => f[N - 1] >= R - 1
      BY <2>5, <2>8
    <3>2. Fits(i, R)'
      BY <1>0, FitsSame
    <3>3. EndsQuiet'
      BY WindowEnds, PTL
    <3> QED
      BY <3>1, <3>2, <3>3 DEF EndsQuiet, IsSum
  <2> QED
    BY <1>1, <2>3, <2>7, <2>8
<1> QED
  BY <1>3, <1>4

\* A step between ticks takes no work away from anybody but by giving it up.
LEMMA CalmWindows ==
  ASSUME TInv, Windows, UNCHANGED tcbVars, systick_on' => systick_on,
         \A j \in User : state'[j] \in Pending => state[j] \in Pending
  PROVE  Windows'
<1> SUFFICES ASSUME systick_on', NEW i \in User, NEW R \in Nat \ {0}, Fits(i, R)
             PROVE  Quiet(i)' \/ \E w \in 1 .. R - 1 : Busy(i, w)'
  BY FitsSame DEF Windows, tcbVars
<1>1. Level(i)' = Level(i) /\ Level(i) \subseteq User /\ i \in Level(i)
  BY FitsSame, Numbered DEF tcbVars
<1>2. \A j \in User : Competes(j)' => Competes(j)
  BY DEF Competes, Pending, tcbVars
<1>3. CASE Quiet(i)
  BY <1>1, <1>2, <1>3 DEF Quiet
<1>4. ASSUME NEW w \in 1 .. R - 1, Busy(i, w) PROVE Busy(i, w)'
  <2>1. w \in Nat
    OBVIOUS
  <2>2. ASSUME NEW j \in Level(i)
        PROVE  /\ task[j].c * Arrived(j, w) - Backlog(j) \in Int
               /\ task[j].c * Arrived(j, w)' - Backlog(j)' \in Int
               /\ task[j].c * Arrived(j, w) - Backlog(j) <= task[j].c * Arrived(j, w)' - Backlog(j)'
    <3>1. j \in User /\ task[j].c \in Nat /\ task[j].t \in Nat \ {0} /\ w + Left(j) \in Nat
          /\ remaining_work[j] \in Nat
      BY <1>1, <2>1, Numbered
    <3>2. Arrived(j, w)' = Arrived(j, w) /\ Arrived(j, w) \in Nat
      BY <3>1, Quotient DEF Arrived, Left, tcbVars
    <3>3. Backlog(j) \in Nat /\ Backlog(j)' \in {0, Backlog(j)}
      BY <1>2, <3>1 DEF Backlog, tcbVars
    <3>4. task[j].c * Arrived(j, w) \in Nat
      BY <3>1, <3>2
    <3> QED
      BY <3>2, <3>3, <3>4
  <2>3. /\ Progress(i, w) \in [User -> Int] /\ Progress(i, w)' \in [User -> Int]
        /\ \A j \in User : Progress(i, w)[j] <= Progress(i, w)'[j]
    BY <1>1, <2>2 DEF Progress, tcbVars
  <2>4. ASSUME NEW e, IsSum(e, Progress(i, w)') PROVE e[N - 1] >= w - 1
    <3>1. PICK f : IsSum(f, Progress(i, w))
      BY <2>3, SumExists
    <3>2. f[N - 1] \in Int /\ e[N - 1] \in Int /\ f[N - 1] <= e[N - 1]
      BY <2>3, <2>4, <3>1, SumMonotone
    <3>3. f[N - 1] >= w - 1
      BY <1>4, <3>1 DEF Busy
    <3> QED
      BY <2>1, <3>2, <3>3
  <2>5. Competes(i)' => task'[i].t - time_until_release'[i] <= w
    BY <1>2, <1>4 DEF Busy, tcbVars
  <2> QED
    BY <2>4, <2>5 DEF Busy, IsSum
<1> QED
  BY <1>3, <1>4 DEF Windows

\* The start opens a window of one tick.
LEMMA StartWindows ==
  ASSUME TInv, Budget, Fresh, Starts
  PROVE  Windows'
<1>1. /\ UNCHANGED <<task, static_priority, remaining_work, time_until_release, state>>
      /\ pc[Main] \notin Starting
  BY DEF Starts, StartEnter, Enter, At, Running, tcbVars, Starting
<1> SUFFICES ASSUME NEW i \in User, NEW R \in Nat \ {0}, Fits(i, R)
             PROVE  \E w \in 1 .. R - 1 : Busy(i, w)'
  BY <1>1, FitsSame DEF Windows
<1>2. Level(i)' = Level(i) /\ Level(i) \subseteq User /\ R >= 2
  BY <1>1, FitsSame, FitsPeriods, Numbered
<1>3. PICK w \in 1 .. R - 1 : w = 1
  BY <1>2
<1>4. \A j \in User : Competes(j) =>
        /\ remaining_work[j] = task[j].c /\ time_until_release[j] = task[j].t - 1
  BY <1>1 DEF Competes, Fresh, Live
<1>5. ASSUME NEW j \in Level(i) PROVE task[j].c * Arrived(j, w)' - Backlog(j)' >= 0
                                      /\ task[j].c * Arrived(j, w)' - Backlog(j)' \in Int
  <2>1. /\ j \in User /\ task[j].c \in Nat /\ task[j].t \in Nat \ {0} /\ w + Left(j) \in Nat
        /\ w \in Nat
    BY <1>2, Numbered
  <2>2. Arrived(j, w)' = Arrived(j, w) /\ Arrived(j, w) \in Nat /\ Backlog(j)' = Backlog(j)
    BY <1>1, <2>1, Quotient DEF Arrived, Left, Backlog, Competes
  <2>3. CASE Competes(j)
    <3>1. w + Left(j) = task[j].t
      BY <1>3, <1>4, <2>1, <2>3 DEF Left
    <3>2. Arrived(j, w) = 1
      BY <2>1, <3>1, QuotientOne DEF Arrived
    <3> QED
      BY <1>4, <2>1, <2>2, <2>3, <3>2 DEF Backlog
  <2>4. CASE ~Competes(j)
    <3>1. task[j].c * Arrived(j, w) \in Nat /\ Backlog(j) = 0
      BY <2>1, <2>2, <2>4 DEF Backlog
    <3> QED
      BY <2>2, <3>1
  <2> QED
    BY <2>3, <2>4
<1>6. Progress(i, w)' \in [User -> Int] /\ \A j \in User : Progress(i, w)'[j] >= 0
  BY <1>1, <1>2, <1>5 DEF Progress
<1>7. \A f : IsSum(f, Progress(i, w)') => f[N - 1] >= w - 1
  <2>1. \A f : IsSum(f, Progress(i, w)') => f[N - 1] >= 0
    BY <1>6, SumNatural
  <2> QED
    BY <1>3, <2>1
<1>8. Competes(i)' => task'[i].t - time_until_release'[i] <= w
  <2>1. Competes(i)' => Competes(i)
    BY <1>1 DEF Competes
  <2>2. task[i].t \in Nat
    BY Numbered
  <2> QED
    BY <1>1, <1>3, <1>4, <2>1, <2>2
<1> QED
  BY <1>7, <1>8 DEF Busy, IsSum

\* Every step keeps the windows.
LEMMA StepWindows ==
  ASSUME NoLocking, FixedTasks, SwitchUninterrupted, CriticalUninterrupted,
         Settling, Fresh, Windows, Settling', [Next]_vars
  PROVE  Windows'
<1> USE DEF Settling, Base, CountInv
<1>1. CASE Keeps
  <2>1. \A j \in User : state'[j] \in Pending => state[j] \in Pending
    BY <1>1, Constants DEF Keeps, Pending, TInv, TypeOK, TypeSwitch
  <2> QED
    BY <1>1, <2>1, CalmWindows DEF Keeps
<1>2. CASE Switches
  <2>1. PICK n \in Tcb, st \in [Tcb -> States], k \in Nat :
          /\ IsNext(n, st, k) /\ SwitchTo(n, st)
          /\ \A j \in User : j # active_thread_index => st[j] = state[j]
          /\ active_thread_index \in User => st[active_thread_index] \in {"Waiting", "Defunct"}
    BY <1>2 DEF Switches
  <2>2. /\ \A j \in Tcb : state'[j] = IF j = n THEN "Running" ELSE st[j]
        /\ n \in User => st[n] = "Ready"
    BY <2>1, NextLive DEF SwitchTo
  <2>3. \A j \in User : state'[j] \in Pending => state[j] \in Pending
    BY <2>1, <2>2, Constants DEF Pending
  <2> QED
    BY <1>2, <2>3, CalmWindows DEF Switches
<1>3. CASE Defines
  BY <1>3 DEF Defines, Windows
<1>4. CASE Starts
  BY <1>4, StartWindows
<1>5. CASE Due
  BY <1>5, TickWindows
<1> QED
  BY <1>1, <1>2, <1>3, <1>4, <1>5, StepKind

\* Sums of the same summands are the same.
LEMMA SumUnique ==
  ASSUME NEW g \in [User -> Int], NEW f, NEW e, IsSum(f, g), IsSum(e, g)
  PROVE  f[N - 1] \in Int /\ e[N - 1] = f[N - 1]
<1>1. \A i \in User : g[i] <= g[i]
  OBVIOUS
<1>2. f[N - 1] \in Int /\ e[N - 1] \in Int /\ f[N - 1] <= e[N - 1]
  BY <1>1, SumMonotone
<1>3. e[N - 1] <= f[N - 1]
  BY <1>1, SumMonotone
<1> QED
  BY <1>2, <1>3

\* The test is that the work fits.
LEMMA DemandFits ==
  ASSUME TInv, NEW i \in User, Responsive(i)
  PROVE  \E R \in Nat \ {0} : R <= task[i].t /\ Fits(i, R)
<1>1. PICK R \in 1 .. task[i].t : Demand(i, R) < R
  BY DEF Responsive
<1>2. R \in Nat \ {0} /\ R <= task[i].t
  BY Numbered
<1> DEFINE sum[k \in -1 .. N - 1] ==
             IF k = -1 THEN 0
             ELSE sum[k - 1] + (IF k \in Level(i)
                                THEN task[k].c * ((R + task[k].t - 1) \div task[k].t)
                                ELSE 0)
<1>3. Demand(i, R) = sum[N - 1]
  BY DEF Demand
<1>4. PICK e : IsSum(e, Needs(i, R))
  BY <1>2, NeedsType, SumExists
<1>5. \A k \in -1 .. N - 1 : k # -1 => k \in User
  BY Constants DEF User
<1>6. e = [k \in -1 .. N - 1 |->
             IF k = -1 THEN 0
             ELSE e[k - 1] + (IF k \in Level(i)
                              THEN task[k].c * ((R + task[k].t - 1) \div task[k].t) ELSE 0)]
  BY <1>4, <1>5 DEF IsSum, Needs
<1>7. sum = [k \in -1 .. N - 1 |->
               IF k = -1 THEN 0
               ELSE sum[k - 1] + (IF k \in Level(i)
                                  THEN task[k].c * ((R + task[k].t - 1) \div task[k].t) ELSE 0)]
  BY <1>6, Zenon
<1> HIDE DEF sum
<1>8. IsSum(sum, Needs(i, R))
  BY <1>5, <1>7 DEF IsSum, Needs
<1>9. \A f : IsSum(f, Needs(i, R)) => f[N - 1] < R
  <2> SUFFICES ASSUME NEW f, IsSum(f, Needs(i, R)) PROVE f[N - 1] < R
    OBVIOUS
  <2>1. f[N - 1] = sum[N - 1]
    BY <1>2, <1>8, NeedsType, SumUnique
  <2> QED
    BY <1>1, <1>3, <2>1
<1> QED
  BY <1>2, <1>9 DEF Fits, Responsive

\* Only a tick that is due restarts a period.
LEMMA RestartTicks ==
  ASSUME NoLocking, FixedTasks, Settling, [Next]_vars, NEW i \in Live, Restarts(i)
  PROVE  Due /\ systick_on
<1> USE DEF Settling, Base, CountInv
<1>1. /\ i \in User /\ state[i] # "Defunct" /\ task[i].t \in Nat /\ task[i].t > 1
      /\ time_until_release[i] = 1 /\ time_until_release'[i] = task[i].t
  BY Numbered DEF Live, Restarts
<1>2. Due
  <2>1. CASE UNCHANGED time_until_release
    BY <1>1, <2>1
  <2>2. CASE Defines /\ ~UNCHANGED time_until_release
    <3>1. DefineFill(Main) /\ active_thread_index = Main
      BY <2>2 DEF Defines
    <3>2. state[df[Main].slot] = "Defunct"
      BY <3>1 DEF Phases, Here, Slot, DefineFill, At
    <3>3. time_until_release'[i] = time_until_release[i]
      BY <1>1, <3>1, <3>2, Constants DEF DefineFill, TInv, TypeOK, TypeKernel
    <3> QED
      BY <1>1, <3>3
  <2> QED
    BY <2>1, <2>2, StepKind DEF Keeps, Switches, Starts, StartEnter, tcbVars
<1> QED
  BY <1>2 DEF Due, SysTick

\* When the period of a thread whose work fits restarts, the thread has done it.
LEMMA RestartMeets ==
  ASSUME NoLocking, FixedTasks, SwitchUninterrupted, CriticalUninterrupted,
         Settling, Windows, Settling', [Next]_vars,
         NEW i \in Live, NEW R \in Nat \ {0}, R <= task[i].t, Fits(i, R), Restarts(i)
  PROVE  ChargedState[i] = "Waiting"
<1> USE DEF Settling, Base, CountInv
<1>1. /\ i \in User /\ state[i] # "Defunct" /\ task[i].t \in Nat /\ task[i].t > 1
      /\ time_until_release[i] = 1 /\ time_until_release'[i] = task[i].t
  BY Numbered DEF Live, Restarts
<1>2. Due
  BY RestartTicks
<1> SUFFICES ASSUME ChargedState[i] # "Waiting" PROVE FALSE
  OBVIOUS
<1>3. /\ i \in Level(i) /\ Level(i) \subseteq User /\ static_priority[i] < Lowest
      /\ UNCHANGED <<task, static_priority>> /\ systick_on
  BY <1>1, <1>2, Numbered, DueTimes DEF Fits, Due, SysTick
<1>4. IF i = active_thread_index
      THEN state[i] = "Running" /\ remaining_work[i] >= 2
      ELSE state[i] = "Ready" /\ remaining_work[i] >= 1
  <2>1. CASE i = active_thread_index
    <3>1. state[i] = "Running" /\ remaining_work[i] >= 1 /\ remaining_work[i] # 1
          /\ remaining_work[i] \in Nat
      BY <1>1, <1>2, <2>1, DueHere, DueTimes, Numbered
    <3> QED
      BY <2>1, <3>1
  <2>2. CASE i # active_thread_index
    <3>1. ChargedState[i] = state[i]
      BY <1>1, <1>2, <2>2, DueTimes
    <3>2. state[i] = "Ready"
      BY <1>1, <2>2, <3>1, Constants DEF Execution, TInv, TypeOK, TypeSwitch, States
    <3> QED
      BY <1>1, <2>2, <3>2, Numbered DEF Budget, Funded
  <2> QED
    BY <2>1, <2>2
<1>5. Competes(i) /\ Backlog(i) = remaining_work[i] /\ remaining_work[i] \in Nat
  BY <1>1, <1>4, Numbered DEF Competes, Backlog
<1>6. PICK w \in 1 .. R - 1 : Busy(i, w)
  BY <1>1, <1>3, <1>5 DEF Windows, Quiet
<1>7. w \in Nat /\ w + 1 = R
  BY <1>1, <1>5, <1>6 DEF Busy
<1>8. active_thread_index \in Level(i)
  BY <1>2, <1>3, <1>5, BusyActive DEF Quiet
<1> DEFINE g == Progress(i, w)
           h == Progress(i, w + 1)'
           a == active_thread_index
<1>9. /\ g \in [User -> Int] /\ h \in [User -> Int]
      /\ \A j \in User : g[j] <= h[j]
      /\ g[a] + 1 <= h[a] /\ g[i] + Backlog(i) <= h[i]
      /\ a \in User
  BY <1>1, <1>2, <1>3, <1>7, <1>8, TickSum
<1>10. PICK f, e : IsSum(f, g) /\ IsSum(e, h)
  BY <1>9, SumExists
<1>11. f[N - 1] >= w - 1
  BY <1>6, <1>10 DEF Busy
<1> HIDE DEF g, h, a
<1>12. f[N - 1] \in Int /\ e[N - 1] \in Int /\ f[N - 1] + 2 <= e[N - 1]
  <2>1. CASE a = i
    <3>1. PICK x \in Int : x = 2
      OBVIOUS
    <3>2. g[a] \in Int /\ h[a] \in Int /\ Backlog(i) \in Nat /\ Backlog(i) >= 2
      BY <1>4, <1>5, <1>9, <2>1 DEF a
    <3>3. g[a] + x <= h[a]
      BY <1>9, <2>1, <3>1, <3>2
    <3> QED
      BY <1>9, <1>10, <3>1, <3>3, SumGain
  <2>2. CASE a # i
    <3>1. g[i] \in Int /\ h[i] \in Int /\ Backlog(i) \in Nat /\ Backlog(i) >= 1
      BY <1>1, <1>4, <1>5, <1>9, <2>2 DEF a
    <3>2. g[i] + 1 <= h[i]
      BY <1>9, <3>1
    <3> QED
      BY <1>1, <1>9, <1>10, <2>2, <3>2, SumGainTwo
  <2> QED
    BY <2>1, <2>2
<1>13. e[N - 1] < R
  <2>1. NoMore' /\ Fits(i, R)' /\ Needs(i, R)' = Needs(i, R)
    <3>1. NoMore'
      BY Closing, PTL
    <3> QED
      BY <1>3, <3>1, FitsSame
  <2>2. \A j \in User : h[j] <= Needs(i, R)[j]
    BY <1>1, <1>7, <2>1 DEF NoMore, h
  <2>3. Needs(i, R) \in [User -> Int]
    BY <1>1, NeedsType
  <2>4. PICK d : IsSum(d, Needs(i, R))
    BY <2>3, SumExists
  <2>5. d[N - 1] \in Int /\ e[N - 1] <= d[N - 1] /\ d[N - 1] < R
    BY <1>9, <1>10, <2>2, <2>3, <2>4, SumMonotone DEF Fits
  <2> QED
    BY <1>12, <2>5
<1> QED
  BY <1>7, <1>11, <1>12, <1>13

\* The inductive invariant of the response times.
Response == Settling /\ Fresh /\ Windows

\* It holds initially: there is no thread.
LEMMA InitResponse == Init => Response
<1> SUFFICES ASSUME Init PROVE Response
  OBVIOUS
<1> USE Constants DEF Init
<1>1. CountInv /\ LockFree /\ Budget /\ TInv
  BY InitCountInv, InitLockFree, InitBudget, InitTInv
<1>2. UrgentInv
  BY DEF UrgentInv, Urgent, Defining
<1>3. Rest
  BY DEF Rest, Resting
<1>4. /\ \A j \in User : state[j] = "Defunct" /\ task[j] = NoTask
      /\ active_thread_index = Main
  BY DEF Idle, Main, User, Tcb
<1>5. Execution /\ Idling /\ Own /\ Releases
  <2>1. Main # Idle
    BY DEF Idle, Main
  <2> QED
    BY <1>4, <2>1 DEF Execution, Idling, Own, Releases, NoTask
<1>6. Fresh /\ Windows
  BY <1>4 DEF Fresh, Windows, Live
<1> QED
  BY <1>1, <1>2, <1>3, <1>5, <1>6 DEF Response, Settling, Base

\* Every step keeps it.
LEMMA StepResponse ==
  ASSUME NoLocking, FixedTasks, SwitchUninterrupted, CriticalUninterrupted, Response, [Next]_vars
  PROVE  Response'
<1>1. Settling' /\ Fresh'
  BY StepBase, StepIdling, StepOwn, StepReleases, StepFresh DEF Response, Settling
<1> QED
  BY <1>1, StepWindows DEF Response

\* A thread that passes the response-time test has done the work of a period, or has
\* yielded the rest, when the period restarts (ResponseMet): of any number of tasks,
\* computation times and periods, and whatever the less urgent threads do, if the
\* programs take no locks, only main defines threads, and no tick expires in the last
\* piece of thread_end or between a label and its switch.
THEOREM ResponseTimes ==
  ASSUME NoLocking, FixedTasks, SwitchUninterrupted, CriticalUninterrupted
  PROVE  Spec => ResponseMet
<1>1. Response /\ [Next]_vars => Response'
  BY StepResponse
<1>2. ASSUME Response, Response', [Next]_vars
      PROVE  \A i \in Live : Responsive(i) /\ Restarts(i) => ChargedState[i] = "Waiting"
  <2> SUFFICES ASSUME NEW i \in Live, Responsive(i), Restarts(i) PROVE ChargedState[i] = "Waiting"
    OBVIOUS
  <2>1. PICK R \in Nat \ {0} : R <= task[i].t /\ Fits(i, R)
    BY <1>2, DemandFits DEF Response, Settling, Base, CountInv, Live
  <2> QED
    BY <1>2, <2>1, RestartMeets DEF Response
<1>3. Response /\ Response' /\ [Next]_vars =>
        [\A i \in Live : Responsive(i) /\ Restarts(i) => ChargedState[i] = "Waiting"]_vars
  BY <1>2
<1> QED
  BY <1>1, <1>3, InitResponse, PTL DEF Spec, ResponseMet

\* No thread misses a deadline (DeadlineMet) where every thread that is admitted passes
\* the test.  That it does is a condition on the task set, which thread_define does not
\* check: it tests the utilizations alone (multitask.c:445).
THEOREM Deadlines ==
  ASSUME NoLocking, FixedTasks, SwitchUninterrupted, CriticalUninterrupted
  PROVE  Spec /\ []Schedulable => DeadlineMet
<1>1. Response /\ [Next]_vars => Response'
  BY StepResponse
<1>2. ASSUME Response, Response', Schedulable, [Next]_vars
      PROVE  \A i \in Live : Restarts(i) => ChargedState[i] = "Waiting"
  <2> SUFFICES ASSUME NEW i \in Live, Restarts(i) PROVE ChargedState[i] = "Waiting"
    OBVIOUS
  <2>1. systick_on
    BY <1>2, RestartTicks DEF Response
  <2>2. PICK R \in Nat \ {0} : R <= task[i].t /\ Fits(i, R)
    BY <1>2, <2>1, DemandFits DEF Response, Settling, Base, CountInv, Live, Schedulable
  <2> QED
    BY <1>2, <2>2, RestartMeets DEF Response
<1>3. Response /\ Response' /\ Schedulable /\ [Next]_vars =>
        [\A i \in Live : Restarts(i) => ChargedState[i] = "Waiting"]_vars
  BY <1>2
<1> QED
  BY <1>1, <1>3, InitResponse, PTL DEF Spec, DeadlineMet
=============================================================================
