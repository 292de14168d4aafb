------------------------------ MODULE Multitask ------------------------------
(***************************************************************************)
(* The multitasking kernel: kernel/src/multitask.c with the mutex type of  *)
(* mutex.c, the tick of systick.c, the SVC entry and exit of syscall.c and *)
(* the fault path of mpu.c.                                                *)
(*                                                                         *)
(* There is one core.  The thread at active_thread_index executes; its     *)
(* control state is pc.  A system call runs in the SVC handler, which has  *)
(* the lowest exception priority, so SysTick (and the PendSV it pends)     *)
(* comes between any two of its statements that are not bracketed by       *)
(* disable_interrupts/enable_interrupts.  Each action below is a piece of  *)
(* a handler that no other thread can observe in the middle, or that runs  *)
(* with FAULTMASK set; PendSV itself is never preempted by SysTick (both   *)
(* have priority 1) and is part of the action that pends it.               *)
(*                                                                         *)
(* The initial state is the one a successful syscall_multitask_request     *)
(* leaves.                                                                 *)
(***************************************************************************)
EXTENDS Integers, Sequences, FiniteSets

CONSTANTS
  N,              \* num_user_threads: the threads requested
  NumLocks,       \* num_user_locks: the locks requested
  TaskSet,        \* the (id, c, t) arguments thread_define is called with
  Scale,          \* utilization is counted in 1/Scale
  WordMax,        \* the largest uint32_t
  MaxBlocked,     \* capacity of blocked_threads (MAX_NUM_THREADS)
  Bins,           \* SysTick wraps per tick that a frequency needs; 0: freq 0
  Calls,          \* the system calls the user program makes
  TickAt,         \* the labels of pc at which SysTick may expire
  ThreadProtect   \* protection_status = THREAD_PROTECT

User  == 0 .. N - 1
Idle  == N
Main  == N + 1
Tcb   == 0 .. N + 1
Locks == 1 .. NumLocks
NoLock == 0          \* a null mutex_t*
Nobody == -1         \* a null tcb_t*
AllStacks == N + 2   \* one region over all stacks (KERNEL_PROTECT)
Lowest == WordMax    \* priority 0xFFFFFFFF: lower than every thread's

\* Where a thread can be: in its program, or before a piece of a handler.
Labels == {"user", "ret", "yieldPend", "lock", "lockPend", "wake", "reset",
           "unlockPend", "end", "endDec", "endPend", "fill", "frames", "count",
           "clear", "assign", "startPend", "join"}

Tasks == [id : 0 .. WordMax, c : 1 .. WordMax, t : 1 .. WordMax]

ASSUME NAssumption == N \in 1 .. 14
ASSUME NumLocksAssumption == NumLocks \in 0 .. 32
ASSUME WordMaxAssumption == WordMax \in Nat /\ WordMax >= 15
ASSUME TaskSetAssumption == TaskSet \subseteq Tasks
ASSUME ScaleAssumption == Scale \in Nat \ {0}
ASSUME MaxBlockedAssumption == MaxBlocked \in Nat \ {0}
ASSUME BinsAssumption == Bins \subseteq 0 .. 255
ASSUME TickAtAssumption == TickAt \subseteq Labels
ASSUME ThreadProtectAssumption == ThreadProtect \in BOOLEAN

VARIABLES
  active_thread_index, num_active_threads, total_utilization,
  thread_define_called,
  svc_active,             \* SHCSR.SVCALLACT
  mpu_region,             \* whose stacks MPU regions 6 and 7 open
  systick_on,             \* SysTick counts and raises its exception
  timer_wrap_around, timer_wrap_comparison,
  \* the fields of user_threads[]
  state, task, static_priority, dynamic_priority, remaining_work,
  time_until_release, svc_status,
  \* the fields of user_locks[]
  s, current_locker, blocked_threads, priority_ceiling, highest_locker_id,
  num_defined_locks, global_priority_ceiling, highest_priority_lock,
  \* where each thread's saved context resumes, with the locals it keeps
  pc,
  lk,                     \* the mutex argument m
  wi,                     \* a loop index
  ending,                 \* NotEnding, or the lock call thread_end serves
  df,                     \* thread_define: the slot, task and utilization
  cs,                     \* the locks the thread's program has been granted
  fault                   \* what has stopped the machine, if anything

NotEnding == -1

timerVars == <<systick_on, timer_wrap_around, timer_wrap_comparison>>
admitVars == <<num_active_threads, total_utilization, thread_define_called>>
tcbVars   == <<task, static_priority, remaining_work, time_until_release>>
switchVars == <<active_thread_index, svc_active, mpu_region, state, svc_status>>
ceilVars  == <<priority_ceiling, highest_locker_id, num_defined_locks>>
lockVars  == <<s, current_locker, blocked_threads, global_priority_ceiling,
               highest_priority_lock>>
frameVars == <<lk, wi, ending, df, cs>>
kernelVars == <<timerVars, admitVars, tcbVars, ceilVars>>
syncVars   == <<lockVars, dynamic_priority, fault>>
vars == <<kernelVars, syncVars, switchVars, frameVars, pc>>

NoTask == [id |-> 0, c |-> 1, t |-> 1]
NoDef  == [slot |-> 0, task |-> NoTask, util |-> 0]

\* A value stored in a uint32_t, and a uint32_t decrement.
Word(x) == x % (WordMax + 1)
\* Mutant: the decrement does not wrap.
DecUnbounded(x) == x - 1
Dec(x) == IF x = 0 THEN WordMax ELSE x - 1
Lesser(x, y) == IF x < y THEN x ELSE y

-----------------------------------------------------------------------------
(* What a successful syscall_multitask_request leaves. *)

Init ==
  /\ active_thread_index = Main
  /\ num_active_threads = 0
  /\ total_utilization = 0
  /\ thread_define_called = FALSE
  /\ svc_active = FALSE
  /\ mpu_region = IF ThreadProtect THEN Nobody ELSE AllStacks
  /\ systick_on = FALSE
  /\ timer_wrap_around = 0
  /\ timer_wrap_comparison = 0
  /\ state = [i \in Tcb |-> CASE i = Idle -> "Ready"
                              [] i = Main -> "Running"
                              [] OTHER -> "Defunct"]
  /\ task = [i \in Tcb |-> NoTask]
  /\ static_priority = [i \in Tcb |-> Lowest]
  /\ dynamic_priority = [i \in Tcb |-> Lowest]
  /\ remaining_work = [i \in Tcb |-> IF i \in {Idle, Main} THEN 1 ELSE 0]
  /\ time_until_release = [i \in Tcb |-> 0]
  /\ svc_status = [i \in Tcb |-> FALSE]
  /\ s = [m \in Locks |-> 0]
  /\ current_locker = [m \in Locks |-> Nobody]
  /\ blocked_threads = [m \in Locks |-> <<>>]
  /\ priority_ceiling = [m \in Locks |-> 0]
  /\ highest_locker_id = [m \in Locks |-> 0]
  /\ num_defined_locks = 0
  /\ global_priority_ceiling = Lowest
  /\ highest_priority_lock = NoLock
  /\ pc = [i \in Tcb |-> "user"]
  /\ lk = [i \in Tcb |-> NoLock]
  /\ wi = [i \in Tcb |-> 0]
  /\ ending = [i \in Tcb |-> NotEnding]
  /\ df = [i \in Tcb |-> NoDef]
  /\ cs = [i \in Tcb |-> {}]
  /\ fault = "none"
-----------------------------------------------------------------------------
(* The scheduler: schedule_rms, PendSV_C_Handler and SysTick_Handler. *)

\* The threads the sweep of schedule_rms can return, given their states.
Eligible(st) == {i \in User : st[i] = "Ready" /\ dynamic_priority[i] < Lowest}

\* Mutant: main is scheduled while a thread is left.
IsNextEarly(n, st, num) ==
  IF num <= 1 THEN n = Main
  ELSE \/ n \in Eligible(st) /\ \A i \in Eligible(st) : n <= i
       \/ n = Idle /\ Eligible(st) = {}

\* Mutant: the first eligible thread is scheduled, however urgent it is.
IsNextFirst(n, st, num) ==
  IF num = 0 THEN n = Main
  ELSE \/ n \in Eligible(st) /\ \A i \in Eligible(st) : n <= i
       \/ n = Idle /\ Eligible(st) = {}

\* The index schedule_rms returns when num threads are left: main if none, the
\* first of the most urgent eligible threads, else the idle thread.
IsNext(n, st, num) ==
  IF num = 0 THEN n = Main
  ELSE \/ /\ n \in Eligible(st)
          /\ \A i \in Eligible(st) :
               \/ dynamic_priority[n] < dynamic_priority[i]
               \/ dynamic_priority[n] = dynamic_priority[i] /\ n <= i
       \/ n = Idle /\ Eligible(st) = {}

\* The thread whose stacks regions 6 and 7 open when n takes over.
RegionFor(n) == IF ThreadProtect /\ n # Main THEN n ELSE mpu_region

\* The SVC-active bit that n left with.  (Mutant: the bit is not restored.)
StaleSvc(n)    == svc_active
RestoredSvc(n) == svc_status[n]

\* The switch to n at the end of PendSV_C_Handler, when st are the states.
SwitchTo(n, st) ==
  /\ active_thread_index' = n
  /\ state' = [st EXCEPT ![n] = "Running"]
  /\ IF n = active_thread_index
     THEN UNCHANGED <<svc_active, svc_status, mpu_region>>
     ELSE /\ svc_status' = [svc_status EXCEPT ![active_thread_index] = svc_active]
          /\ svc_active' = RestoredSvc(n)
          /\ mpu_region' = RegionFor(n)

\* PendSV taken from a system call: no time is charged.
PendSV(st) ==
  \E n \in Tcb : IsNext(n, st, num_active_threads) /\ SwitchTo(n, st)

\* The charge to the active thread, whatever its state was.
ChargedWork ==
  IF active_thread_index = Idle THEN remaining_work
  ELSE [remaining_work EXCEPT ![active_thread_index] = Dec(@)]

\* Mutant: a thread that has used up its time stays Ready.
ChargedReady == [state EXCEPT ![active_thread_index] = "Ready"]

ChargedState ==
  [state EXCEPT ![active_thread_index] =
     IF ChargedWork[active_thread_index] = 0 THEN "Waiting" ELSE "Ready"]

\* The threads whose period the sweep restarts, and the bookkeeping it does
\* (after the thread was considered, so that a released thread competes from
\* the next decision on).  It returns before the sweep if only main is left.
Swept(st)    == IF num_active_threads = 0 THEN {}
                ELSE {i \in User : st[i] # "Defunct"}
Released(st) == {i \in Swept(st) : Dec(time_until_release[i]) = 0}

\* The tick that is due and the PendSV it pends, which follows it at once.
PreemptPendSV ==
  \E n \in Tcb :
    /\ IsNext(n, ChargedState, num_active_threads)
    /\ SwitchTo(n, [i \in Tcb |-> IF i \in Released(ChargedState)
                                  THEN "Ready" ELSE ChargedState[i]])
    /\ remaining_work' = [i \in Tcb |-> IF i \in Released(ChargedState)
                                        THEN task[i].c ELSE ChargedWork[i]]
    /\ time_until_release' =
         [i \in Tcb |-> IF i \in Released(ChargedState) THEN task[i].t
                        ELSE IF i \in Swept(ChargedState)
                             THEN Dec(time_until_release[i])
                             ELSE time_until_release[i]]

SysTick ==
  /\ fault = "none" /\ systick_on /\ pc[active_thread_index] \in TickAt
  /\ IF timer_wrap_around = timer_wrap_comparison
     THEN timer_wrap_around' = 1 /\ PreemptPendSV
     ELSE /\ timer_wrap_around' = (timer_wrap_around + 1) % 256
          /\ UNCHANGED <<switchVars, remaining_work, time_until_release>>
  /\ UNCHANGED <<syncVars, systick_on, timer_wrap_comparison, admitVars, task,
                 static_priority, ceilVars, frameVars, pc>>

-----------------------------------------------------------------------------
(* Entering and leaving a system call. *)

Goto(i, l) == pc' = [pc EXCEPT ![i] = l]

\* Thread i executes, and is at l.
At(i, l) == fault = "none" /\ active_thread_index = i /\ pc[i] = l

\* SVC: thread i's program makes a system call that goes on at l.
Enter(i, l) == At(i, "user") /\ svc_active' = TRUE /\ Goto(i, l)

\* The return from SVC_C_Handler.
Return(i) ==
  /\ At(i, "ret")
  /\ svc_active' = FALSE
  /\ Goto(i, "user")
  /\ UNCHANGED <<kernelVars, syncVars, active_thread_index, mpu_region, state,
                 svc_status, frameVars>>

Running(st) == UNCHANGED <<active_thread_index, mpu_region, svc_status>> /\ state' = st

-----------------------------------------------------------------------------
(* thread_yield, sleep_ms and exit. *)

\* The caller is labelled, except the idle thread; the PendSV of YieldPend is
\* a statement of its own.
Yielded(i) == IF i = Idle THEN state ELSE [state EXCEPT ![i] = "Waiting"]

Yield(i) ==
  /\ "yield" \in Calls /\ i # Main
  /\ Enter(i, "yieldPend")
  /\ Running(Yielded(i))
  /\ UNCHANGED <<kernelVars, syncVars, frameVars>>

YieldPend(i) ==
  /\ At(i, "yieldPend")
  /\ PendSV(state)
  /\ Goto(i, "ret")
  /\ UNCHANGED <<kernelVars, syncVars, frameVars>>

\* systick_delay takes the SysTick for itself and leaves it disabled.
SleepMs(i) ==
  /\ "sleep_ms" \in Calls /\ i # Idle
  /\ Enter(i, "ret")
  /\ systick_on' = FALSE
  /\ Running(state)
  /\ UNCHANGED <<syncVars, timer_wrap_around, timer_wrap_comparison, admitVars,
                 tcbVars, ceilVars, frameVars>>

\* exit(), or a MemFault whose psp lies outside the thread's stack.
Exit(i) ==
  /\ "exit" \in Calls
  /\ At(i, "user")
  /\ fault' = "exit"
  /\ UNCHANGED <<kernelVars, switchVars, lockVars, frameVars, dynamic_priority,
                 pc>>

-----------------------------------------------------------------------------
(* lock_init, lock and unlock. *)

\* Only the main thread initialises locks; id names the highest locker.
LockInit(id) ==
  /\ At(Main, "user") /\ num_defined_locks < NumLocks
  /\ num_defined_locks' = num_defined_locks + 1
  /\ s' = [s EXCEPT ![num_defined_locks + 1] = 1]
  /\ current_locker' = [current_locker EXCEPT ![num_defined_locks + 1] = Nobody]
  /\ blocked_threads' = [blocked_threads EXCEPT ![num_defined_locks + 1] = <<>>]
  /\ priority_ceiling' = [priority_ceiling EXCEPT ![num_defined_locks + 1] = Lowest]
  /\ highest_locker_id' = [highest_locker_id EXCEPT ![num_defined_locks + 1] = id]
  /\ UNCHANGED <<timerVars, admitVars, tcbVars, switchVars, frameVars,
                 global_priority_ceiling, highest_priority_lock,
                 dynamic_priority, pc, fault>>

\* The checks syscall_lock makes with interrupts enabled: a thread more urgent
\* than the ceiling is ended, a thread that holds m returns.
LockEnter(i, m) ==
  /\ "lock" \in Calls /\ i \in User /\ m <= num_defined_locks
  /\ current_locker[m] # i \/ static_priority[i] < priority_ceiling[m]
  /\ IF static_priority[i] < priority_ceiling[m]
     THEN /\ Enter(i, "end")
          /\ ending' = [ending EXCEPT ![i] = m]
          /\ cs' = [cs EXCEPT ![i] = {}]
          /\ UNCHANGED lk
     ELSE /\ Enter(i, "lock")
          /\ lk' = [lk EXCEPT ![i] = m]
          /\ UNCHANGED <<ending, cs>>
  /\ Running(state)
  /\ UNCHANGED <<kernelVars, syncVars, wi, df>>

\* mutex_try finds the lock open (the exclusive store cannot fail here).
IsOpen(m) == s[m] = 1

\* The priority ceiling test of the loop condition.  (Mutant: no such test.)
MayLockAlways(i) == TRUE
MayLock(i) ==
  \/ dynamic_priority[i] < global_priority_ceiling
  \/ /\ highest_priority_lock # NoLock
     /\ current_locker[highest_priority_lock] = i

\* The loop condition lets i through.  (Mutant: it always does.)
GrantedAlways(i) == TRUE
Granted(i) == MayLock(i) /\ IsOpen(lk[i])

\* mutex_try succeeds; the rest of the call up to enable_interrupts.
LockAcquire(i) ==
  /\ At(i, "lock") /\ Granted(i)
  /\ s' = [s EXCEPT ![lk[i]] = 0]
  /\ current_locker' = [current_locker EXCEPT ![lk[i]] = i]
  /\ IF priority_ceiling[lk[i]] < global_priority_ceiling
     THEN /\ global_priority_ceiling' = priority_ceiling[lk[i]]
          /\ highest_priority_lock' = lk[i]
     ELSE UNCHANGED <<global_priority_ceiling, highest_priority_lock>>
  /\ cs' = [cs EXCEPT ![i] = @ \cup {lk[i]}]
  /\ lk' = [lk EXCEPT ![i] = NoLock]
  /\ Goto(i, "ret")
  /\ UNCHANGED <<kernelVars, switchVars, blocked_threads, wi, ending, df,
                 dynamic_priority, fault>>

\* The lock on whose list the refused thread i waits.  (Mutant: always the one it
\* asked for.)
WaitsOnAsked(i) == lk[i]
WaitsOn(i) == IF s[lk[i]] = 0 THEN lk[i] ELSE highest_priority_lock

\* The refused thread's iteration of the loop up to enable_interrupts.  The
\* priority is inherited by m's locker, a null pointer when m is open: then,
\* and when there is no lock to wait on, the write goes to flash, which
\* may or may not stop the machine.  A full list is written past its end.
LockBlock(i) ==
  /\ At(i, "lock") /\ ~Granted(i)
  /\ LET h     == WaitsOn(i)
         owner == current_locker[lk[i]]
     IN /\ state' = [state EXCEPT ![i] = "Blocked"]
        /\ IF h # NoLock /\ Len(blocked_threads[h]) < MaxBlocked
           THEN blocked_threads' = [blocked_threads EXCEPT ![h] = Append(@, i)]
           ELSE UNCHANGED blocked_threads
        /\ IF owner # Nobody
           THEN dynamic_priority' = [dynamic_priority EXCEPT ![owner] =
                                       Lesser(@, dynamic_priority[i])]
           ELSE UNCHANGED dynamic_priority
        /\ IF h # NoLock /\ Len(blocked_threads[h]) >= MaxBlocked
           THEN fault' = "overflow"
           ELSE IF h = NoLock \/ owner = Nobody
                THEN fault' \in {"none", "nullwrite"}
                ELSE UNCHANGED fault
  /\ Goto(i, "lockPend")
  /\ UNCHANGED <<kernelVars, active_thread_index, svc_active, mpu_region,
                 svc_status, s, current_locker, global_priority_ceiling,
                 highest_priority_lock, frameVars>>

\* enable_interrupts(); set_pendsv(); and back to the loop condition.
LockPend(i) ==
  /\ At(i, "lockPend")
  /\ PendSV(state)
  /\ Goto(i, "lock")
  /\ UNCHANGED <<kernelVars, syncVars, frameVars>>

\* The program unlocks only what it was granted.
UnlockEnter(i, m) ==
  /\ "unlock" \in Calls /\ m \in cs[i]
  /\ s[m] = 0
  /\ Enter(i, "wake")
  /\ lk' = [lk EXCEPT ![i] = m]
  /\ wi' = [wi EXCEPT ![i] = 1]
  /\ cs' = [cs EXCEPT ![i] = @ \ {m}]
  /\ Running(state)
  /\ UNCHANGED <<kernelVars, syncVars, ending, df>>

\* The wake-up loop runs with interrupts enabled.
UnlockWake(i) ==
  /\ At(i, "wake") /\ wi[i] <= Len(blocked_threads[lk[i]])
  /\ Running([state EXCEPT ![blocked_threads[lk[i]][wi[i]]] = "Ready"])
  /\ wi' = [wi EXCEPT ![i] = @ + 1]
  /\ UNCHANGED <<kernelVars, syncVars, lk, ending, df, cs, svc_active, pc>>

UnlockWoken(i) ==
  /\ At(i, "wake") /\ wi[i] > Len(blocked_threads[lk[i]])
  /\ wi' = [wi EXCEPT ![i] = 0]
  /\ Goto(i, "reset")
  /\ UNCHANGED <<kernelVars, syncVars, switchVars, lk, ending, df, cs>>

\* The locks still locked once those in M are opened.  (Mutant: with them.)
StillLockedAll(M) == {l \in 1 .. num_defined_locks : s[l] = 0}
StillLocked(M) == {l \in 1 .. num_defined_locks : s[l] = 0} \ M

\* h is the first of the locks in L with the most urgent ceiling, if any.
IsHighest(h, L) ==
  LET C == {l \in L : priority_ceiling[l] < Lowest}
  IN \/ h = NoLock /\ C = {}
     \/ /\ h \in C
        /\ \A l \in C : \/ priority_ceiling[h] < priority_ceiling[l]
                        \/ priority_ceiling[h] = priority_ceiling[l] /\ h <= l

\* The priorities thread i falls back to: its own, and those of the threads
\* on the lists of the locks in L that it still holds.  (Mutants: all that it
\* inherited is dropped; all of it is kept.)
InheritedNone(i, L) == {static_priority[i]}
InheritedKept(i, L) == {dynamic_priority[i]}
Inherited(i, L) ==
  {static_priority[i]} \cup
  UNION {{dynamic_priority[blocked_threads[l][k]] : k \in DOMAIN blocked_threads[l]} :
           l \in {l \in L : current_locker[l] = i}}

\* Opening the locks in M, all held by i, and the recomputation that follows.
Open(i, M) ==
  /\ s' = [m \in Locks |-> IF m \in M THEN 1 ELSE s[m]]
  /\ blocked_threads' = [m \in Locks |-> IF m \in M THEN <<>> ELSE blocked_threads[m]]
  /\ current_locker' = [m \in Locks |-> IF m \in M THEN Nobody ELSE current_locker[m]]
  /\ \E h \in 0 .. NumLocks :
       /\ IsHighest(h, StillLocked(M))
       /\ highest_priority_lock' = h
       /\ global_priority_ceiling' = IF h = NoLock THEN Lowest ELSE priority_ceiling[h]
  /\ \E d \in Inherited(i, StillLocked(M)) :
       /\ \A e \in Inherited(i, StillLocked(M)) : d <= e
       /\ dynamic_priority' = [dynamic_priority EXCEPT ![i] = d]

\* disable_interrupts() to enable_interrupts() of syscall_unlock.
UnlockReset(i) ==
  /\ At(i, "reset")
  /\ Open(i, {lk[i]})
  /\ state' = [state EXCEPT ![i] = "Ready"]
  /\ lk' = [lk EXCEPT ![i] = NoLock]
  /\ Goto(i, "unlockPend")
  /\ UNCHANGED <<kernelVars, active_thread_index, svc_active, mpu_region,
                 svc_status, wi, ending, df, cs, fault>>

UnlockPend(i) ==
  /\ At(i, "unlockPend")
  /\ PendSV(state)
  /\ Goto(i, IF ending[i] = NotEnding THEN "ret" ELSE "end")
  /\ UNCHANGED <<kernelVars, syncVars, frameVars>>

-----------------------------------------------------------------------------
(* thread_end, and the MemFault that ends the offending thread. *)

Held(i) == {m \in Locks : current_locker[m] = i}

Util(tk) == (tk.c * Scale) \div tk.t

\* What thread_end leaves of the two sums that thread_define adds to.
\* (Mutants: it leaves one as it was.)
UtilKept(i)    == total_utilization
UtilWithout(i) == total_utilization - Util(task[i])
CountKept      == num_active_threads
CountWithout   == (num_active_threads + 255) % 256

EndEnter(i) ==
  /\ "end" \in Calls /\ i \in User
  /\ Enter(i, "end")
  /\ ending' = [ending EXCEPT ![i] = NoLock]
  /\ cs' = [cs EXCEPT ![i] = {}]
  /\ Running(state)
  /\ UNCHANGED <<kernelVars, syncVars, lk, wi, df>>

\* The sweep calls syscall_unlock for the first lock still held.
EndUnlock(i) ==
  /\ At(i, "end")
  /\ \E m \in Held(i) :
       /\ \A l \in Held(i) : m <= l
       /\ s[m] = 0
       /\ lk' = [lk EXCEPT ![i] = m]
  /\ wi' = [wi EXCEPT ![i] = 1]
  /\ Goto(i, "wake")
  /\ UNCHANGED <<kernelVars, syncVars, switchVars, ending, df, cs>>

EndDefunct(i) ==
  /\ At(i, "end") /\ Held(i) = {}
  /\ total_utilization' = UtilWithout(i)
  /\ Running([state EXCEPT ![i] = "Defunct"])
  /\ Goto(i, "endDec")
  /\ UNCHANGED <<syncVars, timerVars, num_active_threads, thread_define_called,
                 tcbVars, ceilVars, frameVars, svc_active>>

EndDec(i) ==
  /\ At(i, "endDec")
  /\ num_active_threads' = CountWithout
  /\ Goto(i, "endPend")
  /\ UNCHANGED <<syncVars, timerVars, total_utilization, thread_define_called,
                 tcbVars, switchVars, ceilVars, frameVars>>

\* Nothing should schedule the thread again.  If something does, thread_end
\* returns to its caller: the program, or the syscall_lock that ended it.
EndPend(i) ==
  /\ At(i, "endPend")
  /\ PendSV(state)
  /\ Goto(i, IF ending[i] = NoLock THEN "ret" ELSE "lock")
  /\ lk' = [lk EXCEPT ![i] = ending[i]]
  /\ ending' = [ending EXCEPT ![i] = NotEnding]
  /\ UNCHANGED <<kernelVars, syncVars, wi, df, cs>>

\* MemFault_Handler has PendSV's priority: it runs thread_end to its end before
\* the PendSV it pends, and the thread is switched out outside any SVC.
MemFault(i) ==
  /\ "fault" \in Calls /\ i \in User
  /\ At(i, "user")
  /\ Open(i, Held(i))
  /\ total_utilization' = UtilWithout(i)
  /\ num_active_threads' = CountWithout
  /\ LET woken == UNION {{blocked_threads[m][k] : k \in DOMAIN blocked_threads[m]} :
                           m \in Held(i)}
         st    == [j \in Tcb |-> IF j = i THEN "Defunct"
                                 ELSE IF j \in woken THEN "Ready" ELSE state[j]]
     IN \E n \in Tcb : IsNext(n, st, num_active_threads') /\ SwitchTo(n, st)
  /\ cs' = [cs EXCEPT ![i] = {}]
  /\ UNCHANGED <<timerVars, thread_define_called, tcbVars, ceilVars, lk, wi,
                 ending, df, pc, fault>>

-----------------------------------------------------------------------------
(* thread_define. *)

\* The tight RMS bounds, in 1/10000.
UtilBound == [n \in 0 .. 15 |->
  IF n = 0 THEN 0
  ELSE <<10000, 8284, 7798, 7568, 7435, 7348, 7286, 7241, 7205, 7177, 7155,
         7136, 7119, 7106, 7094>>[n]]

\* The admission test; past the end of the table it reads what lies there.
Admits(util) ==
  num_active_threads + 1 \in DOMAIN UtilBound =>
    util * 10000 <= UtilBound[num_active_threads + 1] * Scale

Spare == {i \in User : state[i] = "Defunct"}

\* The checks, which leave everything as it is when they refuse the task.
DefineEnter(i, tk) ==
  /\ "define" \in Calls \/ i = Main
  /\ i # Idle
  /\ tk.c <= tk.t
  /\ \A j \in User \ Spare : task[j].id # tk.id
  /\ \E slot \in Spare :
       /\ \A j \in Spare : j <= slot
       /\ Admits(Util(tk) + total_utilization)
       /\ df' = [df EXCEPT ![i] = [slot |-> slot, task |-> tk,
                                   util |-> Util(tk) + total_utilization]]
  /\ Enter(i, "fill")
  /\ Running(state)
  /\ UNCHANGED <<kernelVars, syncVars, lk, wi, ending, cs>>

DefineFill(i) ==
  /\ At(i, "fill")
  /\ LET d == df[i] IN
       /\ total_utilization' = d.util
       /\ task' = [task EXCEPT ![d.slot] = d.task]
       /\ state' = [state EXCEPT ![d.slot] = "Ready"]
       /\ remaining_work' = [remaining_work EXCEPT ![d.slot] = d.task.c]
       /\ time_until_release' = [time_until_release EXCEPT ![d.slot] = d.task.t - 1]
       /\ svc_status' = [svc_status EXCEPT ![d.slot] = FALSE]
  /\ Goto(i, "frames")
  /\ UNCHANGED <<syncVars, timerVars, num_active_threads, thread_define_called,
                 static_priority, active_thread_index, svc_active, mpu_region,
                 ceilVars, frameVars>>

\* thread_function_define: the slot's context starts the new thread function.
DefineFrames(i) ==
  /\ At(i, "frames")
  /\ LET slot == df[i].slot IN
       /\ pc' = [pc EXCEPT ![slot] = "user", ![i] = "count"]
       /\ lk' = [lk EXCEPT ![slot] = NoLock]
       /\ wi' = [wi EXCEPT ![slot] = 0]
       /\ ending' = [ending EXCEPT ![slot] = NotEnding]
       /\ df' = [df EXCEPT ![slot] = NoDef, ![i] = NoDef]
       /\ cs' = [cs EXCEPT ![slot] = {}]
  /\ UNCHANGED <<kernelVars, syncVars, switchVars>>

DefineCount(i) ==
  /\ At(i, "count")
  /\ num_active_threads' = (num_active_threads + 1) % 256
  /\ thread_define_called' = TRUE
  /\ Goto(i, "clear")
  /\ UNCHANGED <<syncVars, timerVars, total_utilization, tcbVars, switchVars,
                 ceilVars, frameVars>>

\* order_absolute_priorities, first loop: one thread's priorities at a time.
OrderClear(i) ==
  /\ At(i, "clear")
  /\ static_priority' = [static_priority EXCEPT ![wi[i]] = Lowest]
  /\ dynamic_priority' = [dynamic_priority EXCEPT ![wi[i]] = Lowest]
  /\ IF wi[i] = N - 1
     THEN Goto(i, "assign") /\ wi' = [wi EXCEPT ![i] = 0]
     ELSE UNCHANGED pc /\ wi' = [wi EXCEPT ![i] = @ + 1]
  /\ UNCHANGED <<timerVars, admitVars, task, remaining_work,
                 time_until_release, switchVars, ceilVars, lockVars, lk,
                 ending, df, cs, fault>>

\* The threads the second loop still has to order, and the order.
Unordered == {j \in User : /\ static_priority[j] = Lowest
                           /\ state[j] # "Defunct"
                           /\ task[j].t < Lowest \/ task[j].id < Lowest}

\* Mutant: the longest period first.
PrecedesLongest(j, k) == \/ task[j].t > task[k].t
                         \/ task[j].t = task[k].t /\ j <= k

Precedes(j, k) == \/ task[j].t < task[k].t
                  \/ task[j].t = task[k].t /\ task[j].id < task[k].id
                  \/ task[j].t = task[k].t /\ task[j].id = task[k].id /\ j <= k

\* One iteration of the second loop.  With no thread left to order it writes
\* at index 0xFFFFFFFF of user_threads.
OrderAssign(i) ==
  /\ At(i, "assign") /\ wi[i] < num_active_threads
  /\ \/ \E j \in Unordered :
          /\ \A k \in Unordered : Precedes(j, k)
          /\ static_priority' = [static_priority EXCEPT ![j] = Word(wi[i])]
          /\ dynamic_priority' = [dynamic_priority EXCEPT ![j] = Word(wi[i])]
          /\ UNCHANGED fault
     \/ /\ Unordered = {}
        /\ fault' \in {"none", "outofbounds"}
        /\ UNCHANGED <<static_priority, dynamic_priority>>
  /\ wi' = [wi EXCEPT ![i] = @ + 1]
  /\ UNCHANGED <<timerVars, admitVars, task, remaining_work,
                 time_until_release, switchVars, ceilVars, lockVars, lk,
                 ending, df, cs, pc>>

OrderDone(i) ==
  /\ At(i, "assign") /\ wi[i] >= num_active_threads
  /\ wi' = [wi EXCEPT ![i] = 0]
  /\ Goto(i, "ret")
  /\ UNCHANGED <<kernelVars, syncVars, switchVars, lk, ending, df, cs>>

-----------------------------------------------------------------------------
(* multitask_start, which also joins. *)

\* The threads lock m's highest locker names.
Named(m) == {i \in User : state[i] # "Defunct" /\ task[i].id = highest_locker_id[m]}

\* The locks validate_ceiling_id reaches: it stops at the first invalid one.
Valid(m) == Named(m) # {}
Reached  == {m \in 1 .. num_defined_locks : \A l \in 1 .. m : Valid(l)}

Ceilings ==
  priority_ceiling' = [m \in Locks |->
    IF m \in Reached
    THEN static_priority[CHOOSE i \in Named(m) : \A j \in Named(m) : i <= j]
    ELSE priority_ceiling[m]]

\* The call is refused: the ceilings it has set stay.
StartRefused ==
  /\ At(Main, "user") /\ thread_define_called
  /\ \E m \in 1 .. num_defined_locks : ~Valid(m)
  /\ Ceilings
  /\ UNCHANGED <<syncVars, timerVars, admitVars, tcbVars, switchVars,
                 highest_locker_id, num_defined_locks, frameVars, pc>>

StartEnter(bins) ==
  /\ thread_define_called
  /\ \A m \in 1 .. num_defined_locks : Valid(m)
  /\ Enter(Main, "startPend")
  /\ Ceilings
  /\ global_priority_ceiling' = Lowest
  /\ highest_priority_lock' = NoLock
  /\ IF bins > 0
     THEN /\ timer_wrap_around' = 1
          /\ timer_wrap_comparison' = bins
          /\ systick_on' = TRUE
     ELSE UNCHANGED timerVars
  /\ Running(state)
  /\ UNCHANGED <<admitVars, tcbVars, highest_locker_id, num_defined_locks, s,
                 current_locker, blocked_threads, frameVars, dynamic_priority,
                 fault>>

StartPend ==
  /\ At(Main, "startPend")
  /\ PendSV(state)
  /\ Goto(Main, "join")
  /\ UNCHANGED <<kernelVars, syncVars, frameVars>>

\* Main is scheduled again: it stops the SysTick timer and returns.
StartJoin ==
  /\ At(Main, "join")
  /\ systick_on' = FALSE
  /\ Goto(Main, "ret")
  /\ UNCHANGED <<syncVars, timer_wrap_around, timer_wrap_comparison, admitVars,
                 tcbVars, switchVars, ceilVars, frameVars>>

-----------------------------------------------------------------------------
(* The specification. *)

\* The steps the kernel takes on its own once a call has been made.
Handler(i) ==
  \/ Return(i)
  \/ YieldPend(i)
  \/ LockAcquire(i) \/ LockBlock(i) \/ LockPend(i)
  \/ UnlockWake(i) \/ UnlockWoken(i) \/ UnlockReset(i) \/ UnlockPend(i)
  \/ EndUnlock(i) \/ EndDefunct(i) \/ EndDec(i) \/ EndPend(i)
  \/ DefineFill(i) \/ DefineFrames(i) \/ DefineCount(i)
  \/ OrderClear(i) \/ OrderAssign(i) \/ OrderDone(i)

MainHandler == StartPend \/ StartJoin

\* The steps the program decides on.
Program(i) ==
  \/ Yield(i) \/ SleepMs(i) \/ Exit(i)
  \/ \E m \in Locks : LockEnter(i, m) \/ UnlockEnter(i, m)
  \/ EndEnter(i) \/ MemFault(i)
  \/ \E tk \in TaskSet : DefineEnter(i, tk)

MainProgram ==
  \/ \E id \in {tk.id : tk \in TaskSet} : LockInit(id)
  \/ StartRefused
  \/ \E bins \in Bins : StartEnter(bins)

Next ==
  \/ SysTick
  \/ \E i \in Tcb : Handler(i) \/ Program(i)
  \/ MainHandler \/ MainProgram

Spec == Init /\ [][Next]_vars
-----------------------------------------------------------------------------
(* Types. *)

States == {"Running", "Ready", "Waiting", "Blocked", "Defunct"}

TypeKernel ==
  /\ systick_on \in BOOLEAN
  /\ timer_wrap_around \in 0 .. 255
  /\ timer_wrap_comparison \in 0 .. 255
  /\ num_active_threads \in 0 .. 255
  /\ total_utilization \in Int
  /\ thread_define_called \in BOOLEAN
  /\ task \in [Tcb -> Tasks]
  /\ static_priority \in [Tcb -> 0 .. WordMax]
  /\ remaining_work \in [Tcb -> 0 .. WordMax]
  /\ time_until_release \in [Tcb -> 0 .. WordMax]
  /\ priority_ceiling \in [Locks -> 0 .. WordMax]
  /\ highest_locker_id \in [Locks -> 0 .. WordMax]
  /\ num_defined_locks \in 0 .. NumLocks

TypeSync ==
  /\ s \in [Locks -> {0, 1}]
  /\ current_locker \in [Locks -> User \cup {Nobody}]
  /\ blocked_threads \in [Locks -> Seq(User)]
  /\ global_priority_ceiling \in 0 .. WordMax
  /\ highest_priority_lock \in 0 .. NumLocks
  /\ dynamic_priority \in [Tcb -> 0 .. WordMax]
  /\ fault \in {"none", "exit", "nullwrite", "overflow", "outofbounds"}

TypeSwitch ==
  /\ active_thread_index \in Tcb
  /\ svc_active \in BOOLEAN
  /\ mpu_region \in Tcb \cup {Nobody, AllStacks}
  /\ state \in [Tcb -> States]
  /\ svc_status \in [Tcb -> BOOLEAN]

TypeFrame ==
  /\ pc \in [Tcb -> Labels]
  /\ lk \in [Tcb -> 0 .. NumLocks]
  /\ wi \in [Tcb -> Nat]
  /\ ending \in [Tcb -> NotEnding .. NumLocks]
  /\ df \in [Tcb -> [slot : User, task : Tasks, util : Int]]
  /\ cs \in [Tcb -> SUBSET Locks]

\* The kernel's variables keep the types that its structs give them.
TypeOK == TypeKernel /\ TypeSync /\ TypeSwitch /\ TypeFrame

-----------------------------------------------------------------------------
(* Threads and the scheduler. *)

Live == {i \in User : state[i] # "Defunct"}

\* Main comes back from the scheduler only when every thread has ended:
\* multitask_start joins the threads (multitask.c:516).
JoinSafety ==
  active_thread_index = Main /\ pc[Main] = "join" => Live = {}

\* num_active_threads counts the live threads, up to the one that a call in
\* progress has already labelled (multitask.c:17).
CountMatches ==
  num_active_threads = Cardinality(Live)
    + Cardinality({i \in User : pc[i] = "endDec"})
    - Cardinality({i \in Tcb : pc[i] \in {"frames", "count"}})

\* The utilization that admission tests against is that of the live threads:
\* nothing thread_define adds is lost or is left behind by thread_end.
UtilizationMatches ==
  LET sum[i \in -1 .. N - 1] ==
        IF i = -1 THEN 0
        ELSE sum[i - 1] + (IF i \in Live THEN Util(task[i]) ELSE 0)
  IN total_utilization = sum[N - 1]

\* The SVC-active bit belongs to the context that runs: a thread suspended
\* inside a call resumes inside it, one suspended outside resumes outside.
SvcBitFollows == svc_active <=> pc[active_thread_index] # "user"

\* Live threads have different priorities, in the order of period and then
\* id, whenever no thread_define is under way (order_absolute_priorities).
RateMonotonic ==
  (\A i \in Tcb : pc[i] \notin {"fill", "frames", "count", "clear", "assign"}) =>
    \A i, j \in Live :
      (task[i].t < task[j].t \/ (task[i].t = task[j].t /\ task[i].id < task[j].id))
        => static_priority[i] < static_priority[j] /\ static_priority[j] < N

\* A thread that executes its program is the most urgent one that can run -
\* each call that changes who that is schedules before it returns - but for
\* the threads the last tick released, which compete from the next one on.
MostUrgentRuns ==
  \A i \in User : active_thread_index = i /\ pc[i] = "user" =>
    \A j \in User : state[j] = "Ready" /\ time_until_release[j] # task[j].t =>
      dynamic_priority[i] <= dynamic_priority[j]

\* The thread that executes has time left in its period, and no thread has
\* more than its computation time: remaining_work neither reaches 0 without
\* the thread being made to wait nor passes below it.
BudgetKept ==
  /\ \A i \in Live : remaining_work[i] <= task[i].c
  /\ active_thread_index \in Live => remaining_work[active_thread_index] > 0

\* i's period restarts, by a tick (which a period of one tick would not show).
Restarts(i) ==
  task[i].t > 1 /\ time_until_release[i] = 1 /\ time_until_release'[i] = task[i].t

\* When a period restarts, the thread has done all the work of the last one, or
\* has given up the rest by yielding.  (It does not hold of all tasks that are admitted.)
DeadlineMet ==
  [][\A i \in Live : Restarts(i) => ChargedState[i] = "Waiting"]_vars

\* The work that the threads as urgent as i, itself included, can be released with
\* in R ticks.
Level(i) == {j \in User : static_priority[j] <= static_priority[i]}
Demand(i, R) ==
  LET sum[k \in -1 .. N - 1] ==
        IF k = -1 THEN 0
        ELSE sum[k - 1] + (IF k \in Level(i)
                           THEN task[k].c * ((R + task[k].t - 1) \div task[k].t)
                           ELSE 0)
  IN sum[N - 1]

\* The response-time test of rate-monotonic scheduling: within i's period there is
\* room for that work and for the tick that a released thread does not compete for.
Responsive(i) ==
  static_priority[i] < Lowest /\ \E R \in 1 .. task[i].t : Demand(i, R) < R

\* All threads pass the test.  thread_define tests their utilization alone
\* (multitask.c:445), which does not imply this: a task of which c = t is admitted.
Schedulable == systick_on => \A i \in Live : Responsive(i)

\* A thread that passes the test meets its deadlines, whatever the less urgent
\* threads do, and whether or not they meet theirs.
ResponseMet ==
  [][\A i \in Live : Responsive(i) /\ Restarts(i) => ChargedState[i] = "Waiting"]_vars

-----------------------------------------------------------------------------
(* Locks. *)

Elements(q) == {q[k] : k \in DOMAIN q}

\* No lock is granted to two threads at once.
MutualExclusion ==
  \A i, j \in User : i # j => cs[i] \cap cs[j] = {}

\* A blocked thread is on the list of a lock that is held, so that the unlock
\* that lets it try again will find it (multitask.c:739).
BlockedIsQueued ==
  fault = "none" => \A i \in User : state[i] = "Blocked" =>
    \E m \in Locks : current_locker[m] # Nobody /\ i \in Elements(blocked_threads[m])

\* The system ceiling is the most urgent ceiling of the locks that are held,
\* and highest_priority_lock one that has it (multitask.c:41-45).
CeilingExact ==
  LET held == {m \in Locks : current_locker[m] # Nobody}
  IN /\ \A m \in held : global_priority_ceiling <= priority_ceiling[m]
     /\ global_priority_ceiling < Lowest =>
          /\ highest_priority_lock \in held
          /\ priority_ceiling[highest_priority_lock] = global_priority_ceiling
     /\ global_priority_ceiling = Lowest => highest_priority_lock = NoLock

\* Deadlock freedom: the blocked threads do not wait for one another alone.
WaitsFor(i) == {current_locker[m] : m \in {l \in Locks : i \in Elements(blocked_threads[l])}}

DeadlockFree ==
  fault = "none" => \A S \in (SUBSET User) \ {{}} :
    \E i \in S : state[i] # "Blocked" \/ ~ WaitsFor(i) \subseteq S

\* The blocking that the ceiling protocol allows: of the threads less urgent
\* than i, at most one holds locks that threads as urgent as i use.
SingleBlocker ==
  \A i \in Live : \A l, m \in Locks :
    /\ current_locker[l] # Nobody /\ current_locker[m] # Nobody
    /\ priority_ceiling[l] <= static_priority[i]
    /\ priority_ceiling[m] <= static_priority[i]
    /\ static_priority[current_locker[l]] > static_priority[i]
    /\ static_priority[current_locker[m]] > static_priority[i]
    => current_locker[l] = current_locker[m]

\* The owner of a lock is as urgent as every thread that found it locked and
\* waits on its list (multitask.c:712).
OwnerInherits ==
  \A i \in User :
    state[i] = "Blocked" /\ lk[i] # NoLock /\ i \in Elements(blocked_threads[lk[i]]) =>
      dynamic_priority[current_locker[lk[i]]] <= dynamic_priority[i]

\* A thread that holds nothing has its own priority back.
PriorityRestored ==
  \A i \in Live : Held(i) = {} /\ pc[i] \notin {"clear", "assign"} =>
    dynamic_priority[i] = static_priority[i]

\* lock and unlock implement the lock service.
Abstract == INSTANCE LockService WITH Threads <- User, owner <- current_locker
LockRefinement == Abstract!Spec

-----------------------------------------------------------------------------
(* Progress. *)

\* The timer keeps ticking while it is enabled (strongly, as a label outside
\* TickAt only postpones it), the processor keeps executing the handler it is
\* in, and every thread function returns some time.
Fairness ==
  /\ SF_vars(SysTick)
  /\ \A i \in Tcb : WF_vars(Handler(i))
  /\ WF_vars(MainHandler)

FairSpec == Spec /\ Fairness
ReturningSpec == FairSpec /\ \A i \in User : SF_vars(EndEnter(i))

\* While the timer runs, every thread comes to run again and again: what the
\* more urgent ones are charged leaves room for the others.
NoStarvation ==
  \A i \in User : []<>(systick_on /\ i \in Live => active_thread_index = i)

\* multitask_start returns once the thread functions do, whatever they held
\* and waited for when the more urgent ones ran (unless the machine stops).
JoinReturns == pc[Main] = "startPend" ~> (pc[Main] = "user" \/ fault # "none")
=============================================================================
