# Verification of the nRF52840 HAL and its multitasking kernel

This directory holds TLA+ models of the kernel in `src/kernel`, TLC runs that
check them on small instances, and TLAPS proofs for instances of any size. Line
numbers below refer to the sources; `multitask.c` and the other `.c` files
without a path are in `src/kernel/src`.

To check everything: `tlc -config X.cfg M` for each run listed under "Runs"
(module M, file X), and `tlapm P.tla` for each module named `...Proofs`.

## 1. The system

A bare-metal program on one Cortex-M4 core: a kernel with a rate-monotonic
scheduler and priority-ceiling locks, drivers for a console and for the
peripherals of a model radar, and user programs that reach all of it by
system calls.

| Component | State | Operations | Modelled in |
| --- | --- | --- | --- |
| Scheduler and threads (`multitask.c`) | `user_threads[]` (state, budget, release, priorities, saved contexts), counters, `active_thread_index` | request, define, start (joins), yield, end, the PendSV scheduler | `Multitask` |
| Locks (`multitask.c`, `mutex.c`) | `user_locks[]`, global ceiling, waiting lists | `lock_init`, `lock`, `unlock`, release by `thread_end` | `Multitask`, `LockService` |
| SysTick (`systick.c`) | wrap counter, enable bit | handler, frequency, `sleep_ms` | `Multitask` |
| System call entry and exit (`syscall.c`, `asm/`) | SVC-active bit, stacks | dispatch, return | `Multitask` |
| Memory layout and protection (`multitask.c`, `mpu.c`, `linker_template.lds`) | stack bounds of each slot, regions 6 and 7 | partition by request, switch with the thread, MemFault | `Layout`; the fault's outcomes in `Multitask` |
| Console (`rtt.c`) | two ring buffers shared with the debugger | `write`, `read` | `Rtt`, `ByteQueue` |
| Stepper and TIMER0 (`stepper.c`, `timer.c`) | step number, direction, target, count | set speed, move, the step interrupt | `Stepper` |
| Ultrasonic, TIMER1, GPIOTE (`ultrasonic.c`, `timer.c`, `gpiote.c`) | last measurement, edge flag, counter | range, the edge and timeout interrupts | `Ultrasonic` |
| Command line of the radar (`src/app/radar`) | `command_buffer`, `command_index` | `process_user_input`, the reads of `calibrate` | `Console`, `LineReader` |
| Radar application (`src/app/radar`) | angle, modes, range, measurement, LED colours | commands; stepper, sensor and indicator threads | `Radar` |
| Neopixels and PWM (`pix.c`, `pwm.c`) | duty cycles | set one LED, send all | colours set and sent, in `Radar` |
| I2C and lux sensor, ADC, GPIO, printk, start-up, user library, default application | | | not modelled; reasons in section 8 |

How they interact. Programs trap into SVC, whose handler dispatches to a
`syscall_*` function. The functions that change who may run set PendSV, whose
handler switches threads. SysTick sets a flag and PendSV. Drivers wait in busy
loops, inside their system call, for what an interrupt handler writes. Threads
share the kernel's structures through calls alone; drivers and handlers share
`static volatile` variables; the console shares memory with the host.

What makes it hard. SVC has the lowest exception priority (2), SysTick, PendSV
and MemManage have 1, the timers and GPIOTE 0. A system call is therefore
preempted, between any two statements that are not under `disable_interrupts`
(FAULTMASK), by the scheduler, and other threads make the same calls meanwhile.
Scheduler and SysTick do not preempt each other. A thread switched out inside a
call must be switched in again inside it (`svc_status`).

What makes each part correct, in short: the scheduler runs the most urgent thread, keeps
every budget, and the deadline of every thread that passes the response-time test, and joins only when all have ended.
Locks exclude, ceilings and inherited priorities follow what is held, nobody deadlocks
or is forgotten on a list. Each console direction is a queue, and the command line cuts
it into the lines that were typed. A move makes the steps it was asked for, and what the
timer left running by the last move adds is bounded. A range is that of the call's own
echo. The radar asks its motor for the steps that `current_angle` stands for, and its
ring shows nothing but the arc swept. No thread reaches another's stacks. `PROJECT.json`
lists, line by line, the hazards behind these.

## 2. Modules

    Multitask          threads, scheduler, locks, SysTick, SVC
      LockService      what lock and unlock promise (abstract; INSTANCE in Multitask)
      MCMultitask      task sets for TLC
      MultitaskProofs  typing, mutual exclusion, refinement of LockService, SVC bit
      SchedulingProofs counts, priorities, budgets, ceilings, waiting lists, no deadlock,
                       response times
    Layout             stack partition and MPU regions
      LayoutProofs     stacks apart, regions isolate
    Rtt                console rings, threads and host
      ByteQueue        what one direction promises (abstract; two INSTANCEs in Rtt)
      RttProofs        typing, both refinements, read never waits
    Console            EXTENDS Rtt: the command line of the radar as its reading thread
      LineReader       what the command line promises (abstract; INSTANCE in Console)
      MCConsole        the command calibrate for TLC
      ConsoleProofs    refinement of Rtt's specification and of LineReader
    Stepper            motor and TIMER0
      MCStepper        moves for TLC
      StepperProofs    typing, steps of a move, rest, drift
    Ultrasonic         sensor, TIMER1, GPIOTE
      UltrasonicProofs typing, edge flag, stray timer, own echo
    Radar              the four threads of the application over the calls above
      RadarProofs      typing, LEDs of the arc, steps asked and angle

How they stand on each other. `Console` is a composition: its steps are steps of
`Rtt` joined with steps of the command line, and `ConsoleCalls` proves that it
implements `Rtt`'s specification. `Radar` takes the calls it makes as one step
each: the measurement lock excludes (`MutualExclusion`), a line is one command
(`LinesAreInput`), and `move_stepper` is asked for steps and returns. What the motor makes
of them is the subject of `Stepper` alone, and nothing in `Radar` depends on it. `Layout`
is independent of which thread the scheduler of `Multitask` picks.

### Multitask

Variables have the names of the C objects. Each `tcb_t` or `mutex_t` field is a
function over thread or lock indices; `Idle` and `Main` are the indices
`num_user_threads` and `num_user_threads + 1`. `pc[i]` is the point at which
thread i's saved context resumes: `"user"` in its program, any other label before
a piece of a handler. `lk`, `wi`, `df`, `ending` are the locals such a context
keeps. `cs[i]` is no kernel variable: it is what the program has been granted, so
that exclusion is stated about the caller and not about the kernel's own records.

One action is a piece of a handler that no other thread can see in the middle.

| Code | Actions |
| --- | --- |
| `SysTick_Handler`, then `PendSV_C_Handler` and `schedule_rms` | `SysTick` (with `PreemptPendSV`) |
| PendSV set by a call | `PendSV`, a part of `YieldPend`, `LockPend`, `UnlockPend`, `EndPend`, `StartPend` |
| `syscall_lock` | `LockEnter`; `LockAcquire` or `LockBlock` (FAULTMASK); `LockPend`, then back to the condition |
| `syscall_unlock` | `UnlockEnter`, `UnlockWake` per waiter, `UnlockWoken`, `UnlockReset` (FAULTMASK), `UnlockPend` |
| `syscall_thread_end` | `EndEnter`, `EndUnlock` per held lock, `EndDefunct`, `EndDec`, `EndPend` |
| MemFault | `MemFault`: one step, as the handler has PendSV's priority |
| `syscall_thread_define` | `DefineEnter` (all checks), `DefineFill`, `DefineFrames`, `DefineCount`, `OrderClear` per thread, `OrderAssign` per thread, `OrderDone` |
| `syscall_multitask_start` | `StartRefused` or `StartEnter`, `StartPend`, `StartJoin` |
| `lock_init`, `sleep_ms`, `exit`, `thread_yield` | `LockInit`, `SleepMs`, `Exit`, `Yield` and `YieldPend` |

Merged, because nothing that another actor does can fall differently inside:
the admission checks of `thread_define`; the field writes of `DefineFill`;
subtracting the utilization and the label Defunct; one `OrderAssign` iteration;
`validate_ceiling_id`. The hazards that the merge hides (two definers at once)
are listed with the property that a finer model would need.

Left out: `global_timeslot_counter` and `active_time` (counters that nothing
decides on), stack pointers and frames, what `sbrk` does. Utilization is an
exact multiple of `1/Scale` instead of a float; the periods of each run's tasks divide
its `Scale`.

Client discipline, from the headers and the two applications: a program unlocks
what it was granted; idle takes no locks; main does not call `thread_end`.

`TickAt` says at which labels SysTick may expire. It restricts the environment
and never the kernel: a wider set is a superset of behaviours. The theorems
allow any set; the runs use all labels (`tick_handlers`), or the program's only
where a tick inside a call breaks the property (section 6).

### Rtt

`pc[t]` is the statement of `rtt_write` or `rtt_read` at which thread t stands,
`index[t]` the copy of the shared index that the C function keeps in a local
(`rtt.c:58`, `rtt.c:101`), which is what makes two writers unsafe. Storing a byte
and publishing the index are separate steps for the program and for the host.
`rtt_peek`'s two reads are separate from each other and from `rtt_read`'s. The host
is environment, written from the roles that `rtt.h` describes.
The refinement maps `queue` to the slots from the read to the write index.

### Console

`at` is where `user_thread` is; `command_buffer` is the used part of the C array,
the characters kept and those the current call of `read` has stored; `scan` is the
index of the search loop. A character is looked at in a step of its own
(`SearchOn`, `HandleLine`), then `Shift`, `DiscardInput` or `Keep` ends
`process_user_input`. `Calibrate` reads on, one character at a time, in the middle of
the search: it takes characters that come after those still unseen. An empty line
may be taken for any command, because `cmd_word` is then uninitialised
(`main.c:119`). The host types any characters at any time. Lower-casing and the
terminator are left out, as lines are compared whole.

`LineReader` knows neither buffer nor calls: characters arrive, are cut at each
carriage return and handled in order, and a line as long as the buffer is
discarded. The refinement maps its `unseen` to what is behind `scan` and its `line`
to what is between the last command's end and `scan`.

### Radar

`pc[t]` is the statement at which each thread stands. A shared global is loaded and
stored in steps of their own (`current_angle += 1` is two), since a thread whose
budget is used up is suspended anywhere. `asked` counts the steps asked of
`move_stepper` since angle 0, those back negative, and `clean` says that there has been
no calibration yet. The commands `help` and `speed` change nothing that the threads
share: the speed set by `speed` and `reset` is `SpeedEnter` of `Stepper`. `pix` is the
colour of each LED, `sent` whether the PWM was told to send it since it was set.

| Code | Actions |
| --- | --- |
| `handle_user_command` | `Start`, `Stop`, `Range`, `Reset`; `Calibrate` ... `Confirm` ... `CalibrateReload`; `Exit`, `ExitBlank`, `ExitLoad` |
| `stepper_thread`, active | `MoveBegin`, `MoveEnd`, `StoreAngle`, `CheckAngle` |
| `stepper_thread`, calibrating or idle | `MoveNone`; `TurnBegin`, `TurnEnd`, `StoreTurn`, `InBounds` or `OutOfBounds`, `LoadWrap`, `StoreWrap`; `StepperYield` |
| `sensor_thread` | `Measure`, `StoreMeasurement` |
| `indicator_thread` | `Indicate` or `IndicateNone`, `ChooseLed`, `Show`, `IndicatorLoad`; `DarkenBegin`, `Darken` or `DarkenNone` |

### Layout

`Request` is `syscall_multitask_request` as far as memory goes: rounding to a power
of two, the product that may wrap, the bounds of each slot, the regions. `Switch`
is the end of `PendSV_C_Handler`; any thread may be next. `Enable` refuses what
`mpu_region_enable` refuses and then leaves the region as it was, which for a
disabled region means that it stays shut. Addresses wrap at `Word`. The sizes for
which `ceil_log2` does not end are excluded by `RequestAssumption`.

### Stepper

`stepper_move` is entered, sets its target (`stepper.c:81`), resets the count
(`timer.c:61`), starts the timer and waits; the handler steps, counts and stops.
`taken`, `found`, `before`, `alone`, `rpm` and `drift` record what the properties need:
the steps since the last move was called; what that call found - the timer stopped,
ticking (all steps made, but not stopped yet) or stepping - and the count it found;
whether no two calls have overlapped since the last rest; and how far the rotor is from
the steps made, counting what each change of pattern turns.

### Ultrasonic

The sensor answers each trigger with one pulse of any length; `Elapse` lets a
unit of time pass for pulse and counter. Handlers run before a thread goes on
(`Interrupt`), but several interrupts and any delay may fall between two
statements of the caller. Callers keep the gap between calls that the sensor needs
(`RangeEnter`'s guard). A sensor that never answers, and a reset in the middle
of a pulse, are not modelled.

## 3. Runs

All but the two named `claim_...` pass. The runs of Multitask have module
`MCMultitask`, `motor` has `MCStepper`, `console` has `MCConsole`, `claim_arc` has
`Radar`, and the others the component's own.

| Run | Instance | Question |
| --- | --- | --- |
| `coop_threads` | 3 threads, frequency 0, main defines them, all of define, yield, sleep, end, fault, exit | Do count, utilization and priorities agree, through reuse of ended slots? |
| `tick_locks` | 3 threads, 2 locks, ticks in programs | Do ceilings, inheritance, blocking bounds and waiting lists hold while nesting in any order? Is the most urgent thread the one that runs? |
| `tick_handlers` | 2 threads that lock, unlock and fault, 1 lock, ticks at every label | Do locks still exclude, as the lock service says, and does each context resume with its own SVC bit? |
| `tick_ends` | 2 threads, 2 locks, end and fault while holding | Are waiters woken, does main join last, and does it join? |
| `deadlines` | admitted sets of up to 3 tasks out of 5 that compute and yield, 1 and 2 wraps a tick | Do threads that pass the response-time test meet their deadlines, are budgets kept, does everyone run again and again? |
| `console` | 1 writer and the user thread, rings of 2 and 3 slots, a command buffer of 2, one letter and the carriage return | Is each direction a queue, does `read` never wait, are the lines handled those typed, is everything typed read in the end? |
| `motor` | a mover and a setter at any interleaving, moves of -2, 0 and 3 steps, two speeds | Do lone moves make the steps asked, and no more than an interrupt before the reset of the count can add? Do they return, is the motor still at rest, does the rotor keep its place? |
| `ranging` | pulses of 1 to 40 ms, timeout 36 ms | Is the range that of this call's pulse, does the edge flag survive timeouts, does every call in time return? |
| `radar` | ring of 2 LEDs, sweep of 3 angles, 17 steps for 3 degrees, all commands but `speed` and `help` | Do the steps asked keep to the angle, does only the arc light up, does an idle radar go dark? |
| `layout` | 256 addresses, sections of 32, up to 5 threads, sizes at and around each power of two | Are stacks disjoint and inside their sections, do the regions open exactly the running thread's? |
| `claim_queued` | 3 threads, 1 lock, ticks at every label | Section 6. |
| `claim_arc` | that of `radar` | Section 6. |

Bounds and why they suffice. Two threads show every pairwise race in a call, a
third the transitive ones: a blocker of a blocked thread, a thread that slips in
between two. Two locks give nesting, in either order, and inheritance from the
lock that is left; the ceiling test compares one lock with the rest. `WordMax =
15` keeps the 32-bit wrap of decrements reachable (periods are at most 12). Of the sets that
`deadlines` admits all pass the response-time test but one, the task of 2 ticks in 2,
which misses deadlines; one leaves the less urgent threads a third of the time.
`MaxBlocked` is the number of threads unless a list must be able to overflow; 14
as in the code where nothing waits. Three slots make a ring empty, half full and
full, and wrap at every position; messages are up to the ring's capacity and
find it partly filled. Moves in both directions and of no steps, from a
stopped and a running timer, cover the phases of four patterns, since a move of
3 and one of -2 reach all of them. `MaxHandled = 5` bounds the count only where
overlapping calls have made it miss its target. Pulses of whole milliseconds on
both sides of 36 ms suffice as handlers do not depend on shorter times; the
proofs have no such bound. A command buffer of two characters is filled, cut by a
read and emptied of several lines at once; its ring of three slots holds more than
it. The radar's 256 steps for 45 degrees become 17 for 3: as there, a degree is not
a whole number of steps, and the remainder comes back to zero only after several
trips of the sweep, so that an error that added up would leave `Slack` (2 steps). Its
word wraps just past `FullTurn`. The sections of `layout` hold exactly one region
of the largest size and eight of the smallest; 64 units for each of 3 threads are
accepted because the product wraps to 0, and 255 threads are refused by their number.

`CHECK_DEADLOCK FALSE` stands where the modelled system may stop: programs
that fault the machine or end, a caller of `ultrasonic_range` whose result
was wiped out, and the radar after `exit`.

## 4. Fairness

- `SF(SysTick)` in `FairSpec`: the timer counts while enabled. Strong, because a
  label outside `TickAt` only postpones a tick.
- `WF(Handler(i))`, `WF(MainHandler)`: the processor executes the handler it is
  in. Nothing is assumed of programs, so a thread may compute for ever; `deadlines`
  relies on that.
- `SF(EndEnter(i))` in `ReturningSpec` alone: thread functions return some time, which is
  what "joins the threads" presupposes.
- Console, motor, sensor: each thread in a call goes on (what `NoStarvation`
  shows of the scheduler), interrupts are served, the host reads, the sensor
  ends its pulse. `FairConsole` does not assume that the user types.
- `Radar!FairSpec`: each of the four threads goes on when it can; the user need give no
  command, nor confirm a calibration, hence `Command` and `Confirm` are not fair.

## 5. Proofs

Each theorem is about the whole specification for all constants that satisfy the
named assumptions, which TLC evaluates in the runs.

`MultitaskProofs`. `Typing` (`Spec => []TypeOK`) from `TInv`: the types are
inductive only together with `FramesOK`: where `wi`, `lk` and `ending` may point at
each label, so that no index leaves its array. `Exclusion`
(`Spec => []MutualExclusion`) from `LInv`: the locks in `cs[i]` are those
`current_locker` names i for, but for the one i is just unlocking and those it
gives up as it ends, and a lock with an owner has `s = 0`. `cs` is disjoint
because `current_locker` is a function. Without the clause for the pieces of
unlock and end the invariant is not inductive, since these take the lock from
`cs` long before they take it from the owner. `Refinement` (`Spec =>
LockRefinement`) uses the same invariant: only `LockAcquire`, `UnlockReset` and
`MemFault` change owners, each as `Acquire` or `Release` of `LockService`.
They hold for ticks at any label.
`SvcBit` (`SvcBitFollows`) from `SvcInv`: the saved bit of each suspended thread is that
of the point where it was suspended, but for the slot that `thread_define` has half made
(`HalfMade`). It holds for ticks everywhere but in the two pieces that make a slot, and
there too where only main defines threads.

`SchedulingProofs`. Outside its FAULTMASK brackets the kernel masks SysTick nowhere,
and section 6 lists what a tick can break. What a tick does break - the count,
the utilization, the join, the waiting lists - is proved of the cooperative scheduler
(`Cooperative`: frequency 0, so no tick), which is a mode of the kernel and needs nothing
assumed about where ticks fall. The other theorems name as hypotheses about `TickAt` and
`Calls` the pieces they need left whole, and hold for ticks at all other labels:

| Theorem | Property | Hypotheses |
| --- | --- | --- |
| `UrgentRuns` | `MostUrgentRuns` | `FixedTasks` |
| `LockFreeBudget` | `BudgetKept` | `NoLocking` |
| `CountOfLive`, `JoinOfAll`, `UtilizationOfLive` | `CountMatches`, `JoinSafety`, `UtilizationMatches` | `Cooperative`, `FixedTasks` or `NoLocking` |
| `RateMonotonicOrder` | `RateMonotonic` | `CriticalUninterrupted`, `FixedTasks` or `NoLocking`, `NoSentinel` |
| `CeilingIsExact`, `BlockedOnce`, `OwnPriority`, `Inheritance` | `CeilingExact`, `SingleBlocker`, `PriorityRestored`, `OwnerInherits` | `CriticalUninterrupted`, `FixedTasks` |
| `Queued` | `BlockedIsQueued` | `Cooperative`, `FixedTasks` |
| `NoDeadlock` | `DeadlockFree` | `CriticalUninterrupted`, `UnlockUninterrupted`, `FixedTasks` |
| `ResponseTimes` | `ResponseMet` | `NoLocking`, `FixedTasks`, `SwitchUninterrupted`, `CriticalUninterrupted` |
| `Deadlines` | `DeadlineMet`, from `[]Schedulable` | the same |

`FixedTasks`: only main defines threads, as both applications do (a definition at run
time reorders the priorities and leaves the ceilings and the inherited priorities
stale). `CriticalUninterrupted`: no tick between the label Defunct and the switch away
in `thread_end` (a tick there revives the thread), nor in `thread_define`; the latter
only where threads define threads, since SysTick is off while main does, which is proved
(`NoTickInCritical`). `UnlockUninterrupted`: none from the wake-up loop to the reset,
where `claim_queued` has one. Both hold of the cooperative scheduler.
`SwitchUninterrupted`: none between the
label Waiting of a yield, or the start, and the switch (a tick there charges and
relabels the thread that has yielded). `NoLocking`: the programs take no locks; blocking
is not accounted for in the test. `NoSentinel`: no task has 0xFFFFFFFF as both its
period and its id, which `order_absolute_priorities` takes for "none".

The argument. `CountInv`: which thread may be where (`Phases`: whoever does not execute
is in no critical piece), and `num_active_threads` is the number of live threads but for
the one being defined or ended; every step leaves the set of live threads, adds one or
takes one away (`StepLive`). `Waiting` adds where threads that wait for locks can be,
`Resources` the state of the locks: the system ceiling is exact; the owners are
*nested* (of two threads that hold locks, one has a static priority above the ceilings of
all that the other holds); and a listed thread is *refused* for as long as it is listed
(it is no more urgent than the ceiling of that lock, which another holds). None of these
is inductive by itself: that `LockAcquire` keeps the owners nested uses that the ceiling is
exact; that an unlock restores the ceiling uses that they are nested; and that the switch
never takes a waiter before its owner uses inheritance (`AskedInherit`), which in turn
uses that a refused thread has an owner to wait for. The conjunction is `Ceiling`.
`Inheritance` is about the owner of the lock a thread asked for; the holder of the
ceiling that keeps it from an open lock inherits nothing (section 6).
`Queued` adds that a thread stays on a list from its refusal to the wake-up that empties
the list (`Queues`). `NoDeadlock`: an owner that waits for an owner waits for one of a
more urgent static priority (`WaitBelow`), and of these priorities there is a first.
`RateMonotonicOrder` follows the two loops of `order_absolute_priorities` (`Ordering`): no
thread still to be placed comes before a placed one by period and id.
`UtilizationOfLive` states the sum over the slots as a recursive function and proves what
changing one term of it does (`SumChange`).

`ResponseTimes` is the response-time analysis of rate-monotonic scheduling, for this
scheduler. `Responsive(i)` is its test: there is an R, at most i's period, such that the
work that i and the threads as urgent can be released with in R ticks (`Demand`) is
*less* than R; textbooks have "at most", but here a released thread does not compete in
the decision of the tick that releases it (`multitask.c:161-177`). The test is
sufficient, not necessary. The argument is that
of the busy period, made inductive over ticks. Say that a thread *competes* from the
tick after its release until it has done, or yielded, its work. At a tick, either none
of the threads as urgent as i competes, or one of them executes (`BusyActive`). A
*window* starts when they begin to compete; in it every tick but the first is work done
for them, so that `Progress`, the work they have competed with less what is left of it,
has grown with each tick. By `Needs` it is at most the demand of the ticks gone by, so
that where R ticks demand less than R the window ends before R (`WindowEnds`), and
`Windows` - each window is younger than every R in which its threads fit - is inductive
together with where a period stands (`Releases`), that only the executing thread is
labelled Running (`Execution`), that a competing thread keeps the idle thread from being
chosen (`Idling`), that priorities are the threads' own (`Own`) and that nothing has
been consumed before the start (`Fresh`). The conjunction is `Response`. Thread i's own
job, at last, starts to compete at most a period less one tick before it restarts, hence
within a window that has ended by then (`RestartMeets`). Nothing is assumed about the
less urgent threads, which may miss theirs, nor about the utilization. `Deadlines`
follows for sets that pass the test as a whole (`Schedulable`). That is a condition on the
task set: the kernel's own test, a bound on the utilization, does not imply it (section 6),
and no run has it as an invariant.

`RttProofs`. The three lemmas on rings (`StoreUnread`, `PutUnread`,
`TakeUnread`) say for any size what moving an index does to the sequence of unread
bytes. `UpInv` and `DownInv` say that the local index equals the shared one while
a call is under way, that storing happens only where the ring is not full, and
that what is published is there. `WriteIsQueue` and `ReadIsQueue` prove the
refinements of `ByteQueue`, `ReadReturnsAtOnce` that `read` never waits, all for
any sizes and with any number of other threads, from `OneWriter` or `OneReader`;
`RttTyping` needs neither.

`StepperProofs`. `StepperTyping`: the division for the compare value stays within 16
bits for all speeds that `DivisibleSpeeds` admits, those for which no divisor is 0.
`NoDrift`: `drift` is always the opposite of the last step's direction, and the step
number one on in that direction (`RotorInv`). `StepsExact` and `Still`: `CallInv`
follows a lone move from label to label. Until the count is reset an interrupt compares
the new target with the old count, `before`, and each step it makes brings the two
closer (`MoveSoFar`): none if they are equal or the timer is stopped, at most the
difference if the new move is longer. If the last move was longer they part, and the steps
are bounded only by how long the caller is suspended there.

`UltrasonicProofs`. `UInv` has one clause per phase of the sensor (triggered,
rising, high, falling, low) and says in each who has still to look at the pulse
and what the counter is worth. `FlagFollowsPin`, `NoStrayTimer` and `OwnEcho`
follow, for any timeout and any pulse. `UltrasonicTyping` adds that the counter stops at the
timeout.

`ConsoleProofs`. `ConsoleCalls` (`ConsoleSpec => Spec` of `Rtt`) makes every theorem of
`RttProofs` one about the command line: `InputOnce` is two of them. It needs
`ConsoleInv`: where the user thread is says which call of `read` is under way and for
how many characters, and `Room` (proved as `BufferKept`) says that these fit the buffer
and that there is at least one, without which the call would be none that `Rtt` knows.
`CommandsAreLines` (`ConsoleSpec => LinesAreInput`) maps each step to one of
`LineReader`: a copied character is delivered, `SearchOn` extends, `HandleLine` handles,
`DiscardInput` discards, and `Shift` is a stutter, as the sequences on both sides of
`scan` stay.

`LayoutProofs`. `LayoutInv` says that there is one power of two z for which the request
was accepted, that every slot's bounds are multiples of z below the top of its section,
and, where z is no larger than the section, that the regions are those of the protection
mode: both sections, nothing if z is too small for a region, or exactly the running
thread's slices. `Separation` and `Isolation` follow for any number of threads and any
sizes; powers of two enter only as numbers that divide the larger ones
(`PowersAssumption`).

`RadarProofs`. `RadarTyping`, and `ArcLit` from `ArcInv`: until `clean` is lost, the
angle at each label of `stepper_thread` is bounded by the direction of the sweep
(forward it is below `SweepEnd`, or at it before `CheckAngle`; backward above 0), so
that no interleaved load by the indicator sees an angle beyond the arc. `StepsTrack`
(`StepsTrackAngle`): a move of a degree asks for the whole steps of `STEP_RATIO` plus what
the last move left over, so on the way out the steps asked are behind the exact number by
`accumulator / DEGREE_RATIO` of a step, on the way back ahead of it by as much (`Out`,
`Back`, with `Reached` for the angle of a move that is not yet stored). When the sweep
turns round, what is left over changes sides, and each trip ends a fraction of a step
off. This does not hold for all constants. The theorem's hypothesis `Balanced(home)`
says what is needed of the numbers: that the steps asked by angle 0 are a function
`home` of what is left over there, and within `Slack`; if
`DEGREE_RATIO` (in lowest terms with the remainder of a trip) is even there is no such
function, as the errors of successive sweeps add up. `StepsTrackAsBuilt` exhibits it for
the numbers of `main.c`: 256 steps for 45 degrees and trips of 179, for which the
remainders repeat after 45 sweeps and the steps asked are never more than 4 (0.7 degrees)
off. For the instance of `radar` it is 0, 1, 0. The place of the dish itself is another
matter: it also depends on steps that the motor makes without being asked (section 6).

Only model-checked: all liveness, which is out of the prover's reach.

## 6. Where code and comments disagree

Two runs refute a sentence of the sources; each is listed under "findings".

- `claim_queued` (`multitask.c:739`): a thread that blocks between the wake-up
  loop and the reset of the list is on no list, so that no unlock wakes it.
- `claim_arc` (`main.c:269` of the radar): a calibration sets the angle to 0 while
  the sweep may run backwards; the next step back wraps the unsigned angle, and the
  sweep meets neither 0 nor 179 until it has gone through all of them.

Met while modelling, without a run of their own:

- `error.h:58` (a task is refused that would put the set "at risk of missing a
  deadline"): a task with `c = t` is admitted, alone, by the bound 1.0, but its first
  period is `t - 1` ticks (`multitask.c:460`); it has work left when that ends
  (`deadlines` has such a task, and without its `Responsive(i)` the property `ResponseMet`
  is violated there). From 3 tasks on, `util_bound` is rounded up in places (0.7798 for
  0.77976): 13 ticks in 50, 16 in 63 and 21 in 79 are admitted, and the third fails the
  test. Sets strictly below the exact bound pass it, by the theorem of Liu and Layland,
  which is not proved here.
- `multitask.c:516` ("joins the threads"): a tick between `state = ThreadDefunct` (617)
  and PendSV (619) relabels the dead thread; it ends twice, and main joins while
  another thread lives. `JoinSafety` holds for ticks in programs (`tick_ends`) and without
  ticks (`JoinOfAll`); so does `CountMatches` without (`coop_threads`, `CountOfLive`).
- `multitask.c:671` ("a maximum of 1 lock"): the release of a period makes a blocked
  thread Ready (180); it tries again, and is put on a list a second time (708).
- `ultrasonic.c:66` (the timeout "may set an infinite range"): the late falling edge
  (`gpiote.c:37-50`) overwrites the infinite range with 0 before a suspended caller has
  read it, which then waits for ever. `RangeReturns` is about pulses in time.
- `multitask.c:460`: with `t = 1` the first `time_until_release`, `t - 1`, wraps.
- `multitask.c:173`: the sweep says releases are "in time for scheduling
  decision"; a released thread competes from the next decision on. Each job so loses
  a tick, which the admission test does not count.
- `multitask.c:583`: a tick between the label Waiting and PendSV charges a thread
  that may already be out of time: `remaining_work` wraps (line 86). So does a tick in the
  loop of `lock`, for a thread that an unlock made Ready again. `BudgetKept` is checked
  and proved of threads that take no locks.
- `multitask.c:714`: inheritance through a lock that is open writes to a null
  pointer. Priorities reordered by a `thread_define` at run time leave ceilings
  as they were.
- `multitask.c:376`: a tick while priorities are being ordered finds nobody to
  schedule.
- `multitask.c:427-467`: two definers interleaved may take the same slot and
  lose an update of the utilization (444, 448).
- `systick.c:55`: `sleep_ms` takes the tick timer and leaves it off.
- With frequency 0, a thread that yields waits for a release that no tick brings.
- `rtt.c:58`: two threads that write, or a fault's `printk` inside a write,
  overwrite each other's bytes (Rtt with two Writers shows it).
- `stepper.c:65` ("fired repeatedly until steps_to_move have been counted, after which the
  timer peripheral is de-activated"): the timer is stopped by the interrupt *after* the
  last step, one period after the move has returned. A move called before that sets its
  target (81) and then resets the count (`timer.c:61`); an interrupt between the two makes
  a step that is not counted. The radar asks for 5 or 6 steps back to back, so its dish may
  gain a step each time a move of 6 follows one of 5; such steps add up. When a move of 5
  follows one of 6, each interrupt in between makes one, for as long as the caller is
  suspended there. `ExactMoves` states the bounds, `StepsTrackAngle` is about the steps asked.
- `timer.c:46`: setting the speed during a move may end it early, add steps, or
  zero the count after the timer has stopped, so that the move never returns.
- `stepper.c:122`: the first step after a reversal turns the wrong way;
  `DriftBounded` shows that this never adds up.
- `multitask.c:255`: of the requests "larger than 32kB", those whose product wraps in
  32 bits are accepted (`Normal` in `Layout` sets them apart). Stacks of 16 bytes or
  less are below the smallest MPU region: the refusal (`mpu.c:31`) is ignored, and the thread
  has no stack open. Up to 32 bytes the first frames do not fit the slice.
- `arm.h:109`: `ceil_log2` of more than 2^31 does not end.
- `mpu.c:213`, `217`: the handler compares the stack pointer with the words stored at
  the linker symbols, not with their addresses.
- `pwm.h:143`: "Blocks until the sequence has completed"; `pwm.c:82-85` returns at once.
- `main.c:46` of the radar: `current_angle` "should only be updated by the
  stepper_thread"; line 144 stores to it from `user_thread`, and may be overwritten by an
  angle loaded before (306).
- `main.c:119`: after an empty line `cmd_word` is not set, and what lies on the stack is
  taken for the command.
- `main.c:373`: before the first measurement `last_ultrasonic_measurement` is 0, which is
  in range: the first LED turns red.

## 7. Properties and mutants

Every property of a passing run is violated, under that run's own configuration,
by a plausible slip in the modelled code. The slips are operators next to the
definition they replace, marked "Mutant" (a dropped guard, a missing reset, an
index one off), and are used by no specification.

## 8. Not modelled, and what is left

Not modelled: I2C and the lux sensor (nothing in the repository initialises the I2C
leader; the driver polls registers, with no other actor), the encoding of colours
into duty cycles and the set-up of the PWM (data and registers), ADC (unused),
GPIO (single register writes), printk (formatting in front of `rtt_write`), start-up
and the reset button (straight-line initialisation that produces the initial
states), the user library (one instruction per call), and `src/docs`, the Doxygen
output of these sources with the scripts of its viewer. Inside modelled parts: the fixed MPU
regions 0 to 5, stack frames, float rounding of utilizations, a sensor that never
answers, and a reset during a pulse.

Left, in this order:

1. Multitask with a finer `thread_define` (two definers at once) and with ticks inside the
   ordering of priorities; what then fails is listed in section 6.
2. A composition of `Radar` with `Stepper`, to say how far the dish itself may be from the
   angle: the steps an interrupt adds between two moves and those a change of speed
   adds or loses.
3. Response times of threads that take locks: the test with the term for one blocking
   (`BlockedOnce` bounds it to one critical section), in place of `NoLocking`.
