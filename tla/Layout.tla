------------------------------- MODULE Layout -------------------------------
(***************************************************************************)
(* Where the stacks of the threads lie and what the memory protection unit *)
(* opens of them: syscall_multitask_request cuts the two stack sections of *)
(* the linker script into slices, one for each thread and one for the idle *)
(* thread, and the context switch opens regions 6 and 7 over the slices of *)
(* the thread that takes over.  Multitask says which thread that is; here  *)
(* it is any.                                                              *)
(*                                                                         *)
(* Addresses are numbers below Word, and their arithmetic wraps.  A        *)
(* request that is refused changes nothing and is left out.                *)
(***************************************************************************)
EXTENDS Integers

CONSTANTS
  Word,              \* values of a uint32_t
  Powers,            \* the powers of two among them
  MAX_NUM_THREADS,
  MAX_TOTAL_THREAD_STACK_SIZE,
  MIN_REGION,        \* bytes of the smallest region of the MPU
  section,           \* __thread_user_stacks_limit
  StackBytes,        \* the stack sizes and
  ThreadCounts       \* thread counts asked of multitask_request

MAX == MAX_TOTAL_THREAD_STACK_SIZE

\* The address x is a multiple of y.
Multiple(x, y) == \E q \in 0 .. x : x = q * y

ASSUME WordAssumption == Word \in Nat \ {0} /\ Powers \subseteq 1 .. Word - 1
ASSUME PowersAssumption == \A x, y \in Powers : y <= x => Multiple(x, y)
ASSUME LimitsAssumption ==
  /\ MAX_NUM_THREADS \in Nat /\ MIN_REGION \in Nat
  /\ MAX \in Powers /\ MIN_REGION <= MAX
  /\ (MAX_NUM_THREADS + 1) * MAX < Word
\* The section of the kernel stacks follows that of the user stacks, which is
\* aligned (linker_template.lds).
ASSUME SectionAssumption ==
  /\ section \in Nat /\ section + 2 * MAX < Word
  /\ Multiple(section, MAX)
\* For more than the largest power of two ceil_log2 does not end.
ASSUME RequestAssumption ==
  /\ \A b \in StackBytes : \E p \in Powers : b <= p /\ \A x \in Powers : b <= x => p <= x
  /\ StackBytes \subseteq Nat
  /\ ThreadCounts \subseteq Nat

VARIABLES
  multitask_request_called, num_user_threads, protection_status,
  base_process_stack, limit_process_stack,   \* fields of user_threads
  base_main_stack, limit_main_stack,
  active_thread_index,
  region6, region7        \* the MPU regions of the process and the main stack

requestVars == <<multitask_request_called, num_user_threads, protection_status,
                 base_process_stack, limit_process_stack,
                 base_main_stack, limit_main_stack>>
vars == <<requestVars, active_thread_index, region6, region7>>

\* Threads and the idle thread; main comes after them.
Slots == 0 .. num_user_threads
Modes == {"KERNEL_PROTECT", "THREAD_PROTECT"}
Shut == [on |-> FALSE, limit |-> 0, size |-> 0]

Init ==
  /\ multitask_request_called = FALSE /\ num_user_threads = 0
  /\ protection_status = "KERNEL_PROTECT"
  /\ base_process_stack = [i \in 0 .. MAX_NUM_THREADS |-> 0]
  /\ limit_process_stack = [i \in 0 .. MAX_NUM_THREADS |-> 0]
  /\ base_main_stack = [i \in 0 .. MAX_NUM_THREADS |-> 0]
  /\ limit_main_stack = [i \in 0 .. MAX_NUM_THREADS |-> 0]
  /\ active_thread_index = 0
  /\ region6 = Shut /\ region7 = Shut

-----------------------------------------------------------------------------
(* mpu.c. *)

\* 1 << ceil_log2(n).  (Mutant: it goes past a power of two.)
RoundUpPast(n) == CHOOSE p \in Powers : n < p /\ \A x \in Powers : n < x => p <= x
RoundUp(n) == CHOOSE p \in Powers : n <= p /\ \A x \in Powers : n <= x => p <= x

\* mpu_region_disable.
Disable(r) == [r EXCEPT !.on = FALSE]

\* mpu_region_enable: a region too small or misaligned is refused and leaves what
\* was there.
Enable(r, limit, size) ==
  LET p == RoundUp(size)
  IN  IF p >= MIN_REGION /\ Multiple(limit, p)
      THEN [on |-> TRUE, limit |-> limit, size |-> p]
      ELSE r

-----------------------------------------------------------------------------

\* The space a request needs.  (Mutant: the idle thread is not counted.)
TotalThreads(n, size) == (size * n) % Word
Total(n, size) == (size * (n + 1)) % Word

Accepted(n, size) == n \in 1 .. MAX_NUM_THREADS /\ Total(n, size) <= MAX

\* The k-th address size bytes apart below top.
Below(top, k, size) == (top - k * size) % Word

Request(n, b, mode) ==
  LET size == RoundUp(b)
      Cut(f, top, k) == [i \in DOMAIN f |-> IF i <= n THEN Below(top, i + k, size) ELSE f[i]]
  IN  /\ ~multitask_request_called /\ Accepted(n, size)
      /\ multitask_request_called' = TRUE
      /\ num_user_threads' = n /\ active_thread_index' = n + 1
      /\ protection_status' = mode
      /\ base_process_stack' = Cut(base_process_stack, section + MAX, 0)
      /\ limit_process_stack' = Cut(limit_process_stack, section + MAX, 1)
      /\ base_main_stack' = Cut(base_main_stack, section + 2 * MAX, 0)
      /\ limit_main_stack' = Cut(limit_main_stack, section + 2 * MAX, 1)
      /\ IF mode = "KERNEL_PROTECT"
         THEN /\ region6' = Enable(region6, section, MAX)
              /\ region7' = Enable(region7, section + MAX, MAX)
         ELSE region6' = Disable(region6) /\ region7' = Disable(region7)

\* stack_size of PendSV_C_Handler.
Length(i) == (base_process_stack[i] - limit_process_stack[i]) % Word

\* The end of PendSV_C_Handler: thread i takes over.
Switch(i) ==
  /\ multitask_request_called /\ i # active_thread_index
  /\ active_thread_index' = i
  /\ IF protection_status = "THREAD_PROTECT" /\ i <= num_user_threads
     THEN /\ region6' = Enable(Disable(region6), limit_process_stack[i], Length(i))
          /\ region7' = Enable(Disable(region7), limit_main_stack[i], Length(i))
     ELSE UNCHANGED <<region6, region7>>
  /\ UNCHANGED requestVars

Next ==
  \/ \E n \in ThreadCounts, b \in StackBytes, mode \in Modes : Request(n, b, mode)
  \/ \E i \in 0 .. num_user_threads + 1 : Switch(i)

Spec == Init /\ [][Next]_vars

-----------------------------------------------------------------------------
(* Properties. *)

Regions == [on : BOOLEAN, limit : 0 .. Word - 1, size : 0 .. Word - 1]
Addresses == [0 .. MAX_NUM_THREADS -> 0 .. Word - 1]

\* Addresses are those of a uint32_t.
LayoutTypeOK ==
  /\ multitask_request_called \in BOOLEAN
  /\ num_user_threads \in 0 .. MAX_NUM_THREADS
  /\ protection_status \in Modes
  /\ base_process_stack \in Addresses /\ limit_process_stack \in Addresses
  /\ base_main_stack \in Addresses /\ limit_main_stack \in Addresses
  /\ active_thread_index \in 0 .. num_user_threads + 1
  /\ region6 \in Regions /\ region7 \in Regions

\* The slices are no larger than the section: a larger size is refused unless the
\* product with the number of threads wraps to a small one.
Normal == multitask_request_called /\ Length(0) <= MAX

Apart(lo1, hi1, lo2, hi2) == hi1 <= lo2 \/ hi2 <= lo1

\* Stacks lie in their sections and do not overlap, the idle thread's among
\* them, whatever number and size were asked for (multitask.c:281-283).
StacksApart == Normal =>
  /\ \A i \in Slots :
       /\ section <= limit_process_stack[i] /\ limit_process_stack[i] < base_process_stack[i]
       /\ base_process_stack[i] <= section + MAX
       /\ section + MAX <= limit_main_stack[i] /\ limit_main_stack[i] < base_main_stack[i]
       /\ base_main_stack[i] <= section + 2 * MAX
  /\ \A i, j \in Slots : i # j =>
       /\ Apart(limit_process_stack[i], base_process_stack[i],
                limit_process_stack[j], base_process_stack[j])
       /\ Apart(limit_main_stack[i], base_main_stack[i],
                limit_main_stack[j], base_main_stack[j])

Shuts(r, lo, hi) == r.on => Apart(r.limit, r.limit + r.size, lo, hi)
Covers(r, lo, hi) == r.on /\ r.limit <= lo /\ hi <= r.limit + r.size

\* With THREAD_PROTECT no stack of another thread is open to the thread that runs,
\* not even where a region was refused (multitask.c:127).
OthersShut ==
  Normal /\ protection_status = "THREAD_PROTECT" /\ active_thread_index \in Slots =>
    \A i \in Slots \ {active_thread_index} :
      /\ Shuts(region6, limit_process_stack[i], base_process_stack[i])
      /\ Shuts(region7, limit_main_stack[i], base_main_stack[i])

\* A thread can use the whole of its stacks, if they are as large as a region
\* can be.
OwnOpen ==
  Normal /\ Length(0) >= MIN_REGION /\ active_thread_index \in Slots =>
    LET i == active_thread_index
    IN  /\ Covers(region6, limit_process_stack[i], base_process_stack[i])
        /\ Covers(region7, limit_main_stack[i], base_main_stack[i])

\* The MPU isolates the stacks, switch after switch, for every accepted request.
RegionsIsolate == OthersShut /\ OwnOpen
=============================================================================
