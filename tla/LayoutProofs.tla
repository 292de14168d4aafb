---------------------------- MODULE LayoutProofs ----------------------------
(***************************************************************************)
(* The stacks of Layout do not overlap and the MPU isolates them, for any  *)
(* number of threads, any size of the sections and any request.            *)
(***************************************************************************)
EXTENDS Layout, TLAPS

-----------------------------------------------------------------------------
(* Arithmetic. *)

LEMMA ModSame == ASSUME NEW x \in 0 .. Word - 1 PROVE x % Word = x
BY WordAssumption

LEMMA ModUp == ASSUME NEW x \in Int, -Word <= x, x < 0 PROVE x % Word = x + Word
BY WordAssumption

LEMMA ModType == ASSUME NEW x \in Int PROVE x % Word \in 0 .. Word - 1
BY WordAssumption

\* Quotient and remainder are unique.
LEMMA ModUnique ==
  ASSUME NEW x \in Int, NEW q \in Int, NEW r \in 0 .. Word - 1, x = q * Word + r
  PROVE  x % Word = r
<1> DEFINE p == x \div Word
           s == x % Word
<1>1. Word \in Nat \ {0}
  BY WordAssumption
<1>2. p \in Int /\ s \in 0 .. Word - 1 /\ x = Word * p + s
  BY <1>1
<1> HIDE DEF p, s
<1>3. s - r = (q - p) * Word
  <2>1. x = p * Word + s
    BY <1>1, <1>2
  <2>2. (q - p) * Word = q * Word - p * Word
    BY <1>1, <1>2
  <2>3. q * Word \in Int /\ p * Word \in Int
    BY <1>1, <1>2
  <2> QED BY <2>1, <2>2, <2>3, <1>1, <1>2
<1>4. q - p \in Int /\ s - r > -Word /\ s - r < Word
  BY <1>1, <1>2
<1>5. ~(q - p >= 1)
  <2>1. SUFFICES ASSUME q - p >= 1 PROVE FALSE
    OBVIOUS
  <2>2. (q - p) * Word >= 1 * Word
    BY <1>1, <1>4, <2>1
  <2> QED BY <2>2, <1>1, <1>3, <1>4
<1>6. ~(q - p <= -1)
  <2>1. SUFFICES ASSUME q - p <= -1 PROVE FALSE
    OBVIOUS
  <2>2. (q - p) * Word <= (-1) * Word
    BY <1>1, <1>4, <2>1
  <2> QED BY <2>2, <1>1, <1>3, <1>4
<1>7. q = p
  BY <1>2, <1>4, <1>5, <1>6
<1>8. s = r
  BY <1>1, <1>2, <1>3, <1>7
<1> QED BY <1>8 DEF s

\* The difference of two addresses that have wrapped.
LEMMA ModDifference ==
  ASSUME NEW x \in Int, NEW y \in Int, x - y \in 0 .. Word - 1
  PROVE  ((x % Word) - (y % Word)) % Word = x - y
<1> DEFINE p == x \div Word
           q == y \div Word
           r == x % Word
           s == y % Word
<1>1. Word \in Nat \ {0}
  BY WordAssumption
<1>2. /\ p \in Int /\ r \in 0 .. Word - 1 /\ x = Word * p + r
      /\ q \in Int /\ s \in 0 .. Word - 1 /\ y = Word * q + s
  BY <1>1
<1> HIDE DEF p, q, r, s
<1>3. r - s = (q - p) * Word + (x - y)
  <2>1. (q - p) * Word = Word * q - Word * p
    BY <1>1, <1>2
  <2>2. Word * q \in Int /\ Word * p \in Int
    BY <1>1, <1>2
  <2> QED BY <2>1, <2>2, <1>1, <1>2
<1>4. (r - s) % Word = x - y
  <2>1. q - p \in Int /\ r - s \in Int
    BY <1>1, <1>2
  <2> QED BY <2>1, <1>3, ModUnique
<1> QED BY <1>4 DEF r, s

\* j - i slices lie between the tops of slices i and j.
LEMMA TimesMonotone ==
  ASSUME NEW i \in Nat, NEW j \in Nat, NEW z \in Nat, i <= j
  PROVE  i * z <= j * z
<1>1. PICK d \in Nat : j = i + d
  <2>1. j - i \in Nat /\ j = i + (j - i)
    OBVIOUS
  <2> QED BY <2>1
<1>2. j * z = i * z + d * z
  BY <1>1
<1>3. d * z \in Nat /\ i * z \in Nat
  OBVIOUS
<1> QED BY <1>2, <1>3

\* A power of two is its own rounding.
LEMMA RoundUpPower == ASSUME NEW p \in Powers PROVE RoundUp(p) = p
<1>1. p <= p /\ \A x \in Powers : p <= x => p <= x
  BY WordAssumption
<1>2. \A y \in Powers : (p <= y /\ \A x \in Powers : p <= x => y <= x) => y = p
  BY WordAssumption
<1> QED BY <1>1, <1>2, Zenon DEF RoundUp

LEMMA RoundUpRequest == ASSUME NEW b \in StackBytes PROVE RoundUp(b) \in Powers
BY RequestAssumption, Zenon DEF RoundUp

\* The sections are aligned.
LEMMA SectionsAligned ==
  Multiple(section, MAX) /\ Multiple(section + MAX, MAX) /\ Multiple(section + 2 * MAX, MAX)
<1>1. MAX \in Nat /\ MAX >= 1 /\ section \in Nat
  BY WordAssumption, LimitsAssumption, SectionAssumption
<1>2. PICK q \in Nat : section = q * MAX
  BY SectionAssumption DEF Multiple
<1>3. section + MAX = (q + 1) * MAX /\ section + 2 * MAX = (q + 2) * MAX
  BY <1>1, <1>2
<1>4. q <= q * MAX
  <2>1. 1 * q <= MAX * q
    BY <1>1, TimesMonotone
  <2> QED BY <2>1, <1>1
<1>5. q + 1 \in 0 .. section + MAX /\ q + 2 \in 0 .. section + 2 * MAX
  BY <1>1, <1>2, <1>4
<1> QED BY <1>3, <1>5, SectionAssumption DEF Multiple

\* What is a multiple of MAX is a multiple of each smaller power of two, and
\* stays one when slices of that size are taken off.
LEMMA SliceAligned ==
  ASSUME NEW top \in Nat, Multiple(top, MAX),
         NEW z \in Powers, z <= MAX,
         NEW k \in Nat, k * z <= top
  PROVE  Multiple(top - k * z, z)
<1>1. z \in Nat /\ z >= 1 /\ MAX \in Powers /\ MAX \in Nat
  BY WordAssumption, LimitsAssumption
<1>2. PICK q \in Nat : top = q * MAX
  BY DEF Multiple
<1>3. PICK r \in Nat : MAX = r * z
  <2>1. Multiple(MAX, z)
    BY <1>1, PowersAssumption
  <2> QED BY <2>1 DEF Multiple
<1>4. top = (q * r) * z
  <2>1. q * (r * z) = (q * r) * z
    BY <1>1
  <2> QED BY <2>1, <1>2, <1>3
<1> DEFINE m == q * r - k
<1>5. m \in Int /\ top - k * z = m * z
  BY <1>1, <1>4
<1>6. m >= 0
  <2>1. SUFFICES ASSUME m <= -1 PROVE FALSE
    BY <1>5
  <2>2. m * z <= (-1) * z
    BY <2>1, <1>1, <1>5
  <2> QED BY <2>2, <1>1, <1>5
<1>7. m <= m * z
  <2>1. z - 1 \in Nat /\ m \in Nat
    BY <1>1, <1>5, <1>6
  <2>2. m * (z - 1) >= 0 /\ m * z = m * (z - 1) + m
    BY <2>1, <1>1
  <2> QED BY <2>1, <2>2
<1> QED BY <1>5, <1>6, <1>7 DEF Multiple

-----------------------------------------------------------------------------
(* The inductive invariant: the stacks are the slices of an accepted size, and *)
(* the regions are shut or on the slices of the active thread.                 *)

Sliced(z) ==
  /\ num_user_threads >= 1 /\ Total(num_user_threads, z) <= MAX
  /\ \A i \in Slots :
       /\ base_process_stack[i] = Below(section + MAX, i, z)
       /\ limit_process_stack[i] = Below(section + MAX, i + 1, z)
       /\ base_main_stack[i] = Below(section + 2 * MAX, i, z)
       /\ limit_main_stack[i] = Below(section + 2 * MAX, i + 1, z)

OpenAt(r, limit, z) == r = [on |-> TRUE, limit |-> limit, size |-> z]

OpenOwn(z) ==
  /\ protection_status = "KERNEL_PROTECT" =>
       OpenAt(region6, section, MAX) /\ OpenAt(region7, section + MAX, MAX)
  /\ protection_status = "THREAD_PROTECT" /\ z < MIN_REGION =>
       ~region6.on /\ ~region7.on
  /\ protection_status = "THREAD_PROTECT" /\ z >= MIN_REGION /\ active_thread_index \in Slots =>
       /\ OpenAt(region6, limit_process_stack[active_thread_index], z)
       /\ OpenAt(region7, limit_main_stack[active_thread_index], z)

LayoutInv ==
  /\ LayoutTypeOK
  /\ multitask_request_called =>
       \E z \in Powers : Sliced(z) /\ (z <= MAX => OpenOwn(z))
  /\ ~multitask_request_called =>
       ~region6.on /\ ~region7.on /\ num_user_threads = 0 /\ active_thread_index = 0

\* An accepted size no larger than the section has not wrapped.
LEMMA NoWrap ==
  ASSUME NEW n \in 1 .. MAX_NUM_THREADS, NEW z \in Powers, z <= MAX, Total(n, z) <= MAX
  PROVE  /\ (n + 1) * z <= MAX
         /\ \A k \in 0 .. n + 1 : k * z \in 0 .. MAX
<1>1. z \in Nat /\ MAX \in Nat /\ n \in Nat /\ MAX_NUM_THREADS \in Nat
  BY WordAssumption, LimitsAssumption
<1>2. z * (n + 1) <= MAX * (n + 1) /\ MAX * (n + 1) <= MAX * (MAX_NUM_THREADS + 1)
  <2>1. z * (n + 1) <= MAX * (n + 1)
    BY <1>1, TimesMonotone
  <2>2. (n + 1) * MAX <= (MAX_NUM_THREADS + 1) * MAX
    BY <1>1, TimesMonotone
  <2> QED BY <2>1, <2>2, <1>1
<1>3. z * (n + 1) \in 0 .. Word - 1
  <2>1. z * (n + 1) \in Nat
    BY <1>1
  <2>2. MAX * (MAX_NUM_THREADS + 1) = (MAX_NUM_THREADS + 1) * MAX
    BY <1>1
  <2>3. (MAX_NUM_THREADS + 1) * MAX \in Nat /\ MAX * (n + 1) \in Nat
    BY <1>1
  <2> QED BY <2>1, <2>2, <2>3, <1>2, LimitsAssumption, WordAssumption
<1>4. z * (n + 1) <= MAX
  BY <1>3, ModSame DEF Total
<1>5. z * (n + 1) = (n + 1) * z
  BY <1>1
<1>6. ASSUME NEW k \in 0 .. n + 1 PROVE k * z \in 0 .. MAX
  <2>1. k * z <= (n + 1) * z
    BY <1>1, TimesMonotone
  <2>2. k * z \in Nat /\ (n + 1) * z \in Nat
    BY <1>1
  <2> QED BY <2>1, <2>2, <1>1, <1>4, <1>5
<1> QED BY <1>4, <1>5, <1>6

\* The addresses of the slices.
LEMMA BelowIs ==
  ASSUME NEW n \in 1 .. MAX_NUM_THREADS, NEW z \in Powers, z <= MAX, Total(n, z) <= MAX,
         NEW k \in 0 .. n + 1
  PROVE  /\ k * z \in 0 .. MAX
         /\ Below(section + MAX, k, z) = (section + MAX) - k * z
         /\ Below(section + 2 * MAX, k, z) = (section + 2 * MAX) - k * z
<1>1. k * z \in 0 .. MAX
  BY NoWrap
<1>2. MAX \in Nat /\ section \in Nat /\ section + 2 * MAX < Word
  BY LimitsAssumption, SectionAssumption, WordAssumption
<1>3. /\ (section + MAX) - k * z \in 0 .. Word - 1
      /\ (section + 2 * MAX) - k * z \in 0 .. Word - 1
  BY <1>1, <1>2, WordAssumption
<1>4. Below(section + MAX, k, z) = (section + MAX) - k * z
  <2>1. ((section + MAX) - k * z) % Word = (section + MAX) - k * z
    BY <1>3, ModSame
  <2> QED BY <2>1, <1>1, <1>2, WordAssumption DEF Below
<1>5. Below(section + 2 * MAX, k, z) = (section + 2 * MAX) - k * z
  <2>1. ((section + 2 * MAX) - k * z) % Word = (section + 2 * MAX) - k * z
    BY <1>3, ModSame
  <2> QED BY <2>1, <1>1, <1>2, WordAssumption DEF Below
<1> QED BY <1>1, <1>4, <1>5

\* The stack size that PendSV computes is the size of the slices, wrapped or not.
LEMMA LengthIs ==
  ASSUME LayoutTypeOK, NEW z \in Powers, Sliced(z), NEW i \in Slots
  PROVE  Length(i) = z
<1>1. /\ z \in 0 .. Word - 1 /\ z \in Int /\ section + MAX \in Int /\ i \in Int
  BY WordAssumption, LimitsAssumption, SectionAssumption DEF Slots, LayoutTypeOK
<1> DEFINE x == (section + MAX) - i * z
           y == (section + MAX) - (i + 1) * z
<1>2. x \in Int /\ y \in Int /\ x - y = z
  <2>1. i * z \in Int /\ (i + 1) * z = i * z + z
    BY <1>1
  <2>2. section \in Int /\ MAX \in Int
    BY WordAssumption, LimitsAssumption, SectionAssumption
  <2> QED BY <2>1, <2>2, <1>1
<1>3. base_process_stack[i] = x % Word /\ limit_process_stack[i] = y % Word
  <2>1. base_process_stack[i] = Below(section + MAX, i, z)
        /\ limit_process_stack[i] = Below(section + MAX, i + 1, z)
    BY DEF Sliced
  <2> QED BY <2>1, Zenon DEF Below
<1> HIDE DEF x, y
<1>4. ((x % Word) - (y % Word)) % Word = z
  BY <1>1, <1>2, ModDifference
<1> QED BY <1>3, <1>4, Zenon DEF Length

\* Where the slices are, as numbers.
LEMMA Slices ==
  ASSUME LayoutTypeOK, NEW z \in Powers, Sliced(z), z <= MAX, NEW i \in Slots
  PROVE  /\ i \in Nat /\ i * z \in 0 .. MAX /\ (i + 1) * z \in 0 .. MAX
         /\ (i + 1) * z = i * z + z
         /\ base_process_stack[i] = (section + MAX) - i * z
         /\ limit_process_stack[i] = (section + MAX) - (i + 1) * z
         /\ base_main_stack[i] = (section + 2 * MAX) - i * z
         /\ limit_main_stack[i] = (section + 2 * MAX) - (i + 1) * z
<1>1. /\ num_user_threads \in 1 .. MAX_NUM_THREADS /\ Total(num_user_threads, z) <= MAX
      /\ i \in 0 .. num_user_threads + 1 /\ i + 1 \in 0 .. num_user_threads + 1
      /\ i \in Nat /\ z \in Nat
  BY WordAssumption DEF Sliced, LayoutTypeOK, Slots
<1>2. (i + 1) * z = i * z + z
  BY <1>1
<1> QED BY <1>1, <1>2, BelowIs DEF Sliced

-----------------------------------------------------------------------------
(* The steps. *)

LEMMA InitInv == Init => LayoutInv
<1> SUFFICES ASSUME Init PROVE LayoutInv
  OBVIOUS
<1>1. Word \in Nat \ {0} /\ MAX_NUM_THREADS \in Nat
  BY WordAssumption, LimitsAssumption
<1>2. 0 \in 0 .. Word - 1 /\ 0 \in 0 .. MAX_NUM_THREADS /\ 0 \in 0 .. 0 + 1
  BY <1>1
<1>3. [i \in 0 .. MAX_NUM_THREADS |-> 0] \in Addresses
  BY <1>2 DEF Addresses
<1>4. Shut \in Regions
  BY <1>2 DEF Shut, Regions
<1>5. LayoutTypeOK
  <2>1. protection_status \in Modes /\ multitask_request_called \in BOOLEAN
    BY DEF Init, Modes
  <2> QED BY <2>1, <1>2, <1>3, <1>4, Zenon DEF Init, LayoutTypeOK
<1> QED BY <1>5 DEF Init, LayoutInv, Shut

\* An aligned region that is large enough is opened as asked.
LEMMA EnableOpens ==
  ASSUME NEW r, NEW limit, NEW z \in Powers, z >= MIN_REGION, Multiple(limit, z)
  PROVE  OpenAt(Enable(r, limit, z), limit, z)
<1>1. RoundUp(z) = z
  BY RoundUpPower
<1> QED BY <1>1, Zenon DEF Enable, OpenAt

LEMMA EnableRefuses ==
  ASSUME NEW r, NEW limit, NEW z \in Powers, z < MIN_REGION
  PROVE  Enable(r, limit, z) = r
<1>1. RoundUp(z) = z /\ ~(z >= MIN_REGION)
  BY RoundUpPower, WordAssumption, LimitsAssumption
<1> QED BY <1>1, Zenon DEF Enable

LEMMA EnableType ==
  ASSUME NEW r \in Regions, NEW limit \in 0 .. Word - 1, NEW z \in Powers
  PROVE  Enable(r, limit, z) \in Regions
<1>1. RoundUp(z) = z
  BY RoundUpPower
<1>2. z \in 0 .. Word - 1
  BY WordAssumption
<1> QED BY <1>1, <1>2 DEF Enable, Regions

LEMMA DisableType ==
  ASSUME NEW r \in Regions PROVE Disable(r) \in Regions /\ ~Disable(r).on
BY DEF Disable, Regions

LEMMA BelowType ==
  ASSUME NEW top \in Int, NEW k \in Int, NEW z \in Int
  PROVE  Below(top, k, z) \in 0 .. Word - 1
<1>1. top - k * z \in Int
  OBVIOUS
<1> QED BY <1>1, ModType DEF Below

LEMMA RequestStep ==
  ASSUME LayoutInv, NEW n \in ThreadCounts, NEW b \in StackBytes, NEW mode \in Modes,
         Request(n, b, mode)
  PROVE  LayoutInv'
<1>1. PICK z \in Powers : z = RoundUp(b)
  BY RoundUpRequest
<1>2. /\ n \in 1 .. MAX_NUM_THREADS /\ n \in Nat /\ Total(n, z) <= MAX
      /\ ~multitask_request_called
      /\ multitask_request_called' = TRUE /\ num_user_threads' = n
      /\ active_thread_index' = n + 1 /\ protection_status' = mode
  BY <1>1, LimitsAssumption DEF Request, Accepted
<1>3. /\ MAX \in Powers /\ MAX \in 0 .. Word - 1 /\ section \in 0 .. Word - 1
      /\ section + MAX \in 0 .. Word - 1 /\ MIN_REGION <= MAX
  BY LimitsAssumption, SectionAssumption, WordAssumption
<1>4. ASSUME NEW top \in Int, NEW k \in Int PROVE Below(top, k, z) \in 0 .. Word - 1
  <2>1. z \in Int
    BY <1>1, WordAssumption
  <2> QED BY <2>1, BelowType
<1>5. ASSUME NEW f \in Addresses, NEW top \in Int, NEW d \in 0 .. 1
      PROVE  [i \in DOMAIN f |-> IF i <= n THEN Below(top, i + d, z) ELSE f[i]] \in Addresses
  <2>1. DOMAIN f = 0 .. MAX_NUM_THREADS /\ \A i \in DOMAIN f : i + d \in Int /\ f[i] \in 0 .. Word - 1
    BY LimitsAssumption DEF Addresses
  <2>2. \A i \in DOMAIN f : Below(top, i + d, z) \in 0 .. Word - 1
    BY <2>1, <1>4
  <2> QED BY <2>1, <2>2 DEF Addresses
<1>6. LayoutTypeOK'
  <2>1. /\ base_process_stack' \in Addresses /\ limit_process_stack' \in Addresses
        /\ base_main_stack' \in Addresses /\ limit_main_stack' \in Addresses
    <3>1. section + MAX \in Int /\ section + 2 * MAX \in Int /\ 0 \in 0 .. 1 /\ 1 \in 0 .. 1
      BY <1>3, SectionAssumption
    <3>2. /\ base_process_stack \in Addresses /\ limit_process_stack \in Addresses
          /\ base_main_stack \in Addresses /\ limit_main_stack \in Addresses
      BY DEF LayoutInv, LayoutTypeOK
    <3> QED BY <3>1, <3>2, <1>1, <1>5, Zenon DEF Request
  <2>2. region6' \in Regions /\ region7' \in Regions
    <3>1. region6 \in Regions /\ region7 \in Regions
      BY DEF LayoutInv, LayoutTypeOK
    <3> QED BY <3>1, <1>3, EnableType, DisableType DEF Request
  <2>3. n \in 0 .. MAX_NUM_THREADS /\ n + 1 \in 0 .. n + 1
    BY <1>2
  <2> QED BY <2>1, <2>2, <2>3, <1>2 DEF LayoutTypeOK
<1>7. Sliced(z)'
  <2>1. \A i \in 0 .. n : i \in 0 .. MAX_NUM_THREADS /\ i <= n /\ i + 0 = i
    BY <1>2, LimitsAssumption
  <2>2. ASSUME NEW f \in Addresses, NEW i \in 0 .. n PROVE i \in DOMAIN f
    BY <2>1 DEF Addresses
  <2>3. \A i \in Slots' :
          /\ base_process_stack'[i] = Below(section + MAX, i, z)
          /\ limit_process_stack'[i] = Below(section + MAX, i + 1, z)
          /\ base_main_stack'[i] = Below(section + 2 * MAX, i, z)
          /\ limit_main_stack'[i] = Below(section + 2 * MAX, i + 1, z)
    BY <2>1, <2>2, <1>1, <1>2 DEF Request, Slots, LayoutInv, LayoutTypeOK
  <2> QED BY <2>3, <1>2 DEF Sliced, Total, Below
<1>8. OpenOwn(z)'
  <2>1. CASE mode = "KERNEL_PROTECT"
    <3> QED BY <2>1, SectionsAligned, <1>2, <1>3, EnableOpens DEF Request, OpenOwn, OpenAt
  <2>2. CASE mode = "THREAD_PROTECT"
    <3>1. ~(n + 1 \in 0 .. n)
      BY <1>2
    <3>2. ~region6'.on /\ ~region7'.on
      BY <2>2, DisableType DEF Request, LayoutInv, LayoutTypeOK
    <3> QED BY <3>1, <3>2, <2>2, <1>2 DEF OpenOwn, Slots
  <2> QED BY <2>1, <2>2 DEF Modes
<1> QED BY <1>1, <1>2, <1>6, <1>7, <1>8 DEF LayoutInv

\* The limits of the slices are aligned to their size.
LEMMA LimitsAligned ==
  ASSUME LayoutTypeOK, NEW z \in Powers, Sliced(z), z <= MAX, NEW i \in Slots
  PROVE  Multiple(limit_process_stack[i], z) /\ Multiple(limit_main_stack[i], z)
<1>1. /\ i + 1 \in Nat /\ (i + 1) * z \in 0 .. MAX
      /\ limit_process_stack[i] = (section + MAX) - (i + 1) * z
      /\ limit_main_stack[i] = (section + 2 * MAX) - (i + 1) * z
  BY Slices
<1>2. MAX \in Nat /\ section + MAX \in Nat /\ section + 2 * MAX \in Nat
  BY WordAssumption, LimitsAssumption, SectionAssumption
<1>3. (i + 1) * z <= section + MAX /\ (i + 1) * z <= section + 2 * MAX
  BY <1>1, <1>2, SectionAssumption
<1>4. Multiple(section + MAX, MAX) /\ Multiple(section + 2 * MAX, MAX)
  BY SectionsAligned
<1>5. Multiple((section + MAX) - (i + 1) * z, z)
  BY <1>1, <1>2, <1>3, <1>4, SliceAligned, Zenon
<1>6. Multiple((section + 2 * MAX) - (i + 1) * z, z)
  BY <1>1, <1>2, <1>3, <1>4, SliceAligned, Zenon
<1> QED BY <1>1, <1>5, <1>6

LEMMA SwitchStep ==
  ASSUME LayoutInv, NEW i \in 0 .. num_user_threads + 1, Switch(i)
  PROVE  LayoutInv'
<1>1. PICK z \in Powers : Sliced(z) /\ (z <= MAX => OpenOwn(z))
  BY DEF LayoutInv, Switch
<1>2. /\ LayoutTypeOK /\ UNCHANGED requestVars /\ active_thread_index' = i
      /\ multitask_request_called
  BY DEF LayoutInv, Switch
<1>3. Sliced(z)' /\ multitask_request_called'
  BY <1>1, <1>2 DEF requestVars, Sliced, Slots
<1> DEFINE Swapped == protection_status = "THREAD_PROTECT" /\ i \in Slots
<1>4. CASE Swapped
  <2>1. /\ region6' = Enable(Disable(region6), limit_process_stack[i], Length(i))
        /\ region7' = Enable(Disable(region7), limit_main_stack[i], Length(i))
    BY <1>4, <1>2 DEF Switch, Slots, LayoutTypeOK
  <2>2. i \in 0 .. MAX_NUM_THREADS /\ Word \in Nat /\ limit_process_stack[i] \in 0 .. Word - 1
        /\ limit_main_stack[i] \in 0 .. Word - 1
    BY <1>2, <1>4, WordAssumption, LimitsAssumption DEF LayoutTypeOK, Addresses, Slots
  <2>3. /\ Disable(region6) \in Regions /\ ~Disable(region6).on
        /\ Disable(region7) \in Regions /\ ~Disable(region7).on
    BY <1>2, DisableType DEF LayoutTypeOK
  <2>4. Length(i) = z
    BY <1>1, <1>2, <1>4, LengthIs
  <2>5. z <= MAX => OpenOwn(z)'
    <3>1. ASSUME z <= MAX PROVE OpenOwn(z)'
      <4>1. CASE z < MIN_REGION
        <5>1. ~region6'.on /\ ~region7'.on
          BY <2>1, <2>3, <2>4, <4>1, EnableRefuses
        <5>2. ~(z >= MIN_REGION)
          BY <4>1, WordAssumption, LimitsAssumption
        <5> QED BY <5>1, <5>2, <1>2, <1>4 DEF OpenOwn, requestVars
      <4>2. CASE z >= MIN_REGION
        <5>1. Multiple(limit_process_stack[i], z) /\ Multiple(limit_main_stack[i], z)
          BY <1>1, <1>2, <1>4, <3>1, LimitsAligned
        <5>2. OpenAt(region6', limit_process_stack[i], z) /\ OpenAt(region7', limit_main_stack[i], z)
          BY <2>1, <2>4, <4>2, <5>1, EnableOpens
        <5>3. ~(z < MIN_REGION)
          BY <4>2, WordAssumption, LimitsAssumption
        <5> QED BY <5>2, <5>3, <1>2, <1>4 DEF OpenOwn, OpenAt, requestVars
      <4> QED BY <4>1, <4>2, WordAssumption, LimitsAssumption
    <3> QED BY <3>1
  <2> QED BY <2>1, <2>2, <2>3, <2>4, <2>5, <1>2, <1>3, EnableType DEF LayoutInv, LayoutTypeOK, requestVars
<1>5. CASE ~Swapped
  <2>1. UNCHANGED <<region6, region7>>
    BY <1>2, <1>5 DEF Switch, Slots, LayoutTypeOK
  <2>2. LayoutTypeOK'
    BY <2>1, <1>2 DEF LayoutTypeOK, requestVars
  <2>3. z <= MAX => OpenOwn(z)'
    BY <2>1, <1>1, <1>2, <1>5 DEF OpenOwn, requestVars, Slots
  <2> QED BY <2>2, <2>3, <1>3 DEF LayoutInv
<1> QED BY <1>4, <1>5

THEOREM LayoutInvariant == Spec => []LayoutInv
<1>1. LayoutInv /\ [Next]_vars => LayoutInv'
  <2>1. SUFFICES ASSUME LayoutInv, [Next]_vars PROVE LayoutInv'
    OBVIOUS
  <2>2. CASE UNCHANGED vars
    BY <2>1, <2>2 DEF vars, requestVars, LayoutInv, LayoutTypeOK, Sliced, OpenOwn, OpenAt, Slots
  <2>3. ASSUME NEW n \in ThreadCounts, NEW b \in StackBytes, NEW mode \in Modes,
               Request(n, b, mode)
        PROVE  LayoutInv'
    BY <2>1, <2>3, RequestStep
  <2>4. ASSUME NEW i \in 0 .. num_user_threads + 1, Switch(i) PROVE LayoutInv'
    BY <2>1, <2>4, SwitchStep
  <2> QED BY <2>1, <2>2, <2>3, <2>4 DEF Next
<1> QED BY <1>1, InitInv, PTL DEF Spec

\* What Normal says of the size of the slices.
LEMMA NormalSize ==
  ASSUME LayoutInv, Normal
  PROVE  \E z \in Powers : Sliced(z) /\ z <= MAX /\ OpenOwn(z) /\ Length(0) = z
<1>1. PICK z \in Powers : Sliced(z) /\ (z <= MAX => OpenOwn(z))
  BY DEF LayoutInv, Normal
<1>2. 0 \in Slots /\ LayoutTypeOK
  BY DEF LayoutInv, LayoutTypeOK, Slots
<1>3. Length(0) = z
  BY <1>1, <1>2, LengthIs
<1> QED BY <1>1, <1>3 DEF Normal

\* The slices of one section, counted down from its top, are apart.
LEMMA SlicesApart ==
  ASSUME NEW top \in Int, NEW z \in Nat, NEW i \in Nat, NEW j \in Nat, i # j
  PROVE  Apart(top - (i + 1) * z, top - i * z, top - (j + 1) * z, top - j * z)
<1>1. /\ i * z \in Nat /\ j * z \in Nat /\ (i + 1) * z \in Nat /\ (j + 1) * z \in Nat
  OBVIOUS
<1>2. CASE i < j
  <2>1. (i + 1) * z <= j * z
    BY <1>2, TimesMonotone
  <2> QED BY <2>1, <1>1 DEF Apart
<1>3. CASE j < i
  <2>1. (j + 1) * z <= i * z
    BY <1>3, TimesMonotone
  <2> QED BY <2>1, <1>1 DEF Apart
<1> QED BY <1>2, <1>3

\* Stacks lie in their sections and do not overlap, for any accepted request that
\* has not wrapped (multitask.c:281-283).
THEOREM Separation == Spec => []StacksApart
<1>1. LayoutInv => StacksApart
  <2>1. SUFFICES ASSUME LayoutInv, Normal PROVE StacksApart
    BY DEF StacksApart
  <2>2. PICK z \in Powers : Sliced(z) /\ z <= MAX
    BY <2>1, NormalSize
  <2>3. LayoutTypeOK /\ z \in Nat /\ z >= 1 /\ MAX \in Nat /\ section \in Nat
        /\ section + MAX \in Int /\ section + 2 * MAX \in Int
    BY <2>1, WordAssumption, LimitsAssumption, SectionAssumption DEF LayoutInv
  <2>4. ASSUME NEW i \in Slots
        PROVE  /\ i \in Nat /\ i * z \in 0 .. MAX /\ (i + 1) * z \in 0 .. MAX
               /\ (i + 1) * z = i * z + z
               /\ base_process_stack[i] = (section + MAX) - i * z
               /\ limit_process_stack[i] = (section + MAX) - (i + 1) * z
               /\ base_main_stack[i] = (section + 2 * MAX) - i * z
               /\ limit_main_stack[i] = (section + 2 * MAX) - (i + 1) * z
    BY <2>2, <2>3, Slices
  <2>5. ASSUME NEW i \in Slots
        PROVE  /\ section <= limit_process_stack[i]
               /\ limit_process_stack[i] < base_process_stack[i]
               /\ base_process_stack[i] <= section + MAX
               /\ section + MAX <= limit_main_stack[i]
               /\ limit_main_stack[i] < base_main_stack[i]
               /\ base_main_stack[i] <= section + 2 * MAX
    BY <2>3, <2>4
  <2>6. ASSUME NEW i \in Slots, NEW j \in Slots, i # j
        PROVE  /\ Apart(limit_process_stack[i], base_process_stack[i],
                        limit_process_stack[j], base_process_stack[j])
               /\ Apart(limit_main_stack[i], base_main_stack[i],
                        limit_main_stack[j], base_main_stack[j])
    <3>1. Apart((section + MAX) - (i + 1) * z, (section + MAX) - i * z,
                (section + MAX) - (j + 1) * z, (section + MAX) - j * z)
      BY <2>3, <2>4, <2>6, SlicesApart
    <3>2. Apart((section + 2 * MAX) - (i + 1) * z, (section + 2 * MAX) - i * z,
                (section + 2 * MAX) - (j + 1) * z, (section + 2 * MAX) - j * z)
      BY <2>3, <2>4, <2>6, SlicesApart
    <3> QED BY <3>1, <3>2, <2>4
  <2> QED BY <2>5, <2>6, Zenon DEF StacksApart
<1> QED BY <1>1, LayoutInvariant, PTL

\* The MPU isolates the stacks through every sequence of switches, for any
\* accepted request that has not wrapped (multitask.c:127-137, mpu.c:25).
THEOREM Isolation == Spec => []RegionsIsolate
<1>1. LayoutInv => RegionsIsolate
  <2>1. SUFFICES ASSUME LayoutInv, Normal, active_thread_index \in Slots PROVE RegionsIsolate
    BY DEF RegionsIsolate, OthersShut, OwnOpen
  <2> DEFINE a == active_thread_index
  <2>2. PICK z \in Powers : Sliced(z) /\ z <= MAX /\ OpenOwn(z) /\ Length(0) = z
    BY <2>1, NormalSize
  <2>3. LayoutTypeOK /\ z \in Nat /\ z >= 1 /\ MAX \in Nat /\ section \in Nat
        /\ section + MAX \in Int /\ section + 2 * MAX \in Int /\ MIN_REGION \in Nat
    BY <2>1, WordAssumption, LimitsAssumption, SectionAssumption DEF LayoutInv
  <2>4. ASSUME NEW i \in Slots
        PROVE  /\ i \in Nat /\ i * z \in 0 .. MAX /\ (i + 1) * z \in 0 .. MAX
               /\ (i + 1) * z = i * z + z
               /\ base_process_stack[i] = (section + MAX) - i * z
               /\ limit_process_stack[i] = (section + MAX) - (i + 1) * z
               /\ base_main_stack[i] = (section + 2 * MAX) - i * z
               /\ limit_main_stack[i] = (section + 2 * MAX) - (i + 1) * z
    BY <2>2, <2>3, Slices
  <2>5. /\ limit_process_stack[a] + z = base_process_stack[a]
        /\ limit_main_stack[a] + z = base_main_stack[a]
    BY <2>1, <2>3, <2>4
  <2>6. OthersShut
    <3>1. SUFFICES ASSUME protection_status = "THREAD_PROTECT", NEW i \in Slots \ {a}
                   PROVE  /\ Shuts(region6, limit_process_stack[i], base_process_stack[i])
                          /\ Shuts(region7, limit_main_stack[i], base_main_stack[i])
      BY DEF OthersShut
    <3>2. CASE z < MIN_REGION
      BY <2>2, <3>1, <3>2 DEF OpenOwn, Shuts
    <3>3. CASE z >= MIN_REGION
      <4>1. /\ OpenAt(region6, limit_process_stack[a], z)
            /\ OpenAt(region7, limit_main_stack[a], z)
        BY <2>1, <2>2, <3>1, <3>3 DEF OpenOwn
      <4>2. /\ Apart(limit_process_stack[a], base_process_stack[a],
                     limit_process_stack[i], base_process_stack[i])
            /\ Apart(limit_main_stack[a], base_main_stack[a],
                     limit_main_stack[i], base_main_stack[i])
        <5>1. a \in Nat /\ i \in Nat /\ a # i /\ i \in Slots /\ a \in Slots
          BY <2>1, <2>4, <3>1
        <5>2. Apart((section + MAX) - (a + 1) * z, (section + MAX) - a * z,
                    (section + MAX) - (i + 1) * z, (section + MAX) - i * z)
          BY <5>1, <2>3, SlicesApart
        <5>3. Apart((section + 2 * MAX) - (a + 1) * z, (section + 2 * MAX) - a * z,
                    (section + 2 * MAX) - (i + 1) * z, (section + 2 * MAX) - i * z)
          BY <5>1, <2>3, SlicesApart
        <5> QED BY <5>1, <5>2, <5>3, <2>4
      <4> QED BY <4>1, <4>2, <2>5 DEF OpenAt, Shuts
    <3> QED BY <3>2, <3>3, <2>3
  <2>7. OwnOpen
    <3>1. SUFFICES ASSUME z >= MIN_REGION
                   PROVE  /\ Covers(region6, limit_process_stack[a], base_process_stack[a])
                          /\ Covers(region7, limit_main_stack[a], base_main_stack[a])
      BY <2>2 DEF OwnOpen
    <3>2. CASE protection_status = "KERNEL_PROTECT"
      <4>1. OpenAt(region6, section, MAX) /\ OpenAt(region7, section + MAX, MAX)
        BY <2>2, <3>2 DEF OpenOwn
      <4>2. /\ section <= limit_process_stack[a] /\ base_process_stack[a] <= section + MAX
            /\ section + MAX <= limit_main_stack[a]
            /\ base_main_stack[a] <= (section + MAX) + MAX
        BY <2>1, <2>3, <2>4
      <4> QED BY <4>1, <4>2 DEF OpenAt, Covers
    <3>3. CASE protection_status = "THREAD_PROTECT"
      <4>1. /\ OpenAt(region6, limit_process_stack[a], z)
            /\ OpenAt(region7, limit_main_stack[a], z)
        BY <2>1, <2>2, <3>1, <3>3 DEF OpenOwn
      <4>2. limit_process_stack[a] \in Int /\ limit_main_stack[a] \in Int
        BY <2>1, <2>3, <2>4
      <4> QED BY <4>1, <4>2, <2>3, <2>5 DEF OpenAt, Covers
    <3> QED BY <3>2, <3>3, <2>3 DEF LayoutTypeOK, Modes
  <2> QED BY <2>6, <2>7 DEF RegionsIsolate
<1> QED BY <1>1, LayoutInvariant, PTL

\* Addresses stay within 32 bits.
THEOREM LayoutTyping == Spec => []LayoutTypeOK
<1>1. LayoutInv => LayoutTypeOK
  BY DEF LayoutInv
<1> QED BY <1>1, LayoutInvariant, PTL
=============================================================================
