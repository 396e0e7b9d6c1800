---------------------------- MODULE TimersProofs ----------------------------
(***************************************************************************)
(* Proofs about Timers, for any width of the halves, any deadlines and any *)
(* length of execution: the comparators are exact at every turn whatever   *)
(* is written in between, and a counter read in halves is never torn.      *)
(***************************************************************************)
EXTENDS Timers, TLAPS

-----------------------------------------------------------------------------
(* Numbers in halves. *)

\* A larger factor makes a product larger by at least the other factor.
LEMMA ProductsOrdered ==
  ASSUME NEW n \in Nat, NEW a \in Nat, NEW b \in Nat, a < b
  PROVE  a * n + n <= b * n
<1>1. PICK k \in Nat : b = a + 1 + k
  <2>1. b - a - 1 \in Nat /\ b = a + 1 + (b - a - 1)
    OBVIOUS
  <2> QED
    BY <2>1
<1>2. b * n = a * n + n + k * n
  BY <1>1, SMT
<1>3. k * n \in Nat /\ a * n \in Nat
  BY SMT
<1> QED
  BY <1>2, <1>3

LEMMA HalvesOrdered ==
  ASSUME NEW a \in Nat, NEW b \in Nat, a < b
  PROVE  a * Half + Half <= b * Half
BY ProductsOrdered, HalfAssumption

LEMMA Division ==
  ASSUME NEW n \in Nat, n > 0, NEW x \in Nat,
         NEW q \in Int, q = x \div n, NEW r \in Int, r = x % n
  PROVE  x = q * n + r
OBVIOUS

\* A number is its two halves.
LEMMA Split ==
  ASSUME NEW x \in Nat
  PROVE  /\ Hi(x) \in Nat /\ Lo(x) \in 0..(Half - 1)
         /\ x = Join(Hi(x), Lo(x))
         /\ x \in Word64 => Hi(x) \in 0..(Half - 1)
<1>1. Half \in Nat /\ Half > 0
  BY HalfAssumption
<1>2. Hi(x) \in Nat /\ Lo(x) \in 0..(Half - 1)
  BY <1>1, SMT DEF Hi, Lo
<1>3. x = Hi(x) * Half + Lo(x)
  <2>1. PICK q \in Int : q = Hi(x)
    BY <1>2, SMT
  <2>2. PICK r \in Int : r = Lo(x)
    BY <1>2, SMT
  <2>3. q = x \div Half /\ r = x % Half
    BY <2>1, <2>2, Zenon DEF Hi, Lo
  <2>4. x = q * Half + r
    BY <1>1, <2>3, Division
  <2> QED
    BY <2>1, <2>2, <2>4
<1>4. ASSUME x \in Word64, ~(Hi(x) < Half) PROVE FALSE
  <2>1. Half * Half <= Hi(x) * Half
    <3>1. CASE Hi(x) = Half
      BY <1>1, <3>1, SMT
    <3>2. CASE Hi(x) > Half
      <4>1. Half * Half + Half <= Hi(x) * Half
        BY <1>1, <1>2, <3>2, HalvesOrdered
      <4> QED
        BY <1>1, <1>2, <4>1, SMT
    <3> QED
      BY <1>1, <1>2, <1>4, <3>1, <3>2
  <2>2. Hi(x) * Half \in Nat /\ Half * Half \in Nat
    BY <1>1, <1>2, SMT
  <2> QED
    BY <1>1, <1>2, <1>3, <1>4, <2>1, <2>2 DEF Word64
<1>5. x \in Word64 => Hi(x) \in 0..(Half - 1)
  BY <1>1, <1>2, <1>4
<1> QED
  BY <1>2, <1>3, <1>5 DEF Join

\* Two halves make one number.
LEMMA Joined ==
  ASSUME NEW hi \in Nat, NEW lo \in 0..(Half - 1)
  PROVE  /\ Join(hi, lo) \in Nat
         /\ Hi(Join(hi, lo)) = hi /\ Lo(Join(hi, lo)) = lo
         /\ hi < Half => Join(hi, lo) \in Word64
<1>1. Half \in Nat /\ Half > 0 /\ lo \in Nat /\ lo < Half
  BY HalfAssumption
<1>2. hi * Half \in Nat /\ Half * Half \in Nat
  BY <1>1, SMT
<1>3. Join(hi, lo) \in Nat
  BY <1>1, <1>2 DEF Join
<1> DEFINE q == Hi(Join(hi, lo))
           r == Lo(Join(hi, lo))
<1>4. q \in Nat /\ r \in 0..(Half - 1) /\ hi * Half + lo = q * Half + r
  BY <1>3, Split DEF Join
<1>5. r \in Nat /\ r < Half /\ q * Half \in Nat
  BY <1>1, <1>4, SMT
<1>6. ~(hi < q)
  <2> SUFFICES ASSUME hi < q PROVE FALSE
    OBVIOUS
  <2>1. hi * Half + Half <= q * Half
    BY <1>4, HalvesOrdered
  <2> HIDE DEF q, r
  <2> QED
    BY <1>1, <1>2, <1>4, <1>5, <2>1
<1>7. ~(q < hi)
  <2> SUFFICES ASSUME q < hi PROVE FALSE
    OBVIOUS
  <2>1. q * Half + Half <= hi * Half
    BY <1>4, HalvesOrdered
  <2> HIDE DEF q, r
  <2> QED
    BY <1>1, <1>2, <1>4, <1>5, <2>1
<1>8. q = hi /\ r = lo
  <2> HIDE DEF q, r
  <2>1. q = hi
    BY <1>4, <1>6, <1>7
  <2> QED
    BY <1>1, <1>2, <1>4, <1>5, <2>1
<1>9. ASSUME hi < Half PROVE Join(hi, lo) \in Word64
  <2>1. hi * Half + Half <= Half * Half
    BY <1>1, <1>9, HalvesOrdered
  <2> QED
    BY <1>1, <1>2, <2>1 DEF Join, Word64
<1> QED
  BY <1>3, <1>8, <1>9

\* High halves follow the order of the numbers.
LEMMA HiMonotone ==
  ASSUME NEW x \in Nat, NEW y \in Nat, x <= y
  PROVE  Hi(x) <= Hi(y)
<1> DEFINE a == Hi(x)
           b == Hi(y)
<1>1. /\ a \in Nat /\ b \in Nat /\ Lo(x) \in 0..(Half - 1) /\ Lo(y) \in 0..(Half - 1)
      /\ x = a * Half + Lo(x) /\ y = b * Half + Lo(y)
  BY Split DEF Join
<1> HIDE DEF a, b
<1> SUFFICES ASSUME b < a PROVE FALSE
  BY <1>1 DEF a, b
<1>2. b * Half + Half <= a * Half
  BY <1>1, HalvesOrdered
<1>3. a * Half \in Nat /\ b * Half \in Nat /\ Half \in Nat
  BY <1>1, HalfAssumption, SMT
<1> QED
  BY <1>1, <1>2, <1>3

\* No number with the same high half is above the one that ends in all ones.
LEMMA AllOnesAbove ==
  ASSUME NEW x \in Nat
  PROVE  x <= Join(Hi(x), AllOnes)
<1>1. /\ Hi(x) \in Nat /\ Lo(x) \in 0..(Half - 1) /\ x = Hi(x) * Half + Lo(x)
  BY Split DEF Join
<1>2. Hi(x) * Half \in Nat /\ Half \in Nat
  BY <1>1, HalfAssumption, SMT
<1> QED
  BY <1>1, <1>2 DEF Join, AllOnes

\* What the writes of minstret make of it is a 64-bit value.
LEMMA InstretFits ==
  ASSUME instret \in Word64, NEW value \in 0..(Half - 1)
  PROVE  /\ (instret + 1) % (Half * Half) \in Word64
         /\ Join(Hi(instret), value) \in Word64
         /\ Lo(instret) + value * (Half \div 2) - Overlap(value) \in Word64
<1>1. Half \in Nat /\ Half > 1 /\ Half * Half \in Nat /\ Half * Half > 0
  <2>1. Half \in Nat /\ Half > 1
    BY HalfAssumption
  <2>2. 1 * Half + Half <= Half * Half
    BY <2>1, ProductsOrdered, SMT
  <2>3. Half * Half \in Nat
    BY <2>1, SMT
  <2> QED
    BY <2>1, <2>2, <2>3
<1>2. (instret + 1) % (Half * Half) \in Word64
  <2>1. \A n \in Nat : n > 0 => (instret + 1) % n \in 0..(n - 1)
    BY <1>1 DEF Word64
  <2> QED
    BY <1>1, <2>1 DEF Word64
<1>3. /\ instret \in Nat
      /\ Hi(instret) \in Nat /\ Hi(instret) < Half /\ Lo(instret) \in 0..(Half - 1)
  <2>1. instret \in Nat
    BY <1>1 DEF Word64
  <2> QED
    BY <1>1, <2>1, Split
<1>4. Join(Hi(instret), value) \in Word64
  BY <1>3, Joined
<1>5. PICK k \in Nat : Half = 2 * k /\ Half \div 2 = k
  BY HalfAssumption
<1>6. value * k + k <= Half * k /\ value * k \in Nat /\ k * k \in Nat
  BY <1>1, <1>5, ProductsOrdered, SMT
<1>7. k <= k * k /\ Half * k = 2 * (k * k) /\ Half * Half = 4 * (k * k)
  <2>1. k \in Nat /\ k > 0
    BY <1>1, <1>5
  <2>2. 0 * k + k <= k * k
    BY <2>1, ProductsOrdered
  <2>3. Half * k = 2 * (k * k) /\ Half * Half = 4 * (k * k)
    BY <1>5, SMT
  <2> QED
    BY <2>1, <2>2, <2>3, SMT
<1>8. Overlap(value) \in {0, k} /\ (Overlap(value) = k => Lo(instret) >= k \/ k = 0)
  BY <1>5 DEF Overlap
<1>9. Lo(instret) + value * k - Overlap(value) \in Word64
  BY <1>3, <1>5, <1>6, <1>7, <1>8 DEF Word64
<1> QED
  BY <1>2, <1>4, <1>5, <1>9

-----------------------------------------------------------------------------
(* A turn. *)

\* The two pending bits of the timers, and the others.
LEMMA TimerBits ==
  /\ MTIP \in Bits /\ STIP \in Bits /\ \A bit \in Bits : bit = MTIP \/ bit = STIP
  /\ MTIP # STIP /\ Bits \subseteq InterruptBits
  /\ {SSIP, SEIP, MSIP} \subseteq InterruptBits /\ MipSupported \subseteq InterruptBits
BY SMT DEF Bits, MTIP, STIP, SSIP, SEIP, MSIP, MEIP, InterruptBits, MipSupported

\* Each turn moves the clock by one and makes the comparators exact.
LEMMA TurnEffect ==
  ASSUME TypeOK, NEW pending \in SUBSET InterruptBits, Progress(pending),
         compare' \in [Bits -> Word64]
  PROVE  /\ time' = time + 1 /\ time' \in 0..MaxTime
         /\ cycle' \in {cycle, cycle + 1} /\ cycle' \in 0..time'
         /\ mip' \subseteq InterruptBits /\ mip' \ Bits = pending \ Bits
         /\ \A bit \in Bits : bit \in mip' <=> time' >= compare'[bit]
<1>1. time' = time + 1 /\ time' \in 0..MaxTime
  BY MaxTimeAssumption DEF Progress, ProgressTime, TypeOK
<1>2. cycle' \in {cycle, cycle + 1}
  BY DEF Progress, ProgressCycle
<1>3. cycle' \in 0..time'
  BY <1>1, <1>2, MaxTimeAssumption DEF TypeOK
<1>4. mip' = (pending \ Bits) \cup Due(time', compare')
  BY <1>1 DEF Progress, ProgressTime
<1>5. Due(time', compare') \subseteq Bits
  BY DEF Due
<1> QED
  BY <1>1, <1>2, <1>3, <1>4, <1>5, TimerBits DEF Due

\* What the guest is in the middle of, by its kind.
LEMMA TaskKinds ==
  ASSUME task \in Tasks
  PROVE  /\ task.is = "arm" =>
              task \in [is : {"arm"}, bit : Bits, at : {1, 2}, deadline : Word64]
         /\ task.is = "read" =>
              task \in [is : {"read"}, of : Readable, at : {1, 2}, start : Word64,
                        hi : 0..(Half - 1), lo : 0..(Half - 1)]
         /\ task.is = "value" =>
              task \in [is : {"value"}, of : Readable, start : Word64, value : Word64]
BY DEF Tasks, Idle

\* A write of half a comparator is a turn that keeps every pending bit but
\* those of the timers, or moved the high half of mtimecmp to the past.
LEMMA CompareWritten ==
  ASSUME TypeOK, NEW bit \in Bits, NEW value \in 0..(Half - 1),
         WriteLow(bit, value) \/ WriteHigh(bit, value)
  PROVE  \E pending \in SUBSET InterruptBits :
           /\ Retire(pending)
           /\ compare' \in [Bits -> Word64]
           /\ WriteLow(bit, value) \/ bit # MTIP \/ ~(compare'[MTIP] <= time)
                => pending \ Bits = mip \ Bits
<1>1. /\ compare \in [Bits -> Word64] /\ compare[bit] \in Nat /\ Half \in Nat
      /\ Hi(compare[bit]) \in Nat /\ Hi(compare[bit]) < Half
      /\ Lo(compare[bit]) \in 0..(Half - 1)
      /\ mip \subseteq InterruptBits
  <2>1. compare \in [Bits -> Word64] /\ compare[bit] \in Word64 /\ mip \subseteq InterruptBits
    BY DEF TypeOK
  <2>2. compare[bit] \in Nat /\ Half \in Nat
    BY <2>1, HalfAssumption DEF Word64
  <2>3. Hi(compare[bit]) \in 0..(Half - 1) /\ Lo(compare[bit]) \in 0..(Half - 1)
    BY <2>1, <2>2, Split
  <2> QED
    BY <2>1, <2>2, <2>3
<1>2. \A cmp : Compared(bit, cmp) \subseteq InterruptBits /\ Compared(bit, cmp) \ Bits = mip \ Bits
  BY <1>1, TimerBits DEF Compared
<1>3. CASE WriteLow(bit, value)
  <2> DEFINE cmp == LowWritten(compare[bit], value)
  <2>1. cmp \in Word64
    BY <1>1, Joined DEF LowWritten
  <2>2. compare' = [compare EXCEPT ![bit] = cmp] /\ Retire(Compared(bit, cmp))
    BY <1>3 DEF WriteLow
  <2> HIDE DEF cmp
  <2>3. compare' \in [Bits -> Word64]
    BY <1>1, <2>1, <2>2
  <2> QED
    BY <1>2, <2>2, <2>3
<1>4. CASE WriteHigh(bit, value) /\ ~WriteLow(bit, value)
  <2> DEFINE cmp == HighWritten(compare[bit], value)
  <2>1. cmp \in Word64
    BY <1>1, Joined DEF HighWritten
  <2>2. compare' = [compare EXCEPT ![bit] = cmp] /\ Retire(ComparedHigh(bit, cmp))
    BY <1>4 DEF WriteHigh
  <2> HIDE DEF cmp
  <2>3. compare' \in [Bits -> Word64] /\ compare'[bit] = cmp
    BY <1>1, <2>1, <2>2
  <2>4. CASE ~(bit = MTIP /\ cmp <= time)
    BY <1>2, <2>2, <2>3, <2>4 DEF ComparedHigh
  <2>5. CASE bit = MTIP /\ cmp <= time
    <3>1. ComparedHigh(bit, cmp) \subseteq InterruptBits
      BY <1>1, <2>5 DEF ComparedHigh
    <3> QED
      BY <1>4, <2>2, <2>3, <2>5, <3>1
  <2> QED
    BY <2>4, <2>5
<1> QED
  BY <1>3, <1>4

\* Every action is a turn; what it leaves well typed besides.
EnablesOK ==
  /\ mcountinhibit \in BOOLEAN
  /\ mcounteren \subseteq MCOUNTEREN_SUPPORTED /\ scounteren \subseteq MCOUNTEREN_SUPPORTED

LEMMA EnablesStep ==
  ASSUME EnablesOK, Next
  PROVE  EnablesOK'
<1>1. CASE UNCHANGED enables
  BY <1>1 DEF enables, EnablesOK
<1>2. CASE WriteEnables
  BY <1>2 DEF WriteEnables, Supported, EnablesOK
<1> QED
  BY <1>1, <1>2 DEF Next, Compute, Trap, WriteMsip, WriteMip, Disarm, ArmHigh, ArmLow,
     ReadHigh, ReadLow, ReadHighAgain, ReadTurn, WriteInstret

\* A read of a counter is no write of a comparator.
LEMMA ReadsDoNotArm ==
  ASSUME task \in Tasks, ReadHigh \/ ReadLow \/ ReadHighAgain
  PROVE  task.is # "arm" /\ task'.is # "arm"
<1>1. CASE ReadHigh
  BY <1>1 DEF ReadHigh
<1>2. CASE ReadLow
  BY <1>2, TaskKinds DEF ReadLow
<1>3. CASE ReadHighAgain
  BY <1>3, TaskKinds DEF ReadHighAgain
<1> QED
  BY <1>1, <1>2, <1>3

\* The turn of an action: what was pending before the clock moved.
Turn ==
  \E pending \in SUBSET InterruptBits :
    /\ Progress(pending)
    /\ compare' \in [Bits -> Word64]
    /\ WritesComparator /\ ~HighToThePast => pending \ Bits = mip \ Bits

LEMMA EveryActionTurns ==
  ASSUME TypeOK, Next
  PROVE  Turn
<1>1. mip \subseteq InterruptBits /\ compare \in [Bits -> Word64]
  BY DEF TypeOK
<1>2. ASSUME UNCHANGED compare, ~WritesComparator,
             \E pending \in SUBSET InterruptBits : Progress(pending)
      PROVE  Turn
  BY <1>1, <1>2 DEF Turn
<1>3. ASSUME NEW bit \in Bits, NEW value \in 0..(Half - 1),
             WriteLow(bit, value) \/ WriteHigh(bit, value),
             \/ WriteLow(bit, value) \/ bit # MTIP
             \/ ~(compare'[MTIP] <= time) \/ HighToThePast
      PROVE  Turn
  <2>1. PICK pending \in SUBSET InterruptBits :
          /\ Retire(pending) /\ compare' \in [Bits -> Word64]
          /\ WriteLow(bit, value) \/ bit # MTIP \/ ~(compare'[MTIP] <= time)
               => pending \ Bits = mip \ Bits
    BY <1>3, CompareWritten
  <2> QED
    BY <1>3, <2>1 DEF Turn, Retire
<1>4. CASE Compute
  <2>1. \E pending \in SUBSET InterruptBits : Retire(pending)
    BY <1>1, <1>4, TimerBits DEF Compute
  <2> QED
    BY <1>2, <1>4, <2>1 DEF Compute, Retire, WritesComparator
<1>5. CASE Trap \/ WriteMsip \/ WriteMip
  <2>1. \E pending \in SUBSET InterruptBits : Progress(pending)
    BY <1>1, <1>5, TimerBits DEF Trap, WriteMsip, WriteMip, Fail, Retire
  <2> QED
    BY <1>2, <1>5, <2>1 DEF Trap, WriteMsip, WriteMip, WritesComparator
<1>6. CASE Disarm
  <2>1. AllOnes \in 0..(Half - 1)
    BY HalfAssumption DEF AllOnes
  <2> QED
    BY <1>3, <1>6, <2>1 DEF Disarm
<1>7. CASE ArmHigh \/ ArmLow
  <2>1. task.bit \in Bits /\ task.deadline \in Word64
    BY <1>7, TaskKinds DEF TypeOK, ArmHigh, ArmLow
  <2>2. task.deadline \in Nat
    BY <2>1, HalfAssumption DEF Word64
  <2>3. Hi(task.deadline) \in 0..(Half - 1) /\ Lo(task.deadline) \in 0..(Half - 1)
    BY <2>1, <2>2, Split
  <2>4. CASE ArmLow
    BY <1>3, <2>1, <2>3, <2>4 DEF ArmLow
  <2>5. CASE ArmHigh
    <3>1. task'.is = "arm" /\ task'.at = 2 /\ task'.bit = task.bit
      BY <2>5, TaskKinds DEF TypeOK, ArmHigh
    <3>2. task.bit # MTIP \/ ~(compare'[MTIP] <= time) \/ HighToThePast
      BY <3>1 DEF HighToThePast
    <3> QED
      BY <1>3, <2>1, <2>3, <2>5, <3>2 DEF ArmHigh
  <2> QED
    BY <1>7, <2>4, <2>5
<1>8. CASE ReadHigh \/ ReadLow \/ ReadHighAgain
  <2>1. task.is # "arm" /\ task'.is # "arm"
    BY <1>8, ReadsDoNotArm DEF TypeOK
  <2> QED
    BY <1>1, <1>2, <1>8, <2>1
       DEF ReadHigh, ReadLow, ReadHighAgain, ReadTurn, Retire, WritesComparator
<1>9. CASE WriteInstret \/ WriteEnables
  BY <1>1, <1>2, <1>9 DEF WriteInstret, WriteEnables, Retire, WritesComparator
<1> QED
  BY <1>4, <1>5, <1>6, <1>7, <1>8, <1>9 DEF Next

\* instret is a 64-bit value after every turn, and moves by one at most
\* unless it is written.
LEMMA InstretStep ==
  ASSUME TypeOK, Next
  PROVE  /\ instret' \in Word64
         /\ \/ instret' \in {instret, (instret + 1) % (Half * Half)}
            \/ WriteInstret
<1>0. instret \in Word64
  BY DEF TypeOK
<1>1. CASE WriteInstret
  BY <1>0, <1>1, InstretFits, CountsAssumption DEF WriteInstret
<1>2. CASE UNCHANGED instret \/ ProgressInstret
  <2>1. 0 \in 0..(Half - 1)
    BY HalfAssumption
  <2> QED
    BY <1>0, <1>2, <2>1, InstretFits DEF ProgressInstret
<1>3. WriteInstret \/ UNCHANGED instret \/ ProgressInstret
  BY DEF Next, Compute, Trap, WriteMsip, WriteMip, Disarm, ArmHigh, ArmLow, WriteLow,
     WriteHigh, ReadHigh, ReadLow, ReadHighAgain, ReadTurn, WriteEnables, Retire, Fail
<1> QED
  BY <1>1, <1>2, <1>3 DEF ProgressInstret

\* The deadlines of the guest and its tasks.
LEMMA TaskStep ==
  ASSUME TypeOK, Next
  PROVE  task' \in Tasks /\ armed' \in [Bits -> Word64]
<1>0. task \in Tasks /\ armed \in [Bits -> Word64]
  BY DEF TypeOK
<1>1. CASE UNCHANGED <<armed, task>>
  BY <1>0, <1>1
<1>2. CASE Disarm
  BY <1>0, <1>2, DeadlinesAssumption DEF Disarm, Tasks, Word64
<1>3. CASE ArmHigh
  BY <1>0, <1>3, TaskKinds DEF ArmHigh, Tasks
<1>4. CASE ArmLow
  BY <1>0, <1>4, TaskKinds DEF ArmLow, Tasks
<1>5. \A c \in Readable : Counter(c) \in Word64
  <2>1. time \in Word64 /\ cycle \in Word64 /\ instret \in Word64
    <3>1. Half * Half \in Nat
      BY HalfAssumption, SMT
    <3> QED
      BY <3>1, MaxTimeAssumption DEF TypeOK, Word64
  <2> QED
    BY <2>1 DEF Counter
<1>6. \A c \in Readable : HighRead(c) \in 0..(Half - 1) /\ LowRead(c) \in 0..(Half - 1)
  <2>1. \A x \in Word64 : x \in Nat
    BY HalfAssumption DEF Word64
  <2>2. Minstreth \in 0..(Half - 1)
    <3>1. PICK k \in Nat : k = Half \div 2 /\ k > 0
      BY HalfAssumption, SMT
    <3>2. instret \in Nat
      BY <2>1 DEF TypeOK
    <3>3. instret \div k \in Nat
      BY <3>1, <3>2, SMT
    <3>4. (instret \div k) % Half \in 0..(Half - 1)
      BY <3>3, HalfAssumption, SMT
    <3> QED
      BY <3>1, <3>4 DEF Minstreth
  <2> QED
    BY <1>5, <2>1, <2>2, Split DEF HighRead, LowRead
<1>7. 0 \in 0..(Half - 1)
  BY HalfAssumption
<1>8. CASE ReadHigh
  BY <1>0, <1>5, <1>6, <1>7, <1>8 DEF ReadHigh, ReadTurn, Tasks
<1>9. CASE ReadLow
  BY <1>0, <1>6, <1>9, TaskKinds DEF ReadLow, ReadTurn, Tasks
<1>10. CASE ReadHighAgain
  <2>1. task \in [is : {"read"}, of : Readable, at : {1, 2}, start : Word64,
                  hi : 0..(Half - 1), lo : 0..(Half - 1)]
    BY <1>0, <1>10, TaskKinds DEF ReadHighAgain
  <2>2. Join(task.hi, task.lo) \in Word64
    <3>1. task.hi \in Nat /\ task.hi < Half
      BY <2>1, HalfAssumption
    <3> QED
      BY <2>1, <3>1, Joined
  <2> QED
    BY <1>0, <1>6, <1>7, <1>10, <2>1, <2>2 DEF ReadHighAgain, ReadTurn, Tasks
<1> QED
  BY <1>1, <1>2, <1>3, <1>4, <1>8, <1>9, <1>10 DEF Next, Compute, Trap, WriteMsip,
     WriteMip, WriteInstret, WriteEnables

LEMMA TypeStep ==
  ASSUME TypeOK, [Next]_vars
  PROVE  TypeOK'
<1>1. CASE UNCHANGED vars
  BY <1>1 DEF vars, enables, TypeOK
<1>2. CASE Next
  BY <1>2, EveryActionTurns, TurnEffect, EnablesStep, InstretStep, TaskStep
     DEF Turn, TypeOK, EnablesOK
<1> QED
  BY <1>1, <1>2

\* The clock, the counters, the comparators and the tasks are well typed in
\* every reachable state, for any width of the halves.
THEOREM TimersTypeCorrect == Spec => []TypeOK
<1>1. Init => TypeOK
  <2>1. 0 \in Word64
    BY HalfAssumption, InstretFits DEF Word64
  <2>2. 0 \in 0..MaxTime /\ 0 \in 0..0
    BY MaxTimeAssumption
  <2>3. ASSUME Init
        PROVE  compare \in [Bits -> Word64] /\ armed \in [Bits -> Word64] /\ task \in Tasks
    BY <2>1, <2>3 DEF Init, Tasks
  <2> QED
    BY <2>1, <2>2, <2>3 DEF Init, TypeOK
<1> QED
  BY <1>1, TypeStep, PTL DEF Spec

\* Each of the guest's three writes leaves the software and external
\* interrupts pending, but for the write of mtimecmph that moves the timer to
\* the past, the one set_mtimecmph gets wrong: for any width of the halves.
THEOREM OthersStayPending == Spec => PendingSurvivesTimers
<1>1. TypeOK /\ [Next]_vars =>
        [WritesComparator /\ ~HighToThePast => mip' \ Bits = mip \ Bits]_vars
  <2> SUFFICES ASSUME TypeOK, Next, WritesComparator, ~HighToThePast
               PROVE  mip' \ Bits = mip \ Bits
    OBVIOUS
  <2> QED
    BY EveryActionTurns, TurnEffect DEF Turn
<1> QED
  BY <1>1, TimersTypeCorrect, PTL DEF Spec, PendingSurvivesTimers

-----------------------------------------------------------------------------
(* The comparators. *)

\* A comparator is pending when it has passed; it holds the deadline asked
\* for, or, between two of its three writes, a value above the old deadline
\* and then above the new one.
CompareInv ==
  \A bit \in Bits :
    /\ time > 0 => (bit \in mip <=> time >= compare[bit])
    /\ ~(task.is = "arm" /\ task.bit = bit) => compare[bit] = armed[bit]
    /\ task.is = "arm" /\ task.bit = bit /\ task.at = 1
         => compare[bit] = Join(Hi(armed[bit]), AllOnes)
    /\ task.is = "arm" /\ task.bit = bit /\ task.at = 2
         => compare[bit] = Join(Hi(task.deadline), AllOnes)

\* What the three writes make of one comparator.
LEMMA ThreeWrites ==
  ASSUME NEW old \in Word64, NEW new \in Word64
  PROVE  /\ LowWritten(old, AllOnes) = Join(Hi(old), AllOnes)
         /\ HighWritten(Join(Hi(old), AllOnes), Hi(new)) = Join(Hi(new), AllOnes)
         /\ LowWritten(Join(Hi(new), AllOnes), Lo(new)) = new
         /\ old <= Join(Hi(old), AllOnes)
<1>1. old \in Nat /\ new \in Nat /\ AllOnes \in 0..(Half - 1)
  BY HalfAssumption DEF Word64, AllOnes
<1>2. /\ Hi(old) \in Nat /\ Hi(new) \in Nat /\ Lo(new) \in 0..(Half - 1)
      /\ new = Join(Hi(new), Lo(new))
  BY <1>1, Split
<1>3. Lo(Join(Hi(old), AllOnes)) = AllOnes /\ Hi(Join(Hi(new), AllOnes)) = Hi(new)
  BY <1>1, <1>2, Joined
<1> QED
  BY <1>1, <1>2, <1>3, AllOnesAbove DEF LowWritten, HighWritten

\* The turn makes every comparator exact; what is left is what was written.
LEMMA CompareStep ==
  ASSUME TypeOK, CompareInv, Next
  PROVE  CompareInv'
<1>0. TypeOK /\ compare' \in [Bits -> Word64] /\ armed \in [Bits -> Word64] /\ time' \in Nat
  BY EveryActionTurns, TurnEffect, MaxTimeAssumption DEF Turn, TypeOK
<1>1. \A bit \in Bits : bit \in mip' <=> time' >= compare'[bit]
  BY EveryActionTurns, TurnEffect DEF Turn
<1> SUFFICES ASSUME NEW bit \in Bits
             PROVE  /\ ~(task'.is = "arm" /\ task'.bit = bit) => compare'[bit] = armed'[bit]
                    /\ task'.is = "arm" /\ task'.bit = bit /\ task'.at = 1
                         => compare'[bit] = Join(Hi(armed'[bit]), AllOnes)
                    /\ task'.is = "arm" /\ task'.bit = bit /\ task'.at = 2
                         => compare'[bit] = Join(Hi(task'.deadline), AllOnes)
  BY <1>1 DEF CompareInv
<1>2. CASE UNCHANGED <<compare, armed, task>>
  BY <1>2 DEF CompareInv
<1>3. CASE Disarm
  <2>1. PICK b \in Bits, deadline \in Deadlines :
          /\ WriteLow(b, AllOnes)
          /\ task' = [is |-> "arm", bit |-> b, at |-> 1, deadline |-> deadline]
    BY <1>3 DEF Disarm
  <2>2. /\ armed' = armed /\ task.is # "arm"
        /\ compare' = [compare EXCEPT ![b] = LowWritten(compare[b], AllOnes)]
    BY <1>3, <2>1 DEF Disarm, WriteLow
  <2>3. compare[b] = armed[b] /\ compare[bit] = armed[bit]
    BY <2>2 DEF CompareInv
  <2>4. LowWritten(armed[b], AllOnes) = Join(Hi(armed[b]), AllOnes)
    BY <1>0, ThreeWrites
  <2>5. /\ b = bit => compare'[bit] = Join(Hi(armed[bit]), AllOnes)
        /\ b # bit => compare'[bit] = armed[bit]
    BY <2>2, <2>3, <2>4 DEF TypeOK
  <2>6. task'.is = "arm" /\ task'.bit = b /\ task'.at = 1
    BY <2>1
  <2> QED
    BY <2>2, <2>5, <2>6
<1>4. CASE ArmHigh
  <2> DEFINE b == task.bit
  <2>1. /\ task \in [is : {"arm"}, bit : Bits, at : {1, 2}, deadline : Word64]
        /\ task.at = 1 /\ armed' = armed
        /\ compare' = [compare EXCEPT ![b] = HighWritten(compare[b], Hi(task.deadline))]
        /\ task' = [task EXCEPT !.at = 2]
    BY <1>4, TaskKinds DEF ArmHigh, WriteHigh, TypeOK
  <2>2. /\ compare[b] = Join(Hi(armed[b]), AllOnes)
        /\ b # bit => compare[bit] = armed[bit]
    BY <2>1 DEF CompareInv
  <2>3. HighWritten(compare[b], Hi(task.deadline)) = Join(Hi(task.deadline), AllOnes)
    BY <1>0, <2>1, <2>2, ThreeWrites
  <2>4. /\ b = bit => compare'[bit] = Join(Hi(task.deadline), AllOnes)
        /\ b # bit => compare'[bit] = armed[bit]
    BY <2>1, <2>2, <2>3 DEF TypeOK
  <2>5. /\ task'.is = "arm" /\ task'.bit = b /\ task'.at = 2
        /\ task'.deadline = task.deadline
    BY <2>1
  <2> QED
    BY <2>1, <2>4, <2>5
<1>5. CASE ArmLow
  <2> DEFINE b == task.bit
  <2>1. /\ task \in [is : {"arm"}, bit : Bits, at : {1, 2}, deadline : Word64]
        /\ task.at = 2 /\ armed' = [armed EXCEPT ![b] = task.deadline]
        /\ compare' = [compare EXCEPT ![b] = LowWritten(compare[b], Lo(task.deadline))]
        /\ task'.is = "idle"
    BY <1>5, TaskKinds DEF ArmLow, WriteLow, TypeOK, Idle
  <2>2. /\ compare[b] = Join(Hi(task.deadline), AllOnes)
        /\ b # bit => compare[bit] = armed[bit]
    BY <2>1 DEF CompareInv
  <2>3. LowWritten(compare[b], Lo(task.deadline)) = task.deadline
    BY <1>0, <2>1, <2>2, ThreeWrites
  <2> QED
    BY <1>0, <2>1, <2>2, <2>3 DEF TypeOK
<1>6. CASE ReadHigh \/ ReadLow \/ ReadHighAgain
  <2>1. compare' = compare /\ armed' = armed
    BY <1>6 DEF ReadHigh, ReadLow, ReadHighAgain, ReadTurn
  <2>2. task.is # "arm" /\ task'.is # "arm"
    BY <1>6, ReadsDoNotArm DEF TypeOK
  <2> QED
    BY <2>1, <2>2 DEF CompareInv
<1> QED
  BY <1>2, <1>3, <1>4, <1>5, <1>6 DEF Next, Compute, Trap, WriteMsip, WriteMip,
     WriteInstret, WriteEnables

LEMMA CompareInvHolds == Spec => []CompareInv
<1>1. Init => CompareInv
  BY TimerBits DEF Init, CompareInv, Idle
<1>2. TypeOK /\ CompareInv /\ [Next]_vars => CompareInv'
  BY CompareStep DEF vars, CompareInv
<1> QED
  BY <1>1, <1>2, TimersTypeCorrect, PTL DEF Spec

\* At every turn a timer is pending exactly when the deadline the guest asked
\* for has passed, and one in the middle of its three writes is never pending
\* for a mixture of the old and the new deadline.
THEOREM TimersAreExact == Spec => []TimerExact
<1>1. TypeOK /\ CompareInv => TimerExact
  <2> SUFFICES ASSUME TypeOK, CompareInv, time > 0, NEW bit \in Bits
               PROVE  IF task.is = "arm" /\ task.bit = bit
                        THEN bit \in mip => time >= armed[bit] \/ time >= task.deadline
                        ELSE compare[bit] = armed[bit] /\ (bit \in mip <=> time >= armed[bit])
    BY DEF TimerExact
  <2>1. CASE ~(task.is = "arm" /\ task.bit = bit)
    BY <2>1 DEF CompareInv
  <2>2. CASE task.is = "arm" /\ task.bit = bit
    <3>1. task.at \in {1, 2} /\ task.deadline \in Word64 /\ armed[bit] \in Word64
          /\ compare[bit] \in Word64
      BY <2>2, TaskKinds DEF TypeOK
    <3>2. armed[bit] <= compare[bit] \/ task.deadline <= compare[bit]
      BY <2>2, <3>1, ThreeWrites DEF CompareInv
    <3>3. bit \in mip => time >= compare[bit]
      BY DEF CompareInv
    <3>4. /\ time \in Nat /\ armed[bit] \in Nat /\ task.deadline \in Nat
          /\ compare[bit] \in Nat
      BY <3>1, HalfAssumption, MaxTimeAssumption DEF TypeOK, Word64
    <3> QED
      BY <2>2, <3>2, <3>3, <3>4
  <2> QED
    BY <2>1, <2>2
<1> QED
  BY <1>1, TimersTypeCorrect, CompareInvHolds, PTL

-----------------------------------------------------------------------------
(* The counters. *)

\* A read of one of the counters C that is under way and still whole: the
\* counter has not gone back since, and when its high half is still the one read first, the low
\* half read meanwhile belongs to it.
ReadInv(C) ==
  task.is \in {"read", "value"} /\ task.of \in C /\ Whole(task.of) =>
    LET now == Counter(task.of) IN
    /\ task.start <= now
    /\ task.is = "read" => task.hi <= Hi(now)
    /\ task.is = "read" /\ task.at = 2 /\ Hi(now) = task.hi
         => task.start <= Join(task.hi, task.lo) /\ Join(task.hi, task.lo) <= now
    /\ task.is = "value" => task.start <= task.value /\ task.value <= now

\* instret does not reach its end before the clock does.
NoWrap == instret + (MaxTime - time) < Half * Half

\* The guest does not write instret, or no half it writes is so high that
\* instret could be near its end within the execution.
Roomy == Counts = {} \/ \E b \in Nat : Counts \subseteq 0..b /\ b + 1 + MaxTime <= Half

\* With b the highest half written, each turn adds one to the high half at most:
\* by a carry, or by nothing but the low half's being written anew.
Below(b) == instret < (b + 1 + time) * Half

LEMMA TurnClock ==
  ASSUME TypeOK, Next
  PROVE  /\ time \in Nat /\ time' = time + 1 /\ time + 1 <= MaxTime
         /\ instret \in Nat /\ MaxTime \in Nat /\ MaxTime < Half * Half
         /\ Half \in Nat /\ Half > 1 /\ Half * Half \in Nat
<1>1. Half * Half \in Nat
  BY HalfAssumption, SMT
<1> QED
  BY <1>1, EveryActionTurns, TurnEffect, MaxTimeAssumption, HalfAssumption
     DEF Turn, TypeOK, Word64

\* Counting on: without a wrap while there is room.
LEMMA CountsOn ==
  ASSUME TypeOK, Next, instret + 1 < Half * Half, ~WriteInstret
  PROVE  instret' \in {instret, instret + 1}
<1>1. instret' \in {instret, (instret + 1) % (Half * Half)}
  BY InstretStep
<1>2. PICK w \in Nat : w = Half * Half
  BY TurnClock
<1>3. (instret + 1) % w = instret + 1
  <2>1. instret \in Nat /\ instret + 1 < w
    BY <1>2, TurnClock
  <2> QED
    BY <2>1
<1> QED
  BY <1>1, <1>2, <1>3

LEMMA NoWrapStep ==
  ASSUME TypeOK, Counts = {}, NoWrap, [Next]_vars
  PROVE  NoWrap'
<1>1. CASE UNCHANGED vars
  BY <1>1 DEF vars, NoWrap
<1>2. CASE Next
  <2>1. ~WriteInstret
    BY DEF WriteInstret
  <2>2. instret + 1 < Half * Half
    BY <1>2, TurnClock DEF NoWrap
  <2>3. instret' \in {instret, instret + 1}
    BY <1>2, <2>1, <2>2, CountsOn
  <2>4. PICK w \in Nat : w = Half * Half
    BY <1>2, TurnClock
  <2> QED
    BY <1>2, <2>3, <2>4, TurnClock DEF NoWrap
<1> QED
  BY <1>1, <1>2

LEMMA BelowStep ==
  ASSUME TypeOK, NEW b \in Nat, Counts \subseteq 0..b, b + 1 + MaxTime <= Half, Below(b),
         [Next]_vars
  PROVE  Below(b)'
<1>1. CASE UNCHANGED vars
  BY <1>1 DEF vars, Below
<1>2. ASSUME Next PROVE Below(b)'
  <2>1. PICK t \in Nat, h \in Nat, x \in Nat : t = time /\ h = Half /\ x = instret
    BY <1>2, TurnClock
  <2>2. time' = t + 1 /\ t + 1 <= MaxTime /\ MaxTime \in Nat /\ h > 1
    BY <1>2, <2>1, TurnClock
  <2>3. PICK n \in Nat : n = b + 1 + t
    BY <2>1
  <2>4. x < n * h /\ n < h /\ n * h \in Nat
    BY <2>1, <2>2, <2>3, SMT DEF Below
  <2>5. PICK m \in Nat, w \in Nat : m = n * h /\ w = h * h
    BY <2>4, SMT
  <2>6. (n + 1) * h = m + h /\ m + h <= w
    <3>1. n * h + h <= h * h
      BY <2>4, ProductsOrdered
    <3> QED
      BY <2>5, <3>1, SMT
  <2>7. SUFFICES instret' < m + h
    <3>1. b + 1 + time' = n + 1
      BY <2>2, <2>3
    <3> QED
      BY <2>1, <2>6, <3>1 DEF Below
  <2>8. CASE ~WriteInstret
    <3>1. x + 1 < w
      BY <2>2, <2>4, <2>5, <2>6
    <3>2. instret' \in {x, x + 1}
      BY <1>2, <2>1, <2>5, <2>8, <3>1, CountsOn
    <3> QED
      BY <2>2, <2>4, <2>5, <3>2
  <2>9. CASE WriteInstret
    <3>1. PICK v \in Counts :
            \/ instret' = Join(Hi(instret), v)
            \/ instret' = Lo(instret) + v * (Half \div 2) - Overlap(v)
      BY <2>9 DEF WriteInstret
    <3>2. v \in 0..b /\ v \in Nat /\ v < h
      BY <2>1, <3>1, CountsAssumption, HalfAssumption
    <3>3. PICK hi \in Nat, lo \in Nat :
            hi = Hi(instret) /\ lo = Lo(instret) /\ lo < h /\ x = hi * h + lo
      <4>1. /\ Hi(instret) \in Nat
            /\ Lo(instret) \in 0..(Half - 1)
            /\ instret = Join(Hi(instret), Lo(instret))
        BY <1>2, TurnClock, Split
      <4>2. Lo(instret) \in Nat /\ Lo(instret) < Half
        BY <4>1, HalfAssumption
      <4>3. instret = Hi(instret) * Half + Lo(instret)
        BY <4>1 DEF Join
      <4> QED
        BY <2>1, <4>1, <4>2, <4>3, Zenon
    <3>4. CASE instret' = Join(Hi(instret), v)
      <4>1. instret' = hi * h + v
        BY <2>1, <3>3, <3>4 DEF Join
      <4>2. ~(n < hi) /\ hi # n
        <5>1. n < hi => n * h + h <= hi * h
          BY ProductsOrdered
        <5>2. PICK k \in Nat : k = hi * h
          BY SMT
        <5>3. hi = n => k = m
          BY <2>5, <5>2
        <5> QED
          BY <2>4, <2>5, <3>3, <5>1, <5>2, <5>3
      <4>3. hi * h + h <= n * h
        BY <4>2, ProductsOrdered
      <4>4. PICK k \in Nat : k = hi * h
        BY SMT
      <4> QED
        BY <2>5, <3>2, <4>1, <4>3, <4>4
    <3>5. CASE instret' = Lo(instret) + v * (Half \div 2) - Overlap(v)
      <4>1. PICK k \in Nat : Half \div 2 = k /\ k <= h
        BY <2>1, <2>2, SMT
      <4>2. Overlap(v) \in {0, k}
        BY <4>1 DEF Overlap
      <4>3. PICK o \in Nat : o = Overlap(v)
        BY <4>2
      <4>4. v * k <= m /\ v * k \in Nat
        <5>1. v * k <= v * h /\ v * k \in Nat /\ v * h \in Nat
          BY <3>2, <4>1, SMT
        <5>2. v < n
          BY <2>3, <3>2
        <5>3. v * h + h <= n * h
          BY <3>2, <5>2, ProductsOrdered
        <5>4. PICK c \in Nat, d \in Nat : c = v * k /\ d = v * h
          BY <5>1
        <5> QED
          BY <2>5, <5>1, <5>3, <5>4
      <4>5. PICK c \in Nat : c = v * k
        BY <4>4
      <4>6. instret' = lo + c - o
        BY <3>3, <3>5, <4>1, <4>3, <4>5
      <4> QED
        BY <2>5, <3>3, <4>4, <4>5, <4>6
    <3> QED
      BY <3>1, <3>4, <3>5
  <2> QED
    BY <2>8, <2>9
<1> QED
  BY <1>1, <1>2

LEMMA BelowIsNoWrap ==
  ASSUME TypeOK, NEW b \in Nat, b + 1 + MaxTime <= Half, Below(b)
  PROVE  NoWrap
<1>1. PICK t \in Nat, h \in Nat, x \in Nat : t = time /\ h = Half /\ x = instret
  <2>1. Half * Half \in Nat
    BY HalfAssumption, SMT
  <2> QED
    BY <2>1, HalfAssumption, MaxTimeAssumption DEF TypeOK, Word64
<1>2. PICK r \in Nat : t + r = MaxTime
  <2>1. MaxTime - t \in Nat /\ t + (MaxTime - t) = MaxTime
    BY <1>1, MaxTimeAssumption DEF TypeOK
  <2> QED
    BY <2>1
<1>3. PICK n \in Nat : n = b + 1 + t
  BY <1>1
<1>4. x < n * h /\ n + r <= h /\ h >= 1
  BY <1>1, <1>2, <1>3, HalfAssumption DEF Below
<1>5. (n + r) * h <= h * h
  <2>1. CASE n + r = h
    BY <2>1
  <2>2. CASE n + r < h
    <3>1. (n + r) * h + h <= h * h
      BY <2>2, ProductsOrdered
    <3>2. (n + r) * h \in Nat /\ h * h \in Nat
      BY SMT
    <3> QED
      BY <3>1, <3>2
  <2> QED
    BY <1>4, <2>1, <2>2
<1>6. (n + r) * h = n * h + r * h /\ r <= r * h /\ n * h \in Nat /\ r * h \in Nat
  BY <1>4, SMT
<1>7. PICK c \in Nat, d \in Nat : c = n * h /\ d = r * h
  BY <1>6
<1>8. x + r < h * h
  BY <1>4, <1>5, <1>6, <1>7
<1>9. MaxTime - time = r
  BY <1>1, <1>2
<1> QED
  BY <1>1, <1>8, <1>9 DEF NoWrap

LEMMA InstretHasRoom ==
  ASSUME Roomy
  PROVE  Spec => []NoWrap
<1>1. CASE Counts = {}
  <2>1. Init => NoWrap
    BY MaxTimeAssumption DEF Init, NoWrap
  <2>2. TypeOK /\ NoWrap /\ [Next]_vars => NoWrap'
    BY <1>1, NoWrapStep
  <2> QED
    BY <2>1, <2>2, TimersTypeCorrect, PTL DEF Spec
<1>2. CASE \E b \in Nat : Counts \subseteq 0..b /\ b + 1 + MaxTime <= Half
  <2>1. PICK b \in Nat : Counts \subseteq 0..b /\ b + 1 + MaxTime <= Half
    BY <1>2
  <2>2. Init => Below(b)
    <3>1. (b + 1) * Half > 0
      BY HalfAssumption, SMT
    <3>2. Init => instret = 0 /\ b + 1 + time = b + 1
      BY DEF Init
    <3> QED
      BY <3>1, <3>2 DEF Below
  <2>3. TypeOK /\ Below(b) /\ [Next]_vars => Below(b)'
    BY <2>1, BelowStep
  <2>4. TypeOK /\ Below(b) => NoWrap
    BY <2>1, BelowIsNoWrap
  <2> QED
    BY <2>2, <2>3, <2>4, TimersTypeCorrect, PTL DEF Spec
<1> QED
  BY <1>1, <1>2 DEF Roomy

\* The counters no instruction writes.
Clocks == {"CY", "TM"}

\* A counter never goes back, unless it is written.
LEMMA CounterMoves ==
  ASSUME TypeOK, NEW c \in Readable, c \notin Clocks => NoWrap /\ ~WriteInstret, Next
  PROVE  /\ Counter(c) \in Nat /\ Counter(c)' \in Nat
         /\ Counter(c) <= Counter(c)'
<1>1. /\ time \in Nat /\ time' = time + 1 /\ cycle \in Nat /\ cycle' \in {cycle, cycle + 1}
      /\ instret \in Nat
  BY TurnClock, EveryActionTurns, TurnEffect, MaxTimeAssumption DEF Turn, TypeOK
<1>2. CASE c = "CY" \/ c = "TM"
  BY <1>1, <1>2 DEF Counter
<1>3. CASE c \notin Clocks
  <2>1. instret + 1 < Half * Half
    BY <1>3, TurnClock DEF NoWrap
  <2>2. instret' \in {instret, instret + 1}
    BY <1>3, <2>1, CountsOn
  <2> QED
    BY <1>1, <1>3, <2>2 DEF Counter, Clocks
<1> QED
  BY <1>2, <1>3 DEF Clocks

\* While a read of minstret is whole, minstreth is the high half.
LEMMA WholeHigh ==
  ASSUME TypeOK, NEW c \in Readable, Whole(c)
  PROVE  HighRead(c) = Hi(Counter(c))
<1>1. CASE c # "MIR"
  BY <1>1 DEF HighRead
<1>2. CASE c = "MIR"
  <2>1. PICK k \in Nat, h \in Nat : k = Half \div 2 /\ h = Half /\ k > 0 /\ k <= h
    BY HalfAssumption, SMT
  <2>2. PICK x \in Nat : x = instret
    BY HalfAssumption DEF TypeOK, Word64
  <2>3. x < k
    BY <1>2, <2>1, <2>2 DEF Whole
  <2>4. x \div k = 0 /\ x \div h = 0 /\ 0 % h = 0
    BY <2>1, <2>3, SMT
  <2>5. Minstreth = 0 /\ Hi(instret) = 0
    BY <2>1, <2>2, <2>4, Zenon DEF Minstreth, Hi
  <2> QED
    BY <1>2, <2>5 DEF HighRead, Counter
<1> QED
  BY <1>1, <1>2

\* A read that is whole after a turn was whole before it.
LEMMA WholeBefore ==
  ASSUME TypeOK, NEW c \in Readable, c \notin Clocks => NoWrap /\ ~WriteInstret, Next
  PROVE  Whole(c)' => Whole(c)
<1> SUFFICES ASSUME c = "MIR", instret' < Half \div 2 PROVE instret < Half \div 2
  BY DEF Whole
<1>1. /\ instret \in Nat /\ instret' \in Nat /\ instret <= instret'
  BY CounterMoves DEF Counter, Clocks
<1>2. PICK k \in Nat : k = Half \div 2
  BY HalfAssumption, SMT
<1> QED
  BY <1>1, <1>2

LEMMA ReadStep ==
  ASSUME TypeOK, NEW C \in SUBSET Readable, ~(C \subseteq Clocks) => NoWrap, ReadInv(C),
         [Next]_vars
  PROVE  ReadInv(C)'
<1>1. CASE UNCHANGED vars
  BY <1>1 DEF vars, ReadInv, Counter, Whole
<1>0. CASE WriteInstret
  BY <1>0 DEF WriteInstret, Idle, ReadInv
<1>2. ASSUME Next, ~WriteInstret PROVE ReadInv(C)'
  <2>1. \A c \in C : /\ Counter(c) \in Nat /\ Counter(c)' \in Nat
                      /\ Counter(c) <= Counter(c)'
                      /\ Hi(Counter(c)) \in Nat /\ Hi(Counter(c)') \in Nat
                      /\ Hi(Counter(c)) <= Hi(Counter(c)')
    BY <1>2, CounterMoves, Split, HiMonotone
  <2>0. \A c \in C : (Whole(c)' => Whole(c)) /\ (Whole(c) => HighRead(c) = Hi(Counter(c)))
    BY <1>2, WholeBefore, WholeHigh
  <2>2. /\ task.is = "read" => /\ task.start \in Nat /\ task.hi \in Nat
                               /\ task.lo \in Nat /\ Join(task.hi, task.lo) \in Nat
        /\ task.is = "value" => task.start \in Nat /\ task.value \in Nat
    <3>1. Half * Half \in Nat /\ Half \in Nat
      BY HalfAssumption, SMT
    <3>2. CASE task.is = "read"
      <4>1. /\ task.start \in Word64 /\ task.hi \in 0..(Half - 1)
            /\ task.lo \in 0..(Half - 1)
        BY <3>2, TaskKinds DEF TypeOK
      <4> QED
        BY <3>1, <3>2, <4>1, Joined DEF Word64
    <3>3. CASE task.is = "value"
      BY <3>1, <3>3, TaskKinds DEF TypeOK, Word64
    <3> QED
      BY <3>2, <3>3
  <2>3. CASE task' = task
    <3> SUFFICES ASSUME task.is \in {"read", "value"}, task.of \in C, Whole(task.of)
                 PROVE  LET now == Counter(task.of)' IN
                        /\ task.start <= now
                        /\ task.is = "read" => task.hi <= Hi(now)
                        /\ task.is = "read" /\ task.at = 2 /\ Hi(now) = task.hi
                             => /\ task.start <= Join(task.hi, task.lo)
                                /\ Join(task.hi, task.lo) <= now
                        /\ task.is = "value" => task.start <= task.value /\ task.value <= now
      <4>1. ASSUME task.of \in C, Whole(task.of)' PROVE Whole(task.of)
        <5>1. PICK c \in C : c = task.of
          BY <4>1
        <5>2. Whole(c)'
          BY <2>3, <4>1, <5>1 DEF Whole
        <5> QED
          BY <2>0, <5>1, <5>2
      <4> QED
        BY <2>3, <4>1 DEF ReadInv, Counter
    <3> QED
      BY <2>1, <2>2, <2>3 DEF ReadInv
  <2>4. CASE Disarm \/ ArmHigh \/ ArmLow
    <3>1. CASE Disarm
      BY <3>1 DEF Disarm, ReadInv
    <3>2. CASE ArmHigh
      BY <3>2, TaskKinds DEF ArmHigh, ReadInv, TypeOK
    <3>3. CASE ArmLow
      BY <3>3 DEF ArmLow, Idle, ReadInv
    <3> QED
      BY <2>4, <3>1, <3>2, <3>3
  <2>5. \A c : task'.of = c => /\ Counter(task.of)' = Counter(c)'
                               /\ Whole(task.of)' <=> Whole(c)'
    BY DEF Counter, Whole
  <2>6. CASE ReadHigh
    <3>1. PICK c \in Readable :
            task' = [is |-> "read", of |-> c, at |-> 1, start |-> Counter(c),
                     hi |-> HighRead(c), lo |-> 0]
      BY <2>6 DEF ReadHigh
    <3>2. /\ task'.is = "read" /\ task'.of = c /\ task'.at = 1
          /\ task'.start = Counter(c) /\ task'.hi = HighRead(c)
      BY <3>1
    <3>3. SUFFICES ASSUME c \in C, Whole(c)'
                   PROVE  Counter(c) <= Counter(c)' /\ task'.hi <= Hi(Counter(c)')
      BY <2>5, <3>2 DEF ReadInv
    <3>4. task'.hi = Hi(Counter(c))
      BY <2>0, <3>2, <3>3
    <3> QED
      BY <2>1, <3>3, <3>4
  <2>7. CASE ReadLow
    <3> DEFINE c == task.of
    <3>1. /\ task.is = "read" /\ task.at = 1
          /\ task'.is = "read" /\ task'.of = c /\ task'.start = task.start
          /\ task'.hi = task.hi /\ task'.lo = Lo(Counter(c))
      BY <2>7, TaskKinds DEF ReadLow, LowRead, TypeOK
    <3> SUFFICES ASSUME c \in C, Whole(c)
                 PROVE  /\ task.start <= Counter(c)' /\ task.hi <= Hi(Counter(c)')
                        /\ Hi(Counter(c)') = task.hi
                             => /\ task.start <= Join(task.hi, Lo(Counter(c)))
                                /\ Join(task.hi, Lo(Counter(c))) <= Counter(c)'
      BY <2>0, <2>5, <3>1 DEF ReadInv
    <3>2. task.start <= Counter(c) /\ task.hi <= Hi(Counter(c))
      BY <3>1 DEF ReadInv
    <3>3. Join(Hi(Counter(c)), Lo(Counter(c))) = Counter(c)
      BY <2>1, Split
    <3>4. Hi(Counter(c)') = task.hi => Hi(Counter(c)) = task.hi
      BY <2>1, <2>2, <3>1, <3>2
    <3> QED
      BY <2>1, <2>2, <3>1, <3>2, <3>3, <3>4
  <2>8. CASE ReadHighAgain
    <3>1. /\ task.is = "read" /\ task.at = 2
          /\ task \in [is : {"read"}, of : Readable, at : {1, 2}, start : Word64,
                      hi : 0..(Half - 1), lo : 0..(Half - 1)]
      BY <2>8, TaskKinds DEF ReadHighAgain, TypeOK
    <3>0. PICK c \in Readable : c = task.of
      BY <3>1
    <3>2. CASE HighRead(c) = task.hi
      <4>1. /\ task'.is = "value" /\ task'.of = c /\ task'.start = task.start
            /\ task'.value = Join(task.hi, task.lo)
        BY <2>8, <3>0, <3>2 DEF ReadHighAgain
      <4> SUFFICES ASSUME c \in C, Whole(c)
                   PROVE  /\ task.start <= Counter(c)'
                          /\ task.start <= Join(task.hi, task.lo)
                          /\ Join(task.hi, task.lo) <= Counter(c)'
        BY <2>0, <2>5, <4>1 DEF ReadInv
      <4>2. /\ task.start <= Counter(c) /\ task.start <= Join(task.hi, task.lo)
            /\ Join(task.hi, task.lo) <= Counter(c)
        BY <2>0, <3>0, <3>1, <3>2 DEF ReadInv
      <4> QED
        BY <2>1, <2>2, <3>1, <4>2
    <3>3. CASE HighRead(c) # task.hi
      <4>1. /\ task'.is = "read" /\ task'.of = c /\ task'.start = task.start
            /\ task'.at = 1 /\ task'.hi = HighRead(c)
        BY <2>8, <3>0, <3>1, <3>3 DEF ReadHighAgain
      <4> SUFFICES ASSUME c \in C, Whole(c)
                   PROVE  task.start <= Counter(c)' /\ task'.hi <= Hi(Counter(c)')
        BY <2>0, <2>5, <4>1 DEF ReadInv
      <4>2. task.start <= Counter(c) /\ task'.hi = Hi(Counter(c))
        BY <2>0, <3>0, <3>1, <4>1 DEF ReadInv
      <4> QED
        BY <2>1, <2>2, <3>1, <4>2
    <3> QED
      BY <3>2, <3>3
  <2> QED
    BY <1>2, <2>3, <2>4, <2>6, <2>7, <2>8 DEF Next, Compute, Trap, WriteMsip, WriteMip,
       WriteEnables
<1> QED
  BY <1>0, <1>1, <1>2

\* A guest that does not write instret, or writes no high value to it, reads
\* every counter whole: high, low and high again give a value the counter had
\* meanwhile, although it moves at every turn and a carry may fall between the
\* reads.  (A read through MINSTRETH as long as instret is below bit 31.)
THEOREM CountersReadWhole ==
  ASSUME Roomy
  PROVE  Spec => []NoTornRead
<1>1. Init => ReadInv(Readable)
  BY DEF Init, ReadInv, Idle
<1>2. TypeOK /\ NoWrap /\ ReadInv(Readable) /\ [Next]_vars => ReadInv(Readable)'
  BY ReadStep
<1>3. TypeOK /\ ReadInv(Readable) => NoTornRead
  BY TaskKinds DEF TypeOK, ReadInv, NoTornRead
<1>4. Spec => []NoWrap
  BY InstretHasRoom
<1> QED
  BY <1>1, <1>2, <1>3, <1>4, TimersTypeCorrect, PTL DEF Spec

\* The clock and the cycle counter are read whole by any guest.  (A guest that
\* writes instret can make it wrap during a read.)
ClockNotTorn == task.is = "value" /\ task.of \in Clocks => NoTornRead

THEOREM ClockReadWhole == Spec => []ClockNotTorn
<1>1. Init => ReadInv(Clocks)
  BY DEF Init, ReadInv, Idle
<1>2. TypeOK /\ ReadInv(Clocks) /\ [Next]_vars => ReadInv(Clocks)'
  BY ReadStep DEF Clocks, Readable, Counters
<1>3. TypeOK /\ ReadInv(Clocks) => ClockNotTorn
  BY DEF ReadInv, NoTornRead, ClockNotTorn
<1> QED
  BY <1>1, <1>2, <1>3, TimersTypeCorrect, PTL DEF Spec
=============================================================================
