------------------------------- MODULE Timers -------------------------------
(***************************************************************************)
(* csr.rs and bus/clint.rs: the clock, its two comparators, the counters,  *)
(* and the privileges that may read them.  One action is a turn of         *)
(* Simulator::run from its instruction on: it retires (progress_instret)   *)
(* or fails, then progress_cycle and progress_time follow.  A 64-bit value *)
(* is a number, written and read in halves of Half values each.  The guest *)
(* writes a comparator as the privileged manual asks on 32-bit harts (the  *)
(* low half all ones, the high half, the low half) and reads a counter     *)
(* high, low, and high again.                                              *)
(***************************************************************************)
EXTENDS Integers, CsrOps

CONSTANTS
  Half,       \* 2^32
  MaxTime,    \* bound: the clock stops there, before it wraps
  Deadlines,  \* the values the guest writes to its comparators
  Counts,     \* the halves the guest writes to instret
  Enables     \* the values the guest writes to mcounteren and scounteren

Counters == {"CY", "TM", "IR"}
Readable == Counters \cup {"MIR"}   \* instret, by its machine-mode registers
MCOUNTEREN_SUPPORTED == {"CY", "TM"}

ASSUME HalfAssumption      == Half \in Nat /\ Half > 1 /\ Half % 2 = 0
ASSUME MaxTimeAssumption   == MaxTime \in Nat /\ MaxTime < Half * Half
ASSUME DeadlinesAssumption == Deadlines \subseteq 0..(Half * Half - 1)
ASSUME CountsAssumption    == Counts \subseteq 0..(Half - 1)
ASSUME EnablesAssumption   == Enables \subseteq SUBSET Counters

VARIABLES
  time, cycle, instret,
  compare,         \* mtimecmp and stimecmp, by the pending bit they drive
  mip,
  mcountinhibit,   \* its CY bit, the only one that is kept
  mcounteren, scounteren,
  armed,           \* the deadlines the guest last asked for
  task             \* what the guest is in the middle of

enables == <<mcountinhibit, mcounteren, scounteren>>
vars    == <<time, cycle, instret, compare, mip, enables, armed, task>>

Bits == {MTIP, STIP}

Lo(x) == x % Half
Hi(x) == x \div Half
Join(hi, lo) == hi * Half + lo
AllOnes == Half - 1
Word64  == 0..(Half * Half - 1)

Idle == [is |-> "idle"]
Tasks ==
  {Idle}
  \cup [is : {"arm"}, bit : Bits, at : {1, 2}, deadline : Word64]
  \cup [is : {"read"}, of : Readable, at : {1, 2}, start : Word64,
        hi : 0..(Half - 1), lo : 0..(Half - 1)]
  \cup [is : {"value"}, of : Readable, start : Word64, value : Word64]

Init ==
  /\ time = 0 /\ cycle = 0 /\ instret = 0
  /\ compare = [bit \in Bits |-> 0]
  /\ mip = {}
  /\ mcountinhibit = FALSE /\ mcounteren = {} /\ scounteren = {}
  /\ armed = [bit \in Bits |-> 0]
  /\ task = Idle

-----------------------------------------------------------------------------
\* The end of a turn, after an instruction that left these pending bits.
Due(now, cmp) == {bit \in Bits : now >= cmp[bit]}

ProgressCycle == cycle' = IF mcountinhibit' THEN cycle ELSE cycle + 1

ProgressTime(pending) ==
  /\ time < MaxTime
  /\ time' = time + 1
  /\ mip' = (pending \ Bits) \cup Due(time + 1, compare')

Progress(pending) == ProgressCycle /\ ProgressTime(pending)

\* The instruction retired, or failed.
ProgressInstret == instret' = (instret + 1) % (Half * Half)
Retire(pending) == ProgressInstret /\ Progress(pending)
Fail(pending)   == UNCHANGED instret /\ Progress(pending)

\* Other software, which writes sip, and the ticks between its instructions,
\* which move SEIP.
Compute ==
  /\ UNCHANGED <<compare, enables, armed, task>>
  /\ \E bit \in {SSIP, SEIP} : \/ Retire(mip \cup {bit})
                                \/ Retire(mip \ {bit})

\* A read of a counter that CanAccess denies is one of these.
Trap == UNCHANGED <<compare, enables, armed, task>> /\ Fail(mip)

\* Clint::write, msip.
WriteMsip ==
  /\ UNCHANGED <<compare, enables, armed, task>>
  /\ Retire(mip \cup {MSIP}) \/ Retire(mip \ {MSIP})

\* Csr::write of mip replaces all of it, MEIP, MSIP and the timers included.
WriteMip ==
  /\ UNCHANGED <<compare, enables, armed, task>>
  /\ \E value \in SUBSET MipSupported : Retire(value)

-----------------------------------------------------------------------------
(* Csr::set_mtimecmp, Csr::set_mtimecmph and the writes of STIMECMP(H).    *)

\* Mutant: the typing error of set_mtimecmph in set_mtimecmp as well.
ComparedMasking(bit, cmp) ==
  IF cmp > time THEN mip \ {bit}
  ELSE IF bit = MTIP THEN mip \cap {bit} ELSE mip \cup {bit}

\* The pending bits they leave.
Compared(bit, cmp) == IF cmp > time THEN mip \ {bit} ELSE mip \cup {bit}

\* set_mtimecmph masks mip with the bit it means to set.
ComparedHigh(bit, cmp) ==
  IF bit = MTIP /\ cmp <= time THEN mip \cap {MTIP} ELSE Compared(bit, cmp)

\* Mutant: the low half keeps nothing of the high one.
LowWrittenAlone(cmp, value) == value
LowWritten(cmp, value)  == Join(Hi(cmp), value)
HighWritten(cmp, value) == Join(value, Lo(cmp))

WriteLow(bit, value) ==
  LET cmp == LowWritten(compare[bit], value) IN
  compare' = [compare EXCEPT ![bit] = cmp] /\ Retire(Compared(bit, cmp))

WriteHigh(bit, value) ==
  LET cmp == HighWritten(compare[bit], value) IN
  compare' = [compare EXCEPT ![bit] = cmp] /\ Retire(ComparedHigh(bit, cmp))

\* Csr::check_csr_access and the three chceck_*_access.
CanAccess(counter, p) ==
  \/ p = Machine
  \/ counter \in mcounteren /\ (p = Supervisor \/ counter \in scounteren)

CanCompare(bit, p) == IF bit = MTIP THEN TRUE ELSE p # User /\ CanAccess("TM", p)

\* The three writes of the guest: through the CLINT, or the CSRs of Sstc.
Disarm ==
  /\ UNCHANGED <<enables, armed>>
  /\ task.is \in {"idle", "value"}
  /\ \E bit \in Bits, deadline \in Deadlines, p \in Privs :
       /\ CanCompare(bit, p)
       /\ WriteLow(bit, AllOnes)
       /\ task' = [is |-> "arm", bit |-> bit, at |-> 1, deadline |-> deadline]

ArmHigh ==
  /\ UNCHANGED <<enables, armed>>
  /\ task.is = "arm" /\ task.at = 1
  /\ WriteHigh(task.bit, Hi(task.deadline))
  /\ task' = [task EXCEPT !.at = 2]

ArmLow ==
  /\ UNCHANGED enables
  /\ task.is = "arm" /\ task.at = 2
  /\ WriteLow(task.bit, Lo(task.deadline))
  /\ armed' = [armed EXCEPT ![task.bit] = task.deadline]
  /\ task' = Idle

-----------------------------------------------------------------------------
(* The counters. *)
Counter(c) == CASE c = "CY" -> cycle [] c = "TM" -> time [] OTHER -> instret

\* Mutant: every high half is shifted by 31.
HighRead31(c) == (Counter(c) \div (Half \div 2)) % Half

\* Csr::read of MINSTRETH, shifted by MINSTRETH_POS = 31.
Minstreth == (instret \div (Half \div 2)) % Half

\* Csr::read of CYCLE, TIME, INSTRET, MINSTRET, and of their high halves.
HighRead(c) == IF c = "MIR" THEN Minstreth ELSE Hi(Counter(c))
LowRead(c)  == Lo(Counter(c))

ReadTurn == UNCHANGED <<compare, enables, armed>> /\ Retire(mip)

ReadHigh ==
  /\ task.is \in {"idle", "value"}
  /\ \E c \in Readable, p \in Privs :
       /\ CanAccess(c, p)
       /\ task' = [is |-> "read", of |-> c, at |-> 1, start |-> Counter(c),
                   hi |-> HighRead(c), lo |-> 0]
  /\ ReadTurn

ReadLow ==
  /\ task.is = "read" /\ task.at = 1
  /\ task' = [task EXCEPT !.at = 2, !.lo = LowRead(task.of)]
  /\ ReadTurn

\* The high half again: when it moved, the reader starts over.
ReadHighAgain ==
  /\ task.is = "read" /\ task.at = 2
  /\ task' = IF HighRead(task.of) = task.hi
             THEN [is |-> "value", of |-> task.of, start |-> task.start,
                   value |-> Join(task.hi, task.lo)]
             ELSE [task EXCEPT !.at = 1, !.hi = HighRead(task.of), !.lo = 0]
  /\ ReadTurn

\* Writes of minstret and minstreth: suppress_minsret is set, and taken back
\* by the progress_instret of the same instruction.  MINSTRETH_POS is 31, so
\* the high value overlaps the highest bit of the low half.
Overlap(value) ==
  IF Lo(instret) >= Half \div 2 /\ value % 2 = 1 THEN Half \div 2 ELSE 0

WriteInstret ==
  /\ UNCHANGED <<compare, enables, armed, task>>
  /\ task = Idle
  /\ \E value \in Counts :
       \/ instret' = Join(Hi(instret), value)
       \/ instret' = Lo(instret) + value * (Half \div 2) - Overlap(value)
  /\ Progress(mip)

\* Mutant: the bits of other counters are kept.
AsWritten(value) == value
Supported(value) == value \cap MCOUNTEREN_SUPPORTED

\* MCOUNTINHIBIT is or-ed to; MCOUNTEREN and SCOUNTEREN are replaced;
\* a bit of another counter stops the program when it is written to SCOUNTEREN.
WriteEnables ==
  /\ UNCHANGED <<compare, armed, task>>
  /\ \/ mcountinhibit' = TRUE /\ UNCHANGED <<mcounteren, scounteren>>
     \/ /\ \E value \in Enables : mcounteren' = Supported(value)
        /\ UNCHANGED <<mcountinhibit, scounteren>>
     \/ /\ \E value \in Enables :
             value \subseteq MCOUNTEREN_SUPPORTED /\ scounteren' = value
        /\ UNCHANGED <<mcountinhibit, mcounteren>>
  /\ Retire(mip)

Next == Compute \/ Trap \/ WriteMsip \/ WriteMip \/ Disarm \/ ArmHigh \/ ArmLow
        \/ ReadHigh \/ ReadLow \/ ReadHighAgain
        \/ WriteInstret \/ WriteEnables

Spec == Init /\ [][Next]_vars

-----------------------------------------------------------------------------
TypeOK ==
  /\ time \in 0..MaxTime /\ cycle \in 0..time /\ instret \in Word64
  /\ compare \in [Bits -> Word64] /\ armed \in [Bits -> Word64]
  /\ mip \subseteq InterruptBits
  /\ mcountinhibit \in BOOLEAN
  /\ mcounteren \subseteq MCOUNTEREN_SUPPORTED
  /\ scounteren \subseteq MCOUNTEREN_SUPPORTED
  /\ task \in Tasks

\* After every turn a comparator that is not being written holds the deadline
\* the guest asked for and is pending exactly when it has passed; one in the
\* middle of its three writes is pending for no deadline but the old or the
\* new one.
TimerExact ==
  time > 0 => \A bit \in Bits :
    IF task.is = "arm" /\ task.bit = bit
      THEN bit \in mip => time >= armed[bit] \/ time >= task.deadline
      ELSE compare[bit] = armed[bit] /\ (bit \in mip <=> time >= armed[bit])

\* A step that is one of the guest's three writes, and the one of them that
\* moves the high half of mtimecmp so that the comparator is in the past.
WritesComparator == task' # task /\ "arm" \in {task.is, task'.is}
HighToThePast ==
  /\ task'.is = "arm" /\ task'.at = 2 /\ task'.bit = MTIP
  /\ compare'[MTIP] <= time

\* Setting a comparator leaves the software and external interrupts pending
\* as they were, with the exception of set_mtimecmph when it moves mtimecmp
\* to the past: that masks mip and drops them all (csr.rs 575).  No write of
\* a low half and none of stimecmp does so, wherever it moves the comparator.
PendingSurvivesTimers ==
  [][WritesComparator /\ ~HighToThePast => mip' \ Bits = mip \ Bits]_vars

\* A read of minstret and minstreth is whole as long as the counter has not
\* reached bit 31, which both halves show: MINSTRETH is shifted by one place
\* less than INSTRETH.
Whole(c) == c = "MIR" => instret < Half \div 2

\* A counter read high, low, high is a value it had during the read, although
\* it moves between the three instructions and a carry may fall between them.
NoTornRead ==
  (task.is = "value" /\ Whole(task.of)) =>
    task.start <= task.value /\ task.value <= Counter(task.of)
=============================================================================
