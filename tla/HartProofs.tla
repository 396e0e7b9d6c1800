----------------------------- MODULE HartProofs -----------------------------
(***************************************************************************)
(* Proofs about Hart: its type invariant, the alignment of pc, and what no *)
(* step may do: enter a level whose interrupts are off, touch the state of *)
(* a higher level, or rise in privilege other than through a vector.       *)
(***************************************************************************)
EXTENDS Hart, TLAPS

\* Align clears the low two bits: the result is aligned and not larger.
LEMMA AlignAligns ==
  ASSUME NEW a \in Nat
  PROVE  /\ Align(a) \in 0..a
         /\ Align(a) % 4 = 0
BY SMT DEF Align

\* Reducing an aligned number modulo an aligned size keeps it aligned and
\* in range: pc + 4 and the slots of the vectors wrap around.
LEMMA WrapAligned ==
  ASSUME NEW a \in Nat, NEW n \in Nat \ {0}, a % 4 = 0, n % 4 = 0
  PROVE  a % n \in 0..(n - 1) /\ (a % n) % 4 = 0
<1>1. a % n \in 0..(n - 1)
  BY SMT
<1>2. PICK q \in Int : a = n * q + (a % n)
  <2>1. a = n * (a \div n) + (a % n) /\ (a \div n) \in Int
    BY SMT
  <2> QED
    BY <2>1
<1>3. PICK k \in Int : n = 4 * k
  <2>1. n = 4 * (n \div 4) /\ (n \div 4) \in Int
    BY SMT
  <2> QED
    BY <2>1
<1>4. a = 4 * (k * q) + (a % n)
  BY <1>2, <1>3, SMT
<1>5. (a % n) % 4 = 0
  <2> DEFINE m == k * q
             r == a % n
  <2>1. m \in Int /\ r \in Int /\ a = 4 * m + r
    BY <1>1, <1>4, <1>2, <1>3, SMT
  <2> HIDE DEF m, r
  <2>2. r % 4 = 0
    BY <2>1, SMT
  <2> QED
    BY <2>2 DEF r
<1> QED
  BY <1>1, <1>5

\* The status updates of traps and returns stay within the modelled fields.
LEMMA StatusUpdates ==
  ASSUME NEW st \in Status, NEW from \in Privs
  PROVE  /\ MachineEntry(st, from) \in Status
         /\ SupervisorEntry(st, from) \in Status
         /\ MretStatus(st) \in Status
         /\ SretStatus(st) \in Status
<1>1. /\ st.sie \in BOOLEAN /\ st.mie \in BOOLEAN
      /\ st.spie \in BOOLEAN /\ st.mpie \in BOOLEAN
      /\ (st.mprv /\ st.mpp = Machine) \in BOOLEAN
  BY DEF Status
<1>2. from \in 0..3 /\ User \in 0..3
  BY SMT DEF Privs, User, Supervisor, Machine
<1>3. (IF from = User THEN User ELSE Supervisor) \in {User, Supervisor}
  OBVIOUS
<1>4. MachineEntry(st, from) \in Status
  BY <1>1, <1>2 DEF MachineEntry, Status
<1>5. SupervisorEntry(st, from) \in Status
  BY <1>1, <1>3 DEF SupervisorEntry, Status
<1>6. MretStatus(st) \in Status
  BY <1>1, <1>2 DEF MretStatus, Status
<1>7. SretStatus(st) \in Status
  BY <1>1 DEF SretStatus, Status
<1> QED
  BY <1>4, <1>5, <1>6, <1>7

\* A trap vector is an aligned address once it is wrapped.
LEMMA VectorAligned ==
  ASSUME NEW tvec \in Addresses, NEW trap, trap.cause \in Nat
  PROVE  /\ TrapVector(tvec, trap) % XlenSize \in Addresses
         /\ (TrapVector(tvec, trap) % XlenSize) % 4 = 0
<1>1. TrapVector(tvec, trap) \in Nat /\ TrapVector(tvec, trap) % 4 = 0
  <2>1. tvec \in Nat /\ trap.cause \in Nat
    BY XlenAssumption, SMT DEF Addresses
  <2>2. Align(tvec) \in Nat /\ Align(tvec) % 4 = 0
    BY <2>1, AlignAligns
  <2>3. CASE trap.interrupt /\ tvec % 4 # 0
    <3>1. TrapVector(tvec, trap) = Align(tvec) + 4 * trap.cause
      BY <2>3 DEF TrapVector
    <3> QED
      BY <2>1, <2>2, <3>1, SMT
  <2>4. CASE ~(trap.interrupt /\ tvec % 4 # 0)
    <3>1. TrapVector(tvec, trap) = Align(tvec) + 0
      BY <2>4 DEF TrapVector
    <3> QED
      BY <2>1, <2>2, <3>1, SMT
  <2> QED
    BY <2>3, <2>4
<1> QED
  BY <1>1, WrapAligned, XlenAssumption DEF Addresses

\* The next instruction has an address, aligned if this one is.
LEMMA NextPcAligned ==
  ASSUME NEW a \in Addresses
  PROVE  /\ (a + 4) % XlenSize \in Addresses
         /\ a % 4 = 0 => ((a + 4) % XlenSize) % 4 = 0
<1>1. a + 4 \in Nat /\ (a % 4 = 0 => (a + 4) % 4 = 0)
  BY XlenAssumption, SMT DEF Addresses
<1>2. (a + 4) % XlenSize \in Addresses
  BY <1>1, XlenAssumption, SMT DEF Addresses
<1>3. ASSUME a % 4 = 0 PROVE ((a + 4) % XlenSize) % 4 = 0
  BY <1>1, <1>3, WrapAligned, XlenAssumption
<1> QED
  BY <1>2, <1>3

\* What a trap does to the trap state, whichever mode takes it.
LEMMA TrapTypes ==
  ASSUME TypeOK, NEW trap, trap.cause \in Nat, HandleTrap(trap)
  PROVE  /\ pc' \in Addresses /\ mepc' \in Addresses /\ sepc' \in Addresses
         /\ prv' \in Privs /\ mstatus' \in Status
         /\ pc' % 4 = 0
         /\ mepc' % 4 = 0 \/ mepc' = mepc
         /\ sepc' % 4 = 0 \/ sepc' = sepc
<1>1. pc \in Nat /\ Align(pc) \in Addresses /\ Align(pc) % 4 = 0
  <2>1. pc \in Nat /\ pc <= XlenSize - 1
    BY XlenAssumption, SMT DEF TypeOK, Addresses
  <2>2. Align(pc) \in 0..pc /\ Align(pc) % 4 = 0
    BY <2>1, AlignAligns
  <2> QED
    BY <2>1, <2>2, XlenAssumption, SMT DEF Addresses
<1>2. CASE Delegated(prv, trap, mideleg, medeleg)
  BY <1>1, <1>2, VectorAligned, StatusUpdates
     DEF HandleTrap, TypeOK, Privs
<1>3. CASE ~Delegated(prv, trap, mideleg, medeleg)
  BY <1>1, <1>3, VectorAligned, StatusUpdates
     DEF HandleTrap, TypeOK, Privs
<1> QED
  BY <1>2, <1>3

-----------------------------------------------------------------------------
\* What a step does to pc, mepc and sepc, stated once for both invariants:
\* every new value is an aligned address, or (the pc of a plain successor)
\* inherits the alignment of the old ones.
Control ==
  /\ pc' \in Addresses /\ mepc' \in Addresses /\ sepc' \in Addresses
  /\ prv' \in Privs /\ mstatus' \in Status
  /\ PcAligned => PcAligned'

\* Retired instructions that leave the trap state alone.
LEMMA RetireControl ==
  ASSUME TypeOK, Retire
  PROVE  Control
BY NextPcAligned DEF Retire, NextPc, Control, TypeOK, PcAligned

\* The same for the instructions that write status or an exception pc.
LEMMA NextControl ==
  ASSUME TypeOK, NextInstruction, mstatus' \in Status,
         mepc' \in Addresses, mepc' % 4 = 0 \/ mepc' = mepc,
         sepc' \in Addresses, sepc' % 4 = 0 \/ sepc' = sepc
  PROVE  Control
BY NextPcAligned DEF NextInstruction, NextPc, Control, TypeOK, PcAligned

LEMMA TrapControl ==
  ASSUME TypeOK, NEW trap, trap.cause \in Nat, HandleTrap(trap)
  PROVE  Control
BY TrapTypes DEF Control, PcAligned

\* Every cause of an exception or interrupt in the model is a number.
LEMMA Causes ==
  /\ \A c \in Nat : Exception(c).cause \in Nat /\ Interrupt(c).cause \in Nat
  /\ \A from \in Privs : EnvCall(from).cause \in Nat
  /\ BreakPoint.cause \in Nat /\ IllegalInstruction.cause \in Nat
  /\ InstructionAddressMisaligned.cause \in Nat
  /\ \A trap \in MemoryFaults : trap.cause \in Nat
  /\ \A active : Interrupt(Chosen(active)).cause \in Nat
BY SMT DEF Exception, Interrupt, EnvCall, BreakPoint, IllegalInstruction,
   InstructionAddressMisaligned, MemoryFaults, Chosen, SEIP, SSIP, STIP,
   Privs, User, Supervisor, Machine

\* Each action of the hart keeps the trap state well formed and aligned.
LEMMA StepControl ==
  ASSUME TypeOK, Next
  PROVE  Control
<1>1. CASE UNCHANGED trapState
  BY <1>1 DEF trapState, Control, TypeOK, PcAligned
<1>2. CASE BusTick \/ CheckPanic \/ ProgressTime \/ FetchPanic \/ MretPanic
  BY <1>1, <1>2 DEF BusTick, CheckPanic, ProgressTime, FetchPanic, MretPanic, Stop
<1>3. CASE CheckInterrupt
  <2>1. CASE Open(prv, mstatus, mideleg, mip \cap mie)
    <3>1. HandleTrap(Interrupt(Chosen(mip \cap mie)))
      BY <1>3, <2>1 DEF CheckInterrupt
    <3> QED
      BY <3>1, TrapControl, Causes
  <2>2. CASE ~Open(prv, mstatus, mideleg, mip \cap mie)
    BY <1>1, <1>3, <2>2 DEF CheckInterrupt
  <2> QED
    BY <2>1, <2>2
<1>4. ASSUME NEW trap, trap.cause \in Nat, Trap(trap)
      PROVE  Control
  BY <1>4, TrapControl DEF Trap
<1>5. CASE Ecall \/ Ebreak \/ Fault \/ JumpMisaligned \/ IllegalReturn \/ CsrDenied
  <2>1. CASE Ecall
    BY <2>1, <1>4, Causes DEF Ecall, TypeOK
  <2>2. CASE Ebreak
    BY <2>2, <1>4, Causes DEF Ebreak
  <2>3. CASE Fault
    BY <2>3, <1>4, Causes DEF Fault
  <2>4. CASE JumpMisaligned
    BY <2>4, <1>4, Causes DEF JumpMisaligned
  <2>5. CASE IllegalReturn \/ CsrDenied
    BY <2>5, <1>4, Causes DEF IllegalReturn, CsrDenied
  <2> QED
    BY <1>5, <2>1, <2>2, <2>3, <2>4, <2>5
<1>6. CASE Compute \/ StoreDevice \/ WriteMip \/ WriteSip \/ WriteIe
           \/ WriteDeleg \/ WriteTvec
  <2>1. Retire
    BY <1>6 DEF Compute, StoreDevice, WriteMip, WriteSip, WriteIe, WriteDeleg, WriteTvec
  <2> QED
    BY <2>1, RetireControl
<1>7. CASE Jump
  BY <1>7, WritesAssumption DEF Jump, Control, TypeOK, PcAligned, Addresses
<1>8. CASE Sret
  <2>1. mstatus' \in Status /\ prv' \in Privs
    BY <1>8, StatusUpdates DEF Sret, TypeOK, Status, Privs
  <2> QED
    BY <1>8, <2>1 DEF Sret, Control, TypeOK, PcAligned
<1>9. CASE Mret
  <2>1. mstatus' \in Status /\ prv' \in Privs
    BY <1>9, StatusUpdates DEF Mret, TypeOK
  <2> QED
    BY <1>9, <2>1 DEF Mret, Control, TypeOK, PcAligned
<1>10. CASE WriteStatus
  <2>1. PICK st \in StatusWrites :
          mstatus' = st \/ mstatus' = SstatusWritten(st)
    BY <1>10 DEF WriteStatus
  <2>2. mstatus' \in Status
    <3>1. st \in Status /\ mstatus \in Status
      BY StatusAssumption DEF TypeOK
    <3>2. SstatusWritten(st) \in Status
      BY <3>1 DEF SstatusWritten, Status
    <3> QED
      BY <2>1, <3>1, <3>2
  <2> QED
    BY <1>10, <2>2, NextControl DEF WriteStatus, TypeOK
<1>11. CASE WriteEpc
  <2>1. PICK a \in AddrWrites :
          \/ mepc' = Align(a) /\ UNCHANGED sepc
          \/ sepc' = Align(a) /\ UNCHANGED mepc
    BY <1>11 DEF WriteEpc
  <2>2. Align(a) \in Addresses /\ Align(a) % 4 = 0
    <3>1. a \in Nat /\ a <= XlenSize - 1
      BY WritesAssumption, XlenAssumption, SMT
    <3> QED
      BY <3>1, AlignAligns, XlenAssumption, SMT DEF Addresses
  <2>3. mstatus' \in Status /\ NextInstruction
    BY <1>11 DEF WriteEpc, TypeOK
  <2> QED
    BY <2>1, <2>2, <2>3, NextControl DEF TypeOK
<1> QED
  BY <1>2, <1>3, <1>5, <1>6, <1>7, <1>8, <1>9, <1>10, <1>11
     DEF Next, Returns, CsrInstruction

\* The interrupt and delegation registers keep to the bits the hart has.
LEMMA StepConfig ==
  ASSUME TypeOK, Next
  PROVE  /\ mip' \subseteq InterruptBits /\ mie' \subseteq InterruptBits
         /\ mideleg' \subseteq InterruptBits /\ medeleg' \subseteq 0..15
         /\ mtvec' \in Addresses /\ stvec' \in Addresses
<1> DEFINE Goal ==
      /\ mip' \subseteq InterruptBits /\ mie' \subseteq InterruptBits
      /\ mideleg' \subseteq InterruptBits /\ medeleg' \subseteq 0..15
      /\ mtvec' \in Addresses /\ stvec' \in Addresses
<1> USE DEF TypeOK
<1>1. CASE UNCHANGED <<config, mip>>
  BY <1>1 DEF config
<1>2. CASE CheckInterrupt \/ CheckPanic \/ FetchPanic \/ MretPanic \/ Compute
           \/ Jump \/ Sret \/ Mret \/ WriteStatus \/ WriteEpc
  BY <1>1, <1>2 DEF CheckInterrupt, CheckPanic, FetchPanic, MretPanic, Stop,
                    Compute, Jump, Sret, Mret, WriteStatus, WriteEpc
<1>3. CASE Ecall \/ Ebreak \/ Fault \/ JumpMisaligned \/ IllegalReturn \/ CsrDenied
  BY <1>1, <1>3 DEF Ecall, Ebreak, Fault, JumpMisaligned, IllegalReturn,
                    CsrDenied, Trap
<1>4. CASE UNCHANGED config /\ mip' \subseteq InterruptBits
  BY <1>4 DEF config
<1>5. CASE BusTick \/ ProgressTime \/ StoreDevice \/ WriteMip \/ WriteSip
  <2>1. UNCHANGED config
    BY <1>5 DEF BusTick, ProgressTime, StoreDevice, WriteMip, WriteSip
  <2>2. {SEIP, MEIP, MSIP, SSIP, MTIP, STIP} \subseteq InterruptBits
    BY DEF InterruptBits
  <2>3. mip' \subseteq InterruptBits
    BY <1>5, <2>2, WritesAssumption
       DEF BusTick, ProgressTime, StoreDevice, WriteMip, WriteSip,
           MipSupported, SipWritable
  <2> QED
    BY <1>4, <2>1, <2>3
<1>6. CASE WriteIe
  BY <1>6, WritesAssumption DEF WriteIe, SieSupported
<1>7. CASE WriteDeleg
  BY <1>7, WritesAssumption DEF WriteDeleg
<1>8. CASE WriteTvec
  <2>1. ASSUME NEW a \in AddrWrites PROVE TvecWritten(a) \in Addresses
    <3>1. a \in Nat /\ a <= XlenSize - 1
      BY WritesAssumption, XlenAssumption, SMT
    <3> QED
      BY <3>1, XlenAssumption, SMT DEF TvecWritten, Addresses
  <2> QED
    BY <1>8, <2>1 DEF WriteTvec
<1> QED
  BY <1>2, <1>3, <1>5, <1>6, <1>7, <1>8 DEF Next, Returns, CsrInstruction

\* The hart's state keeps its shape for all software.
THEOREM TypeCorrect == Spec => []TypeOK
<1>1. Init => TypeOK
  BY EntryAssumption, XlenAssumption, SMT
     DEF Init, TypeOK, Addresses, Privs, Machine, StatusInit, Status, User, Supervisor
<1>2. TypeOK /\ [Next]_vars => TypeOK'
  <2> SUFFICES ASSUME TypeOK, [Next]_vars PROVE TypeOK'
    OBVIOUS
  <2>1. CASE UNCHANGED vars
    BY <2>1 DEF vars, trapState, config, TypeOK
  <2>2. CASE Next
    <3>1. phase' \in {"tick", "check", "step", "timer"}
      BY <2>2 DEF Next, Returns, CsrInstruction, BusTick, CheckInterrupt,
         CheckPanic, ProgressTime, FetchPanic, Ecall, Ebreak, Fault, Compute,
         StoreDevice, Jump, JumpMisaligned, Sret, Mret, MretPanic, IllegalReturn,
         WriteStatus, WriteMip, WriteSip, WriteIe, WriteDeleg, WriteTvec,
         WriteEpc, CsrDenied, CsrAccess, Trap, Step, Enter, Stop, TypeOK
    <3> QED
      BY <2>2, <3>1, StepControl, StepConfig DEF TypeOK, Control
  <2> QED
    BY <2>1, <2>2
<1> QED
  BY <1>1, <1>2, PTL DEF Spec

\* One step, from the types.
LEMMA StepKeepsAlignment == TypeOK /\ [Next]_vars => (PcAligned => PcAligned')
<1> SUFFICES ASSUME TypeOK, [Next]_vars, PcAligned PROVE PcAligned'
  OBVIOUS
<1>1. CASE UNCHANGED vars
  BY <1>1 DEF vars, trapState, PcAligned
<1>2. CASE Next
  BY <1>2, StepControl DEF Control
<1> QED
  BY <1>1, <1>2

\* No step of any software loses the alignment of pc, mepc and sepc.
THEOREM AlignmentIsNeverLost == Spec => StaysAligned
<1>1. TypeOK /\ [Next]_vars => [PcAligned => PcAligned']_vars
  BY StepKeepsAlignment
<1> QED
  BY <1>1, TypeCorrect, PTL DEF Spec, StaysAligned

\* A simulator started at an aligned entry point never fetches from a
\* misaligned address, for any software, memory size and CSR contents.
THEOREM FetchStaysAligned ==
  ASSUME \A e \in EntryPoints : e % 4 = 0
  PROVE  Spec => []PcAligned
<1>1. Init => PcAligned
  BY SMT DEF Init, PcAligned
<1>2. TypeOK /\ PcAligned /\ [Next]_vars => PcAligned'
  BY StepKeepsAlignment
<1> QED
  BY <1>1, <1>2, TypeCorrect, PTL DEF Spec

-----------------------------------------------------------------------------
\* The order of the privileges, and what CSR access at a level means.
LEMMA Ranks ==
  /\ Privs = {User, Supervisor, Machine}
  /\ User # Supervisor /\ User # Machine /\ Supervisor # Machine
  /\ ~(User >= Supervisor) /\ ~(User >= Machine) /\ ~(Supervisor >= Machine)
  /\ ~(User > User) /\ ~(Supervisor > Supervisor) /\ ~(User > Supervisor)
  /\ ~(User > Machine) /\ ~(Supervisor > Machine) /\ ~(Machine > Machine)
BY SMT DEF Privs, User, Supervisor, Machine

\* A trap enters S mode or M mode, and the mode it enters is the one whose
\* frame it fills.
LEMMA TrapEffect ==
  ASSUME TypeOK, NEW trap, HandleTrap(trap)
  PROVE  \/ /\ Delegated(prv, trap, mideleg, medeleg)
            /\ prv # Machine /\ prv' = Supervisor /\ mepc' = mepc
            /\ mstatus'.mie = mstatus.mie /\ mstatus'.mpie = mstatus.mpie
            /\ mstatus'.mpp = mstatus.mpp /\ mstatus'.tsr = mstatus.tsr
            /\ pc' = TrapVector(stvec, trap) % XlenSize
         \/ /\ ~Delegated(prv, trap, mideleg, medeleg)
            /\ prv' = Machine /\ sepc' = sepc
            /\ mstatus'.sie = mstatus.sie /\ mstatus'.spie = mstatus.spie
            /\ mstatus'.spp = mstatus.spp
            /\ pc' = TrapVector(mtvec, trap) % XlenSize
<1>1. mstatus \in Status
  BY DEF TypeOK
<1> QED
  BY <1>1 DEF HandleTrap, Delegated, SupervisorEntry, MachineEntry, Status

-----------------------------------------------------------------------------
\* Interrupts respect critical sections: the gate of resolve_pending looks at
\* the delegation of every active bit, so the bit it chooses is one the
\* running mode has not shut out.
THEOREM CriticalSectionsHold == Spec => CriticalSection
<1> DEFINE active == mip \cap mie
           Hold == phase = "check" =>
       /\ (prv = Machine /\ ~mstatus.mie) => UNCHANGED trapState
       /\ (prv = Supervisor /\ ~mstatus.sie) =>
             \/ UNCHANGED trapState
             \/ /\ prv' = Machine /\ sepc' = sepc
                /\ mstatus'.spp = mstatus.spp /\ mstatus'.spie = mstatus.spie
                /\ mstatus'.sie = FALSE
<1>1. ASSUME TypeOK, Next, phase = "check", ~UNCHANGED trapState
      PROVE  /\ Open(prv, mstatus, mideleg, active)
             /\ active \cap Resolvable # {}
             /\ HandleTrap(Interrupt(Chosen(active)))
  BY <1>1 DEF Next, Returns, CsrInstruction, BusTick, CheckInterrupt,
     CheckPanic, ProgressTime, FetchPanic, Ecall, Ebreak, Fault, Compute,
     StoreDevice, Jump, JumpMisaligned, Sret, Mret, MretPanic, IllegalReturn,
     WriteStatus, WriteMip, WriteSip, WriteIe, WriteDeleg, WriteTvec,
     WriteEpc, CsrDenied, CsrAccess, Trap, Step, Enter, Stop
<1>2. TypeOK /\ [Next]_vars => [Hold]_vars
  <2> SUFFICES ASSUME TypeOK, Next, phase = "check", ~UNCHANGED trapState
               PROVE  /\ ~(prv = Machine /\ ~mstatus.mie)
                      /\ (prv = Supervisor /\ ~mstatus.sie) =>
                            /\ prv' = Machine /\ sepc' = sepc
                            /\ mstatus'.spp = mstatus.spp
                            /\ mstatus'.spie = mstatus.spie
                            /\ mstatus'.sie = FALSE
    OBVIOUS
  <2>1. ~(prv = Machine /\ ~mstatus.mie)
    BY <1>1 DEF Open
  <2>2. ASSUME prv = Supervisor, ~mstatus.sie
        PROVE  ~Delegated(prv, Interrupt(Chosen(active)), mideleg, medeleg)
    <3>1. active \cap mideleg = {}
      BY <1>1, <2>2 DEF Open
    <3>2. Chosen(active) \in active
      BY <1>1 DEF Chosen, Resolvable
    <3> QED
      BY <3>1, <3>2 DEF Delegated, Interrupt
  <2>3. mstatus.sie \in BOOLEAN
    BY DEF TypeOK, Status
  <2> QED
    BY <1>1, <2>1, <2>2, <2>3, TrapEffect
<1> QED
  BY <1>2, TypeCorrect, PTL DEF Spec, CriticalSection

-----------------------------------------------------------------------------
\* User code changes no control state and supervisor code none of machine
\* mode, short of trapping, whatever values it writes to any CSR.
THEOREM IsolationHolds == Spec => Isolation
<1> DEFINE Kept ==
       /\ (prv = User /\ prv' = User) => UNCHANGED <<mstatus, mepc, sepc, config>>
       /\ (prv = Supervisor /\ prv' # Machine) =>
             /\ UNCHANGED <<mepc, mtvec, mideleg, medeleg>>
             /\ mie' \ SieSupported = mie \ SieSupported
             /\ mstatus'.mie = mstatus.mie /\ mstatus'.mpie = mstatus.mpie
             /\ mstatus'.mpp = mstatus.mpp /\ mstatus'.tsr = mstatus.tsr
<1>1. ASSUME UNCHANGED <<mstatus, mepc, sepc, config>> PROVE Kept
  BY <1>1 DEF config
<1>2. ASSUME TypeOK, NEW trap, Trap(trap) PROVE Kept
  <2>1. HandleTrap(trap) /\ UNCHANGED config
    BY <1>2 DEF Trap
  <2>2. CASE Delegated(prv, trap, mideleg, medeleg)
    BY <1>2, <2>1, <2>2, TrapEffect, Ranks DEF config
  <2>3. CASE ~Delegated(prv, trap, mideleg, medeleg)
    BY <1>2, <2>1, <2>3, TrapEffect, Ranks DEF config
  <2> QED
    BY <2>2, <2>3
<1>3. ASSUME TypeOK, Sret \/ Mret PROVE Kept
  <2>1. UNCHANGED <<mepc, sepc, config>> /\ prv # User /\ mstatus \in Status
    BY <1>3, Ranks DEF Sret, Mret, TypeOK
  <2>2. CASE Sret
    BY <2>1, <2>2 DEF Sret, SretStatus, Status, config
  <2>3. CASE Mret
    BY <2>1, <2>3, Ranks DEF Mret
  <2> QED
    BY <1>3, <2>2, <2>3
<1>4. ASSUME NEW level \in {Supervisor, Machine}, CsrAccess(level)
      PROVE  /\ prv # User
             /\ level = Machine => prv # Supervisor
  BY <1>4, Ranks DEF CsrAccess
<1>5. ASSUME TypeOK, WriteStatus PROVE Kept
  <2>1. PICK st \in StatusWrites :
          \/ CsrAccess(Machine) /\ mstatus' = st
          \/ CsrAccess(Supervisor) /\ mstatus' = SstatusWritten(st)
    BY <1>5 DEF WriteStatus
  <2>2. UNCHANGED <<mepc, sepc, config>> /\ mstatus \in Status
    BY <1>5 DEF WriteStatus, TypeOK
  <2>3. CASE CsrAccess(Machine)
    BY <1>4, <2>3
  <2>4. CASE CsrAccess(Supervisor) /\ mstatus' = SstatusWritten(st)
    BY <1>4, <2>2, <2>4 DEF SstatusWritten, Status, config
  <2> QED
    BY <2>1, <2>3, <2>4
<1>6. ASSUME WriteIe PROVE Kept
  <2>1. UNCHANGED <<mideleg, medeleg, mtvec, mstatus, mepc>>
    BY <1>6 DEF WriteIe, Retire
  <2>2. \/ CsrAccess(Machine)
        \/ /\ CsrAccess(Supervisor)
           /\ \E bits : mie' = (mie \ SieSupported) \cup (bits \cap SieSupported)
    BY <1>6 DEF WriteIe
  <2> QED
    BY <1>4, <2>1, <2>2
<1>7. ASSUME WriteDeleg \/ WriteTvec \/ WriteEpc PROVE Kept
  <2>1. \/ CsrAccess(Machine)
        \/ CsrAccess(Supervisor) /\ UNCHANGED <<mstatus, mepc, mtvec, mideleg, medeleg, mie>>
    BY <1>7 DEF WriteDeleg, WriteTvec, WriteEpc, Retire, config
  <2> QED
    BY <1>4, <2>1
<1>8. TypeOK /\ [Next]_vars => [phase = "step" => Kept]_vars
  <2> SUFFICES ASSUME TypeOK, Next, phase = "step" PROVE Kept
    OBVIOUS
  <2>1. CASE FetchPanic \/ MretPanic \/ Compute \/ StoreDevice \/ Jump
             \/ WriteMip \/ WriteSip
    BY <1>1, <2>1 DEF FetchPanic, MretPanic, Stop, Compute, StoreDevice, Jump,
       WriteMip, WriteSip, Retire, trapState
  <2>2. CASE Ecall \/ Ebreak \/ Fault \/ JumpMisaligned \/ IllegalReturn
             \/ CsrDenied
    BY <1>2, <2>2 DEF Ecall, Ebreak, Fault, JumpMisaligned, IllegalReturn,
       CsrDenied
  <2>3. CASE BusTick \/ CheckInterrupt \/ CheckPanic \/ ProgressTime
    BY <2>3 DEF BusTick, CheckInterrupt, CheckPanic, ProgressTime, Enter, Stop
  <2> QED
    BY <1>3, <1>5, <1>6, <1>7, <2>1, <2>2, <2>3 DEF Next, Returns, CsrInstruction
<1> QED
  BY <1>8, TypeCorrect, PTL DEF Spec, Isolation

-----------------------------------------------------------------------------
\* Where HandleTrap sends the pc is one of the entries of the vector.
LEMMA TrapTargets ==
  ASSUME NEW tvec, NEW trap,
         ~trap.interrupt \/ trap \in {Interrupt(bit) : bit \in Resolvable},
         trap.interrupt \in BOOLEAN
  PROVE  TrapVector(tvec, trap) % XlenSize \in VectorTargets(tvec)
<1>1. CASE trap.interrupt
  BY <1>1 DEF VectorTargets
<1>2. CASE ~trap.interrupt
  <2>1. TrapVector(tvec, trap) = TrapVector(tvec, Exception(0))
    BY <1>2 DEF TrapVector, Exception
  <2> QED
    BY <2>1 DEF VectorTargets
<1> QED
  BY <1>1, <1>2

\* Privilege rises only through the trap vector of the mode entered.
THEOREM EntryIsGated == Spec => GatedEntry
<1> DEFINE Gated == prv' > prv =>
                      pc' \in VectorTargets(IF prv' = Machine THEN mtvec ELSE stvec)
<1>1. ASSUME TypeOK, NEW trap, HandleTrap(trap), trap.interrupt \in BOOLEAN,
             ~trap.interrupt \/ trap \in {Interrupt(bit) : bit \in Resolvable}
      PROVE  Gated
  <2>1. \/ prv' = Supervisor /\ pc' = TrapVector(stvec, trap) % XlenSize
        \/ prv' = Machine /\ pc' = TrapVector(mtvec, trap) % XlenSize
    BY <1>1, TrapEffect
  <2> QED
    BY <1>1, <2>1, TrapTargets, Ranks
<1>2. ASSUME TypeOK, prv' = prv PROVE Gated
  BY <1>2, Ranks DEF TypeOK
<1>3. ASSUME TypeOK, NEW trap, Trap(trap), trap.interrupt = FALSE
      PROVE  Gated
  BY <1>1, <1>3 DEF Trap
<1>4. TypeOK /\ [Next]_vars => [Gated]_vars
  <2> SUFFICES ASSUME TypeOK, Next PROVE Gated
    OBVIOUS
  <2>1. CASE CheckInterrupt
    <3>1. CASE Open(prv, mstatus, mideleg, mip \cap mie)
      <4>1. /\ mip \cap mie \cap Resolvable # {}
            /\ HandleTrap(Interrupt(Chosen(mip \cap mie)))
        BY <2>1, <3>1 DEF CheckInterrupt
      <4>2. Chosen(mip \cap mie) \in Resolvable
        BY DEF Chosen, Resolvable
      <4> QED
        BY <1>1, <4>1, <4>2 DEF Interrupt
    <3>2. CASE ~Open(prv, mstatus, mideleg, mip \cap mie)
      BY <1>2, <2>1, <3>2 DEF CheckInterrupt, trapState
    <3> QED
      BY <3>1, <3>2
  <2>2. CASE Ecall \/ Ebreak \/ Fault \/ JumpMisaligned \/ IllegalReturn
             \/ CsrDenied
    BY <1>3, <2>2 DEF Ecall, Ebreak, Fault, JumpMisaligned, IllegalReturn,
       CsrDenied, EnvCall, BreakPoint, MemoryFaults, IllegalInstruction,
       InstructionAddressMisaligned, Exception
  <2>3. CASE Sret
    <3>1. prv \in {Supervisor, Machine} /\ prv' \in {User, Supervisor}
      BY <2>3, Ranks DEF Sret, TypeOK, Status
    <3> QED
      BY <3>1, SMT DEF User, Supervisor, Machine
  <2>4. CASE Mret
    <3>1. prv = Machine /\ prv' \in {User, Supervisor, Machine}
      BY <2>4, Ranks DEF Mret
    <3> QED
      BY <3>1, SMT DEF User, Supervisor, Machine
  <2>5. CASE BusTick \/ CheckPanic \/ ProgressTime \/ FetchPanic \/ MretPanic
             \/ Compute \/ StoreDevice \/ Jump \/ WriteStatus \/ WriteMip
             \/ WriteSip \/ WriteIe \/ WriteDeleg \/ WriteTvec \/ WriteEpc
    BY <1>2, <2>5 DEF BusTick, CheckPanic, ProgressTime, FetchPanic, MretPanic,
       Stop, Compute, StoreDevice, Jump, WriteStatus, WriteMip, WriteSip,
       WriteIe, WriteDeleg, WriteTvec, WriteEpc, Retire, NextInstruction,
       trapState
  <2> QED
    BY <2>1, <2>2, <2>3, <2>4, <2>5 DEF Next, Returns, CsrInstruction
<1> QED
  BY <1>4, TypeCorrect, PTL DEF Spec, GatedEntry
=============================================================================
