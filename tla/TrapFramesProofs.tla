-------------------------- MODULE TrapFramesProofs --------------------------
(***************************************************************************)
(* The hart's trap CSRs implement TrapStack, for every configuration the   *)
(* software may choose, under the discipline of TrapFrames.                *)
(***************************************************************************)
EXTENDS TrapFrames, HartProofs

\* A disciplined step is a step of the hart.
LEMMA DisciplinedIsHart == [FNext]_fvars => [Next]_vars
<1>1. CASE UNCHANGED fvars
  BY <1>1 DEF fvars
<1>2. CASE FTrap
  <2>1. PICK trap \in MemoryFaults \cup {IllegalInstruction, BreakPoint,
                        EnvCall(prv), InstructionAddressMisaligned} :
          /\ trap = InstructionAddressMisaligned => \E a \in AddrWrites : a % 4 # 0
          /\ Trap(trap)
    BY <1>2 DEF FTrap
  <2>2. Fault \/ Ebreak \/ Ecall \/ JumpMisaligned
    BY <2>1 DEF Fault, Ebreak, Ecall, JumpMisaligned
  <2> QED
    BY <2>2 DEF Next
<1>3. CASE FCheck \/ FSret \/ FMret \/ FWriteStatus \/ FWriteEpc \/ FOther
  BY <1>3 DEF FCheck, FSret, FMret, FWriteStatus, FWriteEpc, FOther, Next,
              Returns, CsrInstruction
<1> QED
  BY <1>1, <1>2, <1>3 DEF FNext

Inv == TypeOK /\ PcAligned /\ FramesConsistent

\* The three privileges, told apart.
LEMMA Levels ==
  /\ Privs = {User, Supervisor, Machine}
  /\ User # Supervisor /\ User # Machine /\ Supervisor # Machine
  /\ User < Supervisor /\ Supervisor < Machine /\ User < Machine
  /\ Privs \subseteq Int
BY SMT DEF Privs, User, Supervisor, Machine

\* A saved pc is the pc.
LEMMA SavedPc ==
  ASSUME TypeOK, PcAligned
  PROVE  Align(pc) = pc
<1>1. pc \in Nat
  BY XlenAssumption, SMT DEF TypeOK, Addresses
<1> QED
  BY <1>1, SMT DEF PcAligned, Align

-----------------------------------------------------------------------------
\* The gate of resolve_pending: an interrupt that is taken is never one the
\* running handler would have to handle itself.
LEMMA GateProtectsFrames ==
  ASSUME Inv, mip \cap mie \cap Resolvable # {},
         Open(prv, mstatus, mideleg, mip \cap mie)
  PROVE  Handled(Interrupt(Chosen(mip \cap mie)))
<1> DEFINE active == mip \cap mie
           bit == Chosen(active)
<1>1. bit \in active
  BY DEF Chosen, Resolvable
<1>2. Delegated(prv, Interrupt(bit), mideleg, medeleg)
        <=> prv # Machine /\ bit \in mideleg
  BY DEF Delegated, Interrupt
<1>3. CASE prv = Machine
  BY <1>2, <1>3 DEF Handled, Open, Inv, FramesConsistent
<1>4. CASE prv = User
  BY <1>4, Levels DEF Handled, Inv, FramesConsistent
<1>5. CASE prv = Supervisor
  BY <1>1, <1>2, <1>5, Levels DEF Handled, Open, Inv, FramesConsistent
<1> QED
  BY <1>3, <1>4, <1>5, Levels DEF Inv, TypeOK

\* A trap that is handled at a level without a live frame keeps the frames
\* consistent, and pushes exactly the context it interrupts.
LEMMA TrapPushes ==
  ASSUME Inv, NEW trap, trap.cause \in Nat, Handled(trap), HandleTrap(trap),
         Entered
  PROVE  FramesConsistent' /\ TS!Enter
<1>1. /\ mstatus \in Status /\ prv \in Privs /\ prv' \in Privs
      /\ mstatus' \in Status /\ pc' \in Addresses
  BY TrapTypes DEF Inv, TypeOK
<1>2. Align(pc) = pc
  BY SavedPc DEF Inv
<1>3. Running' \in TS!Contexts
  BY <1>1 DEF Running, TS!Contexts, Status
<1>4. CASE Delegated(prv, trap, mideleg, medeleg)
  <2>1. prv \in {User, Supervisor} /\ ~sLive /\ ~mLive
    BY <1>1, <1>4, Levels DEF Delegated, Handled, Inv, FramesConsistent
  <2>2. /\ prv' = Supervisor /\ sepc' = pc /\ sLive' = TRUE /\ mLive' = FALSE
        /\ mstatus'.sie = FALSE /\ mstatus'.spie = mstatus.sie
        /\ mstatus'.spp = prv /\ mstatus'.mie = mstatus.mie
    BY <1>1, <1>2, <1>4, <2>1, Levels
       DEF HandleTrap, Entered, SupervisorEntry, Status, Inv,
       FramesConsistent
  <2>3. FramesConsistent'
    BY <2>2, Levels DEF FramesConsistent, Inv
  <2>4. Frames = <<>> /\ Frames' = <<Running>>
    BY <2>1, <2>2 DEF Frames, SFrame, Running
  <2>5. /\ Running'.prv = Supervisor /\ Running.prv = prv
        /\ Running'.sie = FALSE /\ Running'.mie = Running.mie
    BY <2>2 DEF Running
  <2>6. Running'.prv >= Running.prv
    BY <2>1, <2>5, SMT DEF User, Supervisor
  <2>7. Running'.prv # Machine
    BY <2>5, Levels
  <2>8. Frames' = Append(Frames, Running)
    BY <2>4
  <2>9. Running.mie \in BOOLEAN /\ Running.sie \in BOOLEAN
    BY <1>1 DEF Running, Status
  <2>10. TS!Enter
    <3>1. Running'.sie = (Running.sie /\ Running'.prv = Machine)
      BY <2>5, <2>7, <2>9
    <3>2. Running'.mie = (Running.mie /\ Running'.prv # Machine)
      BY <2>5, <2>7, <2>9
    <3> QED
      BY <1>3, <2>4, <2>5, <2>6, <2>8, <3>1, <3>2 DEF TS!Enter, TS!Running
  <2> QED
    BY <2>3, <2>10
<1>5. CASE ~Delegated(prv, trap, mideleg, medeleg)
  <2>1. ~mLive
    BY <1>5 DEF Handled
  <2>2. /\ prv' = Machine /\ mepc' = pc /\ sepc' = sepc
        /\ mLive' = TRUE /\ sLive' = sLive
        /\ mstatus'.mie = FALSE /\ mstatus'.mpie = mstatus.mie
        /\ mstatus'.mpp = prv /\ mstatus'.sie = mstatus.sie
        /\ mstatus'.spie = mstatus.spie /\ mstatus'.spp = mstatus.spp
    BY <1>1, <1>2, <1>5, Levels DEF HandleTrap, Entered, MachineEntry, Status,
       Inv, FramesConsistent
  <2>3. sLive => prv = Supervisor
    BY <1>1, <2>1, Levels DEF Inv, FramesConsistent
  <2>4. FramesConsistent'
    BY <1>1, <2>2, <2>3, Levels DEF FramesConsistent, Inv
  <2>5. /\ Running'.prv = Machine /\ Running.prv = prv
        /\ Running'.sie = Running.sie /\ Running'.mie = FALSE
    BY <2>2 DEF Running
  <2>6. SFrame' = SFrame /\ MFrame' = Running
    BY <2>1, <2>2 DEF SFrame, MFrame, Running
  <2>7. Frames' = Append(Frames, Running)
    <3>1. CASE sLive
      <4>1. Frames = <<SFrame>> /\ Frames' = <<SFrame, Running>>
        BY <2>1, <2>2, <2>6, <3>1 DEF Frames
      <4> QED
        BY <4>1
    <3>2. CASE ~sLive
      <4>1. Frames = <<>> /\ Frames' = <<Running>>
        BY <2>1, <2>2, <2>6, <3>2 DEF Frames
      <4> QED
        BY <4>1
    <3> QED
      BY <3>1, <3>2
  <2>8. Running'.prv >= Running.prv /\ (sLive => Running'.prv > Running.prv)
    BY <1>1, <2>3, <2>5, SMT DEF Privs, User, Supervisor, Machine
  <2>9. Frames # <<>> => sLive
    BY <2>1 DEF Frames
  <2>10. Running.mie \in BOOLEAN /\ Running.sie \in BOOLEAN
    BY <1>1 DEF Running, Status
  <2>11. TS!Enter
    BY <1>3, <2>5, <2>7, <2>8, <2>9, <2>10 DEF TS!Enter, TS!Running
  <2> QED
    BY <2>4, <2>11
<1> QED
  BY <1>4, <1>5

-----------------------------------------------------------------------------
\* One disciplined step: the frames stay consistent and the stack moves as
\* TrapStack says, or not at all.
Simulated == FramesConsistent' /\ [TS!Next]_(TS!vars)

\* Steps that move neither privilege, status nor the frames' pcs are Run.
LEMMA PlainStep ==
  ASSUME Inv, Control, UNCHANGED <<prv, mstatus, mepc, sepc, live>>
  PROVE  Simulated
<1>1. FramesConsistent'
  BY DEF Inv, FramesConsistent, live
<1>2. Frames' = Frames
  BY DEF Frames, SFrame, MFrame, live
<1>3. Running' \in TS!Contexts
  BY DEF Control, Running, TS!Contexts, Status
<1>4. /\ Running'.prv = Running.prv /\ Running'.sie = Running.sie
      /\ Running'.mie = Running.mie
  BY DEF Running
<1> QED
  BY <1>1, <1>2, <1>3, <1>4 DEF Simulated, TS!Run, TS!Running, TS!Next

LEMMA CheckStep ==
  ASSUME Inv, FCheck, Control
  PROVE  Simulated
<1>1. CASE Open(prv, mstatus, mideleg, mip \cap mie)
  <2>1. /\ mip \cap mie \cap Resolvable # {}
        /\ HandleTrap(Interrupt(Chosen(mip \cap mie)))
        /\ Entered
    BY <1>1 DEF FCheck, CheckInterrupt
  <2>2. Handled(Interrupt(Chosen(mip \cap mie)))
    BY <1>1, <2>1, GateProtectsFrames
  <2> QED
    BY <2>1, <2>2, TrapPushes, Causes DEF Simulated, TS!Next
<1>2. CASE ~Open(prv, mstatus, mideleg, mip \cap mie)
  BY <1>2, PlainStep DEF FCheck, CheckInterrupt, trapState
<1> QED
  BY <1>1, <1>2

LEMMA TrapStep ==
  ASSUME Inv, FTrap
  PROVE  Simulated
<1>1. PICK trap \in MemoryFaults \cup {IllegalInstruction, BreakPoint,
                      EnvCall(prv), InstructionAddressMisaligned} :
        Handled(trap) /\ Trap(trap)
  BY DEF FTrap
<1>2. HandleTrap(trap) /\ Entered
  BY <1>1 DEF Trap, FTrap
<1>3. trap.cause \in Nat
  BY <1>1, Causes DEF Inv, TypeOK
<1> QED
  BY <1>1, <1>2, <1>3, TrapPushes DEF Simulated, TS!Next

\* sret from a handler pops; from a thread it starts a context below.
LEMMA SretStep ==
  ASSUME Inv, FSret, Control
  PROVE  Simulated
<1>1. /\ prv' = mstatus.spp /\ pc' = sepc /\ mepc' = mepc /\ sepc' = sepc
      /\ mstatus'.sie = mstatus.spie /\ mstatus'.mie = mstatus.mie
      /\ sLive' = FALSE /\ mLive' = mLive
      /\ mstatus.spp \in {User, Supervisor} /\ ~mLive
  BY Levels DEF FSret, Sret, SretStatus, Inv, TypeOK, Status, FramesConsistent
<1>2. FramesConsistent'
  BY <1>1, Levels DEF FramesConsistent, Inv
<1>3. Frames' = <<>>
  BY <1>1 DEF Frames, Inv, FramesConsistent
<1>4. CASE sLive
  <2>1. Frames = <<SFrame>> /\ Running' = SFrame
    BY <1>1, <1>4 DEF Frames, SFrame, Running
  <2>2. /\ Frames # <<>> /\ Running' = Frames[Len(Frames)]
        /\ Frames' = SubSeq(Frames, 1, Len(Frames) - 1)
    BY <1>3, <2>1
  <2> QED
    BY <1>2, <2>2 DEF Simulated, TS!Next, TS!Leave
<1>5. CASE ~sLive
  <2>1. Frames = <<>>
    BY <1>1, <1>5 DEF Frames
  <2>2. Running' \in TS!Contexts
    BY DEF Control, Running, TS!Contexts, Status
  <2>3. prv \in {Supervisor, Machine} /\ prv' \in {User, Supervisor}
    BY <1>1, Levels DEF FSret, Sret, Inv, TypeOK
  <2>4. Running'.prv <= Running.prv
    <3>1. Running'.prv = prv' /\ Running.prv = prv
      BY DEF Running
    <3> QED
      BY <2>3, <3>1, SMT DEF User, Supervisor, Machine
  <2> QED
    BY <1>2, <1>3, <2>1, <2>2, <2>4 DEF Simulated, TS!Next, TS!Launch, TS!Running
<1> QED
  BY <1>4, <1>5

\* mret pops the machine frame, with a supervisor frame below it or not.
LEMMA MretStep ==
  ASSUME Inv, FMret, Control
  PROVE  Simulated
<1>1. /\ prv = Machine /\ prv' = mstatus.mpp /\ pc' = mepc
      /\ mepc' = mepc /\ sepc' = sepc
      /\ mstatus'.sie = mstatus.sie /\ mstatus'.mie = mstatus.mpie
      /\ mstatus'.spp = mstatus.spp /\ mstatus'.spie = mstatus.spie
      /\ sLive' = sLive /\ mLive' = FALSE /\ mstatus.mpp \in Privs
  BY DEF FMret, Mret, MretStatus, Inv, TypeOK, Status
<1>2. FramesConsistent'
  BY <1>1, Levels DEF FramesConsistent, Inv
<1>3. Running' = MFrame
  BY <1>1 DEF Running, MFrame
<1>4. CASE mLive
  <2>1. CASE sLive
    <3>1. SFrame' = SFrame
      BY <1>1, <1>4 DEF SFrame
    <3>2. Frames = <<SFrame, MFrame>> /\ Frames' = <<SFrame>>
      BY <1>1, <1>4, <2>1, <3>1 DEF Frames
    <3>3. /\ Frames # <<>> /\ Running' = Frames[Len(Frames)]
          /\ Frames' = SubSeq(Frames, 1, Len(Frames) - 1)
      BY <1>3, <3>2
    <3> QED
      BY <1>2, <3>3 DEF Simulated, TS!Next, TS!Leave
  <2>2. CASE ~sLive
    <3>1. Frames = <<MFrame>> /\ Frames' = <<>>
      BY <1>1, <1>4, <2>2 DEF Frames
    <3>2. /\ Frames # <<>> /\ Running' = Frames[Len(Frames)]
          /\ Frames' = SubSeq(Frames, 1, Len(Frames) - 1)
      BY <1>3, <3>1
    <3> QED
      BY <1>2, <3>2 DEF Simulated, TS!Next, TS!Leave
  <2> QED
    BY <2>1, <2>2
<1>5. CASE ~mLive
  <2>1. Frames = <<>> /\ Frames' = <<>>
    BY <1>1, <1>5 DEF Frames, Inv, FramesConsistent
  <2>2. Running' \in TS!Contexts
    BY DEF Control, Running, TS!Contexts, Status
  <2>3. Running'.prv <= Running.prv
    <3>1. Running'.prv = mstatus.mpp /\ Running.prv = Machine
      BY <1>1 DEF Running
    <3> QED
      BY <1>1, <3>1, SMT DEF Privs, User, Supervisor, Machine
  <2> QED
    BY <1>2, <2>1, <2>2, <2>3 DEF Simulated, TS!Next, TS!Launch, TS!Running
<1> QED
  BY <1>4, <1>5

\* A thread rewrites status or an exception pc: no frame is live to suffer.
LEMMA ThreadStep ==
  ASSUME Inv, Control, InThread, prv' = prv, UNCHANGED live
  PROVE  Simulated
<1>1. FramesConsistent'
  BY DEF FramesConsistent, Inv, live, InThread
<1>2. Frames = <<>> /\ Frames' = <<>>
  BY DEF Frames, InThread, live
<1>3. Running' \in TS!Contexts /\ Running'.prv = Running.prv
  BY DEF Control, Running, TS!Contexts, Status
<1> QED
  BY <1>1, <1>2, <1>3 DEF Simulated, TS!Next, TS!Run, TS!Running

\* A handler redirects the context it will return to: the top of the stack.
LEMMA EpcStep ==
  ASSUME Inv, FWriteEpc, Control
  PROVE  Simulated
<1>1. /\ prv' = prv /\ mstatus' = mstatus /\ UNCHANGED live
      /\ pc' \in Addresses /\ mepc' \in Addresses /\ sepc' \in Addresses
  BY DEF FWriteEpc, WriteEpc, NextInstruction, Control
<1>2. CASE InThread
  BY <1>1, <1>2, ThreadStep
<1>3. CASE ~InThread
  <2>1. FramesConsistent'
    BY <1>1 DEF FramesConsistent, Inv, live
  <2>2. Running' = [Running EXCEPT !.pc = pc']
    BY <1>1 DEF Running
  <2>3. CASE mLive
    <3>1. SFrame' = SFrame /\ MFrame' = [MFrame EXCEPT !.pc = mepc']
      BY <1>1, <1>3, <2>3 DEF FWriteEpc, SFrame, MFrame, live
    <3>2. CASE sLive
      <4>1. Frames = <<SFrame, MFrame>> /\ Frames' = <<SFrame, MFrame'>>
        BY <1>1, <2>3, <3>1, <3>2 DEF Frames, live
      <4>2. Frames # <<>> /\ Frames' = [Frames EXCEPT ![Len(Frames)].pc = mepc']
        BY <3>1, <4>1
      <4> QED
        BY <1>1, <2>1, <2>2, <4>2 DEF Simulated, TS!Next, TS!Adjust
    <3>3. CASE ~sLive
      <4>1. Frames = <<MFrame>> /\ Frames' = <<MFrame'>>
        BY <1>1, <2>3, <3>3 DEF Frames, live
      <4>2. Frames # <<>> /\ Frames' = [Frames EXCEPT ![Len(Frames)].pc = mepc']
        BY <3>1, <4>1
      <4> QED
        BY <1>1, <2>1, <2>2, <4>2 DEF Simulated, TS!Next, TS!Adjust
    <3> QED
      BY <3>2, <3>3
  <2>4. CASE ~mLive
    <3>1. SFrame' = [SFrame EXCEPT !.pc = sepc']
      BY <1>1, <2>4 DEF SFrame, live
    <3>2. Frames = <<SFrame>> /\ Frames' = <<SFrame'>>
      BY <1>1, <1>3, <2>4 DEF Frames, InThread, live
    <3>3. Frames # <<>> /\ Frames' = [Frames EXCEPT ![Len(Frames)].pc = sepc']
      BY <3>1, <3>2
    <3> QED
      BY <1>1, <2>1, <2>2, <3>3 DEF Simulated, TS!Next, TS!Adjust
  <2> QED
    BY <2>3, <2>4
<1> QED
  BY <1>2, <1>3

\* Every disciplined step is simulated.
LEMMA StepSimulated ==
  ASSUME Inv, [FNext]_fvars
  PROVE  Simulated
<1>1. CASE UNCHANGED fvars
  <2>1. FramesConsistent'
    BY <1>1 DEF fvars, vars, trapState, live, FramesConsistent, Inv
  <2>2. UNCHANGED <<Running, Frames>>
    BY <1>1 DEF fvars, vars, trapState, live, Running, Frames, SFrame, MFrame
  <2> QED
    BY <2>1, <2>2 DEF Simulated, TS!vars
<1>2. CASE FNext
  <2>1. UNCHANGED vars \/ Next
    BY <1>2, DisciplinedIsHart
  <2>2. Control
    <3>1. CASE UNCHANGED vars
      BY <3>1 DEF vars, trapState, Control, Inv, TypeOK, PcAligned
    <3>2. CASE Next
      BY <3>2, StepControl DEF Inv
    <3> QED
      BY <2>1, <3>1, <3>2
  <2>3. CASE FCheck
    BY <2>2, <2>3, CheckStep
  <2>4. CASE FTrap
    BY <2>4, TrapStep
  <2>5. CASE FSret
    BY <2>2, <2>5, SretStep
  <2>6. CASE FMret
    BY <2>2, <2>6, MretStep
  <2>7. CASE FWriteStatus
    BY <2>2, <2>7, ThreadStep DEF FWriteStatus, WriteStatus, NextInstruction
  <2>8. CASE FWriteEpc
    BY <2>2, <2>8, EpcStep
  <2>9. CASE FOther
    <3>1. CASE UNCHANGED <<prv, mstatus, mepc, sepc>>
      BY <2>2, <2>9, <3>1, PlainStep DEF FOther
    <3>2. UNCHANGED <<prv, mstatus, mepc, sepc>>
      BY <2>9 DEF FOther, BusTick, ProgressTime, Compute, StoreDevice, Jump,
         WriteMip, WriteSip, WriteIe, WriteDeleg, WriteTvec, Retire, trapState
    <3> QED
      BY <3>1, <3>2
  <2> QED
    BY <1>2, <2>3, <2>4, <2>5, <2>6, <2>7, <2>8, <2>9 DEF FNext
<1> QED
  BY <1>1, <1>2

\* Nothing is live when the simulator starts.
LEMMA InitSimulated ==
  ASSUME FInit, TypeOK
  PROVE  FramesConsistent /\ TS!Init
<1>1. FramesConsistent
  BY Levels DEF FInit, Init, FramesConsistent
<1>2. Frames = <<>>
  BY DEF FInit, Frames
<1>3. Running \in TS!Contexts
  BY DEF TypeOK, Running, TS!Contexts, Status
<1> QED
  BY <1>1, <1>2, <1>3 DEF TS!Init

\* Disciplined software is software: it starts and steps like the hart.
LEMMA DisciplinedSpec == FSpec => Spec
<1>1. FInit => Init
  BY DEF FInit
<1> QED
  BY <1>1, DisciplinedIsHart, PTL DEF FSpec, Spec

\* Through any nesting of traps, the running privilege tells which frames are
\* live, and the interrupt enable of a level with a live frame stays off: the
\* gate of resolve_pending never lets a trap overwrite a live frame.
THEOREM FramesStayConsistent ==
  ASSUME \A e \in EntryPoints : e % 4 = 0
  PROVE  FSpec => []FramesConsistent
<1>1. Init => TypeOK /\ PcAligned
  <2>1. Init => TypeOK
    BY EntryAssumption, XlenAssumption, SMT
       DEF Init, TypeOK, Addresses, Privs, Machine, StatusInit, Status, User,
           Supervisor
  <2>2. Init => PcAligned
    BY SMT DEF Init, PcAligned
  <2> QED
    BY <2>1, <2>2
<1>2. FInit => FramesConsistent
  BY <1>1, InitSimulated DEF FInit
<1>3. TypeOK /\ PcAligned /\ FramesConsistent /\ [FNext]_fvars
        => FramesConsistent'
  BY StepSimulated DEF Inv, Simulated
<1> QED
  BY <1>2, <1>3, DisciplinedSpec, TypeCorrect, FetchStaysAligned, PTL DEF FSpec

\* One CSR frame per level implements the stack of TrapStack: whatever is
\* interrupted is saved whole and resumed whole, for every program that keeps
\* the discipline, every delegation, and interrupts at any instant.
THEOREM HartImplementsTrapStack ==
  ASSUME \A e \in EntryPoints : e % 4 = 0
  PROVE  FSpec => ImplementsTrapStack
<1>1. FInit => Init
  BY DEF FInit
<1>2. Init => TypeOK
  BY EntryAssumption, XlenAssumption, SMT
     DEF Init, TypeOK, Addresses, Privs, Machine, StatusInit, Status, User,
         Supervisor
<1>3. FInit => TS!Init
  BY <1>1, <1>2, InitSimulated
<1>4. TypeOK /\ PcAligned /\ FramesConsistent /\ [FNext]_fvars
        => [TS!Next]_(TS!vars)
  BY StepSimulated DEF Inv, Simulated
<1> QED
  BY <1>3, <1>4, DisciplinedSpec, TypeCorrect, FetchStaysAligned,
     FramesStayConsistent, PTL DEF FSpec, ImplementsTrapStack, TS!Spec
=============================================================================
