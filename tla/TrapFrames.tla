----------------------------- MODULE TrapFrames -----------------------------
(***************************************************************************)
(* The hart under software that treats its trap frames as the operating    *)
(* system and the firmware do: a handler leaves its own frame (xstatus) in *)
(* place, does not enable the interrupts of its own level again, does not  *)
(* itself fault to its own level, and a machine-mode handler leaves the    *)
(* supervisor's frame alone.  Ghosts record which frames are live.  Under  *)
(* that discipline the handful of CSRs that handle_trap, handle_mret and   *)
(* handle_sret move implement TrapStack.                                   *)
(***************************************************************************)
EXTENDS Hart, Sequences

VARIABLES
  sLive,  \* ghost: a trap to S mode has not returned yet
  mLive   \* ghost: a trap to M mode has not returned yet

live  == <<sLive, mLive>>
fvars == <<vars, live>>

FInit == Init /\ sLive = FALSE /\ mLive = FALSE

\* The frame a trap fills: after HandleTrap, the mode it entered says which.
Entered ==
  /\ sLive' = (sLive \/ prv' = Supervisor)
  /\ mLive' = (mLive \/ prv' = Machine)

\* The run loop.
FCheck ==
  /\ CheckInterrupt
  /\ IF Open(prv, mstatus, mideleg, mip \cap mie) THEN Entered ELSE UNCHANGED live

\* An exception: not one that would be handled by the handler it happens in.
Handled(trap) ==
  IF Delegated(prv, trap, mideleg, medeleg) THEN ~sLive ELSE ~mLive

FTrap ==
  /\ \E trap \in MemoryFaults \cup {IllegalInstruction, BreakPoint, EnvCall(prv),
                                    InstructionAddressMisaligned} :
       /\ trap = InstructionAddressMisaligned => \E a \in AddrWrites : a % 4 # 0
       /\ Handled(trap)
       /\ Trap(trap)
  /\ Entered

FSret ==
  /\ Sret
  /\ prv = Machine => ~mLive
  /\ sLive' = FALSE
  /\ UNCHANGED mLive

FMret ==
  /\ Mret
  /\ mLive' = FALSE
  /\ UNCHANGED sLive

\* Writes of status and exception pcs: a thread's are free; a handler moves
\* the pc of its own frame at most.
InThread == ~sLive /\ ~mLive

FWriteStatus == WriteStatus /\ InThread /\ mstatus'.mpp \in Privs /\ UNCHANGED live
FWriteEpc ==
  /\ WriteEpc
  /\ \/ InThread
     \/ IF mLive THEN sepc' = sepc ELSE mepc' = mepc
  /\ UNCHANGED live

FOther ==
  /\ \/ BusTick \/ ProgressTime \/ Compute \/ StoreDevice \/ Jump
     \/ WriteMip \/ WriteSip \/ WriteIe \/ WriteDeleg \/ WriteTvec
  /\ UNCHANGED live

FNext == FCheck \/ FTrap \/ FSret \/ FMret \/ FWriteStatus \/ FWriteEpc \/ FOther

FSpec == FInit /\ [][FNext]_fvars

-----------------------------------------------------------------------------
\* Who runs, and which frames are live, fit together: this is what makes one
\* set of CSRs per level enough.
FramesConsistent ==
  /\ sLive \in BOOLEAN /\ mLive \in BOOLEAN
  /\ prv # Machine => ~mLive
  /\ prv = User => ~sLive
  /\ (prv = Machine /\ ~mLive) => ~sLive
  /\ mLive => ~mstatus.mie
  /\ sLive => ~mstatus.sie
  /\ (sLive /\ mLive) => mstatus.mpp = Supervisor
  /\ mLive => mstatus.mpp \in Privs

\* The stack of TrapStack, read off the CSRs.
Running == [prv |-> prv, pc |-> pc, sie |-> mstatus.sie, mie |-> mstatus.mie]
SFrame == [prv |-> mstatus.spp, pc |-> sepc, sie |-> mstatus.spie,
           mie |-> IF mLive THEN mstatus.mpie ELSE mstatus.mie]
MFrame == [prv |-> mstatus.mpp, pc |-> mepc, sie |-> mstatus.sie,
           mie |-> mstatus.mpie]
Frames == IF sLive THEN IF mLive THEN <<SFrame, MFrame>> ELSE <<SFrame>>
                   ELSE IF mLive THEN <<MFrame>> ELSE <<>>

TS == INSTANCE TrapStack
        WITH Levels <- Privs, Handlers <- {Supervisor, Machine}, Top <- Machine,
             Pcs <- Addresses, ctx <- Running, stack <- Frames

\* The hart implements the stack: every trap saves, and every return
\* restores, the whole context, through any nesting the gates allow.
ImplementsTrapStack == TS!Spec
=============================================================================
