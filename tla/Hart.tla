-------------------------------- MODULE Hart --------------------------------
(***************************************************************************)
(* The hart's control state through the run loop (simulator.rs 178-199):   *)
(* pc, privilege, the status and trap CSRs, interrupts and traps.  An      *)
(* iteration is "tick" (Bus::tick may move the external lines), "check"    *)
(* (check_local_intrrupt_active, handle_trap), "step" (one instruction,    *)
(* and handle_trap if it fails) and "timer" (progress_time recomputes the  *)
(* timer bits).  Registers and memory are data; what an instruction does   *)
(* here is one of the actions of Step.  The devices, the comparators and   *)
(* the page walk have modules of their own and are inputs in this one.     *)
(*                                                                         *)
(* The software is anything: every CSR may be written at any privilege,    *)
(* with the values of the constants.                                       *)
(***************************************************************************)
EXTENDS CsrOps

CONSTANTS
  XlenSize,      \* 2^32: addresses are 0 .. XlenSize - 1
  EntryPoints,   \* the argument of set_entry_point
  StatusWrites,  \* values written to mstatus (and sstatus), as records
  IeWrites,      \* values written to mie and sie
  IpWrites,      \* values written to mip and sip
  DelegWrites,   \* values written to mideleg
  EdelegWrites,  \* values written to medeleg
  AddrWrites,    \* values written to mtvec, stvec, mepc, sepc; jump targets
  DeviceBits     \* the bits of mip the devices and comparators drive

ASSUME XlenAssumption  == XlenSize \in Nat \ {0} /\ XlenSize % 4 = 0
ASSUME EntryAssumption == EntryPoints \subseteq 0..(XlenSize - 1)
ASSUME StatusAssumption == StatusWrites \subseteq Status
ASSUME WritesAssumption ==
  /\ IeWrites \subseteq SUBSET InterruptBits
  /\ IpWrites \subseteq SUBSET InterruptBits
  /\ DelegWrites \subseteq SUBSET InterruptBits
  /\ EdelegWrites \subseteq SUBSET (0..15)
  /\ AddrWrites \subseteq 0..(XlenSize - 1)
  /\ DeviceBits \subseteq InterruptBits

VARIABLES
  pc, prv, mstatus, mip, mie, mideleg, medeleg, mtvec, stvec, mepc, sepc,
  phase,
  panic   \* why the simulator stopped, "none" while it runs

config == <<mie, mideleg, medeleg, mtvec, stvec>>
trapState == <<pc, prv, mstatus, mepc, sepc>>
vars == <<trapState, config, mip, phase, panic>>

\* Trap causes the actions below need by name.
InstructionAddressMisaligned == Exception(0)
IllegalInstruction           == Exception(2)
BreakPoint                   == Exception(3)
\* Trap::EnvCallFrom*, and the faults of loads, stores and fetches.
EnvCall(from) == Exception(8 + from)
MemoryFaults  == {Exception(c) : c \in {5, 6, 7, 12, 13, 15}}

\* Cpu::default, Csr::default and set_entry_point.
Init ==
  /\ pc \in EntryPoints /\ prv = Machine
  /\ mstatus = StatusInit
  /\ mip = {} /\ mie = {} /\ mideleg = {} /\ medeleg = {}
  /\ mtvec = 0 /\ stvec = 0 /\ mepc = 0 /\ sepc = 0
  /\ phase = "tick" /\ panic = "none"

Enter(from, to) == phase = from /\ panic = "none" /\ phase' = to
Stop(from, why) ==
  /\ phase = from /\ panic = "none" /\ panic' = why
  /\ UNCHANGED <<trapState, config, mip, phase>>

-----------------------------------------------------------------------------
\* Cpu::handle_trap and Csr::handle_trap.
HandleTrap(trap) ==
  IF Delegated(prv, trap, mideleg, medeleg)
  THEN /\ mstatus' = SupervisorEntry(mstatus, prv)
       /\ sepc' = Align(pc)
       /\ pc' = TrapVector(stvec, trap) % XlenSize
       /\ prv' = Supervisor
       /\ UNCHANGED mepc
  ELSE /\ mstatus' = MachineEntry(mstatus, prv)
       /\ mepc' = Align(pc)
       /\ pc' = TrapVector(mtvec, trap) % XlenSize
       /\ prv' = Machine
       /\ UNCHANGED sepc

\* Bus::tick: with the gate open a line goes up, or SEIP is dropped.
BusTick ==
  /\ Enter("tick", "check")
  /\ \/ UNCHANGED mip
     \/ /\ CanExternalInterrupt(prv, mstatus, mideleg)
        /\ \/ \E line \in {SEIP, MEIP} \cap DeviceBits : mip' = mip \cup {line}
           \/ mip' = mip \ {SEIP}
  /\ UNCHANGED <<trapState, config, panic>>

\* resolve_pending and handle_trap.
CheckInterrupt ==
  LET active == mip \cap mie IN
  /\ Enter("check", "step")
  /\ IF Open(prv, mstatus, mideleg, active)
       THEN /\ active \cap Resolvable # {}
            /\ HandleTrap(Interrupt(Chosen(active)))
       ELSE UNCHANGED trapState
  /\ UNCHANGED <<config, mip, panic>>

CheckPanic ==
  LET active == mip \cap mie IN
  /\ Open(prv, mstatus, mideleg, active)
  /\ active \cap Resolvable = {}
  /\ Stop("check", "csr: unknown or invalid interrupt")

\* progress_time: the comparators recompute MTIP and STIP.
ProgressTime ==
  /\ Enter("timer", "tick")
  /\ \E due \in SUBSET ({MTIP, STIP} \cap DeviceBits) :
       mip' = (mip \ {MTIP, STIP}) \cup due
  /\ UNCHANGED <<trapState, config, panic>>

-----------------------------------------------------------------------------
(* One instruction.  Cpu::fetch comes first: a misaligned pc yields a trap *)
(* for which no fault address was recorded, and handle_trap unwraps one.   *)

Step == Enter("step", "timer") /\ pc % 4 = 0
FetchPanic == pc % 4 # 0 /\ Stop("step", "cpu: no fault address")

\* Mutant: pc + 4 in more bits than the pc has.
NextPcWide == pc + 4
NextPc == (pc + 4) % XlenSize
Retire == pc' = NextPc /\ UNCHANGED <<prv, mstatus, mepc, sepc>>

\* The instruction fails.
Trap(trap) ==
  /\ Step
  /\ HandleTrap(trap)
  /\ UNCHANGED <<config, mip, panic>>

Ecall  == Trap(EnvCall(prv))
Ebreak == Trap(BreakPoint)
Fault  == \E trap \in MemoryFaults \cup {IllegalInstruction} : Trap(trap)

\* Loads, stores, arithmetic, WFI (which does not wait), SFENCE.VMA.
Compute ==
  /\ Step
  /\ Retire
  /\ UNCHANGED <<config, mip, panic>>

\* A store that completes an interrupt at the PLIC, one to CLINT.msip, or one
\* to CLINT.mtimecmph of a time that is past, which masks mip with MTIP.
StoreDevice ==
  /\ Step
  /\ Retire
  /\ \/ mip' = mip \ {SEIP}
     \/ mip' = mip \ {MEIP}
     \/ mip' = mip \ {MSIP}
     \/ MSIP \in DeviceBits /\ mip' = mip \cup {MSIP}
     \/ mip' = mip \cap {MTIP}
  /\ UNCHANGED <<config, panic>>

\* Branches, JAL and JALR; the target is checked before pc changes.
Jump ==
  /\ Step
  /\ pc' \in AddrWrites /\ pc' % 4 = 0
  /\ UNCHANGED <<prv, mstatus, mepc, sepc, config, mip, panic>>

JumpMisaligned ==
  /\ \E target \in AddrWrites : target % 4 # 0
  /\ Trap(InstructionAddressMisaligned)

Sret ==
  /\ prv # User /\ ~mstatus.tsr
  /\ Step
  /\ mstatus' = SretStatus(mstatus)
  /\ prv' = mstatus.spp
  /\ pc' = sepc
  /\ UNCHANGED <<mepc, sepc, config, mip, panic>>

\* Mutant: mret forgets to check the privilege.
MretUnchecked ==
  /\ mstatus.mpp \in Privs
  /\ Step
  /\ mstatus' = MretStatus(mstatus)
  /\ prv' = mstatus.mpp
  /\ pc' = mepc
  /\ UNCHANGED <<mepc, sepc, config, mip, panic>>

Mret ==
  /\ prv = Machine /\ mstatus.mpp \in Privs
  /\ Step
  /\ mstatus' = MretStatus(mstatus)
  /\ prv' = mstatus.mpp
  /\ pc' = mepc
  /\ UNCHANGED <<mepc, sepc, config, mip, panic>>

\* Priv::from(2).
MretPanic ==
  /\ prv = Machine /\ mstatus.mpp \notin Privs
  /\ pc % 4 = 0
  /\ Stop("step", "lib: no such privilege")

\* SRET and MRET without the right to.
IllegalReturn ==
  /\ prv # Machine \/ mstatus.tsr
  /\ Trap(IllegalInstruction)

-----------------------------------------------------------------------------
(* CSR instructions: Csr::write behind check_csr_access.                   *)

CsrAccess(level) == prv >= level /\ Step
CsrDenied == prv # Machine /\ Trap(IllegalInstruction)

NextInstruction == pc' = NextPc /\ UNCHANGED prv

\* Mutant: a write to sstatus is not masked.
SstatusUnmasked(st) == st

\* mstatus takes every supported field, mpp = 2 included; sstatus the S part.
SstatusWritten(st) ==
  [mstatus EXCEPT !.sie = st.sie, !.spie = st.spie, !.spp = st.spp]

WriteStatus ==
  /\ \E st \in StatusWrites :
       \/ CsrAccess(Machine) /\ mstatus' = st
       \/ CsrAccess(Supervisor) /\ mstatus' = SstatusWritten(st)
  /\ NextInstruction
  /\ UNCHANGED <<mepc, sepc, config, mip, panic>>

WriteMip ==
  /\ CsrAccess(Machine)
  /\ \E bits \in IpWrites : mip' = bits \cap MipSupported
  /\ Retire
  /\ UNCHANGED <<config, panic>>

WriteSip ==
  /\ CsrAccess(Supervisor)
  /\ \E bits \in IpWrites : mip' = (mip \ SipWritable) \cup (bits \cap SipWritable)
  /\ Retire
  /\ UNCHANGED <<config, panic>>

WriteIe ==
  /\ \E bits \in IeWrites :
       \/ CsrAccess(Machine) /\ mie' = bits
       \/ /\ CsrAccess(Supervisor)
          /\ mie' = (mie \ SieSupported) \cup (bits \cap SieSupported)
  /\ Retire
  /\ UNCHANGED <<mideleg, medeleg, mtvec, stvec, mip, panic>>

WriteDeleg ==
  /\ CsrAccess(Machine)
  /\ \/ mideleg' \in DelegWrites /\ UNCHANGED medeleg
     \/ medeleg' \in EdelegWrites /\ UNCHANGED mideleg
  /\ Retire
  /\ UNCHANGED <<mie, mtvec, stvec, mip, panic>>

WriteTvec ==
  /\ \E a \in AddrWrites :
       \/ CsrAccess(Machine) /\ mtvec' = TvecWritten(a) /\ UNCHANGED stvec
       \/ CsrAccess(Supervisor) /\ stvec' = TvecWritten(a) /\ UNCHANGED mtvec
  /\ Retire
  /\ UNCHANGED <<mie, mideleg, medeleg, mip, panic>>

WriteEpc ==
  /\ \E a \in AddrWrites :
       \/ CsrAccess(Machine) /\ mepc' = Align(a) /\ UNCHANGED sepc
       \/ CsrAccess(Supervisor) /\ sepc' = Align(a) /\ UNCHANGED mepc
  /\ NextInstruction
  /\ UNCHANGED <<mstatus, config, mip, panic>>

CsrInstruction ==
  \/ WriteStatus \/ WriteMip \/ WriteSip \/ WriteIe \/ WriteDeleg
  \/ WriteTvec \/ WriteEpc \/ CsrDenied

Returns == Sret \/ Mret \/ MretPanic \/ IllegalReturn

Next ==
  \/ BusTick \/ CheckInterrupt \/ CheckPanic \/ ProgressTime
  \/ FetchPanic \/ Ecall \/ Ebreak \/ Fault \/ Compute \/ StoreDevice
  \/ Jump \/ JumpMisaligned
  \/ Returns \/ CsrInstruction

Spec == Init /\ [][Next]_vars

-----------------------------------------------------------------------------
Addresses == 0..(XlenSize - 1)

TypeOK ==
  /\ pc \in Addresses /\ mepc \in Addresses /\ sepc \in Addresses
  /\ mtvec \in Addresses /\ stvec \in Addresses
  /\ prv \in Privs
  /\ mstatus \in Status
  /\ mip \subseteq InterruptBits /\ mie \subseteq InterruptBits
  /\ mideleg \subseteq InterruptBits /\ medeleg \subseteq 0..15
  /\ phase \in {"tick", "check", "step", "timer"}

\* What fetch, and the pcs a return goes back to, must satisfy.
PcAligned == pc % 4 = 0 /\ mepc % 4 = 0 /\ sepc % 4 = 0

\* Alignment is never lost, whatever is written to the vectors, the exception
\* pcs and the jump operands, so from an aligned entry point fetch never returns
\* the trap whose fault address handle_trap unwraps in vain (cpu.rs 905, 923).
StaysAligned == [][PcAligned => PcAligned']_vars

\* Critical sections hold: an interrupt never moves M-mode code that cleared
\* MIE, and moves S-mode code that cleared SIE only to M mode, whose trap
\* leaves the supervisor's frame alone.
CriticalSection ==
  [][phase = "check" =>
       /\ (prv = Machine /\ ~mstatus.mie) => UNCHANGED trapState
       /\ (prv = Supervisor /\ ~mstatus.sie) =>
             \/ UNCHANGED trapState
             \/ /\ prv' = Machine /\ sepc' = sepc
                /\ mstatus'.spp = mstatus.spp /\ mstatus'.spie = mstatus.spie
                /\ mstatus'.sie = FALSE]_vars

\* Where a trap can enter: the base, or the slot of an interrupt.
VectorTargets(tvec) ==
  {TrapVector(tvec, trap) % XlenSize :
     trap \in {Exception(0)} \cup {Interrupt(bit) : bit \in Resolvable}}

\* Privilege rises only through the trap vector of the mode entered: no return
\* instruction and no CSR write raises it.
GatedEntry ==
  [][prv' > prv => pc' \in VectorTargets(IF prv' = Machine THEN mtvec ELSE stvec)]_vars

\* Software that does not trap changes only what its privilege covers: user
\* code no control state, supervisor code nothing of machine mode.
Isolation ==
  [][phase = "step" =>
       /\ (prv = User /\ prv' = User) => UNCHANGED <<mstatus, mepc, sepc, config>>
       /\ (prv = Supervisor /\ prv' # Machine) =>
             /\ UNCHANGED <<mepc, mtvec, mideleg, medeleg>>
             /\ mie' \ SieSupported = mie \ SieSupported
             /\ mstatus'.mie = mstatus.mie /\ mstatus'.mpie = mstatus.mpie
             /\ mstatus'.mpp = mstatus.mpp /\ mstatus'.tsr = mstatus.tsr]_vars
=============================================================================
