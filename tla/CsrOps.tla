------------------------------- MODULE CsrOps -------------------------------
(***************************************************************************)
(* The privileged-architecture core of csr.rs as operators: the interrupt  *)
(* bits, the mstatus stack that handle_trap, handle_mret and handle_sret   *)
(* push and pop, delegation, trap vectors, and the two gates that decide   *)
(* whether the run loop looks at devices and whether it takes a trap.      *)
(*                                                                         *)
(* mip, mie and mideleg are SETS of bit positions; mstatus is a record of  *)
(* the fields those functions use; a trap is its kind and its cause code   *)
(* (the values written to xcause and xtval are data nothing here reads).   *)
(***************************************************************************)
EXTENDS Integers

\* Priv (lib.rs).  The value 2 is reserved; Priv::from(2) is unreachable!().
User       == 0
Supervisor == 1
Machine    == 3
Privs      == {User, Supervisor, Machine}

\* Bit positions in mip, mie, mideleg.
SSIP == 1
MSIP == 3
STIP == 5
MTIP == 7
SEIP == 9
MEIP == 11
InterruptBits == {SSIP, MSIP, STIP, MTIP, SEIP, MEIP}

\* MIP_SUPPORTED, and the one bit a write to sip reaches.
MipSupported == {SEIP, SSIP}
SipWritable  == {SSIP}
\* SIE_SUPPORTED: the part of mie that the sie CSR shows.
SieSupported == {SSIP, STIP, SEIP}

Status == [sie : BOOLEAN, mie : BOOLEAN, spie : BOOLEAN, mpie : BOOLEAN,
           spp : {User, Supervisor}, mpp : 0..3, mprv : BOOLEAN, tsr : BOOLEAN]
\* Csr::default: every field zero.
StatusInit == [sie |-> FALSE, mie |-> FALSE, spie |-> FALSE, mpie |-> FALSE,
               spp |-> User, mpp |-> 0, mprv |-> FALSE, tsr |-> FALSE]

Interrupt(bit) == [interrupt |-> TRUE, cause |-> bit]
Exception(c)   == [interrupt |-> FALSE, cause |-> c]

-----------------------------------------------------------------------------
\* Csr::handle_trap: the trap goes to S mode.
Delegated(from, trap, mideleg, medeleg) ==
  /\ from # Machine
  /\ trap.cause \in (IF trap.interrupt THEN mideleg ELSE medeleg)

\* Mutants: a trap does not save, or does not clear, the interrupt enable.
MachineEntryUnsaved(st, from) == [st EXCEPT !.mie = FALSE, !.mpp = from]
SupervisorEntryOpen(st, from) ==
  [st EXCEPT !.spie = st.sie, !.spp = IF from = User THEN User ELSE Supervisor]

MachineEntry(st, from) ==
  [st EXCEPT !.mpie = st.mie, !.mie = FALSE, !.mpp = from]

SupervisorEntry(st, from) ==
  [st EXCEPT !.spie = st.sie, !.sie = FALSE,
             !.spp = IF from = User THEN User ELSE Supervisor]

\* Mutant: the low bits are kept.
AlignNothing(a) == a

\* va & !0x3, and the base of mtvec and stvec.
Align(a) == a - (a % 4)

\* Only interrupts are vectored, and any non-zero mode vectors them.
TrapVector(tvec, trap) ==
  Align(tvec) + (IF trap.interrupt /\ tvec % 4 # 0 THEN 4 * trap.cause ELSE 0)

\* The mask 0xfffffffd of writes to mtvec and stvec: bit 1 is dropped.
TvecWritten(v) == IF v % 4 >= 2 THEN v - 2 ELSE v

\* Csr::handle_mret and Csr::handle_sret; the second clears mprv always.
MretStatus(st) ==
  [st EXCEPT !.mie = st.mpie, !.mpie = TRUE, !.mpp = User,
             !.mprv = st.mprv /\ st.mpp = Machine]

SretStatus(st) ==
  [st EXCEPT !.sie = st.spie, !.spie = TRUE, !.spp = User, !.mprv = FALSE]

-----------------------------------------------------------------------------
\* Mutants: the gates look at M mode only.
CanExternalMachineOnly(prv, st, mideleg) == prv = Machine => st.mie
OpenMachineOnly(prv, st, mideleg, active) ==
  active # {} /\ (prv = Machine => st.mie)

\* Csr::can_external_interrupt: does this iteration look at the devices?
CanExternalInterrupt(prv, st, mideleg) ==
  /\ prv = Machine => st.mie
  /\ (prv = Supervisor /\ SEIP \in mideleg) => st.sie

\* Csr::resolve_pending up to the choice of a cause.  One gate for all bits:
\* in S mode an active delegated bit with SIE clear hides every other bit too.
Open(prv, st, mideleg, active) ==
  /\ active # {}
  /\ prv = Machine => st.mie
  /\ (prv = Supervisor /\ active \cap mideleg # {}) => st.sie

\* The only causes resolve_pending knows, highest first; it panics when none
\* of them is among the active bits.
Resolvable == {SEIP, SSIP, STIP}
Chosen(active) == IF SEIP \in active THEN SEIP
                  ELSE IF SSIP \in active THEN SSIP ELSE STIP
=============================================================================
