-------------------------------- MODULE Mmu --------------------------------
(***************************************************************************)
(* Cpu::translate_va and the TLB (tlb.rs): Sv32 over page tables the       *)
(* kernel edits.  Tables have Size entries instead of 1024, an address is   *)
(* its two table indices, memory is a set of frames, each of them seen as  *)
(* a table.  The walk reads through the bus: where the bus maps nothing    *)
(* the walk's own read fails.                                              *)
(*                                                                         *)
(* Instructions are the accesses they make.  Traps and returns move the    *)
(* privilege as module Hart says; here they are inputs.                    *)
(***************************************************************************)
EXTENDS Integers, CsrOps

CONSTANTS
  Size,        \* entries of a table
  Frames,      \* the frames of memory; other frame numbers are off the map
  TlbSize,     \* TLB_SIZE, direct mapped
  Writable,    \* [Frames -> SUBSET Pte]: what the kernel stores where
  Roots,       \* frame numbers the kernel writes to satp
  FirstTables, \* contents of memory when the model starts
  MppValues,   \* values of mstatus.MPP
  MaxEdits     \* bound: page-table stores in one behaviour

AccessTypes == {"r", "w", "x"}   \* AccessType::Read, Write, Fetch
Pte == [v : BOOLEAN, perms : SUBSET AccessTypes, u : BOOLEAN, a : BOOLEAN,
        d : BOOLEAN, ppn : Nat]
Index == 0..(Size - 1)
Vpns  == Index \X Index

ASSUME SizeAssumption   == Size \in Nat \ {0}
ASSUME FramesAssumption == Frames \subseteq Nat /\ Roots \subseteq Nat
ASSUME TlbAssumption    == TlbSize \in Nat \ {0} /\ MaxEdits \in Nat
ASSUME MppAssumption    == MppValues \subseteq 0..3
ASSUME TablesAssumption ==
  /\ \A f \in Frames : Writable[f] \subseteq Pte
  /\ FirstTables \subseteq [Frames -> [Index -> Pte]]

VARIABLES
  mem,                 \* [Frames -> [Index -> Pte]]
  paging, root,        \* satp.MODE and satp.PPN (ASID is masked off)
  sum, mprv, mpp,      \* of mstatus
  prv,
  tlb,                 \* [0..TlbSize-1 -> TlbEntry or NoEntry]
  panic,
  edits,               \* counter for the bound
  fenced               \* ghost: no store to a table or satp since SFENCE.VMA

status == <<sum, mprv, mpp>>
space  == <<mem, paging, root, edits>>
vars   == <<space, status, prv, tlb, panic, fenced>>

NoEntry == [prv |-> Machine, vpn |-> <<0, 0>>, ppn |-> 0]

Init ==
  /\ mem \in FirstTables
  /\ paging = FALSE /\ root = 0
  /\ sum = FALSE /\ mprv = FALSE /\ mpp = User
  /\ prv = Machine
  /\ tlb = [i \in 0..(TlbSize - 1) |-> NoEntry]
  /\ panic = "none" /\ edits = 0 /\ fenced = TRUE

-----------------------------------------------------------------------------
(* The walk.  A frame number, or one of: *)
PageFault == -1
OffMap    == -2   \* a read of the walk failed

Invalid(pte) == ~pte.v \/ ("w" \in pte.perms /\ "r" \notin pte.perms)

\* Mutant: a store does not look at the dirty bit.
DeniedNotDirty(pte, at, p, s) ==
  \/ ~pte.u /\ p = User
  \/ pte.u /\ p = Supervisor /\ pte.perms \cap {"r", "w"} # {} /\ ~s
  \/ ~pte.a

Denied(pte, at, p, s) ==
  \/ ~pte.u /\ p = User
  \/ pte.u /\ p = Supervisor /\ pte.perms \cap {"r", "w"} # {} /\ ~s
  \/ ~pte.a \/ (at = "w" /\ ~pte.d)

\* The second level.  A pointer there is no leaf.
WalkTable(frame, i, at, p, s) ==
  IF frame \notin Frames THEN OffMap
  ELSE LET pte == mem[frame][i] IN
       IF Invalid(pte) \/ at \notin pte.perms \/ Denied(pte, at, p, s)
         THEN PageFault ELSE pte.ppn

\* A superpage that lacks the permission is followed as if it were a pointer.
Walk(vpn, at, p, s) ==
  IF root \notin Frames THEN OffMap
  ELSE LET pte == mem[root][vpn[1]] IN
       IF Invalid(pte) THEN PageFault
       ELSE IF at \notin pte.perms THEN WalkTable(pte.ppn, vpn[2], at, p, s)
       ELSE IF pte.ppn % Size # 0 \/ Denied(pte, at, p, s) THEN PageFault
       ELSE pte.ppn + vpn[2]

\* Mutant: the lookup does not compare the privilege of the entry.
HitAnyMode(vpn, p) ==
  LET e == tlb[(vpn[1] * Size + vpn[2]) % TlbSize] IN
  e # NoEntry /\ e.vpn = vpn

\* Tlb::lookup_ppn and Tlb::register_entry.
Slot(vpn) == (vpn[1] * Size + vpn[2]) % TlbSize
Hit(vpn, p) == tlb[Slot(vpn)].vpn = vpn /\ tlb[Slot(vpn)].prv = p

\* Cpu::translate_va at an effective privilege below M, paging on: the type
\* of access and the status bits are looked at by the walk only.
Translate(vpn, at, p) ==
  IF Hit(vpn, p) THEN tlb[Slot(vpn)].ppn ELSE Walk(vpn, at, p, sum)

Granted(vpn, at, p) == Translate(vpn, at, p) \notin {PageFault, OffMap}

-----------------------------------------------------------------------------
(* Accesses: loads, stores, fetches. *)
Effective(at) == IF mprv /\ at # "x" THEN mpp ELSE prv
Translated(at) == paging /\ Effective(at) \in {User, Supervisor}

Stop(why) ==
  panic' = why /\ UNCHANGED <<space, status, prv, tlb, fenced>>

\* Cpu::handle_trap: the delegation registers choose the mode.
EnterHandler ==
  \/ prv # Machine /\ prv' = Supervisor /\ UNCHANGED mpp
  \/ prv' = Machine /\ mpp' = prv

Raise ==
  /\ EnterHandler
  /\ UNCHANGED <<space, sum, mprv, tlb, panic, fenced>>

\* The physical access: fetching off the map ends in todo!().
OnBus(frame, at) ==
  \/ frame \in Frames /\ UNCHANGED <<prv, mpp, panic>>
  \/ frame \notin Frames /\ at # "x" /\ EnterHandler /\ UNCHANGED panic
  \/ /\ frame \notin Frames /\ at = "x"
     /\ panic' = "lib: fetch off the map" /\ UNCHANGED <<prv, mpp>>

AccessHit(vpn, at) ==
  /\ Translated(at) /\ Hit(vpn, Effective(at))
  /\ OnBus(tlb[Slot(vpn)].ppn, at)
  /\ UNCHANGED <<space, sum, mprv, tlb, fenced>>

\* Mutant: what the walk returns is registered without a look at it.
AccessFillUnchecked(vpn, at) ==
  LET p == Effective(at)
      ppn == Walk(vpn, at, p, sum) IN
  /\ Translated(at) /\ ~Hit(vpn, p)
  /\ tlb' = [tlb EXCEPT ![Slot(vpn)] = [prv |-> p, vpn |-> vpn, ppn |-> ppn]]
  /\ OnBus(ppn, at)
  /\ UNCHANGED <<space, sum, mprv, fenced>>

AccessFill(vpn, at) ==
  LET p == Effective(at)
      ppn == Walk(vpn, at, p, sum) IN
  /\ Translated(at) /\ ~Hit(vpn, p) /\ ppn \notin {PageFault, OffMap}
  /\ tlb' = [tlb EXCEPT ![Slot(vpn)] = [prv |-> p, vpn |-> vpn, ppn |-> ppn]]
  /\ OnBus(ppn, at)
  /\ UNCHANGED <<space, sum, mprv, fenced>>

AccessFault(vpn, at) ==
  LET p == Effective(at) IN
  /\ Translated(at) /\ ~Hit(vpn, p) /\ Walk(vpn, at, p, sum) = PageFault
  /\ Raise

\* The walk's own read fails: a page fault for which no address is recorded,
\* and handle_trap unwraps one.
AccessPanic(vpn, at) ==
  LET p == Effective(at) IN
  /\ Translated(at) /\ ~Hit(vpn, p) /\ Walk(vpn, at, p, sum) = OffMap
  /\ Stop("cpu: no fault address")

\* Priv::from of a reserved MPP.
ModePanic(at) ==
  /\ paging /\ Effective(at) \notin Privs
  /\ Stop("lib: no such privilege")

Access ==
  /\ panic = "none"
  /\ \E at \in AccessTypes :
       \/ ModePanic(at)
       \/ \E vpn \in Vpns : \/ AccessHit(vpn, at) \/ AccessFill(vpn, at)
                            \/ AccessFault(vpn, at) \/ AccessPanic(vpn, at)

-----------------------------------------------------------------------------
(* The kernel and its firmware. *)
Kernel == panic = "none" /\ prv # User

WritePte ==
  /\ Kernel /\ edits < MaxEdits
  /\ \E f \in Frames, i \in Index : \E pte \in Writable[f] :
       mem' = [mem EXCEPT ![f][i] = pte]
  /\ edits' = edits + 1
  /\ fenced' = FALSE
  /\ UNCHANGED <<paging, root, status, prv, tlb, panic>>

\* Csr::write of satp: the TLB is not told.
WriteSatp ==
  /\ Kernel
  /\ paging' \in BOOLEAN /\ root' \in Roots
  /\ fenced' = FALSE
  /\ UNCHANGED <<mem, edits, status, prv, tlb, panic>>

\* Mutant: the fence clears the entries of the privilege it runs at.
SfenceThisMode ==
  /\ panic = "none"
  /\ tlb' = [i \in 0..(TlbSize - 1) |-> IF tlb[i].prv = prv THEN NoEntry ELSE tlb[i]]
  /\ fenced' = TRUE
  /\ UNCHANGED <<space, status, prv, panic>>

\* SFENCE.VMA clears the whole TLB; no privilege is required.
Sfence ==
  /\ panic = "none"
  /\ tlb' = [i \in 0..(TlbSize - 1) |-> NoEntry]
  /\ fenced' = TRUE
  /\ UNCHANGED <<space, status, prv, panic>>

WriteSum ==
  /\ Kernel
  /\ sum' \in BOOLEAN
  /\ UNCHANGED <<space, mprv, mpp, prv, tlb, panic, fenced>>

WriteMprv ==
  /\ panic = "none" /\ prv = Machine
  /\ mprv' \in BOOLEAN /\ mpp' \in MppValues
  /\ UNCHANGED <<space, sum, prv, tlb, panic, fenced>>

\* ecall and interrupts.
TrapEntry == panic = "none" /\ Raise

\* mret, and sret to whatever SPP holds.
Mret ==
  /\ panic = "none" /\ prv = Machine /\ mpp \in Privs
  /\ prv' = mpp /\ mpp' = User
  /\ mprv' = (mprv /\ mpp = Machine)
  /\ UNCHANGED <<space, sum, tlb, panic, fenced>>

Sret ==
  /\ Kernel
  /\ prv' \in {User, Supervisor}
  /\ mprv' = FALSE
  /\ UNCHANGED <<space, sum, mpp, tlb, panic, fenced>>

Next == Access \/ WritePte \/ WriteSatp \/ Sfence \/ WriteSum \/ WriteMprv
        \/ TrapEntry \/ Mret \/ Sret

Spec == Init /\ [][Next]_vars

-----------------------------------------------------------------------------
(* Sv32 as the privileged architecture defines it, without MXR: the leaf of *)
(* an address, where it leads, and whether it allows an access.             *)

IsSuper(vpn) == mem[root][vpn[1]].perms \cap {"r", "x"} # {}

Leaf(vpn) ==
  LET top == mem[root][vpn[1]] IN
  IF IsSuper(vpn) THEN top ELSE mem[top.ppn][vpn[2]]

\* Every table on the way exists, and every entry on it is well formed.
Mapped(vpn) ==
  /\ root \in Frames
  /\ ~Invalid(mem[root][vpn[1]])
  /\ \/ IsSuper(vpn) /\ mem[root][vpn[1]].ppn % Size = 0
     \/ /\ ~IsSuper(vpn)
        /\ mem[root][vpn[1]].ppn \in Frames
        /\ ~Invalid(Leaf(vpn))
        /\ Leaf(vpn).perms \cap {"r", "x"} # {}

Target(vpn) == IF IsSuper(vpn) THEN Leaf(vpn).ppn + vpn[2] ELSE Leaf(vpn).ppn

Allows(vpn, at, p, s) ==
  /\ Mapped(vpn)
  /\ at \in Leaf(vpn).perms /\ Leaf(vpn).a /\ (at = "w" => Leaf(vpn).d)
  /\ p = User => Leaf(vpn).u
  /\ p = Supervisor => ~Leaf(vpn).u \/ (s /\ at # "x")

(* The two ways in which the code leaves it. *)

\* A superpage that lacks a permission: an access that needs it is led on to
\* the data in the superpage's first frame, as if that were a table.
Strays(vpn, at) == root \in Frames /\ IsSuper(vpn) /\ at \notin Leaf(vpn).perms
StrayEntry(vpn) == mem[Leaf(vpn).ppn][vpn[2]]
ReadAsPage(vpn, at, p) ==
  at \in StrayEntry(vpn).perms /\ (p = User => StrayEntry(vpn).u)

\* A kernel that may load from a user page, or cannot be kept from one that
\* is only to be executed, fetches from it too.
KernelFetch(vpn, at, p, s) ==
  /\ p = Supervisor /\ at = "x" /\ Mapped(vpn) /\ Leaf(vpn).u
  /\ s \/ Leaf(vpn).perms = {"x"}

-----------------------------------------------------------------------------
TypeOK ==
  /\ mem \in [Frames -> [Index -> Pte]]
  /\ paging \in BOOLEAN /\ root \in Nat
  /\ sum \in BOOLEAN /\ mprv \in BOOLEAN /\ mpp \in 0..3
  /\ prv \in Privs
  /\ tlb \in [0..(TlbSize - 1) -> [prv : Privs, vpn : Vpns, ppn : Nat]]
  /\ edits \in 0..MaxEdits
  /\ fenced \in BOOLEAN

\* The TLB is a cache of the page tables in memory: while the kernel fences
\* its stores, an entry is what a walk finds today for the privilege it is
\* tagged with, through evictions and changes of privilege, MPRV and SUM.
TlbSound ==
  fenced => \A i \in 0..(TlbSize - 1) :
    tlb[i] # NoEntry =>
      /\ Slot(tlb[i].vpn) = i
      /\ \E at \in AccessTypes, s \in BOOLEAN :
           Walk(tlb[i].vpn, at, tlb[i].prv, s) = tlb[i].ppn

\* User code is confined to the frames that pages marked U map, at the
\* address the tables say, although entries are shared by all kinds of access
\* and MPRV lends machine mode another mode's translation: below machine mode
\* an access is translated as the running mode's, whatever traps and returns
\* left in MPRV.  The one way out is the one cpu.rs 218-265 leaves open: under
\* a superpage that is not R, W and X, data of the superpage that looks like
\* an entry for a user page.
UserConfined ==
  /\ prv # Machine => \A at \in AccessTypes : Effective(at) = prv
  /\ fenced => \A vpn \in Vpns, at \in AccessTypes :
       Granted(vpn, at, User) =>
         \/ /\ Mapped(vpn) /\ Leaf(vpn).u
            /\ Translate(vpn, at, User) = Target(vpn)
         \/ \E kind \in AccessTypes :
              /\ Strays(vpn, kind) /\ ReadAsPage(vpn, kind, User)
              /\ Translate(vpn, at, User) = StrayEntry(vpn).ppn

\* An access that misses the TLB is translated as Sv32 defines it, for any
\* tables: what Sv32 allows reaches its frame, and what it does not fails,
\* with the two exceptions of the code, a restricted superpage and a kernel's
\* fetch from a user page, which do not fail but as they say.
WalkIsSv32 ==
  \A vpn \in Vpns, at \in AccessTypes, p \in {User, Supervisor} :
    LET ppn == Walk(vpn, at, p, sum) IN
    IF Allows(vpn, at, p, sum) THEN ppn = Target(vpn)
    ELSE \/ ppn \in {PageFault, OffMap}
         \/ Strays(vpn, at) /\ ReadAsPage(vpn, at, p) /\ ppn = StrayEntry(vpn).ppn
         \/ KernelFetch(vpn, at, p, sum) /\ ppn = Target(vpn)

\* The comment at cpu.rs 225, "check of the permission": a store is granted
\* only on a page that may be written.
StoreChecked ==
  fenced => \A vpn \in Vpns, p \in {User, Supervisor} :
    Granted(vpn, "w", p) => Mapped(vpn) /\ "w" \in Leaf(vpn).perms
=============================================================================
