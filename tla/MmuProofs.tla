----------------------------- MODULE MmuProofs -----------------------------
(***************************************************************************)
(* Proofs about Mmu, for tables and a TLB of any size and any contents:    *)
(* its type invariant, that the TLB is a cache of the page tables, where   *)
(* the walk is the one Sv32 describes and where it is not, and what user   *)
(* accesses reach.                                                         *)
(***************************************************************************)
EXTENDS Mmu, TLAPS

\* A walk that succeeds yields a frame number.
LEMMA WalkYieldsFrame ==
  ASSUME TypeOK, NEW vpn \in Vpns, NEW at, NEW p, NEW s,
         Walk(vpn, at, p, s) \notin {PageFault, OffMap}
  PROVE  Walk(vpn, at, p, s) \in Nat
<1>1. vpn[1] \in Index /\ vpn[2] \in Index /\ vpn[2] \in Nat
  BY SizeAssumption, SMT DEF Vpns, Index
<1>2. \A f \in Frames, i \in Index : mem[f][i].ppn \in Nat
  BY DEF TypeOK, Pte
<1>3. root \in Frames
  BY DEF Walk
<1>4. CASE Walk(vpn, at, p, s) = mem[root][vpn[1]].ppn + vpn[2]
  BY <1>1, <1>2, <1>3, <1>4, SMT
<1>5. CASE Walk(vpn, at, p, s) = WalkTable(mem[root][vpn[1]].ppn, vpn[2], at, p, s)
  BY <1>1, <1>2, <1>5 DEF WalkTable
<1> QED
  BY <1>3, <1>4, <1>5 DEF Walk

\* A page has its slot in the TLB.
LEMMA SlotInTlb ==
  ASSUME NEW vpn \in Vpns
  PROVE  Slot(vpn) \in 0..(TlbSize - 1)
<1>1. vpn[1] \in Nat /\ vpn[2] \in Nat
  BY SizeAssumption, SMT DEF Vpns, Index
<1>2. vpn[1] * Size + vpn[2] \in Nat
  BY <1>1, SizeAssumption, SMT
<1> QED
  BY <1>2, TlbAssumption, SMT DEF Slot

\* The empty entry has the shape of one.
LEMMA NoEntryShape == NoEntry \in [prv : Privs, vpn : Vpns, ppn : Nat]
<1>1. 0 \in Index
  BY SizeAssumption, SMT DEF Index
<1> QED
  BY <1>1 DEF NoEntry, Vpns, Privs

\* Every reachable state of translate_va, the TLB and the tables is well
\* typed: the TLB holds frame numbers only, never the result of a failed walk.
THEOREM MmuTypeCorrect == Spec => []TypeOK
<1>1. Init => TypeOK
  <2> SUFFICES ASSUME Init PROVE TypeOK
    OBVIOUS
  <2>1. mem \in [Frames -> [Index -> Pte]]
    BY TablesAssumption DEF Init
  <2>2. edits \in 0..MaxEdits /\ mpp \in 0..3
    BY TlbAssumption, SMT DEF Init, User
  <2>3. prv \in Privs /\ root \in Nat
    BY DEF Init, Privs
  <2> QED
    BY <2>1, <2>2, <2>3, NoEntryShape DEF Init, TypeOK
<1>2. TypeOK /\ [Next]_vars => TypeOK'
  <2> SUFFICES ASSUME TypeOK, [Next]_vars PROVE TypeOK'
    OBVIOUS
  <2> USE DEF TypeOK
  <2>0. \A p \in Privs : p \in 0..3
    BY SMT DEF Privs, User, Supervisor, Machine
  <2>1. EnterHandler => prv' \in Privs /\ mpp' \in 0..3
    BY <2>0 DEF EnterHandler, Privs
  <2>2. ASSUME NEW frame, NEW at, OnBus(frame, at)
        PROVE  prv' \in Privs /\ mpp' \in 0..3
    BY <2>1, <2>2 DEF OnBus
  <2>3. CASE Access
    <3>1. PICK at \in AccessTypes :
            \/ ModePanic(at)
            \/ \E vpn \in Vpns : \/ AccessHit(vpn, at) \/ AccessFill(vpn, at)
                                 \/ AccessFault(vpn, at) \/ AccessPanic(vpn, at)
      BY <2>3 DEF Access
    <3>2. CASE ModePanic(at)
      BY <3>2 DEF ModePanic, Stop, space, status
    <3>3. ASSUME NEW vpn \in Vpns, AccessHit(vpn, at) PROVE TypeOK'
      BY <3>3, <2>2 DEF AccessHit, space
    <3>4. ASSUME NEW vpn \in Vpns, AccessFill(vpn, at) PROVE TypeOK'
      <4> DEFINE p == Effective(at)
                 e == [prv |-> p, vpn |-> vpn, ppn |-> Walk(vpn, at, p, sum)]
      <4>1. p \in Privs
        BY <3>4 DEF AccessFill, Translated, Privs
      <4>2. Walk(vpn, at, p, sum) \in Nat
        BY <3>4, WalkYieldsFrame DEF AccessFill
      <4>3. tlb' \in [0..(TlbSize - 1) -> [prv : Privs, vpn : Vpns, ppn : Nat]]
        <5>1. e \in [prv : Privs, vpn : Vpns, ppn : Nat]
          BY <4>1, <4>2
        <5>2. tlb' = [tlb EXCEPT ![Slot(vpn)] = e]
          BY <3>4 DEF AccessFill
        <5> HIDE DEF e
        <5> QED
          BY <5>1, <5>2
      <4>4. prv' \in Privs /\ mpp' \in 0..3
        BY <3>4, <2>2 DEF AccessFill
      <4> QED
        BY <3>4, <4>3, <4>4 DEF AccessFill, space
    <3>5. ASSUME NEW vpn \in Vpns, AccessFault(vpn, at) PROVE TypeOK'
      BY <3>5, <2>1 DEF AccessFault, Raise, space
    <3>6. ASSUME NEW vpn \in Vpns, AccessPanic(vpn, at) PROVE TypeOK'
      BY <3>6 DEF AccessPanic, Stop, space, status
    <3> QED
      BY <3>1, <3>2, <3>3, <3>4, <3>5, <3>6
  <2>4. CASE WritePte
    <3>1. PICK f \in Frames, i \in Index :
            \E pte \in Writable[f] : mem' = [mem EXCEPT ![f][i] = pte]
      BY <2>4 DEF WritePte
    <3>2. PICK pte \in Pte : mem' = [mem EXCEPT ![f][i] = pte]
      BY <3>1, TablesAssumption
    <3>3. mem' \in [Frames -> [Index -> Pte]]
      <4> HIDE DEF TypeOK
      <4>1. mem \in [Frames -> [Index -> Pte]]
        BY DEF TypeOK
      <4> QED
        BY <3>2, <4>1
    <3>4. edits' \in 0..MaxEdits
      BY <2>4, TlbAssumption, SMT DEF WritePte
    <3> QED
      BY <2>4, <3>3, <3>4 DEF WritePte, status
  <2>5. CASE WriteSatp
    BY <2>5, FramesAssumption DEF WriteSatp, status
  <2>6. CASE Sfence
    BY <2>6, NoEntryShape DEF Sfence, space, status
  <2>7. CASE WriteSum
    BY <2>7 DEF WriteSum, space
  <2>8. CASE WriteMprv
    BY <2>8, MppAssumption DEF WriteMprv, space
  <2>9. CASE TrapEntry
    BY <2>9, <2>1 DEF TrapEntry, Raise, space
  <2>10. CASE Mret
    BY <2>10, <2>0 DEF Mret, Privs, space
  <2>11. CASE Sret
    BY <2>11 DEF Sret, Privs, space
  <2>12. CASE UNCHANGED vars
    BY <2>12 DEF vars, space, status
  <2> QED
    BY <2>3, <2>4, <2>5, <2>6, <2>7, <2>8, <2>9, <2>10, <2>11, <2>12 DEF Next
<1> QED
  BY <1>1, <1>2, PTL DEF Spec

-----------------------------------------------------------------------------
\* What a walk finds depends on the tables and on satp only.
LEMMA WalkOfTables ==
  ASSUME mem' = mem, root' = root, NEW v, NEW at, NEW p, NEW s
  PROVE  Walk(v, at, p, s)' = Walk(v, at, p, s)
BY DEF Walk, WalkTable

\* The entry at slot i is what a walk finds today.
EntrySound(i) ==
  tlb[i] # NoEntry =>
    /\ Slot(tlb[i].vpn) = i
    /\ \E at \in AccessTypes, s \in BOOLEAN :
         Walk(tlb[i].vpn, at, tlb[i].prv, s) = tlb[i].ppn

LEMMA EntryStable ==
  ASSUME NEW i, tlb'[i] = tlb[i], mem' = mem, root' = root, EntrySound(i)
  PROVE  EntrySound(i)'
BY WalkOfTables DEF EntrySound, Slot, NoEntry, Walk, WalkTable

\* A step that leaves the TLB, the tables and satp alone keeps it sound.
LEMMA TlbUntouched ==
  ASSUME TlbSound, UNCHANGED <<space, tlb, fenced>>
  PROVE  TlbSound'
<1> SUFFICES ASSUME fenced, NEW i \in 0..(TlbSize - 1) PROVE EntrySound(i)'
  BY DEF TlbSound, EntrySound
<1> QED
  BY EntryStable DEF TlbSound, EntrySound, space

\* While the kernel fences its stores, every entry of the TLB is what a walk
\* of the tables finds today, whatever the tables hold, the superpages the
\* code follows as pointers included.
THEOREM TlbIsACache == Spec => []TlbSound
<1>1. Init => TlbSound
  BY DEF Init, TlbSound
<1>2. TypeOK /\ TlbSound /\ [Next]_vars => TlbSound'
  <2> SUFFICES ASSUME TypeOK, TlbSound, [Next]_vars PROVE TlbSound'
    OBVIOUS
  <2>1. CASE Access
    <3>1. PICK at \in AccessTypes :
            \/ ModePanic(at)
            \/ \E vpn \in Vpns : \/ AccessHit(vpn, at) \/ AccessFill(vpn, at)
                                 \/ AccessFault(vpn, at) \/ AccessPanic(vpn, at)
      BY <2>1 DEF Access
    <3>2. CASE ModePanic(at)
      BY <3>2, TlbUntouched DEF ModePanic, Stop
    <3>3. ASSUME NEW vpn \in Vpns, AccessHit(vpn, at) PROVE TlbSound'
      BY <3>3, TlbUntouched DEF AccessHit
    <3>4. ASSUME NEW vpn \in Vpns, AccessFill(vpn, at) PROVE TlbSound'
      <4> DEFINE p == Effective(at)
                 e == [prv |-> p, vpn |-> vpn, ppn |-> Walk(vpn, at, p, sum)]
      <4>1. tlb' = [tlb EXCEPT ![Slot(vpn)] = e] /\ UNCHANGED <<space, fenced>>
        BY <3>4 DEF AccessFill
      <4>2. SUFFICES ASSUME fenced, NEW i \in 0..(TlbSize - 1)
                     PROVE  EntrySound(i)'
        BY <4>1 DEF TlbSound, EntrySound
      <4>3. CASE i = Slot(vpn)
        <5>1. tlb'[i] = e
          BY <4>1, <4>3 DEF TypeOK
        <5>2. tlb'[i].vpn = vpn /\ tlb'[i].prv = p
              /\ tlb'[i].ppn = Walk(vpn, at, p, sum)
          BY <5>1
        <5>3. mem' = mem /\ root' = root /\ sum \in BOOLEAN
          BY <4>1 DEF space, TypeOK
        <5> QED
          BY <4>3, <5>2, <5>3 DEF EntrySound, Slot, Walk, WalkTable
      <4>4. CASE i # Slot(vpn)
        <5>1. tlb'[i] = tlb[i]
          BY <4>1, <4>4 DEF TypeOK
        <5> QED
          BY <4>1, <4>2, <5>1, EntryStable DEF TlbSound, EntrySound, space
      <4> QED
        BY <4>3, <4>4
    <3>5. ASSUME NEW vpn \in Vpns, AccessFault(vpn, at) PROVE TlbSound'
      BY <3>5, TlbUntouched DEF AccessFault, Raise
    <3>6. ASSUME NEW vpn \in Vpns, AccessPanic(vpn, at) PROVE TlbSound'
      BY <3>6, TlbUntouched DEF AccessPanic, Stop
    <3> QED
      BY <3>1, <3>2, <3>3, <3>4, <3>5, <3>6
  <2>2. CASE WritePte \/ WriteSatp
    BY <2>2 DEF WritePte, WriteSatp, TlbSound
  <2>3. CASE Sfence
    BY <2>3 DEF Sfence, TlbSound, NoEntry
  <2>4. CASE WriteSum \/ WriteMprv
    BY <2>4, TlbUntouched DEF WriteSum, WriteMprv
  <2>5. CASE TrapEntry
    BY <2>5, TlbUntouched DEF TrapEntry, Raise
  <2>6. CASE Mret \/ Sret
    BY <2>6, TlbUntouched DEF Mret, Sret
  <2>7. CASE UNCHANGED vars
    BY <2>7, TlbUntouched DEF vars
  <2> QED
    BY <2>1, <2>2, <2>3, <2>4, <2>5, <2>6, <2>7 DEF Next
<1> QED
  BY <1>1, <1>2, MmuTypeCorrect, PTL DEF Spec

-----------------------------------------------------------------------------
(* What the walk finds against what the architecture says it should find. *)

\* An entry of the root that is no leaf carries no permission at all.
LEMMA TopEntry ==
  ASSUME TypeOK, NEW vpn \in Vpns, root \in Frames, ~Invalid(mem[root][vpn[1]])
  PROVE  /\ vpn[1] \in Index /\ vpn[2] \in Index
         /\ mem[root][vpn[1]] \in Pte
         /\ IsSuper(vpn) => Leaf(vpn) = mem[root][vpn[1]]
         /\ ~IsSuper(vpn) => mem[root][vpn[1]].perms = {}
<1> DEFINE top == mem[root][vpn[1]]
<1>1. vpn[1] \in Index /\ vpn[2] \in Index
  BY DEF Vpns
<1>2. top \in Pte
  BY <1>1 DEF TypeOK
<1>3. ~IsSuper(vpn) => top.perms = {}
  <2>1. top.perms \subseteq {"r", "w", "x"}
    BY <1>2 DEF Pte, AccessTypes
  <2>2. "w" \in top.perms => "r" \in top.perms
    BY DEF Invalid
  <2> QED
    BY <2>1, <2>2 DEF IsSuper
<1> QED
  BY <1>1, <1>2, <1>3 DEF Leaf

\* A walk that does not stray finds the frame of the leaf Sv32 defines, or
\* fails, as the checks on that leaf say.
LEMMA WalkFindsLeaf ==
  ASSUME TypeOK, NEW vpn \in Vpns, NEW at \in AccessTypes, NEW p, NEW s,
         ~Strays(vpn, at)
  PROVE  IF Mapped(vpn) /\ at \in Leaf(vpn).perms /\ ~Denied(Leaf(vpn), at, p, s)
         THEN Walk(vpn, at, p, s) = Target(vpn)
         ELSE Walk(vpn, at, p, s) \in {PageFault, OffMap}
<1> DEFINE top == mem[root][vpn[1]]
<1>1. CASE root \notin Frames
  BY <1>1 DEF Mapped, Walk
<1>2. CASE root \in Frames /\ Invalid(top)
  BY <1>2 DEF Mapped, Walk
<1>3. CASE root \in Frames /\ ~Invalid(top) /\ IsSuper(vpn)
  <2>1. at \in top.perms /\ Leaf(vpn) = top
    BY <1>3, TopEntry DEF Strays
  <2> QED
    BY <1>3, <2>1 DEF Mapped, Walk, Target
<1>4. CASE root \in Frames /\ ~Invalid(top) /\ ~IsSuper(vpn)
  <2>1. /\ at \notin top.perms
        /\ Leaf(vpn) = mem[top.ppn][vpn[2]]
    BY <1>4, TopEntry DEF Leaf
  <2>2. Walk(vpn, at, p, s) = WalkTable(top.ppn, vpn[2], at, p, s)
    BY <1>4, <2>1 DEF Walk
  <2>3. top.ppn \in Frames /\ ~Invalid(Leaf(vpn)) /\ at \in Leaf(vpn).perms
        => Leaf(vpn).perms \cap {"r", "x"} # {}
    BY DEF Invalid, AccessTypes
  <2> QED
    BY <1>4, <2>1, <2>2, <2>3 DEF WalkTable, Mapped, Target
<1> QED
  BY <1>1, <1>2, <1>3, <1>4

\* A walk that strays fails, or takes an entry of the superpage for a page.
LEMMA WalkReadsEntry ==
  ASSUME TypeOK, NEW vpn \in Vpns, NEW at \in AccessTypes, NEW p, NEW s,
         Strays(vpn, at), Walk(vpn, at, p, s) \notin {PageFault, OffMap}
  PROVE  /\ ReadAsPage(vpn, at, p)
         /\ Walk(vpn, at, p, s) = StrayEntry(vpn).ppn
<1> DEFINE top == mem[root][vpn[1]]
<1>1. root \in Frames /\ ~Invalid(top)
  BY DEF Strays, Walk
<1>2. Leaf(vpn) = top /\ at \notin top.perms
  BY <1>1, TopEntry DEF Strays
<1>3. Walk(vpn, at, p, s) = WalkTable(top.ppn, vpn[2], at, p, s)
  BY <1>1, <1>2 DEF Walk
<1>4. /\ at \in StrayEntry(vpn).perms /\ ~Denied(StrayEntry(vpn), at, p, s)
      /\ Walk(vpn, at, p, s) = StrayEntry(vpn).ppn
  BY <1>2, <1>3 DEF WalkTable, StrayEntry
<1> QED
  BY <1>4 DEF ReadAsPage, Denied

\* The leaf of an address that is mapped is an entry of a table.
LEMMA LeafShape ==
  ASSUME TypeOK, NEW vpn \in Vpns, Mapped(vpn)
  PROVE  Leaf(vpn) \in Pte
<1>1. vpn[1] \in Index /\ vpn[2] \in Index
  BY DEF Vpns
<1>2. \A f \in Frames, i \in Index : mem[f][i] \in Pte
  BY DEF TypeOK
<1> QED
  BY <1>1, <1>2 DEF Mapped, Leaf

\* A miss of the TLB is translated as the privileged architecture defines
\* Sv32, for tables of any size and contents: whatever is not allowed fails,
\* unless a restricted superpage leads the walk astray or a kernel fetches
\* from a user page.
THEOREM WalkMatchesSv32 == Spec => []WalkIsSv32
<1>1. TypeOK => WalkIsSv32
  <2> DEFINE s == sum
  <2> SUFFICES ASSUME TypeOK,
                      NEW vpn \in Vpns, NEW at \in AccessTypes,
                      NEW p \in {User, Supervisor}
               PROVE  IF Allows(vpn, at, p, s)
                      THEN Walk(vpn, at, p, s) = Target(vpn)
                      ELSE \/ Walk(vpn, at, p, s) \in {PageFault, OffMap}
                           \/ /\ Strays(vpn, at) /\ ReadAsPage(vpn, at, p)
                              /\ Walk(vpn, at, p, s) = StrayEntry(vpn).ppn
                           \/ /\ KernelFetch(vpn, at, p, s)
                              /\ Walk(vpn, at, p, s) = Target(vpn)
    BY DEF WalkIsSv32
  <2> HIDE DEF s
  <2>1. CASE Strays(vpn, at)
    <3>1. ~Allows(vpn, at, p, s)
      BY <2>1 DEF Strays, Allows
    <3> QED
      BY <2>1, <3>1, WalkReadsEntry
  <2>2. CASE ~Strays(vpn, at)
    <3>1. User # Supervisor
      BY SMT DEF User, Supervisor
    <3>2. ASSUME Mapped(vpn), at \in Leaf(vpn).perms, at # "x"
          PROVE  Leaf(vpn).perms \cap {"r", "w"} # {}
      BY <3>2 DEF AccessTypes
    <3>3. ASSUME Mapped(vpn), at \in Leaf(vpn).perms, ~Denied(Leaf(vpn), at, p, s),
                 ~Allows(vpn, at, p, s)
          PROVE  KernelFetch(vpn, at, p, s)
      <4>1. p = Supervisor /\ Leaf(vpn).u /\ (s => at = "x")
        BY <3>1, <3>3 DEF Allows, Denied
      <4>2. s \/ Leaf(vpn).perms \cap {"r", "w"} = {}
        BY <3>3, <4>1 DEF Denied
      <4>3. at = "x"
        BY <3>2, <3>3, <4>1, <4>2
      <4>4. Leaf(vpn).perms \subseteq AccessTypes
        BY <3>3, LeafShape DEF Pte
      <4> QED
        BY <3>3, <4>1, <4>2, <4>3, <4>4 DEF KernelFetch, AccessTypes
    <3>4. Allows(vpn, at, p, s) =>
            Mapped(vpn) /\ at \in Leaf(vpn).perms /\ ~Denied(Leaf(vpn), at, p, s)
      <4> SUFFICES ASSUME Allows(vpn, at, p, s)
                   PROVE  /\ Mapped(vpn) /\ at \in Leaf(vpn).perms
                          /\ ~Denied(Leaf(vpn), at, p, s)
        OBVIOUS
      <4> QED
        BY <3>1 DEF Allows, Denied
    <3> QED
      BY <2>2, <3>3, <3>4, WalkFindsLeaf
  <2> QED
    BY <2>1, <2>2
<1> QED
  BY <1>1, MmuTypeCorrect, PTL

\* MPRV is on in machine mode only: whoever leaves it clears it.
LendsMachineOnly == mprv => prv = Machine

LEMMA LendsStep ==
  ASSUME LendsMachineOnly, [Next]_vars
  PROVE  LendsMachineOnly'
<1> USE DEF LendsMachineOnly
<1>1. EnterHandler => (prv = Machine => prv' = Machine)
  BY DEF EnterHandler
<1>2. ASSUME NEW frame, NEW at, OnBus(frame, at)
      PROVE  prv = Machine => prv' = Machine
  BY <1>1, <1>2 DEF OnBus
<1>3. CASE Access
  <2>1. mprv' = mprv
    BY <1>3 DEF Access, ModePanic, AccessHit, AccessFill, AccessFault, AccessPanic,
       Raise, Stop, status
  <2>2. prv = Machine => prv' = Machine
    BY <1>1, <1>2, <1>3 DEF Access, ModePanic, AccessHit, AccessFill, AccessFault,
       AccessPanic, Raise, Stop
  <2> QED
    BY <2>1, <2>2
<1>4. CASE WritePte \/ WriteSatp \/ Sfence
  BY <1>4 DEF WritePte, WriteSatp, Sfence, status
<1>5. CASE WriteSum \/ WriteMprv
  BY <1>5 DEF WriteSum, WriteMprv
<1>6. CASE TrapEntry
  BY <1>1, <1>6 DEF TrapEntry, Raise
<1>7. CASE Mret \/ Sret
  BY <1>7 DEF Mret, Sret
<1>8. CASE UNCHANGED vars
  BY <1>8 DEF vars, status
<1> QED
  BY <1>3, <1>4, <1>5, <1>6, <1>7, <1>8 DEF Next

LEMMA LendsHolds == Spec => []LendsMachineOnly
<1>1. Init => LendsMachineOnly
  BY DEF Init, LendsMachineOnly
<1> QED
  BY <1>1, LendsStep, PTL DEF Spec

\* What user mode is granted, it is granted by some walk of today: the entry
\* of the TLB that serves it may come from another kind of access.
LEMMA GrantedByWalk ==
  ASSUME TypeOK, TlbSound, fenced, NEW vpn \in Vpns, NEW at \in AccessTypes,
         Granted(vpn, at, User)
  PROVE  \E kind \in AccessTypes, s \in BOOLEAN :
           /\ Translate(vpn, at, User) = Walk(vpn, kind, User, s)
           /\ Walk(vpn, kind, User, s) \notin {PageFault, OffMap}
<1>1. CASE Hit(vpn, User)
  <2> DEFINE i == Slot(vpn)
  <2>1. i \in 0..(TlbSize - 1)
    BY SlotInTlb
  <2>2. tlb[i] # NoEntry
    <3>1. NoEntry.prv # User
      BY SMT DEF NoEntry, User, Machine
    <3> QED
      BY <1>1, <3>1 DEF Hit
  <2>3. PICK kind \in AccessTypes, s \in BOOLEAN :
          Walk(tlb[i].vpn, kind, tlb[i].prv, s) = tlb[i].ppn
    BY <2>1, <2>2 DEF TlbSound
  <2> QED
    BY <1>1, <2>3 DEF Hit, Translate, Granted
<1>2. CASE ~Hit(vpn, User)
  BY <1>2 DEF Translate, Granted, TypeOK
<1> QED
  BY <1>1, <1>2

\* For tables and a TLB of any size and contents, user code reaches only
\* frames of pages marked U, each at the address the tables give it, also
\* through entries of the TLB that another kind of access registered; under a
\* superpage that is not R, W and X it reaches a frame that data of the
\* superpage names, and nothing else.  MPRV never acts below machine mode.
THEOREM UserIsConfined == Spec => []UserConfined
<1>1. TypeOK /\ TlbSound /\ LendsMachineOnly => UserConfined
  <2> SUFFICES ASSUME TypeOK, TlbSound, LendsMachineOnly PROVE UserConfined
    OBVIOUS
  <2>1. ASSUME prv # Machine, NEW at \in AccessTypes PROVE Effective(at) = prv
    BY <2>1 DEF LendsMachineOnly, Effective
  <2>2. ASSUME fenced, NEW vpn \in Vpns, NEW at \in AccessTypes,
               Granted(vpn, at, User)
        PROVE  \/ /\ Mapped(vpn) /\ Leaf(vpn).u
                  /\ Translate(vpn, at, User) = Target(vpn)
               \/ \E kind \in AccessTypes :
                    /\ Strays(vpn, kind) /\ ReadAsPage(vpn, kind, User)
                    /\ Translate(vpn, at, User) = StrayEntry(vpn).ppn
    <3>1. PICK kind \in AccessTypes, s \in BOOLEAN :
            /\ Translate(vpn, at, User) = Walk(vpn, kind, User, s)
            /\ Walk(vpn, kind, User, s) \notin {PageFault, OffMap}
      BY <2>2, GrantedByWalk
    <3>2. CASE Strays(vpn, kind)
      BY <3>1, <3>2, WalkReadsEntry
    <3>3. CASE ~Strays(vpn, kind)
      <4>1. /\ Mapped(vpn) /\ ~Denied(Leaf(vpn), kind, User, s)
            /\ Walk(vpn, kind, User, s) = Target(vpn)
        BY <3>1, <3>3, WalkFindsLeaf
      <4> QED
        BY <3>1, <4>1 DEF Denied
    <3> QED
      BY <3>2, <3>3
  <2> QED
    BY <2>1, <2>2 DEF UserConfined
<1> QED
  BY <1>1, MmuTypeCorrect, TlbIsACache, LendsHolds, PTL
=============================================================================
