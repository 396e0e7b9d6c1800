----------------------------- MODULE PlicProofs -----------------------------
(***************************************************************************)
(* Proofs about PlicService: for any set of irqs, any register accesses in *)
(* any order, and any length of execution.                                 *)
(***************************************************************************)
EXTENDS PlicService, TLAPS

\* What makes the properties inductive: irq and context are latched together,
\* a context that is not enabled finds nothing, and a guest that kept to the
\* discipline serves one irq, with the latch full while it does.
OtherContextsOff == \A c \in {0, 1} \ Contexts : enables[c] = {}
LatchWhole == interrupting_irq = NoIrq <=> interrupting_ctx = NoCtx
OneInService ==
  sequential => /\ panic = "none"
                /\ serving # {} => interrupting_irq # NoIrq
                /\ \A i, j \in serving : i = j

Shape == TypeOK /\ OtherContextsOff /\ LatchWhole
IInv  == Shape /\ ClaimAccounted /\ OneInService

\* No device has the number that stands for an empty latch.
LEMMA IrqNumbers == NoIrq \notin Irqs
BY IrqsAssumption, SMT DEF NoIrq

\* The irq and context a search finds are a device's and an enabled context's.
LEMMA FoundIsEnabled ==
  ASSUME Shape, NEW irq \in Irqs, NEW p \in Eligible(pending \cup {irq})
  PROVE  /\ p[1] \in Irqs /\ p[1] \in pending \cup {irq} /\ p[1] # NoIrq
         /\ p[2] \in Contexts /\ p[2] # NoCtx
<1>1. /\ p[1] \in pending \cup {irq} /\ p[2] \in {0, 1}
      /\ p[1] \in enables[p[2]]
  BY DEF Eligible
<1>2. p[1] \in Irqs
  BY <1>1 DEF Shape, TypeOK, PlicTypeOK
<1>3. p[1] # NoIrq
  BY <1>2, IrqNumbers
<1>4. p[2] \in Contexts
  BY <1>1 DEF Shape, OtherContextsOff
<1>5. p[2] # NoCtx
  BY <1>1, SMT DEF NoCtx
<1> QED
  BY <1>1, <1>2, <1>3, <1>4, <1>5

\* The two external lines are different bits.
LEMMA Lines ==
  /\ \A c \in {0, 1} : Line(c) \in {SEIP, MEIP}
  /\ Line(0) # Line(1) /\ Line(1) = SEIP /\ Line(0) = MEIP
BY SMT DEF Line, SEIP, MEIP

-----------------------------------------------------------------------------
\* What Raise does, in the two cases of the search.
LEMMA RaiseCases ==
  ASSUME Shape, NEW irq \in Irqs, RaiseIrq(irq)
  PROVE  /\ pending' = pending \cup {irq}
         /\ UNCHANGED <<priorities, enables, threasholds, panic>>
         /\ \/ UNCHANGED <<interrupting_irq, interrupting_ctx, mip>>
            \/ /\ interrupting_irq' \in Irqs /\ interrupting_irq' \in pending'
               /\ interrupting_irq' # NoIrq
               /\ interrupting_ctx' \in Contexts /\ interrupting_ctx' # NoCtx
               /\ mip' = mip \cup {Line(interrupting_ctx')}
<1>1. /\ pending' = pending \cup {irq}
      /\ UNCHANGED <<priorities, enables, threasholds, panic>>
  BY DEF RaiseIrq, plicRegs
<1>2. CASE Eligible(pending \cup {irq}) = {}
  BY <1>1, <1>2 DEF RaiseIrq, plicLatch
<1>3. CASE Eligible(pending \cup {irq}) # {}
  <2>1. \/ UNCHANGED <<interrupting_irq, interrupting_ctx, mip>>
        \/ \E p \in Eligible(pending \cup {irq}) :
             /\ interrupting_irq' = p[1] /\ interrupting_ctx' = p[2]
             /\ mip' = mip \cup {Line(p[2])}
    BY DEF RaiseIrq, plicLatch
  <2> QED
    BY <1>1, <2>1, FoundIsEnabled
<1> QED
  BY <1>2, <1>3

\* The shape of the state, action by action.
LEMMA ShapeStep ==
  ASSUME Shape, [Next]_vars
  PROVE  Shape'
<1> USE DEF Shape, TypeOK, PlicTypeOK, OtherContextsOff, LatchWhole
<1>1. CASE UNCHANGED vars
  BY <1>1 DEF vars, guest, plicVars, plicRegs, plicLatch
<1>2. CASE Raise
  <2>1. PICK irq \in Irqs : RaiseIrq(irq) /\ UNCHANGED guest
    BY <1>2 DEF Raise
  <2>2. \A c \in Contexts : c \in {0, 1}
    BY ContextsAssumption
  <2>3. mip' \subseteq {SEIP, MEIP} /\ pending' \subseteq Irqs
    <3>1. CASE UNCHANGED mip
      BY <2>1, <3>1, RaiseCases
    <3>2. CASE /\ interrupting_ctx' \in Contexts
               /\ mip' = mip \cup {Line(interrupting_ctx')}
      BY <2>1, <2>2, <3>2, RaiseCases, Lines
    <3> QED
      BY <2>1, <3>1, <3>2, RaiseCases
  <2>4. /\ interrupting_irq' \in Irqs \cup {NoIrq}
        /\ interrupting_ctx' \in Contexts \cup {NoCtx}
        /\ interrupting_irq' = NoIrq <=> interrupting_ctx' = NoCtx
    BY <2>1, RaiseCases
  <2> QED
    BY <2>1, <2>3, <2>4, RaiseCases DEF guest
<1>3. CASE TickIdle
  BY <1>3 DEF TickIdle, ClearSeip, plicRegs, plicLatch, guest
<1>4. CASE GuestClaim
  BY <1>4 DEF GuestClaim, Claim, ClaimValue, plicRegs, plicLatch
<1>5. CASE GuestComplete
  <2>1. PICK irq \in Irqs :
          /\ Complete(irq)
          /\ sequential' = (sequential /\ irq \in serving)
          /\ serving' = serving \ {irq}
    BY <1>5 DEF GuestComplete
  <2>2. /\ UNCHANGED <<plicRegs, pending>> /\ mip' \subseteq mip
        /\ serving' \subseteq Irqs /\ sequential' \in BOOLEAN
        /\ panic' \in {panic, "plic: completion with nothing latched"}
    BY <2>1 DEF Complete, CompletePanic, CompleteLatched, CompleteOther,
       plicVars
  <2>3. \/ UNCHANGED plicLatch
        \/ interrupting_irq' = NoIrq /\ interrupting_ctx' = NoCtx
    BY <2>1 DEF Complete, CompletePanic, CompleteLatched, CompleteOther,
       plicVars
  <2> QED
    BY <2>2, <2>3 DEF plicRegs, plicLatch
<1>6. CASE GuestConfigure
  <2>1. UNCHANGED <<pending, plicLatch, mip, panic, guest>>
    BY <1>6 DEF GuestConfigure, WritePriority, WriteEnable, WriteThreashold
  <2>2. /\ priorities' \in [Irqs -> Nat] /\ threasholds' \in [{0, 1} -> Nat]
        /\ enables' \in [{0, 1} -> SUBSET Irqs]
        /\ \A c \in {0, 1} \ Contexts : enables'[c] = {}
    <3>1. CASE \E i \in Irqs, v \in Priorities : WritePriority(i, v)
      BY <3>1, PrioritiesAssumption DEF WritePriority
    <3>2. CASE \E c \in Contexts, on \in SUBSET Irqs : WriteEnable(c, on)
      <4>1. PICK c \in Contexts, on \in SUBSET Irqs : WriteEnable(c, on)
        BY <3>2
      <4>2. /\ enables' = [enables EXCEPT ![c] = on]
            /\ UNCHANGED <<priorities, threasholds>>
        BY <4>1 DEF WriteEnable
      <4>3. enables' \in [{0, 1} -> SUBSET Irqs]
        BY <4>2
      <4>4. \A d \in {0, 1} \ Contexts : enables'[d] = enables[d]
        BY <4>2
      <4> QED
        BY <4>2, <4>3, <4>4
    <3>3. CASE \E c \in {0, 1}, v \in Priorities : WriteThreashold(c, v)
      BY <3>3, PrioritiesAssumption DEF WriteThreashold
    <3> QED
      BY <1>6, <3>1, <3>2, <3>3 DEF GuestConfigure
  <2> QED
    BY <2>1, <2>2 DEF plicLatch, guest
<1> QED
  BY <1>1, <1>2, <1>3, <1>4, <1>5, <1>6 DEF Next

\* A latched irq stays accounted for.
LEMMA ClaimStep ==
  ASSUME Shape, ClaimAccounted, [Next]_vars
  PROVE  ClaimAccounted'
<1> USE DEF ClaimAccounted
<1>1. CASE UNCHANGED vars
  BY <1>1 DEF vars, guest, plicVars, plicLatch
<1>2. CASE Raise
  <2>1. PICK irq \in Irqs : RaiseIrq(irq) /\ UNCHANGED guest
    BY <1>2 DEF Raise
  <2> QED
    BY <2>1, RaiseCases DEF guest
<1>3. CASE TickIdle \/ GuestConfigure
  BY <1>3 DEF TickIdle, ClearSeip, GuestConfigure, WritePriority, WriteEnable,
     WriteThreashold, plicLatch, guest
<1>4. CASE GuestClaim
  BY <1>4 DEF GuestClaim, Claim, ClaimValue, plicLatch
<1>5. CASE GuestComplete
  BY <1>5 DEF GuestComplete, Complete, CompletePanic, CompleteLatched,
     CompleteOther, plicVars, plicLatch
<1> QED
  BY <1>1, <1>2, <1>3, <1>4, <1>5 DEF Next

\* The disciplined guest has one irq in service, and the latch holds one.
LEMMA ServiceStep ==
  ASSUME Shape, OneInService, [Next]_vars
  PROVE  OneInService'
<1> USE DEF OneInService
<1>1. CASE UNCHANGED vars
  BY <1>1 DEF vars, guest, plicVars, plicLatch
<1>2. CASE Raise
  <2>1. PICK irq \in Irqs : RaiseIrq(irq) /\ UNCHANGED guest
    BY <1>2 DEF Raise
  <2> QED
    BY <2>1, RaiseCases DEF guest
<1>3. CASE TickIdle \/ GuestConfigure
  BY <1>3 DEF TickIdle, ClearSeip, GuestConfigure, WritePriority, WriteEnable,
     WriteThreashold, plicLatch, guest
<1>4. CASE GuestClaim
  BY <1>4 DEF GuestClaim, Claim, ClaimValue, plicLatch, Shape, TypeOK
<1>5. CASE GuestComplete
  <2>1. PICK irq \in Irqs :
          /\ Complete(irq)
          /\ sequential' = (sequential /\ irq \in serving)
          /\ serving' = serving \ {irq}
    BY <1>5 DEF GuestComplete
  <2>2. CASE ~sequential \/ irq \notin serving
    BY <2>1, <2>2 DEF Shape, TypeOK
  <2>3. CASE sequential /\ irq \in serving
    <3>1. serving' = {} /\ panic = "none" /\ interrupting_irq # NoIrq
      BY <2>1, <2>3
    <3>2. panic' = "none"
      BY <2>1, <3>1 DEF Complete, CompletePanic, CompleteLatched,
         CompleteOther, plicVars
    <3> QED
      BY <3>1, <3>2
  <2> QED
    BY <2>2, <2>3
<1> QED
  BY <1>1, <1>2, <1>3, <1>4, <1>5 DEF Next

LEMMA IInvInductive ==
  /\ Init => IInv
  /\ IInv /\ [Next]_vars => IInv'
<1>1. Init => Shape
  BY SMT DEF Init, PlicInit, Shape, TypeOK, PlicTypeOK, OtherContextsOff, LatchWhole
<1>2. Init => ClaimAccounted /\ OneInService
  BY DEF Init, PlicInit, ClaimAccounted, OneInService
<1>3. IInv /\ [Next]_vars => IInv'
  BY ShapeStep, ClaimStep, ServiceStep DEF IInv
<1> QED
  BY <1>1, <1>2, <1>3 DEF IInv

-----------------------------------------------------------------------------
\* struct Plic keeps its shape under every access.
THEOREM PlicTypeCorrect == Spec => []TypeOK
<1>1. IInv => TypeOK
  BY DEF IInv, Shape
<1> QED
  BY <1>1, IInvInductive, PTL DEF Spec

\* No claim ever returns an irq that was not raised, or raised and not served.
THEOREM NoPhantomClaim == Spec => []ClaimAccounted
<1>1. IInv => ClaimAccounted
  BY DEF IInv
<1> QED
  BY <1>1, IInvInductive, PTL DEF Spec

\* The unwrap of plic.rs 116 never fails for a guest that serves one interrupt
\* at a time, with either context or both enabled.
THEOREM CompletionNeverPanics == Spec => []CompletionFindsLatch
<1>1. IInv => CompletionFindsLatch
  BY DEF IInv, OneInService, CompletionFindsLatch
<1> QED
  BY <1>1, IInvInductive, PTL DEF Spec

\* Only a claim that returns an irq makes the controller forget it.
THEOREM NothingForgotten == Spec => ForgottenOnlyByClaim
<1> DEFINE Kept == \A i \in pending :
                     i \notin pending' => /\ i = interrupting_irq
                                          /\ interrupting_ctx # NoCtx
                                          /\ i \in serving'
<1>1. IInv /\ [Next]_vars => [Kept]_vars
  <2> SUFFICES ASSUME IInv, Next PROVE Kept
    BY DEF vars
  <2>1. CASE Raise
    BY <2>1, RaiseCases DEF Raise, IInv
  <2>2. CASE TickIdle \/ GuestConfigure
    BY <2>2 DEF TickIdle, ClearSeip, GuestConfigure, WritePriority,
       WriteEnable, WriteThreashold
  <2>3. CASE GuestClaim
    <3>1. \A i \in pending : i # NoIrq
      BY IrqNumbers DEF IInv, Shape, TypeOK, PlicTypeOK
    <3> QED
      BY <2>3, <3>1 DEF GuestClaim, Claim, ClaimValue, IInv, Shape, LatchWhole
  <2>4. CASE GuestComplete
    BY <2>4 DEF GuestComplete, Complete, CompletePanic, CompleteLatched,
       CompleteOther, plicVars
  <2> QED
    BY <2>1, <2>2, <2>3, <2>4 DEF Next
<1> QED
  BY <1>1, IInvInductive, PTL DEF Spec, ForgottenOnlyByClaim

-----------------------------------------------------------------------------
\* With one context in use, that context's line is the only one that can be
\* up, and it is up only while the latch is full.
OneLine == LinesFollowLatch /\ \A c \in {0, 1} \ Contexts : Line(c) \notin mip

LEMMA OneLineStep ==
  ASSUME \A a, b \in Contexts : a = b, Shape, OneLine, [Next]_vars
  PROVE  OneLine'
<1> USE DEF OneLine, LinesFollowLatch
<1>1. CASE UNCHANGED vars
  BY <1>1 DEF vars, plicVars, plicLatch
<1>2. CASE Raise
  <2>1. PICK irq \in Irqs : RaiseIrq(irq)
    BY <1>2 DEF Raise
  <2>2. CASE UNCHANGED <<interrupting_irq, interrupting_ctx, mip>>
    BY <2>2
  <2>3. CASE /\ interrupting_ctx' \in Contexts
             /\ mip' = mip \cup {Line(interrupting_ctx')}
    <3>1. \A c \in {0, 1} : Line(c) = Line(interrupting_ctx') => c = interrupting_ctx'
      BY <2>3, ContextsAssumption, Lines
    <3>2. ASSUME NEW c \in {0, 1}, Line(c) \in mip'
          PROVE  interrupting_ctx' = c
      BY <2>3, <3>1, <3>2
    <3>3. ASSUME NEW c \in {0, 1} \ Contexts
          PROVE  Line(c) \notin mip'
      BY <2>3, <3>1, <3>3
    <3> QED
      BY <3>2, <3>3
  <2> QED
    BY <2>1, <2>2, <2>3, RaiseCases
<1>3. CASE TickIdle \/ GuestConfigure \/ GuestClaim
  BY <1>3 DEF TickIdle, ClearSeip, GuestConfigure, WritePriority, WriteEnable,
     WriteThreashold, GuestClaim, Claim, plicLatch
<1>4. CASE GuestComplete
  BY <1>4 DEF GuestComplete, Complete, CompletePanic, CompleteLatched,
     CompleteOther, plicVars, plicLatch
<1> QED
  BY <1>1, <1>2, <1>3, <1>4 DEF Next

\* While one context is in use, an external line that is up belongs to the
\* latched context.
THEOREM OneContextLines ==
  ASSUME \A a, b \in Contexts : a = b
  PROVE  Spec => []LinesFollowLatch
<1>1. Init => OneLine
  BY DEF Init, OneLine, LinesFollowLatch
<1>2. IInv /\ OneLine /\ [Next]_vars => OneLine'
  BY OneLineStep DEF IInv
<1>3. OneLine => LinesFollowLatch
  BY DEF OneLine
<1> QED
  BY <1>1, <1>2, <1>3, IInvInductive, PTL DEF Spec

\* ... so the unwrap of bus.rs 219 never fails with one context in use.  With
\* both it does: the run plic_two_contexts.
THEOREM OneContextBacked ==
  ASSUME \A a, b \in Contexts : a = b
  PROVE  Spec => []SeipBacked
<1>1. IInv /\ LinesFollowLatch => SeipBacked
  BY Lines, SMT DEF IInv, Shape, LatchWhole, LinesFollowLatch, SeipBacked, NoCtx
<1> QED
  BY <1>1, OneContextLines, IInvInductive, PTL DEF Spec
=============================================================================
