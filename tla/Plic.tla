-------------------------------- MODULE Plic --------------------------------
(***************************************************************************)
(* bus/plic.rs: the interrupt controller and the two lines it drives into  *)
(* mip.  Unlike the PLIC of the RISC-V specification it has ONE latch      *)
(* (interrupting_irq, interrupting_ctx) for both contexts, it looks for an *)
(* interrupt only when raise_interrupt is called, it claims without        *)
(* clearing the latch, and it clears a line only on completion.            *)
(*                                                                         *)
(* The guest's register accesses are inputs: any register, any value.      *)
(* Sizes other than 4 and contexts above 1 stop the program                *)
(* (unimplemented!()) and are not inputs.                                  *)
(***************************************************************************)
EXTENDS Integers, CsrOps

CONSTANTS
  Irqs,        \* the interrupt numbers of the devices on the bus
  Contexts,    \* the contexts the guest enables: 0 is M mode, 1 is S mode
  Priorities   \* the values the guest writes to priorities and thresholds

ASSUME IrqsAssumption       == Irqs \subseteq 1..31
ASSUME ContextsAssumption   == Contexts \subseteq {0, 1}
ASSUME PrioritiesAssumption == Priorities \subseteq Nat

VARIABLES
  priorities,       \* [Irqs -> Nat]
  pending,          \* set of irqs
  enables,          \* per context, the set of enabled irqs
  threasholds,      \* per context (the source's spelling)
  interrupting_irq, \* the latched irq, NoIrq for Option::None
  interrupting_ctx, \* the latched context, NoCtx for Option::None
  mip,              \* the bits of mip
  panic             \* why the simulator stopped, "none" while it runs

plicRegs  == <<priorities, enables, threasholds>>
plicLatch == <<interrupting_irq, interrupting_ctx>>
plicVars  == <<plicRegs, pending, plicLatch, mip, panic>>

NoIrq == 0
NoCtx == 2
Line(ctx) == IF ctx = 0 THEN MEIP ELSE SEIP

PlicInit ==
  /\ priorities = [i \in Irqs |-> 0]
  /\ pending = {}
  /\ enables = [c \in {0, 1} |-> {}]
  /\ threasholds = [c \in {0, 1} |-> 0]
  /\ interrupting_irq = NoIrq
  /\ interrupting_ctx = NoCtx

-----------------------------------------------------------------------------
\* Mutant: the search forgets the enable bits.
EligibleThoughDisabled(pend) ==
  {p \in pend \X {0, 1} : priorities[p[1]] > threasholds[p[2]]}

\* Plic::find_interrupt_active: the pairs it assigns to target_irq and
\* target_ctx.  A priority is compared with a threshold only, so the pair
\* that stays is the last in the order of the two loops.
Eligible(pend) ==
  {p \in pend \X {0, 1} : /\ p[1] \in enables[p[2]]
                          /\ priorities[p[1]] > threasholds[p[2]]}

IsLast(p, E) ==
  /\ p \in E
  /\ \A q \in E : q[1] < p[1] \/ (q[1] = p[1] /\ q[2] <= p[2])

\* Bus::raise_irq followed by Bus::raise_interrupt.
RaiseIrq(irq) ==
  LET pend == pending \cup {irq} IN
  /\ panic = "none"
  /\ pending' = pend
  /\ \/ /\ Eligible(pend) = {}
        /\ UNCHANGED <<plicLatch, mip>>
     \/ \E p \in Eligible(pend) :
          /\ IsLast(p, Eligible(pend))
          /\ interrupting_irq' = p[1]
          /\ interrupting_ctx' = p[2]
          /\ mip' = mip \cup {Line(p[2])}
  /\ UNCHANGED <<plicRegs, panic>>

\* The else branch of Bus::tick: no device asked, so SEIP is dropped.
ClearSeip ==
  /\ panic = "none"
  /\ mip' = mip \ {SEIP}
  /\ UNCHANGED <<plicRegs, pending, plicLatch, panic>>

\* Plic::read of a claim register.  The latch stays until completion.
ClaimValue == interrupting_irq

\* Mutant: a claim empties the latch.
ClaimUnlatches ==
  /\ panic = "none"
  /\ pending' = pending \ {ClaimValue}
  /\ interrupting_irq' = NoIrq /\ interrupting_ctx' = NoCtx
  /\ UNCHANGED <<plicRegs, mip, panic>>

Claim ==
  /\ panic = "none"
  /\ pending' = pending \ {ClaimValue}
  /\ UNCHANGED <<plicRegs, plicLatch, mip, panic>>

\* Plic::write of a completion register.
CompletePanic ==
  /\ interrupting_irq = NoIrq
  /\ panic' = "plic: completion with nothing latched"
  /\ UNCHANGED <<plicRegs, pending, plicLatch, mip>>

\* Mutants: a completion leaves the irq latched, leaves the line up, or
\* clears the pending bit that a later raise has set.
CompleteStaysLatched(value) ==
  /\ interrupting_irq # NoIrq
  /\ interrupting_irq = value
  /\ mip' = mip \ {Line(interrupting_ctx)}
  /\ UNCHANGED <<plicRegs, plicLatch, pending, panic>>

CompleteKeepsLine(value) ==
  /\ interrupting_irq # NoIrq
  /\ interrupting_irq = value
  /\ interrupting_irq' = NoIrq
  /\ interrupting_ctx' = NoCtx
  /\ UNCHANGED <<plicRegs, pending, mip, panic>>

CompleteForgets(value) ==
  /\ interrupting_irq # NoIrq
  /\ interrupting_irq = value
  /\ interrupting_irq' = NoIrq
  /\ interrupting_ctx' = NoCtx
  /\ mip' = mip \ {Line(interrupting_ctx)}
  /\ pending' = pending \ {value}
  /\ UNCHANGED <<plicRegs, panic>>

CompleteLatched(value) ==
  /\ interrupting_irq # NoIrq
  /\ interrupting_irq = value
  /\ interrupting_irq' = NoIrq
  /\ interrupting_ctx' = NoCtx
  /\ mip' = mip \ {Line(interrupting_ctx)}
  /\ UNCHANGED <<plicRegs, pending, panic>>

CompleteOther(value) ==
  /\ interrupting_irq # NoIrq
  /\ interrupting_irq # value
  /\ UNCHANGED plicVars

Complete(value) ==
  /\ panic = "none"
  /\ CompletePanic \/ CompleteLatched(value) \/ CompleteOther(value)

\* Plic::write of the other registers: none of them looks for an interrupt.
WritePriority(irq, value) ==
  /\ panic = "none"
  /\ priorities' = [priorities EXCEPT ![irq] = value]
  /\ UNCHANGED <<enables, threasholds, pending, plicLatch, mip, panic>>

WriteEnable(ctx, value) ==
  /\ panic = "none"
  /\ enables' = [enables EXCEPT ![ctx] = value]
  /\ UNCHANGED <<priorities, threasholds, pending, plicLatch, mip, panic>>

WriteThreashold(ctx, value) ==
  /\ panic = "none"
  /\ threasholds' = [threasholds EXCEPT ![ctx] = value]
  /\ UNCHANGED <<priorities, enables, pending, plicLatch, mip, panic>>

-----------------------------------------------------------------------------
PlicTypeOK ==
  /\ priorities \in [Irqs -> Nat]
  /\ pending \subseteq Irqs
  /\ enables \in [{0, 1} -> SUBSET Irqs]
  /\ threasholds \in [{0, 1} -> Nat]
  /\ interrupting_irq \in Irqs \cup {NoIrq}
  /\ interrupting_ctx \in Contexts \cup {NoCtx}
=============================================================================
