---------------------------- MODULE PlicService ----------------------------
(***************************************************************************)
(* The PLIC under a guest that accesses its registers in any order while   *)
(* the bus raises irqs, with ghosts of what the guest has claimed and not  *)
(* completed, and of whether it kept to the discipline of a driver: claim  *)
(* when it serves nothing, complete what it claimed.                       *)
(***************************************************************************)
EXTENDS Plic

VARIABLES
  serving,     \* ghost: irqs a claim returned and no completion named since
  sequential   \* ghost: the guest never served two irqs at a time

guest == <<serving, sequential>>
vars  == <<plicVars, guest>>

Init ==
  /\ PlicInit
  /\ mip = {}
  /\ panic = "none"
  /\ serving = {} /\ sequential = TRUE

Raise == \E irq \in Irqs : RaiseIrq(irq) /\ UNCHANGED guest

TickIdle == ClearSeip /\ UNCHANGED guest

GuestClaim ==
  /\ Claim
  /\ sequential' = (sequential /\ serving = {})
  /\ serving' = serving \cup ({ClaimValue} \ {NoIrq})

GuestComplete ==
  \E irq \in Irqs :
    /\ Complete(irq)
    /\ sequential' = (sequential /\ irq \in serving)
    /\ serving' = serving \ {irq}

GuestConfigure ==
  /\ \/ \E irq \in Irqs, v \in Priorities : WritePriority(irq, v)
     \/ \E ctx \in Contexts, on \in SUBSET Irqs : WriteEnable(ctx, on)
     \/ \E ctx \in {0, 1}, v \in Priorities : WriteThreashold(ctx, v)
  /\ UNCHANGED guest

Next == Raise \/ TickIdle \/ GuestClaim \/ GuestComplete \/ GuestConfigure

Spec == Init /\ [][Next]_vars

-----------------------------------------------------------------------------
\* The state has the shape of struct Plic; the lines are the two external
\* bits, and only an enabled context can be latched.
TypeOK ==
  /\ PlicTypeOK
  /\ mip \subseteq {SEIP, MEIP}
  /\ panic \in {"none", "plic: completion with nothing latched"}
  /\ serving \subseteq Irqs
  /\ sequential \in BOOLEAN

\* A claim never hands out a phantom: the irq in the latch was raised and
\* not claimed since, or the guest is serving it already (plic.rs 62-71
\* clears pending at the claim and keeps the latch until completion).
ClaimAccounted ==
  interrupting_irq # NoIrq => interrupting_irq \in pending \cup serving

\* While SEIP is up something is latched, which is what prepare_interrupt
\* unwraps when the supervisor external interrupt is taken (bus.rs 218-219).
SeipBacked == SEIP \in mip => interrupting_irq # NoIrq

\* A line that is up belongs to the latched context, so the completion that
\* clears the latch clears it (plic.rs 118-127) and no line stays up alone.
LinesFollowLatch == \A c \in {0, 1} : Line(c) \in mip => interrupting_ctx = c

\* A guest that serves one interrupt at a time never meets the unwrap of an
\* empty latch at completion (plic.rs 116), however many irqs are raised and
\* whatever is reconfigured between its claim and its completion.
CompletionFindsLatch == sequential => panic = "none"

\* A raised irq is forgotten by nothing but a claim that returns it while it
\* is latched for a context: completions, configuration and idle ticks keep it.
ForgottenOnlyByClaim ==
  [][\A i \in pending :
       i \notin pending' => /\ i = interrupting_irq
                            /\ interrupting_ctx # NoCtx
                            /\ i \in serving']_vars
=============================================================================
