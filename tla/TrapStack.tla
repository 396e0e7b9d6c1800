----------------------------- MODULE TrapStack -----------------------------
(***************************************************************************)
(* What trap entry and return promise to software, without registers: a    *)
(* stack of interrupted contexts.  A trap pushes the running context,      *)
(* whole; a return pops it, whole.  A handler may redirect the context it  *)
(* returns to (an ecall is skipped), and only a handler of a higher level  *)
(* interrupts a handler.                                                   *)
(***************************************************************************)
EXTENDS Integers, Sequences

CONSTANTS Levels,     \* privilege levels, as numbers
          Handlers,   \* the levels that handle traps
          Top,        \* the highest one, whose interrupt enable is mie
          Pcs         \* addresses

VARIABLES ctx,    \* the running context
          stack   \* the interrupted ones, the last on top

vars == <<ctx, stack>>

Contexts == [prv : Levels, pc : Pcs, sie : BOOLEAN, mie : BOOLEAN]

Init == ctx \in Contexts /\ stack = <<>>

Running == ctx' \in Contexts

\* The running context goes on; in a handler its enables do not move.
Run ==
  /\ Running /\ ctx'.prv = ctx.prv
  /\ stack # <<>> => ctx'.sie = ctx.sie /\ ctx'.mie = ctx.mie
  /\ UNCHANGED stack

\* A trap to a level: that level's enable is cleared, the other one kept.
Enter ==
  /\ Running /\ ctx'.prv \in Handlers /\ ctx'.prv >= ctx.prv
  /\ stack # <<>> => ctx'.prv > ctx.prv
  /\ ctx'.sie = (ctx.sie /\ ctx'.prv = Top)
  /\ ctx'.mie = (ctx.mie /\ ctx'.prv # Top)
  /\ stack' = Append(stack, ctx)

\* The handler redirects what it will return to, while it runs on.
Adjust ==
  /\ stack # <<>>
  /\ \E target \in Pcs, next \in Pcs :
       /\ stack' = [stack EXCEPT ![Len(stack)].pc = target]
       /\ ctx' = [ctx EXCEPT !.pc = next]

Leave ==
  /\ stack # <<>>
  /\ ctx' = stack[Len(stack)]
  /\ stack' = SubSeq(stack, 1, Len(stack) - 1)

\* Software starts a context at its own level or below.
Launch ==
  /\ stack = <<>>
  /\ Running /\ ctx'.prv <= ctx.prv
  /\ UNCHANGED stack

Next == Run \/ Enter \/ Adjust \/ Leave \/ Launch

Spec == Init /\ [][Next]_vars
=============================================================================
