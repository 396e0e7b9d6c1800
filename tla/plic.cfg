\* Any register access in any order, the S-mode context only; completing with
\* nothing latched stops the simulator.
CONSTANTS
  Irqs = {1, 2, 10}
  Contexts = {1}
  Priorities = {0, 1}
SPECIFICATION Spec
INVARIANTS TypeOK ClaimAccounted LinesFollowLatch CompletionFindsLatch
PROPERTY ForgottenOnlyByClaim
CHECK_DEADLOCK FALSE
