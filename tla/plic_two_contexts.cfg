\* Both contexts enabled: a line outlives the latch (expected violation).
CONSTANTS
  Irqs = {1, 10}
  Contexts = {0, 1}
  Priorities = {0, 1}
SPECIFICATION Spec
INVARIANT SeipBacked
CHECK_DEADLOCK FALSE
