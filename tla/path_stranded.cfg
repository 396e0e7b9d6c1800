\* Enabling an irq that waits in pending, or SEIE after an empty tick took
\* the line of a latched one away (expected violation).
CONSTANTS
  Irqs <- Devices
  Contexts = {1}
  Priorities = {0, 1}
  NoChar = 0
  GuestOps <- OpsPlic
  MaxTyped = 1
  MaxPackets = 1
  MaxTx = 0
  MaxQueue = 1
SPECIFICATION Spec
INVARIANTS DeliverableIsRaised
