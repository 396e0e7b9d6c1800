\* A guest that leaves the transmit interrupt off.
CONSTANTS
  Irqs <- Devices
  Contexts = {1}
  Priorities = {0, 1}
  NoChar = 0
  GuestOps <- OpsReceive
  MaxTyped = 3
  MaxPackets = 1
  MaxTx = 0
  MaxQueue = 3
SPECIFICATION FairSpec
INVARIANTS NothingLost
PROPERTIES EveryCharRead EveryCompletionSeen
