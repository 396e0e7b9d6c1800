\* Every thread operation, masking and reconfiguring included; the unwraps of
\* the path may stop the simulator once context 0 is enabled.
CONSTANTS
  Irqs <- Devices
  Contexts = {0, 1}
  Priorities = {0, 1}
  NoChar = 0
  GuestOps <- OpsAll
  MaxTyped = 2
  MaxPackets = 1
  MaxTx = 1
  MaxQueue = 2
SPECIFICATION Spec
INVARIANTS TypeOK NoPanic ServiceKeepsLatch Remembered LineOnlyDuringService
CHECK_DEADLOCK FALSE
