\* A network or a graphics device, its driver and its host.
CONSTANTS
  QueueSize = 2
  IdxMod = 4
  Jumbo = {4}
  FrameSize = 2
  MaxGen = 2
  MaxPackets = 4
  MaxInbox = 2
  MaxFrames = 2
  MaxCommands = 4
  Resources = {1}
  PageLists <- Backings
SPECIFICATION Spec

INVARIANTS
  TypeOK
  DriverNeverPanics
  TransmittedOnce
  ReturnIsSignalled
  DeviceFollowsDriver
  ReceivedInOrder
PROPERTIES
  QueuesImplement
  LostOnlyWithoutBuffer
CHECK_DEADLOCK FALSE
