\* Nested traps of both levels under disciplined handlers.
CONSTANTS
  XlenSize = 8
  EntryPoints = {0}
  StatusWrites <- StSome
  IeWrites <- IeSome
  IpWrites <- IpSome
  DelegWrites <- Delegs
  EdelegWrites = {{}, {8, 13}}
  AddrWrites = {0, 6}
  DeviceBits = {5, 9}
SPECIFICATION FSpec
INVARIANT FramesConsistent
PROPERTY ImplementsTrapStack
