\* Any software, vectors and jump targets aligned or not, and an entry point and
\* CSR values the simulator stops at.
CONSTANTS
  XlenSize = 8
  EntryPoints = {0, 2}
  StatusWrites <- StatusOdd
  IeWrites <- IeAll
  IpWrites <- IpSoft
  DelegWrites <- SeiDelegated
  EdelegWrites = {{8}}
  AddrWrites = {0, 7}
  DeviceBits = {7, 9}
SPECIFICATION Spec
INVARIANT TypeOK
PROPERTIES StaysAligned CriticalSection Isolation GatedEntry
CHECK_DEADLOCK FALSE
