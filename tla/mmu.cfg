\* A kernel that edits its tables, switches them and fences when it likes;
\* bad tables and a bad MPP stop the simulator.
CONSTANTS
  Size = 2
  Frames <- FourFrames
  TlbSize = 2
  Writable <- Editable
  Roots = {0, 7}
  FirstTables <- Tables
  MppValues = {0, 1, 2}
  MaxEdits = 2
SPECIFICATION Spec
INVARIANTS TypeOK TlbSound UserConfined WalkIsSv32
CHECK_DEADLOCK FALSE
