\* A store after a load to a page that is not writable (expected violation).
CONSTANTS
  Size = 2
  Frames <- FourFrames
  TlbSize = 2
  Writable <- Editable
  Roots = {0, 7}
  FirstTables <- Tables
  MppValues = {0, 1, 2}
  MaxEdits = 0
SPECIFICATION Spec
INVARIANTS StoreChecked
CHECK_DEADLOCK FALSE
