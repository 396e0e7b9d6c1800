\* Any register access in any order.
CONSTANTS
  NoChar = 0
  MaxTyped = 4
  IerValues <- IerAll
SPECIFICATION Spec
INVARIANTS TypeOK NoOverrun NoDuplicate
PROPERTY LossOnlyByTransmit
