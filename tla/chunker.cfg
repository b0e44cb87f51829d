SPECIFICATION Spec
CONSTANTS
  Size = 4
  Overlap = 2
  MaxLength = 8
CHECK_DEADLOCK FALSE
INVARIANTS
  ChunkerTypeOK
  WithinSize
  PassagesKept
PROPERTIES
  Terminates
