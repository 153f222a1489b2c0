\* The program, whose threads overlap.
CONSTANTS
  MaxLen = 7
  Bytes = 6
  Size = 3
  MaxWire = 2
SPECIFICATION Spec
INVARIANTS
  AvailableIsReceived
CHECK_DEADLOCK FALSE
