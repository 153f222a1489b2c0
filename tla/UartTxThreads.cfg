\* The program, whose threads overlap.
CONSTANTS
  MaxLen = 7
  Bytes = 4
  Size = 3
  MaxFailures = 0
SPECIFICATION Spec
INVARIANT Flushed
CHECK_DEADLOCK FALSE
