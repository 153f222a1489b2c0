\* The program up to the first overlap of its calls; one send fails.
CONSTANTS
  MaxLen = 7
  Bytes = 4
  Size = 3
  MaxFailures = 1
SPECIFICATION FairSpec
INVARIANTS
  TxInv
  NoLostSignal
  FlushedUntilOverlap
PROPERTIES
  BytesAreSent
CONSTRAINT UntilOverlap
CHECK_DEADLOCK FALSE
