\* The program up to the first overlap of its calls.
CONSTANTS
  MaxLen = 7
  Bytes = 6
  Size = 3
  MaxWire = 2
SPECIFICATION FairSpec
INVARIANTS
  
  
  NoThreadLeftWaiting
PROPERTIES
  RequestKept
  
  BytesAreReceived
  BytesAreRead
CONSTRAINT UntilOverlap
CHECK_DEADLOCK FALSE
