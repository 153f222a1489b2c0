\* A ring of four bytes, pieces of every length on both sides of the wrap.
CONSTANTS
  MaxLen = 7
  Bytes = 6
  Size = 4
SPECIFICATION OutputSpec
INVARIANTS
  RemovedWereSent
  SentAsAsked
