\* Locks of at least one byte.
CONSTANTS
  MaxLen = 7
  Bytes = 2
  Size = 3
  LockLens <- SomeBytes
SPECIFICATION Spec
INVARIANTS
  LockLensAreDone
  LocksKeepTheirPlace
PROPERTIES
  ImplementsQueue
