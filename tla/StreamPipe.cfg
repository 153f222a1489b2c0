\* Three bytes into two, so that the rings wrap at different times.
CONSTANTS
  MaxLen = 7
  Bytes = 2
  InSize = 3
  OutSize = 2
  Limits <- SomeLimits
SPECIFICATION Spec
INVARIANTS
  BothSound
PROPERTIES
  OnePipe
  TransfersAreWhole
