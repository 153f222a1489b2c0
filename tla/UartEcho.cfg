\* The output wraps, the input fills.  Behind the first disturbance the
\* properties say nothing: the run ends with the step that brings it.
CONSTANTS
  MaxLen = 7
  Bytes = 5
  SizeIn = 1
  SizeOut = 2
  MaxWire = 1
  MaxFailures = 1
SPECIFICATION FairSpec
CONSTRAINT Undisturbed
PROPERTIES
  
  RefusalIsTemporary
  EveryByteEchoed
  WireServed
\* The process may end: exit(0).
CHECK_DEADLOCK FALSE
