\* Two clients in a row, two bytes each way.  The run ends with the last client.
CONSTANTS
  MaxClients = 2
  MaxSent = 2
  MaxArrived = 2
SPECIFICATION FairSpec
INVARIANTS
  OneSession
  PortGetsWhatWasSent
  DeliveredOnce
  OpenMeansServed
PROPERTIES
  OnlyToThePresent
  SessionsEnd
CHECK_DEADLOCK FALSE
