\* A ring of three bytes, with limits set and positions moved at any moment.
\* Behind a call that makes a limit false nothing is claimed: the run ends with
\* that call.
CONSTANTS
  MaxLen = 7
  Bytes = 2
  Size = 3
  Limits <- SomeLimits
  Widths <- OneOrTwo
  MaxElements = 2
SPECIFICATION CallsSpec
INVARIANTS
  TypeOK
  PositionsAgree
  LooksAhead
  FindsAndStops
PROPERTIES
  LimitsBreakOnlyByMoves
  ImplementsQueue
CONSTRAINT LimitsHold
