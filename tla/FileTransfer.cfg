\* Every request, over a network that may fail at any time, to its end.
SPECIFICATION FairSpec
CONSTANTS
  Block = 3
  Thres = 6
  MaxWaitLoop = 3
  Capacity = 1
  Asks <- Everything
  MaxPolls = 3
  MaxContent = 8
INVARIANTS
  PulledWhole
  FailuresHaveReasons
  UnionsAreReadAsWritten
PROPERTIES
  EveryPullReturns
  EveryConnectionIsClosed
\* A connection ends.
CHECK_DEADLOCK FALSE
