\* Two hosts, one of which is started anew; two scans of one or one of each.
SPECIFICATION Spec
CONSTANTS
  Hosts = {"ann", "bob"}
  Infos = {"i1", "i2"}
  Sends = 2
  MaxScans = 2
  MaxStarts = 3
  MaxInFlight = 3
INVARIANTS
  AnswersDoNotMultiply
  ListedAreRecent
PROPERTIES
  ScanEnds
\* Everyone may be off for good.
CHECK_DEADLOCK FALSE
