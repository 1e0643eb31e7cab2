\* The threads scheduled as the sleeps expect, each of which goes on.
SPECIFICATION FairSpec
CONSTANTS
  c1 = c1
  c2 = c2
  c3 = c3
  c4 = c4
  a1 = a1
  a2 = a2
  Conns = {c1, c2, c4}
  Addrs = {a1, a2}
  AddrOf <- LiveAddrOf
  PortOf <- LivePortOf
  Servs = {s1, s2, s3}
  Threads = {t1, t2}
INVARIANTS
  OneThreadPerServer
  NoThreadOutlivesItsServer
  OnlyEmptyServersAreCollected
  DeletedOnce
PROPERTIES
  EveryConnectionEnds
  ServersAreForgotten
\* Every connection has come and gone.
CHECK_DEADLOCK FALSE
