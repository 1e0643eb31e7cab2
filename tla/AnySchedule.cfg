\* Every interleaving of the threads, each as slow as it likes.
SPECIFICATION Spec
CONSTANTS
  c1 = c1
  c2 = c2
  c3 = c3
  c4 = c4
  a1 = a1
  a2 = a2
  Conns = {c1, c2, c3, c4}
  Addrs = {a1, a2}
  AddrOf <- MCAddrOf
  PortOf <- MCPortOf
  Servs = {s1, s2, s3, s4}
  Threads = {t1, t2, t3}
SYMMETRY ServersAndThreads
INVARIANTS
  EveryConnectionIsTended
\* Every connection has come and gone.
CHECK_DEADLOCK FALSE
