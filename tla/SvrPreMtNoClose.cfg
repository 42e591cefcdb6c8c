SPECIFICATION Spec
CONSTANTS
  Threads = {t1, t2}
  Clients = {c1, c2, c3}
  Nobody = Nobody
  MaxFds = 4
  QlenMax = 2
INVARIANT ClosedWhenServed
CHECK_DEADLOCK FALSE
