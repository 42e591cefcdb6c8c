SPECIFICATION FairSpec
CONSTANTS
  Threads = {t1, t2}
  Clients = {c1, c2, c3}
  FewClients = {c1, c2}
  Nobody = Nobody
  MaxFds = 4
  QlenMax = 2
  ForkFds = 2
  FewFds = 1
  QLENGTH = 1
  MaxSays = 2
  FdLimits = {4, 5}
  NoClient = NoClient
  Sizes = {0, 3}
  PAGE = 2
  SENDMAX = 2
  SOCKBUF = 2
INVARIANTS TypeOK OnePlace StopExplained AnsweredBeforeEof
PROPERTY ClientServed
CHECK_DEADLOCK FALSE
