SPECIFICATION FairSpec
CONSTANTS
  Procs = {p1, p2}
  MaxTries = 2
PROPERTY InitialiserLocks
CHECK_DEADLOCK FALSE
