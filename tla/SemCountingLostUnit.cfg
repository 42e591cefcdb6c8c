SPECIFICATION FairSpec
CONSTANTS
  Clients = {c1, c2, c3}
  MaxSemCount = 1
  MaxRuns = 1
  MaxMsg = 1
PROPERTIES
  NextClientGetsTurn
CHECK_DEADLOCK FALSE
