SPECIFICATION FairRestartSpec
CONSTANTS
  Clients = {c1, c2, c3}
  MaxSemCount = 2
  MaxRuns = 2
  MaxMsg = 1
INVARIANTS TypeOK TokensBounded ConnectedBounded TokensConserved
PROPERTY WaiterServed
CHECK_DEADLOCK FALSE
