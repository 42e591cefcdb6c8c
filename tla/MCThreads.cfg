SPECIFICATION FairSpec
CONSTANTS
  NumThrds = 4
  TCount = 3
  CountLimit = 4
  Nobody = Nobody
  NUM_ITERATIONS = 3
  NUMTHRDS = 3
  VECLEN = 2
  n = 11
  nthreads = 4
  MaxSpurious = 4
  N = 3
INVARIANTS TypeOK InsideOwns UpdatesExact NoMissedSignal CleanupComplete
PROPERTY ProgramEnds
CHECK_DEADLOCK FALSE
