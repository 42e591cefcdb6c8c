SPECIFICATION FairSpec
CONSTANTS
  Async = {2, 3}
  NUM_THREADS = 2
  MaxSigs = 3
  MaxSent = 3
  Own = c1
  Inherited = {c2, c3}
  MaxKills = 2
  c1_slptm = 3
  c2_slptm = 4
  MAX = 3
  MaxSends = 3
  Values = {1, 2}
  QMax = 2
  NSec = 2
INVARIANTS TypeOK SignalsContained NothingForgotten
PROPERTIES SignalHandled ProgramEnds
CHECK_DEADLOCK FALSE
