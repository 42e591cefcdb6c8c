SPECIFICATION FairSpec
CONSTANTS
  Processes = {p1, p2, p3}
  Removers = {r1}
  MaxTries = 2
  MaxRetries = 2
  MaxSets = 2
  MaxRuns = 3
  MaxMsg = 1
  LEN = 2
  Times = 4
  Chunk = 3
  Rounds = 3
  Senders = {s1, s2, s3}
  PrioMax = 2
  QueueMax = 2
  MaxStarts = 2
  Writers = {w1, w2}
  Readers = {m1, m2}
  MAX = 3
  CAP = 2
  Lines = 4
  N = 3
  MaxLines = 2
  MaxStops = 2
  ObjectRuns = 2
  NUM = 2
  LINELENGTH = 3
  SIZE = 8
INVARIANTS TypeOK MutualExclusion UnitConserved  ChildrenAccounted
PROPERTIES LockObtained ProgramEnds
CHECK_DEADLOCK FALSE
