SPECIFICATION FairSpec
CONSTANTS
  MaxInput = 4
  MaxSize = 6
  MaxSignals = 1
  MILLION = 3
  MaxTime = 9
  N = 9
  INT_MAX = 3
  OldSize = 2
  BLKSIZE = 3
  Interrupts = 2
  PAGE = 2
  MapMax = 9
  Limits = {3, 4, 7, 16}
  Secs = {0, 1, 2}
  LongBits = 5
  IntBits = 3
  Columns = 2
  Sizes = {0, 3, 4, 6}
  Offsets = {0, 1, 3}
  LabelBase = 2
  LabelMax = 4
INVARIANTS TypeOK BytesRight DeadlineKept Conserved TotalHonest ConversionsRight
PROPERTIES ImplementsTransfer CallReturns
CHECK_DEADLOCK FALSE
