SPECIFICATION Spec
CONSTANTS
  Limits = {3, 4, 7, 16}
  Million = 3
  Secs = {0, 1}
  LongBits = 5
  IntBits = 3
  Columns = 2
  Sizes = {0, 3}
  Offsets = {0}
  LabelBase = 2
  LabelMax = 4
INVARIANT PrimesOnly
CHECK_DEADLOCK FALSE
