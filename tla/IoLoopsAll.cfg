SPECIFICATION Spec
CONSTANTS
  MaxInput = 1
  MaxSize = 3
  MaxSignals = 0
INVARIANT AllTransferred
CHECK_DEADLOCK FALSE
