SPECIFICATION Spec
CONSTANTS
  MaxLines = 2
  MaxStops = 2
INVARIANT NotUnblockedByStop
CHECK_DEADLOCK FALSE
