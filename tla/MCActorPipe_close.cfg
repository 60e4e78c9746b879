SPECIFICATION Spec
CONSTANTS
  Hwm = 3
  MaxCommand = 2
  MaxEvent = 0
INVARIANT CloseWaits
CHECK_DEADLOCK FALSE
