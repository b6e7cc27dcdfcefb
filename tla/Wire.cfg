CONSTANTS
  N = 3
  Sizes = {1, 3, 7, 8}
  Prefix = 2
  Wrap = 8
  WCap = 4
  SCap = 3
  RCap = 3
SPECIFICATION Spec
INVARIANTS InFrame OversizeNeverAccepted
PROPERTIES ImplementsStream Delivered AllEnd
CHECK_DEADLOCK FALSE
