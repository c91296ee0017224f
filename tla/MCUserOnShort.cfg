SPECIFICATION Spec
CONSTANTS
  NodeCount = 3
  InitSlots = 0
  MaxInbox = 0
INVARIANT
  HoleIsFree
CHECK_DEADLOCK FALSE
