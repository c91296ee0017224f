SPECIFICATION FairSpec
CONSTANTS
  NodeCount = 2
  InitSlots = 2
  MaxInbox = 1
INVARIANTS
  PresenceTrue
  CleanEnd
  TagsNotInherited
  ShownFresh
  ShownOnce
PROPERTY
  HangUpEnds
CHECK_DEADLOCK FALSE
