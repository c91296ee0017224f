SPECIFICATION Spec
CONSTANTS
  Posters = {p1}
  Markers = {m1}
  Readers = {r1}
  OldBases <- MCOldBases
  MaxPosts = 2
  MaxMarks = 2
INVARIANTS
  PostedReadable
  ReadersSeeWhole
  MarkHitsTarget
  MarksStick
PROPERTY
  IsABoard
CHECK_DEADLOCK FALSE
