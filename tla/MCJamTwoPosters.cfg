SPECIFICATION Spec
CONSTANTS
  Posters = {p1, p2}
  Markers = {}
  Readers = {}
  OldBases <- MCNewBase
  MaxPosts = 2
  MaxMarks = 0
INVARIANT
  PostedReadable
CHECK_DEADLOCK FALSE
