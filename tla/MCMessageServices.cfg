SPECIFICATION Spec
CONSTANTS
  AreaList <- MCAreaList
  BaseNum <- MCBaseNum
  Names <- MCNames
  Users = {"u", "v"}
  Handle <- MCHandle
  Readable <- All
  Writable <- MCWritable
  Sysop <- MCSysop
  GroupsOf <- MCGroupsOf
  Dirs = {"d1", "d2"}
  Nodes = {"n1", "n2"}
  UserOf <- MCUserOf
  Profiles <- MCProfiles
  MsgGroups = {2}
  Kind <- MCKind
  Attaching = {"a1"}
  MaxMailbox = 2
  Addressees = {"All", "v"}
  Conns = {"c"}
  Groups = {"a1", "a2"}
  ReadAuth = {"a1"}
  PostAuth = {"a1"}
  Posting = {"a1", "a2"}
  PostIds = {"i1", "i2"}
  Starts <- MCStarts
CHECK_DEADLOCK FALSE
INVARIANTS NewMailShown PointersKept AttachmentsApart NewsPosition
PROPERTY ReadingEnds
