SPECIFICATION Spec
CONSTANTS
  Processes = {"n1", "n2", "c1", "c2", "m"}
  Nodes = {"n1", "n2"}
  Local = {"n2"}
  Conns = {"c1", "c2"}
  Keeper = "m"
  Areas = {"a1", "a2"}
  NameList <- MCNameList
  UploadTo <- MCUploadTo
  DupeChecked = {"a2"}
  Moves = {}
  BadNames = {"f1"}
  MaxCount = 3
  DownloadFrom <- MCDownloadFrom
  UploadInto <- MCUploadInto
  MaxTagged = 2
  Commands <- MCCommands
  Typed <- MCTyped
  Limit = 1
  Groups = {"g"}
  Accounts = {"u", "v"}
  AnonUser = "nobody"
  Enters <- MCEnters
  Lists <- MCLists
  Retrieves <- MCLists
  Stores <- MCStores
  Paths <- MCPaths
  Stored = {"f2", "f3"}
  Expiring = {"a1"}
  Upkeep <- MCUpkeep
  Starts <- MCStarts
CHECK_DEADLOCK FALSE
INVARIANTS UploadsKept NumbersTrue TransfersAllowed
PROPERTY SlotsComeBack
