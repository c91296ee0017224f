SPECIFICATION FairSpec
CONSTANTS
  Names <- MCNames
  NoName = ""
  CrcOf <- MCCrcOf
  Passwords = {"secret"}
  NoPassword = ""
  Nodes = {1, 2}
  Newcomers = {1}
  Trashcan = {"sysop"}
  Tries = 1
  InitBases <- MCBases
  MaxDials = 2
  MaxEdits = 1
INVARIANTS
  FoundAsAsked
  SignedUpOnce
PROPERTIES
  RecordsKeepTheirOwner
  SilentCallersLeave
CHECK_DEADLOCK FALSE
