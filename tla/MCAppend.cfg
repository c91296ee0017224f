SPECIFICATION Spec
CONSTANTS
  Names <- MCNames
  NoName = ""
  CrcOf <- MCCrcOf
  Passwords = {"secret"}
  NoPassword = ""
  Nodes = {1, 2}
  Newcomers = {1, 2}
  Trashcan = {"sysop"}
  Tries = 1
  InitBases <- MCBases
  MaxDials = 2
  MaxEdits = 0
PROPERTY
  AppendKeepsUsers
CHECK_DEADLOCK FALSE
