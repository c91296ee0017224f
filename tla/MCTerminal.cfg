SPECIFICATION Spec
CONSTANTS
  Kinds = {"telnet", "ssh"}
  Strokes <- MCStrokes
  MaxTyped = 2
  Accepted = {"echo"}
  IdleTime = 2
  Warning = 1
  PageLength = 3
  Texts <- MCTexts
  Startchat <- MCStartchat
  Cursor <- MCCursor
  Requests <- MCRequests
  MaxRequests = 1
  DrainTries = 2
  SysopKeys = {"Alt-C", "Alt-H", "Alt-E", "ESC", "^A", "Up"}
  MaxPresses = 2
  MaxEvents = 2
  Locked = TRUE
  AutoCapture = TRUE
  Menus <- MCMenus
  Global <- MCGlobal
  MaxNest = 2
  Missing <- MCMissing
  Levels = {1, 2}
  Level = 2
  Goodbye <- MCGoodbye
  Scripts <- MCScripts
  Library <- MCLibrary
  Slots = {1, 2}
  MaxWhile = 1
  MaxGoSub = 1
  MaxIterations = 1
INVARIANTS KeysOnceInOrder NoKeyLost SettingsRestored AccessKept HotKeyHonored LoopsNest
PROPERTY Ends
