SPECIFICATION Spec
CONSTANTS
  m1 = m1
  m2 = m2
  Mailers = {m1}
  NOut = 1
  NIn = 0
  Leave = {}
  Unknown = {}
  Long = {}
  MaxTries = 1
  Strict = TRUE
  CrashAt <- MCCrashAnywhere
  MaxFaults = 1
INVARIANT
  OutMailKept
