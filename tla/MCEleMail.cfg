SPECIFICATION Spec
CONSTANTS
  m1 = m1
  m2 = m2
  Mailers <- MCMailers
  NOut = 2
  NIn = 2
  Leave = {1}
  Unknown = {}
  Long = {1, 2}
  MaxTries = 1
  Strict = TRUE
  CrashAt <- MCCrashAt
  MaxFaults = 1
INVARIANTS
  OneMailer
  OutMailKept
  InMailKept
  OnceWithoutFaults
SYMMETRY MCSymmetry
