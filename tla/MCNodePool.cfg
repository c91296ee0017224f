SPECIFICATION FairSpec
CONSTANTS
  w1 = w1
  s1 = s1
  s2 = s2
  None = None
  Conns <- MCConns
  Service <- MCService
  StartNodeWith = 0
  MaxSessions = 0
  MaxNodes = 2
INVARIANTS
  NodeExclusive
  PoolExact
PROPERTIES
  Allocates
  EveryCallAnswered
  NodesComeBack
CHECK_DEADLOCK FALSE
