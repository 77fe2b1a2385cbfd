SPECIFICATION Spec
CONSTANTS
  p1 = p1
  p2 = p2
  p3 = p3
  NONE = NONE
  Peers <- MCPeers
  Worlds <- MCWorlds
  MinAnswers = 2
  Sweep = 4
INVARIANTS
  TypeOK
  SearchInv
  AncestorIsShared
  AncestorIsHighest
  DeadForkHasWitness
PROPERTIES
  Terminates
CHECK_DEADLOCK FALSE
