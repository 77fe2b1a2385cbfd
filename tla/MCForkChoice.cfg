CONSTANTS
  n1 = n1  n2 = n2  n3 = n3  n4 = n4
  Nodes <- Trio
  Mempool <- SidesPool
  Nets <- Bridged
  Bonding = {}
  Seeds = {}
  MinPeers = 0
  FinalityDepth = 1
  MaxRollbacks = 0
  MinAnswers = 2
  Prompt = TRUE
  LongBench = TRUE
  Fails = TRUE
  MaxHeight = 2
SPECIFICATION Spec
INVARIANT TypeOK
PROPERTY FloorsRejoin
CHECK_DEADLOCK FALSE
