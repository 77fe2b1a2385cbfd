CONSTANTS
  n1 = n1  n2 = n2  n3 = n3  n4 = n4
  Nodes <- Trio
  Mempool <- OwnPool
  Nets <- Whole
  Bonding = {2}
  Seeds = {}
  MinPeers = 0
  FinalityDepth = 4
  MaxRollbacks = 3
  MinAnswers = 2
  Prompt = TRUE
  LongBench = FALSE
  Fails = FALSE
  MaxHeight = 5
SPECIFICATION ShallowSpec
PROPERTY ShallowForksHeal
CHECK_DEADLOCK FALSE
