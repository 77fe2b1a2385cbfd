SPECIFICATION Spec
CONSTANTS
  alice = alice
  bob = bob
  h1 = h1
  h2 = h2
  NONE = NONE
  Accounts <- MCAccounts
  Secrets = {}
  Txs <- PoolTxs
  Genesis <- PoolGenesis
  Header <- PoolHeader
  Handlers <- MCHandlers
  LandingWindow = 2
  PoolMaxTxs = 1
  PoolMaxBytes = 1
  MaxRollbacks = 1
  EpochLength = 2
  BondUnlockDelay = 2
  SlashPenalty = 3
  MinFee = 1
  HtlcMinTimelock = 1
  HtlcMaxTimelock = 4
  SpendPeriod = 4
  BurnBps = 1000
  BpsDenom = 10000
  TreasuryBps = 1000
  OpenTipBps = 2000
  BondedDividendBps = 2000
  RunwayFloor = 0
  ActivationEpochs = 1
  MaxHeight = 2
INVARIANT
  DuplicateIsBenign
CHECK_DEADLOCK FALSE
