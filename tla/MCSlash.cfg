SPECIFICATION Spec
CONSTANTS
  alice = alice
  bob = bob
  NONE = NONE
  Accounts <- MCAccounts
  Secrets = {}
  Txs <- SlashTxs
  Genesis <- SlashGenesis
  Headers <- SlashHeaders
  EpochLength = 2
  BondUnlockDelay = 2
  SlashPenalty = 3
  MinFee = 1
  HtlcMinTimelock = 1
  HtlcMaxTimelock = 4
  SpendPeriod = 10
  BurnBps = 1000
  BpsDenom = 10000
  TreasuryBps = 1000
  OpenTipBps = 2000
  BondedDividendBps = 2000
  RunwayFloor = 0
  ActivationEpochs = 2
  MaxHeight = 6
  MaxTxs = 2
  FinalityDepth = 2
PROPERTIES
  RollbackExact
INVARIANTS
  YoungStakeHasNoWeight
