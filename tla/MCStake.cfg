SPECIFICATION Spec
CONSTANTS
  alice = alice
  bob = bob
  NONE = NONE
  Accounts <- MCAccounts
  Secrets = {}
  Txs <- StakeTxs
  Genesis <- StakeGenesis
  Headers <- StakeHeaders
  EpochLength = 2
  BondUnlockDelay = 2
  SlashPenalty = 3
  MinFee = 1
  HtlcMinTimelock = 1
  HtlcMaxTimelock = 4
  SpendPeriod = 2
  BurnBps = 1000
  BpsDenom = 10000
  TreasuryBps = 1000
  OpenTipBps = 2000
  BondedDividendBps = 2000
  RunwayFloor = 0
  ActivationEpochs = 1
  MaxHeight = 4
  MaxTxs = 2
  FinalityDepth = 3
INVARIANTS
  TypeOK
  SupplyConserved
  MinedOnce
  WithdrawalsMatured
  OnePenaltyPerOffence
  RollbackNeverRaises
  RaisesOnlyIfContested
PROPERTIES
  AtomicSpec
