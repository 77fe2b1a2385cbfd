SPECIFICATION StartSpec
CONSTANTS
  EpochLength = 4
  FinalityDepth = 2
  Margin = 1
  MemoEpochs = 0
  MaxHeight = 8
  MaxBranches = 1
  MaxSecrets = 1
CONSTRAINT OneLoss
INVARIANTS
  TypeOK
  NotSlashable
  BeaconStands
  CommitsCanBeRevealed
  DutyAccepted
CHECK_DEADLOCK FALSE
