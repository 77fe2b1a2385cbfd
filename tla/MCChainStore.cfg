SPECIFICATION Spec
CONSTANTS
  plain = plain
  blob = blob
  NONE = NONE
  Bodies <- MCBodies
  BlobBodies <- MCBlobBodies
  SegmentRecords = 2
  FinalityDepth = 1
  Retention = 0
  MaxHeight = 3
  MaxRecords = 5
INVARIANTS
  TypeOK
  LocatorsResolve
  RetainedBodiesReadable
  BlobsForever
  StoresAgree
  DurableWithinOne
PROPERTIES
  FinalIsForever
CHECK_DEADLOCK FALSE
