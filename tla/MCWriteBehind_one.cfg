SPECIFICATION FairSpec
CONSTANTS
  d1 = d1
  d2 = d2
  Documents = {d1}
  QueueSize = 3
  OperationBatchSize = 2
  SnapshotOpThreshold = 2
  MaxOps = 4
  MaxFailures = 1
  MaxCrashes = 1
INVARIANTS
  TypeOK
  NothingLostSilently
  
  
PROPERTIES
  OpsReachStore
