SPECIFICATION Spec
CONSTANTS
  d1 = d1
  d2 = d2
  Documents <- TwoDocuments
  QueueSize = 2
  OperationBatchSize = 2
  SnapshotOpThreshold = 2
  MaxOps = 2
  MaxFailures = 0
  MaxCrashes = 1
SYMMETRY DocumentSymmetry
INVARIANTS
  SnapshotSignalled
