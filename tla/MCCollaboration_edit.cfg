SPECIFICATION Spec
CONSTANTS
  NoID = NoID
  NoSite = NoSite
  t1 = t1
  t2 = t2
  Values <- MCValues
  Tabs <- MCTabs
  Sites = {1, 2, 3}
  SnapshotOpThreshold = 100
  MaxEdits = 3
  MaxPaste = 1
  MaxSnapshots = 0
SYMMETRY TabSymmetry
INVARIANTS
  TypeOK
  Convergence
  
  LocalEditsApply
CHECK_DEADLOCK FALSE
