SPECIFICATION Spec
CONSTANTS
  NoID = NoID
  NoSite = NoSite
  t1 = t1
  t2 = t2
  Values <- MCValues
  Tabs <- MCTabs
  Sites = {1, 2}
  SnapshotOpThreshold = 2
  MaxEdits = 3
  MaxPaste = 1
  MaxSnapshots = 2
SYMMETRY TabSymmetry
INVARIANTS
  SnapshotReplays
  RoomTextReachesTabs
  GraceWindow
PROPERTIES
  DeadStaysDead
CHECK_DEADLOCK FALSE
