SPECIFICATION Spec
CONSTANTS
  NoID = NoID
  NoSite = NoSite
  t1 = t1
  t2 = t2
  Values <- MCValues
  Tabs = {t1}
  Sites = {1}
  SnapshotOpThreshold = 2
  MaxEdits = 3
  MaxPaste = 2
  MaxSnapshots = 2
PROPERTIES
  TextSurvivesCompaction
CHECK_DEADLOCK FALSE
