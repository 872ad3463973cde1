SPECIFICATION FairSpec
CONSTANTS
  MaxKey = 2
  NumLevels = 4
  MaxMemCompactLevel = 2
  L0CompactionTrigger = 2
  BaseSize = 2
  LevelRatio = 10
  MaxFileSizes = {1, 2}
  GrandParentFactor = 1
  ExpandFactor = 3
  MaxWrites = 4
  MaxDeletes = 1
  MaxSnapshots = 1
  MaxRanges = 1
INVARIANTS
  TypeOK
  SnapshotReads
  NewerAbove
PROPERTIES
  QuietInTheEnd
CHECK_DEADLOCK FALSE
