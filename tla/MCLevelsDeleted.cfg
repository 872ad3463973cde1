SPECIFICATION Spec
CONSTANTS
  MaxKey = 2
  NumLevels = 4
  MaxMemCompactLevel = 2
  L0CompactionTrigger = 2
  BaseSize = 2
  LevelRatio = 10
  MaxFileSizes = {2}
  GrandParentFactor = 1
  ExpandFactor = 3
  MaxWrites = 5
  MaxDeletes = 1
  MaxSnapshots = 1
  MaxRanges = 0
INVARIANTS
  DeletedStaysDeleted
CHECK_DEADLOCK FALSE
