SPECIFICATION Spec
CONSTANTS
  FirstFree = 12
  WriteBuffer = 1
  MaxWrites = 2
  MaxCrashes = 2
INVARIANTS
  NoWriteLost
CHECK_DEADLOCK FALSE
