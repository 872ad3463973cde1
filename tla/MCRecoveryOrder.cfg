SPECIFICATION Spec
CONSTANTS
  FirstFree = 9
  WriteBuffer = 0
  MaxWrites = 4
  MaxCrashes = 1
INVARIANTS
  ReplayedInOrder
CHECK_DEADLOCK FALSE
