SPECIFICATION FairSpec
CONSTANTS
  w1 = w1
  w2 = w2
  w3 = w3
  Writers = {w1, w2, w3}
  Compactors = {compact}
  None = None
  WriteBuffer = 0
  Trigger = 2
  Slowdown = 2
  Stop = 3
  OpenTables = 1
  IOErrors = TRUE
  MaxFileNumber = 10
INVARIANTS
  TypeOK OneBackground Readable Retained TablesExist
PROPERTIES
  EveryCallReturns
ACTION_CONSTRAINT CalledInOrder
CHECK_DEADLOCK FALSE
