SPECIFICATION Spec
CONSTANTS
  w1 = w1
  w2 = w2
  w3 = w3
  Writers = {w1, w2, w3}
  Compactors = {compact}
  None = None
  WriteBuffer = 0
  Trigger = 2
  Slowdown = 2
  Stop = 3
  OpenTables = 1
  IOErrors = FALSE
  MaxFileNumber = 10
INVARIANTS
  FullMemtableWaits
CHECK_DEADLOCK FALSE
