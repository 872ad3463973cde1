SPECIFICATION Spec
CONSTANTS
  Directories <- MCDirectories
  MaxRuns = 3
INVARIANTS
  NothingVanishes RepairedReads
CHECK_DEADLOCK FALSE
