SPECIFICATION FairSpec
CONSTANTS
  FirstFree = 10
  WriteBuffer = 1
  MaxWrites = 6
  MaxCrashes = 3
INVARIANTS
  TypeOK LostOnlyIfTorn Recoverable SequencesFresh NumbersFresh
PROPERTIES
  RecoveryCompletes
CHECK_DEADLOCK FALSE
