SPECIFICATION Spec
CONSTANTS
  Reader = {g, s}
  Getter = {g}
  Scanner = s
  Entries = 1
  MaxKey = 3
  Asked = {2, 3}
  Updates <- MCUpdates
  Starts = {1}
  Backward = {FALSE, TRUE}
  Disk <- MCDisk
  Faults = {"open", "table"}
  MaxWrites = 6
  MaxCompactions = 1
INVARIANTS
  HandlesOwned GetAnswers ScanAnswers
CHECK_DEADLOCK FALSE
