SPECIFICATION FairSpec
CONSTANTS
  pair = pair
  single = single
  late = late
  big = big
  flush = flush
  Writers = {pair, single, late, big, flush}
  Flushes = {flush}
  Count <- MCCount
  Size <- MCSize
  SmallBatch = 1
  MaxGroup = 4
  BgErrors = TRUE
  IOErrors = TRUE
INVARIANTS
  TypeOK OneLeader NoLostWakeup SequencesContiguous LogInCallOrder WriteAhead
  AckedIsApplied
PROPERTIES
  FailStop EveryWriteReturns ImplementsAtomicWrites
CHECK_DEADLOCK FALSE
