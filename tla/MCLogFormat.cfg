SPECIFICATION FairSpec
CONSTANTS
  kBlockSize = 7
  kHeaderSize = 2
  RecordSizes = {1, 2, 3, 4, 5, 6, 7, 8}
  MaxRecords = 3
  MaxReopens = 1
  MaxMixed = 10
INVARIANTS
  TypeOK
  FileDecodes
  NothingMissing
  FirstBlockExact
PROPERTIES
  ReaderEnds
