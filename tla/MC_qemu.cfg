SPECIFICATION FairSpec
CONSTANTS
  Logs <- AllLogs
  Dump <- TheDump
  Load = 1
  HalfWord = 65536
  MaxBlocks = 3
INVARIANTS
  TypeOK
  CoverageExact
  DirectionsExact
  NothingInvented
PROPERTIES
  ConversionEnds
CHECK_DEADLOCK FALSE
