SPECIFICATION FairSpec
CONSTANTS
  Logs <- AllLogs
  Dump <- TheDump
  Load = 1
  HalfWord = 65536
  MaxBlocks = 1
PROPERTIES
  BlockEnds
CHECK_DEADLOCK FALSE
