SPECIFICATION FairSpec
CONSTANTS
  SizeInBytes = 4
  Counts = {0, 1}
INVARIANTS
  TypeOK
  RangesExact
  OnlyPaddingMarked
  ReportsAgree
  BranchesExact
PROPERTY Termination
CHECK_DEADLOCK FALSE
