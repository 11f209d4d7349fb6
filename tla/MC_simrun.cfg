SPECIFICATION FairRunSpec
CONSTANTS
  Inputs <- AllInputs
  Limit = 3
INVARIANTS
  RunTypeOK
  OneSimulator
  VerdictHonest
PROPERTIES
  OutputKept
  Finishes
CHECK_DEADLOCK FALSE
