SPECIFICATION Spec
CONSTANTS
  Inputs <- AllInputs
  MaxCalls = 2
  MaxSteps = 7
INVARIANTS
  TypeOK
  ArcsExact
  NeverMore
  GcdaExact
CHECK_DEADLOCK FALSE
