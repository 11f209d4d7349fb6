SPECIFICATION Spec
CONSTANT Inputs <- MCInputs
CHECK_DEADLOCK FALSE
INVARIANTS
  TypeOK
  AskedFor
  PairsExact
