SPECIFICATION RunSpec
CONSTANTS
  Inputs <- RandomInputs
  Limit = 3
INVARIANT WarningMeansNoOutput
CHECK_DEADLOCK FALSE
