SPECIFICATION Spec
CONSTANTS
  Word = 40
  Desired = {"f", "g"}
  NoSymbol = NoSymbol
  Inputs <- SingleInputs
  Entries <- SomeEntries
  CoverUnit = 4
  MaxEntries = 2
INVARIANT CountsAreExecutions
CHECK_DEADLOCK FALSE
