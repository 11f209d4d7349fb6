SPECIFICATION Spec
CONSTANTS
  Word = 40
  Desired = {"f", "g"}
  NoSymbol = NoSymbol
  Inputs <- PaddingInputs
  Entries <- SomeEntries
  CoverUnit = 4
  MaxEntries = 2
INVARIANT KeptWithin
CHECK_DEADLOCK FALSE
