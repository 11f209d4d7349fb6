SPECIFICATION Spec
CONSTANTS
  Word = 40
  Desired = {"f", "g"}
  NoSymbol = NoSymbol
  Inputs <- SoundInputs
  Entries <- SomeEntries
  CoverUnit = 4
  MaxEntries = 2
INVARIANTS
  TypeOK
  InfoInBounds
  LookupExact
  CountsExact
  DirectionsExact
  ScanInput
PROPERTY
  LedgerSpec
CHECK_DEADLOCK FALSE
