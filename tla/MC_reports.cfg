SPECIFICATION Spec
CONSTANTS
  Inputs <- MCInputs
  FileOf <- Files
CHECK_DEADLOCK FALSE
INVARIANTS
  TypeOK
  SourceExact
  EditionsAgree
  CountsAgree
  LinksResolve
  NotFoundExact
