SPECIFICATION Spec
CONSTANTS
  Tests = {t1, t2}
  CommandLines <- MCCommandLines
  MaxInvocations = 3
SYMMETRY Symmetry
INVARIANTS
  TypeOK
  DumpsCurrent
  FreshReport
  Delivered
CHECK_DEADLOCK FALSE
