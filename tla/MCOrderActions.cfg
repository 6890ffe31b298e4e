SPECIFICATION Spec
CONSTANTS
  s1 = s1
  s2 = s2
  Symbols <- MCSymbols
  TerminateOn403 = FALSE
  MaxActions = 2
  MaxCancelAlls = 1
  MaxFaults = 1
  MaxOrphans = 1
SYMMETRY SymbolSymmetry
CHECK_DEADLOCK FALSE
INVARIANTS
  TypeOK
  ResponsesTellTheTruth
  CancelAllCovers
