SPECIFICATION Spec
CONSTANTS
  Names = {n, m}
  MaxDiagnostics = 1
  MaxTypes = 4
  MaxParts = 2
  MaxOperands = 3
  MaxScopes = 2
  MaxSymbols = 1
SYMMETRY Renamings
INVARIANTS
  TypeOK
  NothingDangles
  NullOnlyFromLabels
CHECK_DEADLOCK FALSE
