SPECIFICATION Spec
CONSTANTS
  Names = {n, m}
  MaxDiagnostics = 1
  MaxTypes = 4
  MaxParts = 2
  MaxOperands = 3
  MaxScopes = 2
  MaxSymbols = 2
INVARIANT OwnedByTable
CHECK_DEADLOCK FALSE
