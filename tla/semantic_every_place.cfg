CONSTANTS
  x = x
  u = u
  argv = argv
  Names = {x, u, argv}
  Undeclared = {u}
  ReturnTypes = {t}
  NoType = NoType
  MaxDiagnostics = 1
  MaxNodes = 5
  MaxDepth = 5
  Fragments = {"places", "meanings"}
  Constructs <- AllConstructs
SPECIFICATION RulesSpec
INVARIANT RulesEnforced
CHECK_DEADLOCK FALSE
