CONSTANTS
  x = x
  u = u
  Names = {x, u}
  Undeclared = {u}
  ReturnTypes = {t}
  NoType = NoType
  MaxDiagnostics = 2
  MaxNodes = 6
  MaxDepth = 6
  Fragments = {"walked", "nesting", "naming"}
  Constructs <- AllConstructs
SPECIFICATION MCSpec
INVARIANTS
  TypeOK
  DepthsMatchNesting
  ReturnTypeMatchesNesting
  ScopesHaveUniqueNames
  RestoredAtEnd
  WalkedJumpsReported
  WalkedReadsReported
PROPERTY
  ImplementsLexicalRules
CHECK_DEADLOCK FALSE
