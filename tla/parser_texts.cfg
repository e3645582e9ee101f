CONSTANTS
  Samples <- AllParts
  Programs <- Texts
  Included <- Headers
SPECIFICATION Spec
INVARIANTS
  TypeOK
  AcceptsLanguage
  AcceptedIsRead
PROPERTY StatementsTerminate
CHECK_DEADLOCK FALSE
