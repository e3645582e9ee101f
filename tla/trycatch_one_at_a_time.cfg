CONSTANTS
  Programs <- OneAtATime
SPECIFICATION TryCatchSpec
INVARIANTS
  TypeOK
PROPERTIES
  ImplementsExceptions
  Ends
CHECK_DEADLOCK FALSE
