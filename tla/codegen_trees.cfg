SPECIFICATION Spec
CONSTANTS
  Units <- AllUnits
  Width = 2
  MaxDepth = 6
  MaxWritten = 80
CHECK_DEADLOCK FALSE
INVARIANTS
  TypeOK
  ExpressionsReadBack
  LiteralsReadBack
  SwitchesEnterTheirCase
  DeclaredBeforeUse
  StatementsInFunctions
  BareCallsAreMade
  NothingIsLost
PROPERTY WrittenOut
