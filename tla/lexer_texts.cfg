SPECIFICATION Spec
CONSTANTS
  Sources <- AllTexts
  Keywords <- Words
INVARIANTS
  TypeOK
  LongestMatch
  NothingLost
  LocationsExact
  ErrorsReportedOnce
PROPERTY
  EndIsReached
CHECK_DEADLOCK FALSE
