CONSTANTS
  Samples <- NoPart
  Programs <- DocumentedAndMistaken
  Included <- MalformedNumber
SPECIFICATION Spec
PROPERTY HandledAsDocumented
CHECK_DEADLOCK FALSE
