SPECIFICATION DocumentedSpec
CONSTANTS
  Units <- UnitsOfAll
  Width = 2
  MaxDepth = 6
  MaxWritten = 80
INVARIANT GeneratedAsDocumented
CHECK_DEADLOCK FALSE
