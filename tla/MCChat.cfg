SPECIFICATION ChatSpec
CONSTANTS
  MaxTexts = 3
  MaxParts = 3
  MaxChannel = 2
INVARIANT TellsAll
PROPERTY TellsWhole
CHECK_DEADLOCK FALSE
