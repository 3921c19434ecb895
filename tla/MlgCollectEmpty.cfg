SPECIFICATION FairSpec
CONSTANTS
  MaxEntry = 1
  MaxDate = 1
  Block = 3
  MaxTask = 1
  MaxExtra = 0
  OldEntries = 0
PROPERTIES
  LinesLoopEnds
CHECK_DEADLOCK FALSE
