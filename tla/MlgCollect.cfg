SPECIFICATION FairSpec
CONSTANTS
  MaxEntry = 2
  MaxDate = 2
  Block = 3
  MaxTask = 2
  MaxExtra = 1
  OldEntries = 1
INVARIANTS
  TypeOK
  ReadsAll
  NoGap
  StoredOnce
PROPERTIES
  CollectionEnds
CHECK_DEADLOCK FALSE
