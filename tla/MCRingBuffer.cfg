CONSTANTS
  Cap = 3
  Words = 2
  Values = {a, b}
  Empty = Empty
SPECIFICATION FairSpec
INVARIANTS
  TypeOK
  PublishedAreWhole
  CopyIsOldest
PROPERTIES
  ImplementsFifo
  NewestDelivered
CHECK_DEADLOCK TRUE
