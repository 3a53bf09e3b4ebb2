CONSTANTS
  A = A
  B = B
  Slots = 2
  Window = 2
  MayDrop = TRUE
  BurstLen = 2
  Serialize = 1
  Latency = 1
  MaxSeq = 5
  MaxNow = 1
SPECIFICATION FairSpec
INVARIANTS
  TypeOK
  FramesInOrder
  WindowsCoverUnconsumed
PROPERTY
  BlockedSenderResumes
CHECK_DEADLOCK FALSE
