CONSTANTS
  A = A
  B = B
  Slots = 2
  Window = 2
  MayDrop = FALSE
  BurstLen = 0
  Serialize = 1
  Latency = 1
  MaxSeq = 2
  MaxNow = 0
SPECIFICATION Spec
INVARIANT
  WindowCountsUnconsumed
CHECK_DEADLOCK FALSE
