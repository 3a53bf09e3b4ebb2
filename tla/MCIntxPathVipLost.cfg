CONSTANTS
  Testbenches = {TRUE}
  RingSlots = 4
  QueueSize = 2
  MaxFrames = 3
  MaxPath = 0
SPECIFICATION Spec
INVARIANT InterruptPending
CHECK_DEADLOCK FALSE
