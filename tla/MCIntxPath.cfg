CONSTANTS
  Testbenches = {TRUE, FALSE}
  RingSlots = 4
  QueueSize = 3
  MaxFrames = 3
  MaxPath = 1
SPECIFICATION FairSpec
INVARIANTS
  TypeOK
  QueueIsWatched
  LineFollowsLastEvent
  NoInterruptLost
PROPERTY
  FramesHandled
CHECK_DEADLOCK TRUE
