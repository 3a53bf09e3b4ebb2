CONSTANTS
  Size = 2
  IndexSpan = 4
  MaxFrames = 2
  MaxFailures = 2
SPECIFICATION FairSpec
INVARIANTS
  TypeOK
  BuffersReturnOnce
  ReturnedWasSent
  FramesOnceUnlessDmaFails
PROPERTY
  BuffersAndFramesMove
CHECK_DEADLOCK FALSE
