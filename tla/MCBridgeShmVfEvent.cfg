CONSTANTS
  ReqSlots = 2
  CplSlots = 2
  DmaSlots = 2
  TagSpace = 2
  EndpointTags = 2
  DrainGuard = 2
  WaitLimit = 2
  DmaCalls = {2, 3}
  TagGap = 1
  MaxTlps = 1
  MaxDmas = 1
  MaxVfEvents = 1
  MaxIssued = 4
  FreshTags = TRUE
  SimMayDie = FALSE
SPECIFICATION Spec
INVARIANT VfEventsReachTestbench
CHECK_DEADLOCK TRUE
