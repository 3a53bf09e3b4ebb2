CONSTANTS
  ReqSlots = 2
  CplSlots = 2
  DmaSlots = 2
  TagSpace = 4
  EndpointTags = 2
  DrainGuard = 2
  WaitLimit = 2
  DmaCalls = {2, 3}
  TagGap = 1
  MaxTlps = 3
  MaxDmas = 0
  MaxVfEvents = 0
  MaxIssued = 4
  FreshTags = TRUE
  SimMayDie = FALSE
SPECIFICATION Spec
INVARIANT StillAnswerable
CHECK_DEADLOCK TRUE
