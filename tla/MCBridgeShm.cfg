CONSTANTS
  ReqSlots = 2
  CplSlots = 2
  DmaSlots = 2
  TagSpace = 3
  EndpointTags = 3
  DrainGuard = 2
  WaitLimit = 2
  DmaCalls = {2, 3}
  TagGap = 1
  MaxTlps = 3
  MaxDmas = 3
  MaxVfEvents = 1
  MaxIssued = 4
  FreshTags = TRUE
  SimMayDie = TRUE
SPECIFICATION FairSpec
INVARIANTS
  TypeOK
  EntriesAnnounced
  AnsweredByOwn
  StillAnswerable
  DmaFailsOnlyAfterGivingUp
  DmaSuccessIsReal
  PollerGoneBeforeUnmap
PROPERTIES
  ReadsReturn
  ShutdownEndsSimulation
CHECK_DEADLOCK TRUE
