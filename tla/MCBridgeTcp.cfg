CONSTANTS
  Versions = {1, 2}
  MaxClients = 2
  CacheSlots = 2
  WaitLimit = 2
  TagSpace = 3
  EndpointTags = 3
  DrainGuard = 2
  FreshTags = TRUE
  DmaOpen = TRUE
  MaxTlps = 4
  MaxDmas = 2
  MaxMsis = 1
  MaxVfEvents = 1
  MaxOps = 4
SPECIFICATION FairSpec
INVARIANTS
  TypeOK
  ConnectionsAgreed
  StreamsInStep
  DmaResultReal
  ReadsMatch
PROPERTIES
  ReadsReturn
  InterruptsArrive
CHECK_DEADLOCK FALSE
