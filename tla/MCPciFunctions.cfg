CONSTANTS
  Transports = {"shm", "tcp"}
  PfCounts = {1, 2}
  MaxVfs = 2
  Values = {1}
  Ones = 9
  MaxOps = 5
SPECIFICATION FairSpec
INVARIANTS
  TypeOK
  ConfigReachesFunction
  ReadsWhatWasWritten
  VfsAgree
PROPERTY ConfigReadsReturn
CHECK_DEADLOCK FALSE
