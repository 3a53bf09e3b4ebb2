CONSTANTS
  Transports = {"shm"}
  PfCounts = {2}
  MaxVfs = 2
  Values = {1}
  Ones = 9
  MaxOps = 5
SPECIFICATION Spec
INVARIANT ConfigReachesEveryFunction
CHECK_DEADLOCK FALSE
