SPECIFICATION FairSpec
CONSTANTS
  MaxPort = 4
  MaxSize = 5
  AttemptLimit = 5
  MaxQueued = 3
INVARIANTS
  ProcessTypeOK
  PoolPorts
  RegisteredCanServe
  DeregistrationKept
PROPERTIES
  RegistersOrEnds
CHECK_DEADLOCK FALSE
