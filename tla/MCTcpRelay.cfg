SPECIFICATION FairSpec
CONSTANTS
  MaxBytes = 5
  BufSize = 2
  SndCap = 2
INVARIANTS
  InOrderOnce
  
PROPERTIES
  ClosedPeerEndsRelay
CHECK_DEADLOCK FALSE
