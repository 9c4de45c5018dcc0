SPECIFICATION Spec
CONSTANTS
  MaxBytes = 4
  BufSize = 2
  SndCap = 2
INVARIANTS
  StreamIntact
CHECK_DEADLOCK FALSE
