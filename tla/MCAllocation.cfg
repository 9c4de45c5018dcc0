SPECIFICATION FairSpec
CONSTANTS
  Addr = {}
  Target = {t1}
  Session = {s1, s2}
  Ufrag = {u1}
  None = None
  N = 2
  QCap = 2
INVARIANTS
  AllocationTypeOK
  AllocatedIsLive
  DeletedStaysGone
  OnlyDroppedRequestsLeak
PROPERTIES
  RequestsFinish
