SPECIFICATION FairSpec
CONSTANTS
  Addr = {}
  Target = {t1, t2}
  Session = {s1}
  Ufrag = {}
  None = None
  Inst = {i1, i2}
  Port = {p1}
  QCap = 1
  MaxTcp = 1
INVARIANTS
  ManagerTypeOK
  EndedEntriesReported
  ToldStaysKnown
  DeletedIsKilled
PROPERTIES
  RequestsFinish
  EndedEntriesRemoved
