SPECIFICATION FairSpec
CONSTANTS
  Addr = {}
  Target = {t1}
  Session = {s1}
  Ufrag = {}
  None = None
  Inst = {i1, i2}
  Port = {p1}
  QCap = 2
  MaxTcp = 1
PROPERTIES
  DeletingEnds
