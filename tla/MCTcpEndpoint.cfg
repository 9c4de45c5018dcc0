SPECIFICATION FairSpec
CONSTANTS
  Addr = {a1, a2}
  Target = {}
  Session = {}
  Ufrag = {}
  None = None
  Conn = {c1, c2, c3}
  EndCap = 2
INVARIANTS
  TcpTypeOK
  EndedConnsReported
PROPERTIES
  ClosesWhenUnused
  LifecycleSpec
  ConnectionsFinish
