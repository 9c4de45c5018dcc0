SPECIFICATION FairSpec
CONSTANTS
  Addr = {a1, a2}
  Target = {t1}
  Session = {s1}
  Ufrag = {u1}
  None = None
  Relay = {r1, r2}
  CtlCap = 1
  EndCap = 2
  Remote = t1
INVARIANTS
  EndpointTypeOK
  EndedClientsReported
PROPERTIES
  EndsWithLastClient
  LifecycleSpec
  DatagramsHandled
