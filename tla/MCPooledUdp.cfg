SPECIFICATION FairSpec
CONSTANTS
  Addr = {a1, a2}
  Target = {t1, t2}
  Session = {s1, s2}
  Ufrag = {u1}
  None = None
  Relay = {r1, r2}
  CtlCap = 1
  EndCap = 1
INVARIANTS
  PooledTypeOK
  RoutesMatchSessions
  FlowsFollowRoutes
  OneRelayPerAddress
  EndedFlowsReported
PROPERTIES
  LiveFlowsSurvive
  RoutingSpec
  LoopReturns
  EndedFlowsReleased
  DroppedRelaysEnd
CHECK_DEADLOCK FALSE
