SPECIFICATION FairSpec
CONSTANTS
  Addr = {a1}
  Target = {t1, t2}
  Session = {s1, s2}
  Ufrag = {u1, u2}
  None = None
  Relay = {r1, r2}
  CtlCap = 1
  EndCap = 1
INVARIANTS
  OneTargetPerDatagram
CHECK_DEADLOCK FALSE
