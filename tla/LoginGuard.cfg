SPECIFICATION GuardSpec
CONSTANTS
  s0 = s0
  t0 = t0
  Session = {s1, s2}
  Token = {t1, t2}
  Proc = {p1, p2}
  NoSession = NoSession
  NoToken = NoToken
  Free = Free
  Dead = Dead
  Legacy = {}
  LegacyToken <- MCNoLegacyToken
  Mode = "reject"
  Requests = {"login", "logout"}
  Faults = {"expiry", "crash"}
  MaxVersion = 1
  AccountLimit = 1
  IpLimit = 2
  GuardFaults = {"check", "count", "deadline", "clear"}
  MaxWaived = 1
SYMMETRY Symmetry
INVARIANTS
  GuardTypeOK
  FailuresBounded
  LockoutIsWindowed
PROPERTIES
  SingleDeviceLogin
  RejectKeepsHolder
