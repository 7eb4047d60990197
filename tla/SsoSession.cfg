SPECIFICATION Spec
CONSTANTS
  s0 = s0
  t0 = t0
  Session = {s0, s1}
  Token = {t0, t1, t2}
  Proc = {p1, p2}
  NoSession = NoSession
  NoToken = NoToken
  Free = Free
  Dead = Dead
  Legacy <- MCLegacy
  LegacyToken <- MCLegacyToken
  Mode = "replace"
  Requests = {"login", "refresh", "logout", "change_password"}
  Faults = {"fail", "crash", "expiry"}
  MaxVersion = 2
SYMMETRY Symmetry
INVARIANTS
  TypeOK
  AnnouncedIsOut
  EndedIsTold
  CurrentIsIndexed
  OneLiveToken
  NoRefreshAfterEnd
PROPERTIES
  DisplacedIsTold
CONSTRAINT MCBound
