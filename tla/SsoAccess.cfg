SPECIFICATION AccessSpec
CONSTANTS
  Session = {s1, s2}
  Token = {t1, t2}
  Proc = {p1, p2}
  Checker = {v1}
  NoClaim = NoClaim
  NoSession = NoSession
  NoToken = NoToken
  Free = Free
  Dead = Dead
  Legacy = {}
  LegacyToken <- MCLegacyToken
  Mode = "replace"
  Requests = {"login", "refresh", "change_password"}
  Callers = {"middleware", "introspect", "gateway"}
  Faults = {}
  MaxVersion = 2
SYMMETRY Symmetry
INVARIANTS
  AccessTypeOK
  NoAcceptAfterEnd
  PasswordChangeFinal
