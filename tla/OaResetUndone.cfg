SPECIFICATION OaSpec
CONSTANTS
  adm = adm
  u = u
  n = n
  P = P
  Q = Q
  oa_manage = oa_manage
  OAName = OAName
  PName = PName
  QName = QName
  User = {adm, u, n}
  Admin = adm
  Role = {"admin", "employee", "staff", "temp", "guest"}
  Code <- MCCode
  PlatformCode = {P, Q, oa_manage}
  RootCode = oa_manage
  Name = {PName, QName, OAName}
  RootName = OAName
  Request = {q1, q2}
  Op <- ResetOps
  InitDatabases <- MCInitDatabases
  PoolSize = 3
  Faults = {}
  MaxFaults = 0
  NoRoles = NoRoles
  NoOp = NoOp
  NoDb = NoDb
PROPERTY ResetStands
CHECK_DEADLOCK FALSE
