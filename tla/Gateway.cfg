SPECIFICATION FairGateSpec
CONSTANTS
  Inst = {i1}
  Conn = {c1, c2}
  NoInst = NoInst
  NoConn = NoConn
  QueueSize = 1
  Faults = {"fail", "crash", "expiry"}
  MaxEvents = 1
  MaxFaults = 1
INVARIANTS
  GatewayTypeOK
  ConfirmedIsKept
  OpenIsRouted
  NoticeReaches
PROPERTY EndClosesConnection
CHECK_DEADLOCK FALSE
