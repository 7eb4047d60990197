SPECIFICATION FairGateSpec
CONSTANTS
  Inst = {i1}
  Conn = {c1}
  NoInst = NoInst
  NoConn = NoConn
  QueueSize = 1
  Faults = {}
  MaxEvents = 1
  MaxFaults = 0
PROPERTIES
  NoneOutlivesSession
CHECK_DEADLOCK FALSE
