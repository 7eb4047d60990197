SPECIFICATION FairSpec
CONSTANTS
  p1 = p1
  p2 = p2
  Consumer = {c1, c2}
  Partition = {p1, p2}
  NoOne = NoOne
  Nil = Nil
  WordBits = 29
  Tables <- MCTables
  Masked <- MCMasked
  Replacement <- MCReplacement
  SourceID = "primary"
  TimeText <- MCTimeText
  updated_by <- MCUpdatedBy
  created_by <- MCCreatedBy
  request_id <- MCRequestID
  create_time <- MCCreateTime
  update_time <- MCUpdateTime
  sys_user <- user
  id <- MCId
  email <- MCEmail
  password <- MCPassword
  password_version <- MCVersion
  auditedTables <- MCAudited
  DefaultPassword <- MCDefault
  Topics <- MCTopics
  Configured <- MCConfigured
  MaxRowsPerStmt = 2
  MaxDay = 3
  Faults = {"insert", "letter", "trim", "commit", "crash"}
  MaxFaults = 1
  MaxRebalances = 1
INVARIANTS
  AuditTypeOK
  CommittedIsAccounted
  SecretsMasked
  EditsAreAttributed
PROPERTIES
  ImplementsTrail
  OldestLettersGo
  EveryMessageAccounted
CHECK_DEADLOCK FALSE
