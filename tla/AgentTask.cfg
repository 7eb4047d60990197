SPECIFICATION FairSpec
CONSTANTS
  Task = {t1, t2}
  Conversation = {c1, c2}
  NoConversation = NoConversation
  MaxSlots = 1
  MaxSteps = 1
  MaxCrashes = 1
INVARIANTS
  AgentTypeOK
  WrittenOnceAsConfirmed
  OutcomeIsTrue
  SettledTogether
  

  
CHECK_DEADLOCK FALSE
