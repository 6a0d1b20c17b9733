SPECIFICATION FairSpec
CONSTANTS
  a1 = a1
  a2 = a2
  m1 = m1
  m2 = m2
  Accounts = {a1, a2}
  Models = {m1, m2}
  AnyModel = AnyModel
  None = None
  Callers = {c1, c2}
  Order <- Order2
  Requests <- RetryRequests
  ListChoices <- Lists
  Scale = 1
  Hour = 1
  Minute = 1
  CursorMod = 3
  ConfChoices <- SelectConf
  MaxTime = 2
  MaxErrs = 1
  MaxEdits = 0
INVARIANTS
  TypeOK
  AnswerAllowed
PROPERTIES
  ContractSpec
  RoundRobin
CHECK_DEADLOCK FALSE
