SPECIFICATION Spec
CONSTANTS
  a1 = a1
  a2 = a2
  m1 = m1
  m2 = m2
  Accounts = {a1, a2}
  Models = {m1, m2}
  AnyModel = AnyModel
  None = None
  Callers = {c1}
  Order <- Order2
  Requests <- PlainRequests
  ListChoices <- NoLists
  Scale = 2
  Hour = 2
  Minute = 1
  CursorMod = 2
  ConfChoices <- WeightConf
  MaxTime = 2
  MaxErrs = 3
  MaxEdits = 1
INVARIANTS
  FailuresCool
  CooldownCapped
  OverageShare
  CountCoversMembers
CHECK_DEADLOCK FALSE
