SPECIFICATION FairSpec
CONSTANTS
  a1 = a1
  a2 = a2
  Accounts = {a1, a2}
  Models = {}
  AnyModel = AnyModel
  None = None
  Reqs = {p1, p2}
  Over = {a1}
  Errors <- FairErrors
  Confs <- PayingConfs
  MaxRank = 1
  MaxEdits = 0
PROPERTIES
  EveryRequestEnds
CHECK_DEADLOCK FALSE
