SPECIFICATION Spec
CONSTANTS
  a1 = a1
  a2 = a2
  Accounts = {a1, a2}
  Models = {}
  AnyModel = AnyModel
  None = None
  Reqs = {p1, p2}
  Over = {}
  Errors <- AuthErrors
  Confs <- MixedConfs
  MaxRank = 1
  MaxEdits = 1
PROPERTIES
  DisabledNotUsed
CHECK_DEADLOCK FALSE
