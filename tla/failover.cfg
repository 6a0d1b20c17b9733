SPECIFICATION Spec
CONSTANTS
  a1 = a1
  a2 = a2
  Accounts = {a1, a2}
  Models = {}
  AnyModel = AnyModel
  None = None
  Reqs = {p1, p2}
  Over = {a2}
  Errors <- RaceErrors
  Confs <- MixedConfs
  MaxRank = 1
  MaxEdits = 1
INVARIANTS
  TypeOK
  OneSource
  GivesUpLast
  PoolFollowsConfig
SYMMETRY Symmetry
CHECK_DEADLOCK FALSE
