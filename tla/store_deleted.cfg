SPECIFICATION Spec
CONSTANTS
  a1 = a1
  a2 = a2
  Accounts = {a1, a2}
  Sessions = {s1, s2}
  Kinds <- RemoveKinds
  Absent = Absent
  None = None
  Suspends = FALSE
  Initial <- HealthyStores
  MaxTokens = 1
PROPERTIES
  DeletedStaysDeleted
SYMMETRY Symmetry
CHECK_DEADLOCK FALSE
