SPECIFICATION Spec
CONSTANTS
  a1 = a1
  a2 = a2
  Accounts = {a1, a2}
  Sessions = {s1, s2}
  Kinds <- AllKinds
  Absent = Absent
  None = None
  Suspends = TRUE
  Initial <- MixedStores
  MaxTokens = 1
INVARIANTS
  TypeOK
  TokenKept
  PoolHasToken
  PoolFollowsStore
PROPERTIES
  Membership
SYMMETRY Symmetry
CHECK_DEADLOCK FALSE
