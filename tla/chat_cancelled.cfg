SPECIFICATION Spec
CONSTANTS
  Sessions = {s1}
  None = None
  MaxExchanges = 2
  MaxMounts = 1
  MaxChunks = 1
  MaxFiles = 0
  MaxFailures = 0
INVARIANT OwnContent
CHECK_DEADLOCK FALSE
