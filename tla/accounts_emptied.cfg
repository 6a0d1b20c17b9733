SPECIFICATION Spec
CONSTANTS
  Accounts = {a1, a2, a3, a4}
  None = None
  Flaws = {}
  Commands = {"remove", "goToPage"}
  Limit = 2
  MaxTasks = 3
INVARIANT EmptyPageLeft
CHECK_DEADLOCK FALSE
