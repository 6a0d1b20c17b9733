SPECIFICATION FairSpec
CONSTANTS
  Quick = {q1, q2}
  Named = {n1, n2}
  None = None
  MaxRestarts = 1
INVARIANTS
  TypeOK
  NoOrphan
  StartingIsTemporary
PROPERTIES
  StaysRunning
  StartsReturn
