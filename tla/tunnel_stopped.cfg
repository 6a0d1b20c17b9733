SPECIFICATION Spec
CONSTANTS
  Quick = {q1}
  Named = {n1, n2}
  None = None
  MaxRestarts = 0
INVARIANTS
  StoppedMeansNotRunning
