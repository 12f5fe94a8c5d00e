SPECIFICATION Spec
CONSTANTS
  Users = {a}
  None = None
  Attempts = 2
  MayRush = FALSE
  MaxOps = 3
  MaxFaults = 1
CHECK_DEADLOCK FALSE
PROPERTY LoadingEnds
