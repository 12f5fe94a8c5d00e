SPECIFICATION Spec
CONSTANTS
  N = 3
  Cols = 4
  MinW = 1
  MinH = 1
  Sizes <- MCSizes
  Locked = {3}
  Rows = 2
  Rounds = 8
  MaxOps = 2
CHECK_DEADLOCK FALSE
INVARIANT TypeOK
INVARIANT TilesStayApart
INVARIANT StaysPut
PROPERTY EscapeTakesBack
