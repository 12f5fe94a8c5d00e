SPECIFICATION Spec
CONSTANTS
  Workers = {w1, w2}
  Never = Never
  Settings = {"key"}
  Grace = 0
  Distributed = TRUE
  Installed = TRUE
  MayRaise = TRUE
  EndDates = {Never}
  MaxTime = 2
  LastUp = 2
INVARIANT WritesAreEntitled
