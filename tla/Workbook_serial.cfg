SPECIFICATION Spec
CONSTANTS
  Tabs = {t1, t2}
  Docs = {d1, d2}
  Ranges = {r1}
  Owner = owner
  Reviewer = reviewer
  Nobody = nobody
  Patches <- MCPatches
  Params = {p1, p2}
  Gap = 3
  MaxHistory = 2
  MaxClock = 6
  MaxRev = 4
  Overlap = FALSE
SYMMETRY Interchangeable
INVARIANTS
  TypeOK
  HistoryIsCurrent
PROPERTIES
  NoSilentOverwrite
  RestoreCanBeUndone
  SavedPointsSurvive
CHECK_DEADLOCK FALSE
