SPECIFICATION Spec
CONSTANTS
  Tabs = {t1, t2}
  Docs = {d1, d2}
  Ranges = {r1}
  Owner = owner
  Reviewer = reviewer
  Nobody = nobody
  Patches <- MCCertification
  Params = {p1}
  Gap = 3
  MaxHistory = 2
  MaxClock = 4
  MaxRev = 3
  Overlap = TRUE
SYMMETRY Interchangeable
PROPERTIES
  ContentWritesOnlyContent
  OnlySavesRewritten
CHECK_DEADLOCK FALSE
