SPECIFICATION Spec
CONSTANTS
  DocIds = {d1, d2}
  Files = {f1}
  NoFile = none
  Batches = 1
  Slots = {s1, s2}
  Running = 2
  MaxTries = 2
  MaxKills = 2
  MaxCopies = 1
  MayLose = TRUE
  MayFail = TRUE
  MayBreak = TRUE
  MayReindex = TRUE
  MayDelete = TRUE
SYMMETRY Interchangeable
INVARIANTS
  ChunksHaveDocument
CHECK_DEADLOCK FALSE
