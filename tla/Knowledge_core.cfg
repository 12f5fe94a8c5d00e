SPECIFICATION FairSpec
CONSTANTS
  DocIds = {d1, d2}
  Files = {f1}
  NoFile = none
  Batches = 2
  Slots = {s1, s2}
  Running = 2
  MaxTries = 2
  MaxKills = 1
  MaxCopies = 1
  MayLose = FALSE
  MayFail = TRUE
  MayBreak = FALSE
  MayReindex = FALSE
  MayDelete = FALSE
INVARIANTS
  ProcessingHasJob
  ReadyIsStored
CHECK_DEADLOCK FALSE
PROPERTIES
  Settles
