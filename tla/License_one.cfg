SPECIFICATION FairSpec
CONSTANTS
  Workers = {w1}
  Never = Never
  Settings = {"file", "key", "unset"}
  Grace = 1
  Distributed = TRUE
  Installed = FALSE
  MayRaise = FALSE
  EndDates = {2, Never}
  MaxTime = 4
  LastUp = 2
INVARIANT TypeOK
INVARIANT RefusalSticks
INVARIANT MemoryMirrorsRow
INVARIANT StaysReadable
PROPERTY ImplementsPromise
PROPERTY Recovers
PROPERTY OutageCutsOff
