SPECIFICATION Spec
CONSTANTS
  Items = {i1}
  None = None
  MaxEdits = 2
  MaxOps = 2
  MaxCalls = 2
  MaxFaults = 1
CHECK_DEADLOCK FALSE
INVARIANT TypeOK
 
PROPERTY NoSilentOverwrite
PROPERTY EditsSettle
