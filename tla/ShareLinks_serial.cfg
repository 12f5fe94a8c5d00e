SPECIFICATION Spec
CONSTANTS
  Users = {u1, u2, u3}
  Items = {i1}
  Titles = {plain, personal}
  Personal = {personal}
  Window = 1
  MaxClock = 2
  Overlap = FALSE
SYMMETRY Interchangeable
INVARIANTS
  TypeOK
PROPERTIES
  OnlyUndoExposes
  OffSticks
  UndoIsExact
