SPECIFICATION Spec
CONSTANTS
  Dashboards = {d1, d2}
  Widgets = {w1, w2}
  Places = {p1, p2}
  None = None
  MaxHistory = 2
  MaxOps = 3
  MaxCalls = 2
SYMMETRY Symmetry
CHECK_DEADLOCK FALSE
INVARIANT TypeOK
INVARIANT ShowsOwnUnlessStrayed
INVARIANT PlacedUnlessStrayed
PROPERTY LayoutGoesHome
