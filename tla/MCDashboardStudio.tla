------------------------- MODULE MCDashboardStudio -------------------------
EXTENDS DashboardStudio, TLC
Symmetry == Permutations(Widgets) \cup Permutations(Places) \cup Permutations(Dashboards)
=============================================================================
