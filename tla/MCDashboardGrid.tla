---------------------------- MODULE MCDashboardGrid ----------------------------
(* A grid of four columns: a square tile, a small one, and one as wide as the grid. *)
EXTENDS DashboardGrid

MCSizes == <<<<2, 2>>, <<1, 1>>, <<4, 1>>>>
=============================================================================
