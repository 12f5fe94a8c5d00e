----------------------------- MODULE DashboardGrid -----------------------------
(***************************************************************************)
(* The grid of a dashboard page: dragging, resizing and nudging tiles, the   *)
(* Escape that takes a gesture back, aligning and distributing a selection,   *)
(* and the resolution of the overlaps these leave (layoutSanitize.ts).        *)
(*                                                                           *)
(* A layout is a function from the tiles, in the order of the array, to        *)
(* rectangles of grid cells; rows are unbounded downwards.                    *)
(***************************************************************************)
EXTENDS Integers, FiniteSets

CONSTANTS N,          \* tiles
          Cols,       \* GRID_COLS
          MinW, MinH, \* GRID_MIN_W, GRID_MIN_H
          Sizes,      \* bound: the initial size of each tile
          Locked,     \* the tiles with isLocked
          Rows,       \* bound: the rows a person drops or grows tiles in
          Rounds,     \* guard of the nudging loop (160 in the code)
          MaxOps      \* bound: what the person does

ASSUME NAssumption == N \in Nat \ {0}
ASSUME ColsAssumption == Cols \in Nat \ {0} /\ MinW \in 1..Cols /\ MinH \in Nat \ {0}
ASSUME LockedAssumption == Locked \subseteq 1..N
ASSUME SizesAssumption == \A i \in 1..N : Sizes[i][1] \in 1..Cols /\ Sizes[i][2] \in Nat \ {0}
ASSUME BoundsAssumption == Rows \in Nat /\ Rounds \in Nat /\ MaxOps \in Nat

Tiles == 1..N
Nobody == 0

VARIABLES
  layout,   \* the page's layout in the store
  saved,    \* what onLayoutSync was given last
  held,     \* the tile under the mouse, or Nobody
  moving,   \* layoutGestureRef
  cancelled,\* gestureCancelledRef
  before,   \* layoutBeforeGestureRef; the grid component drags over a copy of it
  ops,
  placed,   \* history: the tile the person placed last, and where
  stacked,  \* history: the layout comes from an older session or from the selection's toolbar
  crossed   \* history: a key was pressed while the tile was held

gesture == <<held, moving, cancelled, before>>
vars == <<layout, saved, gesture, ops, placed, stacked, crossed>>

Least(a, b) == IF a < b THEN a ELSE b
Most(a, b) == IF a > b THEN a ELSE b
Within(lo, hi, v) == Most(lo, Least(hi, v))

-----------------------------------------------------------------------------
(* Rectangles *)

rectsOverlap(a, b) ==
  ~(a.x + a.w <= b.x \/ b.x + b.w <= a.x \/ a.y + a.h <= b.y \/ b.y + b.h <= a.y)

hasLayoutOverlaps(l) == \E i, j \in DOMAIN l : i < j /\ rectsOverlap(l[i], l[j])

At(r, x, y) == [r EXCEPT !.x = x, !.y = y]
Sized(r, w, h) == [r EXCEPT !.w = w, !.h = h]

overlapArea(a, b) ==
  Most(0, Least(a.x + a.w, b.x + b.w) - Most(a.x, b.x)) * Most(0, Least(a.y + a.h, b.y + b.h) - Most(a.y, b.y))

\* Mutated form: the sizes are put right, the positions are not.
Normalized_SizesOnly(l) ==
  [i \in DOMAIN l |-> [l[i] EXCEPT !.w = Within(1, Cols, l[i].w), !.h = Most(1, l[i].h)]]

\* normalizeItems, of one item and of all
OnGrid(r) ==
  LET w == Within(1, Cols, r.w) IN
  [x |-> Within(0, Cols - w, r.x), y |-> Most(0, r.y), w |-> w, h |-> Most(1, r.h)]

Normalized(l) == [i \in DOMAIN l |-> OnGrid(l[i])]

isResize(old, r) == old.w # r.w \/ old.h # r.h

\* The centre of r lies in o (doubled, to stay in the integers).
CentreIn(r, o) ==
  /\ 2 * r.x + r.w >= 2 * o.x /\ 2 * r.x + r.w < 2 * (o.x + o.w)
  /\ 2 * r.y + r.h >= 2 * o.y /\ 2 * r.y + r.h < 2 * (o.y + o.h)

\* The drop covers 35 percent of the smaller tile or centres on the other, and their sizes are
\* comparable: at most 2.2 to 1.
shouldSwap(r, o) ==
  /\ 100 * overlapArea(r, o) >= 35 * Least(r.w * r.h, o.w * o.h) \/ CentreIn(r, o)
  /\ 10 * Most(r.w, o.w) <= 22 * Least(r.w, o.w)
  /\ 10 * Most(r.h, o.h) <= 22 * Least(r.h, o.h)

-----------------------------------------------------------------------------
(* Clearing one overlap: a bias is the set of preferred directions *)

growthBias(old, r) ==
  LET dx == r.x - old.x  dy == r.y - old.y
      far(d) == IF d < 0 THEN -d ELSE d
  IN  CASE r.w > old.w /\ dx < 0 -> {"left"}
        [] r.w > old.w /\ dx = 0 -> {"right"}
        [] ~(r.w > old.w /\ dx <= 0) /\ r.h > old.h /\ dy < 0 -> {"up"}
        [] ~(r.w > old.w /\ dx <= 0) /\ r.h > old.h /\ dy = 0 -> {"down"}
        [] ~isResize(old, r) /\ far(dx) >= far(dy) -> IF dx >= 0 THEN {"right"} ELSE {"left"}
        [] ~isResize(old, r) /\ far(dx) < far(dy) -> IF dy >= 0 THEN {"down"} ELSE {"up"}
        [] OTHER -> {}

\* The ways to push s off a, in the order they are tried at equal cost.
Pushes(a, s, bias) ==
  LET cost(push, dir, opposite) ==
        10 * push - (IF dir \in bias THEN 40 ELSE 0) + (IF opposite \in bias THEN 20 ELSE 0)
      left == s.x + s.w - a.x  right == a.x + a.w - s.x
      up == s.y + s.h - a.y    down == a.y + a.h - s.y
  IN  (IF left > 0 /\ s.x >= left THEN {[to |-> At(s, s.x - left, s.y), cost |-> cost(left, "left", "right"), n |-> 1]} ELSE {})
      \cup (IF right > 0 /\ s.x + right + s.w <= Cols
            THEN {[to |-> At(s, s.x + right, s.y), cost |-> cost(right, "right", "left"), n |-> 2]} ELSE {})
      \cup (IF up > 0 /\ s.y >= up THEN {[to |-> At(s, s.x, s.y - up), cost |-> cost(up, "up", "down") - 1, n |-> 3]} ELSE {})
      \cup (IF down > 0 THEN {[to |-> At(s, s.x, s.y + down), cost |-> cost(down, "down", "up") + 8, n |-> 4]} ELSE {})

\* The cheapest push that clears the anchor; there always is one, downwards.
minimalClearance(a, s, bias) ==
  LET clear == {p \in Pushes(a, s, bias) : ~rectsOverlap(a, p.to)} IN
  (CHOOSE p \in clear : \A q \in clear : p.cost < q.cost \/ (p.cost = q.cost /\ p.n <= q.n)).to

-----------------------------------------------------------------------------
(* resolveLayoutCollisions: mv is the tile that was moved, or Nobody; old where it was, or <<>> *)

\* Phase 1: the only tile under the drop takes the place the moved one left.
Swapped(l, mv, old) ==
  LET under == {i \in (DOMAIN l) \ {mv} : rectsOverlap(l[mv], l[i])} IN
  IF Cardinality(under) # 1 THEN l
  ELSE LET o == CHOOSE i \in under : TRUE
           dest == At(l[o], Within(0, Cols - l[o].w, old.x), Most(0, old.y)) IN
       IF shouldSwap(l[mv], l[o]) /\ ~\E i \in (DOMAIN l) \ {mv, o} : rectsOverlap(dest, l[i])
       THEN [l EXCEPT ![o] = dest] ELSE l

\* Mutated form: the later tile of a pair yields, even to a neighbour of the one that was moved.
Yields_Later(l, i, j, mv) == j

\* Which of two overlapping tiles yields: never the moved one, else the lower, or the right one.
Yields(l, i, j, mv) ==
  IF i = mv THEN j
  ELSE IF j = mv THEN i
  ELSE IF l[i].y < l[j].y \/ (l[i].y = l[j].y /\ l[i].x <= l[j].x) THEN j ELSE i

\* One pair: the cheapest push; if it hits a third tile, the first other way that hits none.
Nudge(l, i, j, mv, bias) ==
  LET s == Yields(l, i, j, mv)
      a == IF s = i THEN j ELSE i
      way(n) == minimalClearance(l[a], l[s], IF n = 0 THEN bias ELSE bias \cup {<<"left", "right", "up", "down">>[n]})
      free(n) == ~\E k \in Tiles \ {s, a} : rectsOverlap(way(n), l[k])
  IN  [l EXCEPT ![s] = IF \E n \in 0..4 : free(n)
                       THEN way(CHOOSE n \in 0..4 : free(n) /\ \A m \in 0..4 : m < n => ~free(m)) ELSE way(0)]

\* The pairs are gone through twice, in the order of the array: those of the moved tile, the others.
Pair(k) == LET n == (k - 1) % (N * N) IN <<(n \div N) + 1, (n % N) + 1>>

\* A pair gets its turn if it overlapped at the start of the round, and still does.
Due(l, m, mv, k) ==
  LET i == Pair(k)[1] j == Pair(k)[2] IN
  /\ i < j /\ (mv \in {i, j} <=> k <= N * N)
  /\ rectsOverlap(l[i], l[j]) /\ rectsOverlap(m[i], m[j])

Turn(l, m, mv, bias, k) == IF Due(l, m, mv, k) THEN Nudge(m, Pair(k)[1], Pair(k)[2], mv, bias) ELSE m

Round(l, mv, bias) ==
  LET after[k \in 0..(2 * N * N)] == IF k = 0 THEN l ELSE Turn(l, after[k - 1], mv, bias, k)
  IN  after[2 * N * N]

\* Phase 2: rounds of nudges, until nothing overlaps or the guard is reached.
Nudged(l, mv, bias) ==
  LET after[n \in 0..Rounds] ==
        IF n = 0 THEN l
        ELSE LET m == after[n - 1] IN IF hasLayoutOverlaps(m) THEN Round(m, mv, bias) ELSE m
  IN  after[Rounds]

maxLayoutY(taken) ==
  CHOOSE b \in {0} \cup {q.y + q.h : q \in taken} : \A q \in taken : q.y + q.h <= b

\* Where r is, or the nearest place that no rectangle of taken covers: ring by ring around it, each
\* ring row by row; else below everything.
findFreeLayoutPosition(taken, r) ==
  LET clear(s) == ~\E q \in taken : rectsOverlap(s, q)
      spot(p) == At(r, Within(0, Cols - r.w, r.x + p[2]), Most(0, r.y + p[1]))
      ring(n) == {p \in ((-n)..n) \X ((-n)..n) : n \in {p[1], -p[1], p[2], -p[2]} /\ clear(spot(p))}
      radii == 1..Most(24, maxLayoutY(taken) + r.h + 4)
      nearest == CHOOSE n \in radii : ring(n) # {} /\ \A m \in radii : m < n => ring(m) = {}
      first == CHOOSE p \in ring(nearest) :
                 \A q \in ring(nearest) : p[1] < q[1] \/ (p[1] = q[1] /\ p[2] <= q[2])
  IN  IF clear(r) THEN r
      ELSE IF \E n \in radii : ring(n) # {} THEN spot(first) ELSE At(r, r.x, maxLayoutY(taken))

\* Mutated form: what the nudging left is kept.
Seated_Not(l, mv) == l

\* The order of seating: from the top, from the left, by name.
Foremost(l, S) ==
  CHOOSE i \in S : \A j \in S : \/ l[i].y < l[j].y
                                \/ l[i].y = l[j].y /\ l[i].x < l[j].x
                                \/ l[i].y = l[j].y /\ l[i].x = l[j].x /\ i <= j

\* m are the tiles that are seated, as they are seated; one more takes its place among them.
Seat(l, m) ==
  LET left == Tiles \ DOMAIN m
      next == Foremost(l, left)
  IN  IF left = {} THEN m
      ELSE [i \in (DOMAIN m) \cup {next} |->
              IF i = next THEN findFreeLayoutPosition({m[j] : j \in DOMAIN m}, l[i]) ELSE m[i]]

\* Phase 3: tile after tile, the moved one first, each where it is or in the nearest free place. It
\* leaves no overlap, so the second seating in the code is never reached.
Seated(l, mv) ==
  LET after[n \in 0..N] == IF n = 0 THEN [i \in Tiles \cap {mv} |-> l[i]] ELSE Seat(l, after[n - 1])
  IN  after[N]

resolveLayoutCollisions(l, mv, old) ==
  LET n == Normalized(l)
      s == IF mv # Nobody /\ old # <<>> /\ ~isResize(old[1], n[mv]) THEN Swapped(n, mv, old[1]) ELSE n
      t == Nudged(s, mv, IF mv # Nobody /\ old # <<>> THEN growthBias(old[1], n[mv]) ELSE {})
  IN  IF hasLayoutOverlaps(t) THEN Seated(t, mv) ELSE t

-----------------------------------------------------------------------------
(* The canvas *)

Rect == [x : 0..Cols, y : Nat, w : 1..Cols, h : Nat \ {0}]
Act == ops < MaxOps /\ ops' = ops + 1

\* What the API is sent of a layout (sanitizeLayoutItem).
Sanitized(l) == [i \in Tiles |-> At(l[i], Most(0, l[i].x), Most(0, l[i].y))]

\* commitLayout, with and without sync.
Commit(l) == layout' = l /\ saved' = Sanitized(l)
CommitHere(l) == layout' = l /\ UNCHANGED saved

\* Any layout that was ever saved; older ones hold stacked tiles.
Init ==
  /\ layout \in {l \in [Tiles -> [x : 0..Cols, y : 0..Rows, w : {Sizes[i][1] : i \in Tiles}, h : {Sizes[i][2] : i \in Tiles}]] :
                   \A i \in Tiles : <<l[i].w, l[i].h>> = Sizes[i] /\ l[i].x + l[i].w <= Cols}
  /\ saved = layout
  /\ held = Nobody /\ moving = FALSE /\ cancelled = FALSE /\ before = <<>>
  /\ ops = 0 /\ placed = <<>> /\ stacked = TRUE /\ crossed = FALSE

\* The effect runs with every change of the layout, before the next event of the person.
Healing == ~moving /\ hasLayoutOverlaps(layout)

Heal ==
  /\ Healing
  /\ Commit(resolveLayoutCollisions(layout, Nobody, <<>>))
  /\ stacked' = FALSE
  /\ UNCHANGED <<gesture, ops, placed, crossed>>

BeginLayoutGesture(i) ==
  /\ Act
  /\ ~Healing /\ held = Nobody /\ i \notin Locked
  /\ held' = i /\ moving' = TRUE /\ cancelled' = FALSE /\ before' = layout
  /\ crossed' = FALSE /\ placed' = <<>>
  /\ UNCHANGED <<layout, saved, stacked>>

\* Escape, while the mouse is down.
CancelLayoutGesture ==
  /\ moving
  /\ cancelled' = TRUE /\ moving' = FALSE
  /\ CommitHere(before)
  /\ UNCHANGED <<held, before, ops, placed, stacked, crossed>>

\* Where the grid component lets a tile be dragged to, or resized to by its lower right and its
\* upper left corner.
Drags(t) == {At(t, x, y) : x \in 0..(Cols - t.w), y \in 0..Rows}
Stretches(t) == {Sized(t, w, h) : w \in MinW..(Cols - t.x), h \in MinH..Most(Rows, t.h)}
Pulls(t) == {[x |-> x, y |-> y, w |-> t.x + t.w - x, h |-> t.y + t.h - y] :
               x \in 0..(t.x + t.w - MinW), y \in 0..(t.y + t.h - MinH)}

Reach(t) == Drags(t) \cup Stretches(t) \cup Pulls(t)

\* The layout after a drop: the one the gesture began with, whatever happened meanwhile.
Dropped(t) == resolveLayoutCollisions([before EXCEPT ![held] = t], held, <<before[held]>>)

\* Mutated form: the stop event of a cancelled gesture is taken for a drop.
EndLayoutGesture_Forgets(t) ==
  /\ ~Healing /\ held # Nobody
  /\ held' = Nobody /\ moving' = FALSE /\ cancelled' = FALSE /\ before' = <<>>
  /\ Commit(Dropped(t)) /\ placed' = <<held, t>> /\ stacked' = FALSE
  /\ UNCHANGED <<ops, crossed>>

\* The mouse is released with the tile at t.
EndLayoutGesture(t) ==
  /\ ~Healing /\ held # Nobody
  /\ held' = Nobody /\ moving' = FALSE /\ cancelled' = FALSE /\ before' = <<>>
  /\ IF cancelled THEN CommitHere(before) /\ UNCHANGED <<placed, stacked>>
     ELSE Commit(Dropped(t)) /\ placed' = <<held, t>> /\ stacked' = FALSE
  /\ UNCHANGED <<ops, crossed>>

\* The arrow keys, on the selected tile: one cell, or with Shift one cell larger or smaller.
Moved(t) ==
  {At(t, Most(0, t.x - 1), t.y), At(t, Least(Cols - t.w, t.x + 1), t.y), At(t, t.x, Most(0, t.y - 1)), At(t, t.x, t.y + 1)}

Resized(t) ==
  {Sized(t, Most(MinW, t.w - 1), t.h), Sized(t, Least(Cols - t.x, t.w + 1), t.h),
   Sized(t, t.w, Most(MinH, t.h - 1)), Sized(t, t.w, t.h + 1)}

HandleArrow(i) ==
  /\ Act
  /\ ~Healing /\ i \notin Locked
  /\ \/ \E t \in Moved(layout[i]) :
          Commit(resolveLayoutCollisions([layout EXCEPT ![i] = t], i, <<>>)) /\ placed' = <<i, t>>
     \/ \E t \in Resized(layout[i]) :
          Commit(resolveLayoutCollisions([layout EXCEPT ![i] = t], i, <<layout[i]>>)) /\ placed' = <<i, t>>
  /\ crossed' = (held # Nobody) /\ stacked' = FALSE
  /\ UNCHANGED gesture

-----------------------------------------------------------------------------
(* The toolbar of a selection. What it stacks, the heal takes apart. *)

Edge(i, across) == IF across THEN layout[i].x ELSE layout[i].y
Extent(i, across) == IF across THEN layout[i].w ELSE layout[i].h
Shift(i, across, to) == IF across THEN At(layout[i], to, layout[i].y) ELSE At(layout[i], layout[i].x, to)

\* The extents of the tiles of S together.
Length(S, across) ==
  LET upto[i \in 0..N] == IF i = 0 THEN 0 ELSE upto[i - 1] + (IF i \in S THEN Extent(i, across) ELSE 0)
  IN  upto[N]

AlignSelectedWidgets(sel, across) ==
  /\ Act
  /\ ~Healing /\ held = Nobody /\ Cardinality(sel) >= 2
  /\ LET least == CHOOSE m \in {Edge(i, across) : i \in sel} : \A i \in sel : m <= Edge(i, across)
     IN  Commit([i \in Tiles |-> IF i \in sel THEN Shift(i, across, least) ELSE layout[i]])
  /\ placed' = <<>> /\ stacked' = TRUE
  /\ UNCHANGED <<gesture, crossed>>

\* Equal gaps between the first and the last of the selection, rounded to cells; they are negative
\* where the tiles are longer than the room between the outer two.
DistributeSelectedWidgets(sel, across) ==
  /\ Act
  /\ ~Healing /\ held = Nobody /\ Cardinality(sel) >= 3
  /\ LET ahead(i) == {j \in sel : Edge(j, across) < Edge(i, across) \/ (Edge(j, across) = Edge(i, across) /\ j < i)}
         n == Cardinality(sel) - 1
         first == CHOOSE i \in sel : ahead(i) = {}
         last == CHOOSE i \in sel : ahead(i) = sel \ {i}
         start == Edge(first, across)
         room == Edge(last, across) + Extent(last, across) - start - Length(sel, across)
         \* the tiles before it, and as many gaps of room / n, rounded half up
         to(i) == (2 * n * (start + Length(ahead(i), across)) + 2 * Cardinality(ahead(i)) * room + n) \div (2 * n)
     IN  Commit([i \in Tiles |-> IF i \in sel THEN Shift(i, across, to(i)) ELSE layout[i]])
  /\ placed' = <<>> /\ stacked' = TRUE
  /\ UNCHANGED <<gesture, crossed>>

-----------------------------------------------------------------------------
Next ==
  \/ Heal \/ CancelLayoutGesture
  \/ \E i \in Tiles : BeginLayoutGesture(i) \/ HandleArrow(i)
  \/ held # Nobody /\ \E t \in Reach(before[held]) : EndLayoutGesture(t)
  \/ \E sel \in SUBSET Tiles, across \in BOOLEAN :
       AlignSelectedWidgets(sel, across) \/ DistributeSelectedWidgets(sel, across)

Spec == Init /\ [][Next]_vars

-----------------------------------------------------------------------------
(* Properties *)

\* Every tile is at least one cell, and what is saved lies within the grid, but for what the toolbar
\* of a selection distributes: it may push a wide tile over an edge.
TypeOK ==
  /\ layout \in [Tiles -> [x : Int, y : Int, w : 1..Cols, h : Nat \ {0}]]
  /\ stacked \/ \A i \in Tiles : saved[i] \in Rect /\ saved[i].x + saved[i].w <= Cols
  /\ held \in Tiles \cup {Nobody} /\ {moving, cancelled, stacked, crossed} \subseteq BOOLEAN

\* No drop, resize, key or heal leaves two tiles on top of each other, in whatever arrangement it
\* finds them: only what was saved by an older session, or aligned, is ever stacked.
TilesStayApart == hasLayoutOverlaps(layout) => stacked

\* The tile a person placed is where they placed it, or at the edge of the grid if Distribute had
\* pushed it off: its neighbours yield, it never does. (A key pressed while the mouse holds the tile
\* is undone by the release.)
StaysPut == placed # <<>> /\ ~crossed => layout[placed[1]] = OnGrid(placed[2])

\* A gesture that was cancelled leaves no trace, here or in what is saved.
EscapeTakesBack == [][cancelled /\ held' = Nobody /\ ~crossed => UNCHANGED <<layout, saved>>]_vars
=============================================================================
