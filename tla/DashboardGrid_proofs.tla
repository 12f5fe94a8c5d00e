-------------------------- MODULE DashboardGrid_proofs --------------------------
(***************************************************************************)
(* Theorems about DashboardGrid, for any number of tiles of any sizes, any *)
(* width of the grid and any number of rounds of nudges.                   *)
(*                                                                         *)
(* The prover has no induction over an operator: what a loop keeps is      *)
(* proved of the set of the counts at which it would be broken, which has  *)
(* no least element.                                                       *)
(***************************************************************************)
EXTENDS DashboardGrid, FiniteSetTheorems, WellFoundedInduction, TLAPS

-----------------------------------------------------------------------------
(* Naturals *)

LEMMA LeastNatural ==
  ASSUME NEW T \in SUBSET Nat, T # {}
  PROVE  \E x \in T : \A y \in T : x <= y
<1>1. \E x \in T : \A y \in T : ~(<<y, x>> \in OpToRel(<, Nat))
  BY NatLessThanWellFounded, WFMin
<1>2. PICK x \in T : \A y \in T : ~(<<y, x>> \in OpToRel(<, Nat))
  BY <1>1
<1>3. \A y \in T : y \in Nat /\ x \in Nat /\ <<y, x>> \in Nat \X Nat
  OBVIOUS
<1>4. \A y \in T : ~(y < x)
  BY <1>2, <1>3, Zenon DEF OpToRel
<1> QED BY <1>3, <1>4

\* No counterexample is the least: there is none.
LEMMA NoLeast ==
  ASSUME NEW T \in SUBSET Nat, 0 \notin T, \A n \in Nat : n + 1 \in T => n \in T
  PROVE  T = {}
<1> SUFFICES ASSUME T # {} PROVE FALSE
  OBVIOUS
<1>1. PICK x \in T : \A y \in T : x <= y
  BY LeastNatural
<1>2. x \in Nat /\ x # 0 /\ x - 1 \in Nat /\ (x - 1) + 1 = x
  BY <1>1
<1>3. x - 1 \in T
  BY <1>1, <1>2
<1> QED BY <1>1, <1>2, <1>3

\* Some member of a set has the least value.
LEMMA LeastValue ==
  ASSUME NEW S, S # {}, NEW f \in [S -> Nat]
  PROVE  \E i \in S : \A j \in S : f[i] <= f[j]
<1> DEFINE T == {f[i] : i \in S}
<1>1. T \subseteq Nat /\ T # {}
  OBVIOUS
<1>2. \E x \in T : \A y \in T : x <= y
  BY <1>1, LeastNatural
<1> QED BY <1>2

-----------------------------------------------------------------------------
(* Loops *)

\* n turns of a loop, on states of V.
Runs(f, n, V, b, step) ==
  /\ f \in [0..n -> V]
  /\ f = [k \in 0..n |-> IF k = 0 THEN b ELSE step[<<k, f[k - 1]>>]]

LEMMA LoopRuns ==
  ASSUME NEW V, NEW b \in V, NEW n \in Nat, NEW step \in [(Nat \ {0}) \X V -> V]
  PROVE  \E f : Runs(f, n, V, b, step)
<1> DEFINE T == {m \in Nat : ~\E f : Runs(f, m, V, b, step)}
<1>1. 0 \notin T
  <2> DEFINE f == [k \in 0..0 |-> b]
  <2>1. f \in [0..0 -> V] /\ f = [k \in 0..0 |-> IF k = 0 THEN b ELSE step[<<k, f[k - 1]>>]]
    OBVIOUS
  <2> QED BY <2>1 DEF Runs
<1>2. ASSUME NEW m \in Nat, m \notin T PROVE m + 1 \notin T
  <2>1. PICK f : Runs(f, m, V, b, step)
    BY <1>2
  <2>2. f \in [0..m -> V] /\ f = [k \in 0..m |-> IF k = 0 THEN b ELSE step[<<k, f[k - 1]>>]]
    BY <2>1 DEF Runs
  <2> DEFINE next == step[<<m + 1, f[m]>>]
             g == [k \in 0..(m + 1) |-> IF k = m + 1 THEN next ELSE f[k]]
  <2>3. f[m] \in V /\ next \in V
    BY <2>2
  <2>4. g \in [0..(m + 1) -> V]
    BY <2>2, <2>3
  <2>5. ASSUME NEW k \in 0..(m + 1) PROVE g[k] = IF k = 0 THEN b ELSE step[<<k, g[k - 1]>>]
    <3>1. CASE k = m + 1
      <4>1. g[k] = next /\ k - 1 = m /\ g[k - 1] = f[m] /\ k # 0
        BY <3>1
      <4> QED BY <3>1, <4>1
    <3>2. CASE k = 0
      <4>1. g[k] = f[0] /\ f[0] = b
        BY <2>2, <3>2
      <4> QED BY <3>2, <4>1
    <3>3. CASE k # m + 1 /\ k # 0
      <4>1. k \in 0..m /\ k - 1 \in 0..m
        BY <3>3
      <4>2. g[k] = f[k] /\ g[k - 1] = f[k - 1]
        BY <4>1, <3>3
      <4>3. f[k] = step[<<k, f[k - 1]>>]
        BY <2>2, <3>3, <4>1
      <4> QED BY <3>3, <4>2, <4>3
    <3> QED BY <3>1, <3>2, <3>3
  <2>6. g = [k \in 0..(m + 1) |-> IF k = 0 THEN b ELSE step[<<k, g[k - 1]>>]]
    <3>1. DOMAIN g = 0..(m + 1)  OBVIOUS
    <3> QED BY <2>4, <2>5, <3>1
  <2> QED BY <2>4, <2>6 DEF Runs
<1>3. T = {}
  BY <1>1, <1>2, NoLeast
<1> QED BY <1>3

\* What every turn keeps.
LEMMA LoopKeeps ==
  ASSUME NEW V, NEW n \in Nat, NEW f, f[0] \in V,
         \A k \in 1..n : f[k - 1] \in V => f[k] \in V
  PROVE  \A k \in 0..n : f[k] \in V
<1> DEFINE T == {m \in Nat : m <= n /\ f[m] \notin V}
<1>1. 0 \notin T
  OBVIOUS
<1>2. ASSUME NEW m \in Nat, m + 1 \in T PROVE m \in T
  <2>1. m + 1 \in 1..n /\ (m + 1) - 1 = m /\ m <= n
    BY <1>2
  <2>2. f[m] \notin V
    BY <1>2, <2>1
  <2> QED BY <2>1, <2>2
<1>3. T = {}
  <2> HIDE DEF T
  <2>1. T \subseteq Nat  BY DEF T
  <2> QED BY <1>1, <1>2, <2>1, NoLeast
<1> QED BY <1>3

-----------------------------------------------------------------------------
(* Rectangles *)

\* Any rectangle of cells, on the grid or not, and those on it.
Box == [x : Int, y : Int, w : Int, h : Int]
Tile == [x : Int, y : Int, w : 1..Cols, h : Nat \ {0}]
Seats == {r \in Rect : r.x + r.w <= Cols}

LEMMA TileIsBox == ASSUME NEW r \in Tile PROVE r \in Box
BY ColsAssumption DEF Tile, Box

LEMMA SeatIsTile == ASSUME NEW r \in Seats PROVE r \in Tile
BY ColsAssumption DEF Seats, Rect, Tile

LEMMA SeatIs ==
  ASSUME NEW r
  PROVE  r \in Seats <=> /\ r \in [x : Nat, y : Nat, w : Nat \ {0}, h : Nat \ {0}]
                         /\ r.x + r.w <= Cols
BY ColsAssumption DEF Seats, Rect

LEMMA OnGridSeats == ASSUME NEW r \in Box PROVE OnGrid(r) \in Seats
BY ColsAssumption DEF Box, Seats, Rect, OnGrid, Within, Least, Most

LEMMA OnGridStays == ASSUME NEW r \in Seats PROVE OnGrid(r) = r
BY ColsAssumption DEF Seats, Rect, OnGrid, Within, Least, Most

LEMMA OverlapSymmetric ==
  ASSUME NEW a, NEW b PROVE rectsOverlap(a, b) <=> rectsOverlap(b, a)
BY DEF rectsOverlap

LEMMA AtIs ==
  ASSUME NEW r \in Box, NEW x \in Int, NEW y \in Int
  PROVE  At(r, x, y) = [x |-> x, y |-> y, w |-> r.w, h |-> r.h]
<1> DEFINE t == At(r, x, y)
<1>1. DOMAIN t = {"x", "y", "w", "h"} /\ t = [i \in DOMAIN t |-> t[i]]
  BY DEF At, Box
<1>2. t.x = x /\ t.y = y /\ t.w = r.w /\ t.h = r.h
  BY DEF At, Box
<1> HIDE DEF t
<1>3. t = [x |-> x, y |-> y, w |-> r.w, h |-> r.h]
  BY <1>1, <1>2
<1> QED BY <1>3 DEF t

-----------------------------------------------------------------------------
(* Clearing one overlap *)

LEMMA PushesSeat ==
  ASSUME NEW a \in Seats, NEW s \in Seats, NEW bias, NEW p \in Pushes(a, s, bias)
  PROVE  /\ p.to \in Seats /\ p.to.w = s.w /\ p.to.h = s.h
         /\ p.cost \in Int /\ p.cost > -60 /\ p.n \in 1..4
<1> DEFINE cost(push, dir, opposite) ==
             10 * push - (IF dir \in bias THEN 40 ELSE 0) + (IF opposite \in bias THEN 20 ELSE 0)
           left == s.x + s.w - a.x
           right == a.x + a.w - s.x
           up == s.y + s.h - a.y
           down == a.y + a.h - s.y
<1>1. /\ a \in [x : Nat, y : Nat, w : Nat \ {0}, h : Nat \ {0}] /\ a.x + a.w <= Cols
      /\ s \in [x : Nat, y : Nat, w : Nat \ {0}, h : Nat \ {0}] /\ s.x + s.w <= Cols
      /\ s \in Box
  BY SeatIs, SeatIsTile, TileIsBox
<1>2. left \in Int /\ right \in Int /\ up \in Int /\ down \in Int
  BY <1>1
<1>3. \A v \in Int : \A d, o : v > 0 => cost(v, d, o) \in Int /\ cost(v, d, o) > -50
  OBVIOUS
<1>4. \/ left > 0 /\ s.x >= left
         /\ p = [to |-> At(s, s.x - left, s.y), cost |-> cost(left, "left", "right"), n |-> 1]
      \/ right > 0 /\ s.x + right + s.w <= Cols
         /\ p = [to |-> At(s, s.x + right, s.y), cost |-> cost(right, "right", "left"), n |-> 2]
      \/ up > 0 /\ s.y >= up
         /\ p = [to |-> At(s, s.x, s.y - up), cost |-> cost(up, "up", "down") - 1, n |-> 3]
      \/ down > 0
         /\ p = [to |-> At(s, s.x, s.y + down), cost |-> cost(down, "down", "up") + 8, n |-> 4]
  BY DEF Pushes
<1>5. PICK x \in Nat, y \in Nat : p.to = At(s, x, y) /\ x + s.w <= Cols
  <2> HIDE DEF cost
  <2>1. CASE left > 0 /\ s.x >= left /\ p.to = At(s, s.x - left, s.y)
    <3>1. s.x - left \in Nat
      BY <1>1, <1>2, <2>1
    <3>2. (s.x - left) + s.w = a.x /\ a.x <= Cols
      BY <1>1, ColsAssumption
    <3> QED BY <1>1, <2>1, <3>1, <3>2
  <2>2. CASE right > 0 /\ s.x + right + s.w <= Cols /\ p.to = At(s, s.x + right, s.y)
    <3>1. s.x + right \in Nat /\ (s.x + right) + s.w <= Cols
      BY <1>1, <1>2, <2>2
    <3> QED BY <1>1, <2>2, <3>1
  <2>3. CASE up > 0 /\ s.y >= up /\ p.to = At(s, s.x, s.y - up)
    <3>1. s.y - up \in Nat
      BY <1>1, <1>2, <2>3
    <3> QED BY <1>1, <2>3, <3>1
  <2>4. CASE down > 0 /\ p.to = At(s, s.x, s.y + down)
    <3>1. s.y + down \in Nat
      BY <1>1, <1>2, <2>4
    <3> QED BY <1>1, <2>4, <3>1
  <2> HIDE DEF left, right, up, down
  <2> QED BY <1>4, <2>1, <2>2, <2>3, <2>4
<1>6. p.cost \in Int /\ p.cost > -60 /\ p.n \in 1..4
  <2> HIDE DEF cost, left, right, up, down
  <2>1. \A v \in Int : v > -50 => /\ v \in Int /\ v > -60
                                  /\ v - 1 \in Int /\ v - 1 > -60
                                  /\ v + 8 \in Int /\ v + 8 > -60
    OBVIOUS
  <2> QED BY <1>2, <1>3, <1>4, <2>1
<1>7. p.to = [x |-> x, y |-> y, w |-> s.w, h |-> s.h]
  BY <1>1, <1>5, AtIs
<1> QED BY <1>1, <1>5, <1>6, <1>7, SeatIs

\* The tile that is pushed stays on the grid, keeps its size and is off the other.
LEMMA ClearanceClears ==
  ASSUME NEW a \in Seats, NEW s \in Seats, NEW bias, rectsOverlap(a, s)
  PROVE  minimalClearance(a, s, bias) \in Seats
<1> DEFINE clear == {p \in Pushes(a, s, bias) : ~rectsOverlap(a, p.to)}
           value(p) == 4 * (p.cost + 60) + p.n
           f == [p \in clear |-> value(p)]
           Cheapest(p) == \A q \in clear : p.cost < q.cost \/ (p.cost = q.cost /\ p.n <= q.n)
<1>1. \A p \in clear : p.to \in Seats /\ p.cost \in Int /\ p.cost > -60 /\ p.n \in 1..4
  BY PushesSeat
<1>2. clear # {}
  <2> DEFINE down == a.y + a.h - s.y
             c == 10 * down - (IF "down" \in bias THEN 40 ELSE 0) + (IF "up" \in bias THEN 20 ELSE 0)
             p == [to |-> At(s, s.x, s.y + down), cost |-> c + 8, n |-> 4]
  <2>1. /\ a \in [x : Nat, y : Nat, w : Nat \ {0}, h : Nat \ {0}]
        /\ s \in [x : Nat, y : Nat, w : Nat \ {0}, h : Nat \ {0}] /\ s \in Box
    BY SeatIs, SeatIsTile, TileIsBox
  <2>2. down > 0 /\ down \in Int
    BY <2>1 DEF rectsOverlap
  <2>3. p \in Pushes(a, s, bias)
    BY <2>2 DEF Pushes
  <2>4. p.to = [x |-> s.x, y |-> a.y + a.h, w |-> s.w, h |-> s.h]
    BY <2>1, <2>2, AtIs
  <2>5. ~rectsOverlap(a, p.to)
    <3> HIDE DEF p
    <3> QED BY <2>1, <2>4 DEF rectsOverlap
  <2> QED BY <2>3, <2>5
<1>3. PICK p \in clear : \A q \in clear : f[p] <= f[q]
  <2>1. f \in [clear -> Nat]
    <3>1. ASSUME NEW p \in clear PROVE value(p) \in Nat
      <4>1. p.cost \in Int /\ p.cost > -60 /\ p.n \in 1..4  BY <1>1
      <4> QED BY <4>1
    <3> HIDE DEF clear, value
    <3> QED BY <3>1
  <2> HIDE DEF clear, f
  <2> QED BY <1>2, <2>1, LeastValue
<1>4. Cheapest(p)
  <2> SUFFICES ASSUME NEW q \in clear PROVE p.cost < q.cost \/ (p.cost = q.cost /\ p.n <= q.n)
    OBVIOUS
  <2>1. value(p) <= value(q)
    BY <1>3
  <2>2. p.cost \in Int /\ p.n \in 1..4 /\ q.cost \in Int /\ q.n \in 1..4
    BY <1>1
  <2> QED BY <2>1, <2>2
<1>5. (CHOOSE q \in clear : Cheapest(q)) \in clear
  <2> HIDE DEF clear, Cheapest
  <2> QED BY <1>4
<1>6. minimalClearance(a, s, bias) = (CHOOSE q \in clear : Cheapest(q)).to
  BY DEF minimalClearance
<1> HIDE DEF clear, Cheapest
<1> QED BY <1>1, <1>5, <1>6

-----------------------------------------------------------------------------
(* Nudging: every tile stays on the grid, the one that was moved where it is *)

Layouts == [Tiles -> Seats]
Keeping(l, mv) == {m \in Layouts : mv # Nobody => m[mv] = l[mv]}

LEMMA NudgeKeeps ==
  ASSUME NEW l, NEW mv \in Tiles \cup {Nobody}, NEW m \in Keeping(l, mv), NEW i \in Tiles, NEW j \in Tiles, i < j,
         rectsOverlap(m[i], m[j]), NEW bias
  PROVE  Nudge(m, i, j, mv, bias) \in Keeping(l, mv)
<1> DEFINE s == Yields(m, i, j, mv)
           a == IF s = i THEN j ELSE i
           way(n) == minimalClearance(m[a], m[s], IF n = 0 THEN bias ELSE bias \cup {<<"left", "right", "up", "down">>[n]})
           free(n) == ~\E k \in Tiles \ {s, a} : rectsOverlap(way(n), m[k])
           to == IF \E n \in 0..4 : free(n)
                 THEN way(CHOOSE n \in 0..4 : free(n) /\ \A k \in 0..4 : k < n => ~free(k)) ELSE way(0)
<1>1. m \in [Tiles -> Seats] /\ (mv # Nobody => m[mv] = l[mv])
  BY DEF Keeping, Layouts
<1>2. i # j /\ i \in Int /\ j \in Int
  BY DEF Tiles
<1>3. s \in Tiles /\ a \in Tiles /\ s # mv
  BY <1>2 DEF Yields
<1>4. rectsOverlap(m[a], m[s])
  BY <1>2, OverlapSymmetric DEF Yields
<1>5. ASSUME NEW n PROVE way(n) \in Seats
  <2>1. m[a] \in Seats /\ m[s] \in Seats
    BY <1>1, <1>3
  <2> HIDE DEF s, a
  <2> QED BY <1>4, <2>1, ClearanceClears
<1>6. to \in Seats
  <2> HIDE DEF s, a, way, free
  <2> QED BY <1>5
<1>7. Nudge(m, i, j, mv, bias) = [m EXCEPT ![s] = to]
  BY DEF Nudge
<1>8. [m EXCEPT ![s] = to] \in Keeping(l, mv)
  <2> HIDE DEF s, a, way, free, to
  <2> QED BY <1>1, <1>3, <1>6 DEF Keeping, Layouts
<1> QED BY <1>7, <1>8

LEMMA PairOfTiles ==
  ASSUME NEW k \in Nat \ {0}
  PROVE  Pair(k)[1] \in Tiles /\ Pair(k)[2] \in Tiles
<1> DEFINE s == N * N
           n == (k - 1) % s
           q == n \div N
           c == n % N
<1>1. N \in Nat /\ N > 0 /\ s \in Nat /\ s > 0
  BY NAssumption
<1>2. n \in Nat /\ n < s
  <2> HIDE DEF s
  <2> QED BY <1>1
<1>3. c \in 0..(N - 1) /\ q \in Int /\ n = N * q + c
  <2> HIDE DEF n
  <2> QED BY <1>1, <1>2
<1>4. q >= 0 /\ q < N
  <2> HIDE DEF n, q, c
  <2>1. N * q + c < N * N /\ N * q + c >= 0
    BY <1>2, <1>3
  <2> QED BY <1>1, <1>3, <2>1
<1>5. Pair(k) = <<q + 1, c + 1>>
  BY DEF Pair
<1> HIDE DEF n, q, c
<1> QED BY <1>1, <1>3, <1>4, <1>5 DEF Tiles

LEMMA TurnKeeps ==
  ASSUME NEW l, NEW o, NEW mv \in Tiles \cup {Nobody}, NEW m \in Keeping(o, mv), NEW bias, NEW k \in Nat \ {0}
  PROVE  Turn(l, m, mv, bias, k) \in Keeping(o, mv)
<1> DEFINE i == Pair(k)[1]
           j == Pair(k)[2]
<1>1. i \in Tiles /\ j \in Tiles
  BY PairOfTiles
<1>2. CASE Due(l, m, mv, k)
  <2>1. i < j /\ rectsOverlap(m[i], m[j])
    BY <1>2 DEF Due
  <2>2. Nudge(m, i, j, mv, bias) \in Keeping(o, mv)
    <3> HIDE DEF i, j
    <3> QED BY <1>1, <2>1, NudgeKeeps
  <2> QED BY <1>2, <2>2 DEF Turn
<1>3. CASE ~Due(l, m, mv, k)
  BY <1>3 DEF Turn
<1> QED BY <1>2, <1>3

LEMMA RoundKeeps ==
  ASSUME NEW o, NEW mv \in Tiles \cup {Nobody}, NEW l \in Keeping(o, mv), NEW bias
  PROVE  Round(l, mv, bias) \in Keeping(o, mv)
<1> DEFINE V == Keeping(o, mv)
           step == [p \in (Nat \ {0}) \X V |-> Turn(l, p[2], mv, bias, p[1])]
           n == 2 * N * N
           Is(f) == f = [k \in 0..n |-> IF k = 0 THEN l ELSE Turn(l, f[k - 1], mv, bias, k)]
           after == CHOOSE f : Is(f)
<1>1. step \in [(Nat \ {0}) \X V -> V]
  BY TurnKeeps
<1>2. n \in Nat
  BY NAssumption
<1>3. PICK f : Runs(f, n, V, l, step)
  <2> HIDE DEF V, step, n
  <2> QED BY <1>1, <1>2, LoopRuns DEF V
<1>4. Is(f)
  <2>1. f \in [0..n -> V] /\ f = [k \in 0..n |-> IF k = 0 THEN l ELSE step[<<k, f[k - 1]>>]]
    BY <1>3 DEF Runs
  <2>2. ASSUME NEW k \in 0..n, k # 0 PROVE step[<<k, f[k - 1]>>] = Turn(l, f[k - 1], mv, bias, k)
    <3>1. k \in Nat \ {0} /\ k - 1 \in 0..n
      BY <1>2, <2>2
    <3>2. f[k - 1] \in V
      BY <2>1, <3>1
    <3> HIDE DEF V, n
    <3> QED BY <3>1, <3>2
  <2> HIDE DEF V, step, n
  <2> QED BY <2>1, <2>2
<1>5. Is(after)
  <2> HIDE DEF Is
  <2> QED BY <1>4
<1>6. ASSUME NEW k \in 1..n, after[k - 1] \in V PROVE after[k] \in V
  <2>1. k \in 0..n /\ k \in Nat \ {0}
    BY <1>2
  <2>2. after[k] = Turn(l, after[k - 1], mv, bias, k)
    <3> HIDE DEF after, n
    <3> QED BY <1>5, <2>1
  <2> HIDE DEF after, n
  <2> QED BY <1>6, <2>1, <2>2, TurnKeeps
<1>7. after[0] \in V
  <2> HIDE DEF after, n
  <2> QED BY <1>2, <1>5
<1>8. after[n] \in V
  <2> HIDE DEF after, n, V
  <2>1. \A k \in 0..n : after[k] \in V
    BY <1>2, <1>6, <1>7, LoopKeeps
  <2> QED BY <1>2, <2>1
<1>9. Round(l, mv, bias) = after[n]
  BY DEF Round
<1> QED BY <1>8, <1>9

LEMMA NudgedKeeps ==
  ASSUME NEW o, NEW mv \in Tiles \cup {Nobody}, NEW l \in Keeping(o, mv), NEW bias
  PROVE  Nudged(l, mv, bias) \in Keeping(o, mv)
<1> DEFINE V == Keeping(o, mv)
           Turned(m) == IF hasLayoutOverlaps(m) THEN Round(m, mv, bias) ELSE m
           step == [p \in (Nat \ {0}) \X V |-> Turned(p[2])]
           Is(f) == f = [k \in 0..Rounds |-> IF k = 0 THEN l ELSE Turned(f[k - 1])]
           after == CHOOSE f : Is(f)
<1>1. \A m \in V : Turned(m) \in V
  BY RoundKeeps
<1>2. step \in [(Nat \ {0}) \X V -> V] /\ Rounds \in Nat
  <2> HIDE DEF V, Turned
  <2> QED BY <1>1, BoundsAssumption
<1>3. PICK f : Runs(f, Rounds, V, l, step)
  <2> HIDE DEF V, step
  <2> QED BY <1>2, LoopRuns DEF V
<1>4. Is(f)
  <2>1. f \in [0..Rounds -> V] /\ f = [k \in 0..Rounds |-> IF k = 0 THEN l ELSE step[<<k, f[k - 1]>>]]
    BY <1>3 DEF Runs
  <2>2. ASSUME NEW k \in 0..Rounds, k # 0 PROVE step[<<k, f[k - 1]>>] = Turned(f[k - 1])
    <3>1. k \in Nat \ {0} /\ k - 1 \in 0..Rounds
      BY <1>2, <2>2
    <3>2. f[k - 1] \in V
      BY <2>1, <3>1
    <3> HIDE DEF V, Turned
    <3> QED BY <3>1, <3>2
  <2> HIDE DEF V, step, Turned
  <2> QED BY <2>1, <2>2
<1>5. Is(after)
  <2> HIDE DEF Is
  <2> QED BY <1>4
<1> HIDE DEF after, Turned, V
<1>6. ASSUME NEW k \in 1..Rounds, after[k - 1] \in V PROVE after[k] \in V
  <2>1. k \in 0..Rounds /\ k # 0
    BY <1>2
  <2>2. after[k] = Turned(after[k - 1])
    BY <1>5, <2>1
  <2> QED BY <1>1, <1>6, <2>2
<1>7. after[0] \in V
  BY <1>2, <1>5 DEF V
<1>8. after[Rounds] \in V
  <2>1. \A k \in 0..Rounds : after[k] \in V
    BY <1>2, <1>6, <1>7, LoopKeeps
  <2> QED BY <1>2, <2>1
<1>9. Nudged(l, mv, bias) = after[Rounds]
  BY DEF Nudged, after, Turned
<1> QED BY <1>8, <1>9 DEF V

-----------------------------------------------------------------------------
(* Normalizing, and the swap *)

LEMMA NormalizedKeeps ==
  ASSUME NEW l \in [Tiles -> Box]
  PROVE  /\ Normalized(l) \in Layouts
         /\ \A i \in Tiles : Normalized(l)[i] = OnGrid(l[i])
BY OnGridSeats DEF Normalized, Layouts

\* Beside a place on the grid there is one as far as the grid goes.
LEMMA WithinSeats ==
  ASSUME NEW r \in Seats, NEW x \in Int, NEW y \in Int
  PROVE  At(r, Within(0, Cols - r.w, x), Most(0, y)) \in Seats
<1> DEFINE c == Within(0, Cols - r.w, x)
<1>1. r \in [x : Nat, y : Nat, w : Nat \ {0}, h : Nat \ {0}] /\ r.x + r.w <= Cols /\ r \in Box
  BY SeatIs, SeatIsTile, TileIsBox
<1>2. c \in Nat /\ c + r.w <= Cols /\ Most(0, y) \in Nat
  BY <1>1, ColsAssumption DEF Within, Least, Most
<1> HIDE DEF c
<1>3. At(r, c, Most(0, y)) = [x |-> c, y |-> Most(0, y), w |-> r.w, h |-> r.h]
  BY <1>1, <1>2, AtIs
<1>4. At(r, c, Most(0, y)) \in Seats
  BY <1>1, <1>2, <1>3, SeatIs
<1> QED BY <1>4 DEF c

LEMMA SwappedKeeps ==
  ASSUME NEW o, NEW mv \in Tiles, NEW l \in Keeping(o, mv), NEW old \in Box
  PROVE  Swapped(l, mv, old) \in Keeping(o, mv)
<1> DEFINE under == {i \in (DOMAIN l) \ {mv} : rectsOverlap(l[mv], l[i])}
           other == CHOOSE i \in under : TRUE
           dest == At(l[other], Within(0, Cols - l[other].w, old.x), Most(0, old.y))
<1>1. l \in [Tiles -> Seats]
  BY DEF Keeping, Layouts
<1>2. Cardinality(under) = 1 => other \in Tiles /\ other # mv
  <2>1. Cardinality(under) = 1 => under # {}
    BY FS_EmptySet
  <2> QED BY <1>1, <2>1
<1>3. ASSUME Cardinality(under) = 1 PROVE [l EXCEPT ![other] = dest] \in Keeping(o, mv)
  <2>1. l[other] \in Seats /\ old.x \in Int /\ old.y \in Int
    BY <1>1, <1>2, <1>3 DEF Box
  <2>2. dest \in Seats
    <3> HIDE DEF other
    <3> QED BY <2>1, WithinSeats
  <2> HIDE DEF under, other, dest
  <2> QED BY <1>1, <1>2, <1>3, <2>2 DEF Keeping, Layouts
<1>4. Swapped(l, mv, old) \in {l, [l EXCEPT ![other] = dest]}
  BY DEF Swapped
<1>5. Cardinality(under) # 1 => Swapped(l, mv, old) = l
  BY DEF Swapped
<1> HIDE DEF under, other, dest
<1> QED BY <1>3, <1>4, <1>5

-----------------------------------------------------------------------------
(* Seating: no tile covers another *)

LEMMA BoundOfTiles ==
  ASSUME NEW S \in SUBSET Tiles, NEW f \in [S -> Int]
  PROVE  \E b \in Int : \A i \in S : f[i] <= b
<1> DEFINE T == {n \in Nat : ~\E b \in Int : \A i \in S : i <= n => f[i] <= b}
<1>0. \A i \in S : i \in Nat /\ i > 0 /\ i <= N
  BY DEF Tiles
<1>1. 0 \notin T
  <2>1. \A i \in S : ~(i <= 0)
    BY <1>0
  <2>2. \A i \in S : i <= 0 => f[i] <= 0
    BY <2>1
  <2> QED BY <2>2
<1>2. ASSUME NEW n \in Nat, n \notin T PROVE n + 1 \notin T
  <2>1. PICK b \in Int : \A i \in S : i <= n => f[i] <= b
    BY <1>2
  <2>2. CASE n + 1 \in S
    <3> DEFINE c == Most(b, f[n + 1])
    <3>1. f[n + 1] \in Int
      BY <2>2
    <3>2. c \in Int /\ b <= c /\ f[n + 1] <= c
      BY <3>1 DEF Most
    <3>3. ASSUME NEW i \in S, i <= n + 1 PROVE f[i] <= c
      <4>1. i <= n \/ i = n + 1
        BY <1>0, <3>3
      <4>2. f[i] \in Int
        OBVIOUS
      <4> HIDE DEF c
      <4>3. CASE i <= n
        <5>1. f[i] <= b  BY <2>1, <4>3
        <5> QED BY <3>2, <4>2, <5>1
      <4> QED BY <3>2, <4>1, <4>3
    <3> HIDE DEF c
    <3> QED BY <3>2, <3>3
  <2>3. CASE n + 1 \notin S
    <3>1. \A i \in S : i <= n + 1 => i <= n
      BY <1>0, <2>3
    <3> QED BY <2>1, <3>1
  <2> QED BY <2>2, <2>3
<1>3. T = {}
  <2> HIDE DEF T
  <2>1. T \subseteq Nat  BY DEF T
  <2> QED BY <1>1, <1>2, <2>1, NoLeast
<1>4. N \notin T /\ N \in Nat
  BY <1>3, NAssumption
<1> QED BY <1>0, <1>4

LEMMA GreatestOfTiles ==
  ASSUME NEW S \in SUBSET Tiles, S # {}, NEW f \in [S -> Int]
  PROVE  \E i \in S : \A j \in S : f[j] <= f[i]
<1>1. PICK b \in Int : \A i \in S : f[i] <= b
  BY BoundOfTiles
<1> DEFINE g == [i \in S |-> b - f[i]]
<1>2. g \in [S -> Nat]
  BY <1>1
<1>3. PICK i \in S : \A j \in S : g[i] <= g[j]
  <2> HIDE DEF g
  <2> QED BY <1>2, LeastValue
<1>4. ASSUME NEW j \in S PROVE f[j] <= f[i]
  <2>1. b - f[i] <= b - f[j] /\ f[i] \in Int /\ f[j] \in Int
    BY <1>3
  <2> QED BY <2>1
<1> QED BY <1>4

LEMMA LeastOfTiles ==
  ASSUME NEW S \in SUBSET Tiles, S # {}, NEW f \in [S -> Int]
  PROVE  \E i \in S : \A j \in S : f[i] <= f[j]
<1> DEFINE g == [i \in S |-> -f[i]]
<1>1. g \in [S -> Int]
  OBVIOUS
<1>2. PICK i \in S : \A j \in S : g[j] <= g[i]
  <2> HIDE DEF g
  <2> QED BY <1>1, GreatestOfTiles
<1>3. ASSUME NEW j \in S PROVE f[i] <= f[j]
  <2>1. -f[j] <= -f[i] /\ f[i] \in Int /\ f[j] \in Int
    BY <1>2
  <2> QED BY <2>1
<1> QED BY <1>3

LEMMA ForemostIsOne ==
  ASSUME NEW l \in Layouts, NEW S \in SUBSET Tiles, S # {}
  PROVE  Foremost(l, S) \in S
<1> DEFINE Before(i, j) == \/ l[i].y < l[j].y
                           \/ l[i].y = l[j].y /\ l[i].x < l[j].x
                           \/ l[i].y = l[j].y /\ l[i].x = l[j].x /\ i <= j
           top == [i \in S |-> l[i].y]
<1>1. \A i \in S : i \in Int /\ l[i].x \in Int /\ l[i].y \in Int
  <2>1. \A i \in S : i \in Int /\ l[i] \in Box
    BY SeatIsTile, TileIsBox DEF Layouts, Tiles
  <2> QED BY <2>1 DEF Box
<1>2. PICK i \in S : \A j \in S : l[i].y <= l[j].y
  <2>1. top \in [S -> Int]
    BY <1>1
  <2>2. PICK i \in S : \A j \in S : top[i] <= top[j]
    <3> HIDE DEF top
    <3> QED BY <2>1, LeastOfTiles
  <2> QED BY <2>2
<1> DEFINE Row == {j \in S : l[j].y = l[i].y}
           left == [j \in Row |-> l[j].x]
<1>3. PICK c \in Row : \A j \in Row : l[c].x <= l[j].x
  <2>1. left \in [Row -> Int] /\ Row \in SUBSET Tiles /\ Row # {}
    BY <1>1
  <2>2. PICK c \in Row : \A j \in Row : left[c] <= left[j]
    <3> HIDE DEF left, Row
    <3> QED BY <2>1, LeastOfTiles
  <2> QED BY <2>2
<1> DEFINE Same == {j \in Row : l[j].x = l[c].x}
           id == [j \in Same |-> j]
<1>4. PICK n \in Same : \A j \in Same : n <= j
  <2>1. id \in [Same -> Int] /\ Same \in SUBSET Tiles /\ Same # {}
    BY <1>1, <1>3
  <2>2. PICK n \in Same : \A j \in Same : id[n] <= id[j]
    <3> HIDE DEF id, Same
    <3> QED BY <2>1, LeastOfTiles
  <2> QED BY <2>2
<1>5. n \in S /\ \A j \in S : Before(n, j)
  <2>1. n \in S /\ l[n].y = l[i].y /\ l[n].x = l[c].x
    BY <1>4
  <2>2. ASSUME NEW j \in S PROVE Before(n, j)
    <3>1. l[n].y <= l[j].y
      BY <1>2, <2>1
    <3>2. l[n].y = l[j].y => l[n].x <= l[j].x
      BY <1>3, <2>1
    <3>3. l[n].y = l[j].y /\ l[n].x = l[j].x => n <= j
      BY <1>4, <2>1
    <3> QED BY <1>1, <2>1, <3>1, <3>2, <3>3
  <2> QED BY <2>1, <2>2
<1>6. Foremost(l, S) = CHOOSE m \in S : \A j \in S : Before(m, j)
  BY DEF Foremost
<1> HIDE DEF Before
<1> QED BY <1>5, <1>6

\* Rectangles of some tiles: a page, or the part of it that is seated.
Taken(m) == {m[j] : j \in DOMAIN m}

LEMMA MaxIs ==
  ASSUME NEW D \in SUBSET Tiles, NEW m \in [D -> Seats]
  PROVE  /\ maxLayoutY(Taken(m)) \in Nat
         /\ \A q \in Taken(m) : q.y + q.h <= maxLayoutY(Taken(m))
<1> DEFINE ends == {0} \cup {q.y + q.h : q \in Taken(m)}
           Tops(b) == \A q \in Taken(m) : q.y + q.h <= b
           end == [j \in D |-> m[j].y + m[j].h]
<1>1. \A q \in Taken(m) : q \in Seats /\ q.y + q.h \in Nat
  <2>1. \A q \in Taken(m) : q \in Seats
    BY DEF Taken
  <2> QED BY <2>1, SeatIs
<1>2. \A b \in ends : b \in Nat
  BY <1>1
<1>3. \E b \in ends : Tops(b)
  <2>1. CASE D = {}
    <3>1. Tops(0) /\ 0 \in ends
      BY <2>1 DEF Taken
    <3> QED BY <3>1
  <2>2. CASE D # {}
    <3>1. \A j \in D : m[j] \in Taken(m)
      BY DEF Taken
    <3>2. end \in [D -> Int]
      BY <1>1, <3>1
    <3>3. PICK i \in D : \A j \in D : end[j] <= end[i]
      <4> HIDE DEF end
      <4> QED BY <2>2, <3>2, GreatestOfTiles
    <3>4. m[i].y + m[i].h \in ends
      BY <3>1
    <3>5. ASSUME NEW q \in Taken(m) PROVE q.y + q.h <= m[i].y + m[i].h
      <4>1. PICK j \in D : q = m[j]
        BY DEF Taken
      <4> QED BY <3>3, <4>1
    <3> QED BY <3>4, <3>5
  <2> QED BY <2>1, <2>2
<1>4. maxLayoutY(Taken(m)) = CHOOSE b \in ends : Tops(b)
  BY DEF maxLayoutY
<1> DEFINE b == CHOOSE b \in ends : Tops(b)
<1>5. b \in ends /\ Tops(b)
  <2> HIDE DEF ends, Tops
  <2> QED BY <1>3
<1> HIDE DEF b, ends
<1>6. maxLayoutY(Taken(m)) = b
  BY <1>4 DEF b
<1> QED BY <1>2, <1>5, <1>6

\* The place that is found is on the grid, and free.
LEMMA FreePosition ==
  ASSUME NEW D \in SUBSET Tiles, NEW m \in [D -> Seats], NEW r \in Seats
  PROVE  /\ findFreeLayoutPosition(Taken(m), r) \in Seats
         /\ \A q \in Taken(m) : ~rectsOverlap(findFreeLayoutPosition(Taken(m), r), q)
<1> DEFINE taken == Taken(m)
           clear(s) == ~\E q \in taken : rectsOverlap(s, q)
           spot(p) == At(r, Within(0, Cols - r.w, r.x + p[2]), Most(0, r.y + p[1]))
           ring(n) == {p \in ((-n)..n) \X ((-n)..n) : n \in {p[1], -p[1], p[2], -p[2]} /\ clear(spot(p))}
           radii == 1..Most(24, maxLayoutY(taken) + r.h + 4)
           nearest == CHOOSE n \in radii : ring(n) # {} /\ \A k \in radii : k < n => ring(k) = {}
           first == CHOOSE p \in ring(nearest) :
                      \A q \in ring(nearest) : p[1] < q[1] \/ (p[1] = q[1] /\ p[2] <= q[2])
           below == At(r, r.x, maxLayoutY(taken))
           it == findFreeLayoutPosition(taken, r)
<1>1. it = IF clear(r) THEN r ELSE IF \E n \in radii : ring(n) # {} THEN spot(first) ELSE below
  BY DEF findFreeLayoutPosition
<1>2. r \in [x : Nat, y : Nat, w : Nat \ {0}, h : Nat \ {0}] /\ r.x + r.w <= Cols /\ r \in Box
  BY SeatIs, SeatIsTile, TileIsBox
<1>3. CASE clear(r)
  BY <1>1, <1>3
<1>4. CASE ~clear(r) /\ \E n \in radii : ring(n) # {}
  <2>1. radii \subseteq Nat
    OBVIOUS
  <2>2. nearest \in radii /\ ring(nearest) # {}
    <3> DEFINE T == {n \in radii : ring(n) # {}}
    <3>1. T \subseteq Nat /\ T # {}
      <4> HIDE DEF ring, radii
      <4> QED BY <1>4, <2>1
    <3>2. PICK n \in T : \A k \in T : n <= k
      <4> HIDE DEF T
      <4> QED BY <3>1, LeastNatural
    <3>3. n \in radii /\ ring(n) # {} /\ \A k \in radii : k < n => ring(k) = {}
      <4> HIDE DEF ring, radii
      <4> QED BY <2>1, <3>2
    <3> HIDE DEF ring, radii
    <3> QED BY <3>3
  <2>3. nearest \in Nat
    <3> HIDE DEF nearest, radii
    <3> QED BY <2>1, <2>2
  <2> DEFINE n == nearest
             R == ring(n)
             Early(p) == \A q \in R : p[1] < q[1] \/ (p[1] = q[1] /\ p[2] <= q[2])
             row == [p \in R |-> p[1] + n]
  <2>4. \A p \in R : p[1] \in (-n)..n /\ p[2] \in (-n)..n /\ clear(spot(p))
    <3> HIDE DEF n, clear, spot
    <3> QED OBVIOUS
  <2> HIDE DEF n
  <2>5. n \in Nat /\ R # {}
    BY <2>2, <2>3 DEF n
  <2> HIDE DEF R
  <2>6. row \in [R -> Nat]
    BY <2>4, <2>5
  <2>7. PICK a \in R : \A q \in R : row[a] <= row[q]
    <3> HIDE DEF row
    <3> QED BY <2>5, <2>6, LeastValue
  <2> DEFINE A == {q \in R : q[1] = a[1]}
             col == [p \in A |-> p[2] + n]
  <2>8. col \in [A -> Nat] /\ A # {}
    BY <2>4, <2>5
  <2>9. PICK c \in A : \A q \in A : col[c] <= col[q]
    <3> HIDE DEF col, A
    <3> QED BY <2>8, LeastValue
  <2>10. Early(c)
    <3> SUFFICES ASSUME NEW q \in R PROVE c[1] < q[1] \/ (c[1] = q[1] /\ c[2] <= q[2])
      OBVIOUS
    <3>1. /\ a[1] \in Int /\ q[1] \in Int /\ q[2] \in Int /\ c[2] \in Int /\ n \in Int
          /\ c[1] = a[1] /\ c \in R
      BY <2>4, <2>5
    <3>2. a[1] + n <= q[1] + n
      BY <2>7
    <3>3. q[1] = a[1] => c[2] + n <= q[2] + n
      BY <2>9
    <3> QED BY <3>1, <3>2, <3>3
  <2>11. first \in R
    <3>1. first = CHOOSE p \in R : Early(p)
      BY DEF n, R
    <3>2. c \in R
      OBVIOUS
    <3> HIDE DEF first, Early
    <3> QED BY <2>10, <3>1, <3>2
  <2> HIDE DEF first
  <2>12. clear(spot(first)) /\ first[1] \in Int /\ first[2] \in Int
    <3> HIDE DEF clear, spot
    <3> QED BY <2>4, <2>5, <2>11
  <2>13. spot(first) \in Seats
    <3>1. r.x + first[2] \in Int /\ r.y + first[1] \in Int
      BY <1>2, <2>12
    <3> QED BY <3>1, WithinSeats
  <2> HIDE DEF radii, ring, spot
  <2> QED BY <1>1, <1>4, <2>12, <2>13
<1>5. CASE ~clear(r) /\ ~\E n \in radii : ring(n) # {}
  <2> DEFINE max == maxLayoutY(taken)
  <2>1. it = below
    BY <1>1, <1>5
  <2>2. max \in Nat /\ \A q \in taken : q.y + q.h <= max
    BY MaxIs
  <2> HIDE DEF max
  <2>3. below = [x |-> r.x, y |-> max, w |-> r.w, h |-> r.h]
    BY <1>2, <2>2, AtIs DEF max
  <2> HIDE DEF below
  <2>4. below \in Seats
    BY <1>2, <2>2, <2>3, SeatIs
  <2>5. ASSUME NEW q \in taken PROVE ~rectsOverlap(below, q)
    BY <2>2, <2>3 DEF rectsOverlap
  <2> QED BY <2>1, <2>4, <2>5
<1> QED BY <1>3, <1>4, <1>5

\* Tiles that are seated: none on another, the one that was moved where it is.
Seating(l, mv) ==
  {m \in UNION {[D -> Seats] : D \in SUBSET Tiles} :
     /\ \A i, j \in DOMAIN m : i # j => ~rectsOverlap(m[i], m[j])
     /\ mv # Nobody => mv \in DOMAIN m /\ m[mv] = l[mv]}

LEMMA SeatKeeps ==
  ASSUME NEW o, NEW mv \in Tiles \cup {Nobody}, NEW l \in Layouts, NEW m \in Seating(o, mv)
  PROVE  /\ Seat(l, m) \in Seating(o, mv)
         /\ Tiles \ DOMAIN m # {} =>
              \E i \in Tiles \ DOMAIN m : Tiles \ DOMAIN Seat(l, m) = (Tiles \ DOMAIN m) \ {i}
<1> DEFINE D == DOMAIN m
           left == Tiles \ D
           next == Foremost(l, left)
           place == findFreeLayoutPosition(Taken(m), l[next])
           more == [i \in D \cup {next} |-> IF i = next THEN place ELSE m[i]]
<1>1. /\ D \in SUBSET Tiles /\ m \in [D -> Seats]
      /\ \A i, j \in D : i # j => ~rectsOverlap(m[i], m[j])
      /\ mv # Nobody => mv \in D /\ m[mv] = o[mv]
  BY DEF Seating
<1>2. Seat(l, m) = IF left = {} THEN m ELSE more
  BY DEF Seat, Taken
<1>3. CASE left = {}
  BY <1>2, <1>3
<1>4. CASE left # {}
  <2>1. next \in Tiles /\ next \notin D
    BY <1>4, ForemostIsOne
  <2>2. l[next] \in Seats
    BY <2>1 DEF Layouts
  <2>3. place \in Seats /\ \A q \in Taken(m) : ~rectsOverlap(place, q)
    <3> HIDE DEF next, D
    <3> QED BY <1>1, <2>2, FreePosition
  <2>4. \A j \in D : ~rectsOverlap(place, m[j])
    BY <2>3 DEF Taken
  <2> HIDE DEF D, next, place
  <2>5. DOMAIN more = D \cup {next} /\ more \in [D \cup {next} -> Seats]
    BY <1>1, <2>3
  <2>6. ASSUME NEW i \in D \cup {next}, NEW j \in D \cup {next}, i # j
        PROVE  ~rectsOverlap(more[i], more[j])
    <3>1. CASE i = next
      <4>1. j \in D /\ more[j] = m[j] /\ more[i] = place
        BY <2>1, <2>6, <3>1
      <4> HIDE DEF more
      <4> QED BY <2>4, <4>1
    <3>2. CASE j = next
      <4>1. i \in D /\ more[i] = m[i] /\ more[j] = place
        BY <2>1, <2>6, <3>2
      <4> HIDE DEF more
      <4> QED BY <2>4, <4>1, OverlapSymmetric
    <3>3. CASE i # next /\ j # next
      <4>1. i \in D /\ j \in D /\ more[i] = m[i] /\ more[j] = m[j]
        BY <3>3
      <4> HIDE DEF more
      <4> QED BY <1>1, <2>6, <4>1
    <3> QED BY <3>1, <3>2, <3>3
  <2>7. mv # Nobody => mv \in DOMAIN more /\ more[mv] = o[mv]
    BY <1>1, <2>1
  <2> HIDE DEF more
  <2>8. more \in UNION {[E -> Seats] : E \in SUBSET Tiles}
    <3>1. D \cup {next} \in SUBSET Tiles
      BY <1>1, <2>1
    <3> QED BY <2>5, <3>1
  <2>9. more \in Seating(o, mv)
    BY <2>5, <2>6, <2>7, <2>8 DEF Seating
  <2>10. Tiles \ DOMAIN more = left \ {next} /\ next \in left
    BY <2>1, <2>5
  <2> QED BY <1>2, <1>4, <2>9, <2>10 DEF D
<1> QED BY <1>3, <1>4

LEMMA SeatedKeeps ==
  ASSUME NEW mv \in Tiles \cup {Nobody}, NEW l \in Layouts
  PROVE  Seated(l, mv) \in Keeping(l, mv) /\ ~hasLayoutOverlaps(Seated(l, mv))
<1> DEFINE V == Seating(l, mv)
           b == [i \in Tiles \cap {mv} |-> l[i]]
           step == [p \in (Nat \ {0}) \X V |-> Seat(l, p[2])]
           Is(f) == f = [k \in 0..N |-> IF k = 0 THEN b ELSE Seat(l, f[k - 1])]
           after == CHOOSE f : Is(f)
<1>1. b \in V
  <2>1. \A i \in Tiles \cap {mv} : l[i] \in Seats
    BY DEF Layouts
  <2>2. b \in [Tiles \cap {mv} -> Seats] /\ Tiles \cap {mv} \in SUBSET Tiles
    BY <2>1
  <2>3. b \in UNION {[D -> Seats] : D \in SUBSET Tiles}
    <3> HIDE DEF b
    <3> QED BY <2>2
  <2> QED BY <2>3 DEF Seating
<1>2. \A m \in V : Seat(l, m) \in V
  BY SeatKeeps
<1>3. step \in [(Nat \ {0}) \X V -> V] /\ N \in Nat
  <2> HIDE DEF V
  <2> QED BY <1>2, NAssumption
<1> HIDE DEF V, b
<1>4. PICK f : Runs(f, N, V, b, step)
  <2> HIDE DEF step
  <2> QED BY <1>1, <1>3, LoopRuns
<1>5. Is(f)
  <2>1. f \in [0..N -> V] /\ f = [k \in 0..N |-> IF k = 0 THEN b ELSE step[<<k, f[k - 1]>>]]
    BY <1>4 DEF Runs
  <2>2. ASSUME NEW k \in 0..N, k # 0 PROVE step[<<k, f[k - 1]>>] = Seat(l, f[k - 1])
    <3>1. k \in Nat \ {0} /\ k - 1 \in 0..N
      BY <1>3, <2>2
    <3>2. f[k - 1] \in V
      BY <2>1, <3>1
    <3> QED BY <3>1, <3>2
  <2> HIDE DEF step
  <2> QED BY <2>1, <2>2
<1>6. Is(after)
  <2> HIDE DEF Is
  <2> QED BY <1>5
<1> HIDE DEF after
<1>7. \A k \in 1..N : after[k] = Seat(l, after[k - 1])
  BY <1>3, <1>6
<1>8. \A k \in 0..N : after[k] \in V
  <2>1. after[0] \in V
    BY <1>1, <1>3, <1>6
  <2>2. ASSUME NEW k \in 1..N, after[k - 1] \in V PROVE after[k] \in V
    BY <1>2, <1>7, <2>2
  <2> QED BY <1>3, <2>1, <2>2, LoopKeeps
<1>9. \* every turn seats one more
      Tiles \ DOMAIN after[N] = {}
  <2> DEFINE left(k) == Tiles \ DOMAIN after[k]
             count == [k \in 0..N |-> Cardinality(left(k)) + k]
  <2>0. IsFiniteSet(Tiles) /\ Cardinality(Tiles) = N
    <3>1. IsFiniteSet(1..N) /\ Cardinality(1..N) = IF 1 > N THEN 0 ELSE N - 1 + 1
      BY <1>3, FS_Interval
    <3> QED BY <3>1, NAssumption DEF Tiles
  <2>1. \A k \in 0..N : IsFiniteSet(left(k)) /\ Cardinality(left(k)) \in Nat /\ Cardinality(left(k)) <= N
    <3> SUFFICES ASSUME NEW k \in 0..N
                 PROVE  IsFiniteSet(left(k)) /\ Cardinality(left(k)) \in Nat /\ Cardinality(left(k)) <= N
      OBVIOUS
    <3>1. left(k) \in SUBSET Tiles
      OBVIOUS
    <3> HIDE DEF left
    <3> QED BY <2>0, <3>1, FS_Subset, FS_CardinalityType
  <2>2. count[0] \in 0..N
    <3> HIDE DEF left
    <3> QED BY <1>3, <2>1
  <2>3. ASSUME NEW k \in 1..N, count[k - 1] \in 0..N PROVE count[k] \in 0..N
    <3>1. k - 1 \in 0..N /\ k \in 0..N /\ k \in Nat
      BY <1>3
    <3>2. Cardinality(left(k - 1)) + (k - 1) <= N
      <4> HIDE DEF left
      <4> QED BY <2>3, <3>1
    <3>3. Cardinality(left(k)) + k <= N
      <4>1. CASE left(k - 1) = {}
        <5>1. after[k] = after[k - 1]
          <6>1. Seat(l, after[k - 1]) = after[k - 1]
            BY <4>1 DEF Seat
          <6> QED BY <1>7, <6>1
        <5>2. left(k) = {} /\ Cardinality(left(k)) = 0
          BY <4>1, <5>1, FS_EmptySet
        <5> HIDE DEF left
        <5> QED BY <1>3, <3>1, <5>2
      <4>2. CASE left(k - 1) # {}
        <5>1. after[k - 1] \in V /\ after[k] = Seat(l, after[k - 1])
          BY <1>7, <1>8, <3>1
        <5>2. PICK i \in left(k - 1) : left(k) = left(k - 1) \ {i}
          BY <4>2, <5>1, SeatKeeps DEF V
        <5> HIDE DEF left
        <5>3. Cardinality(left(k)) = Cardinality(left(k - 1)) - 1
          <6>1. IsFiniteSet(left(k - 1))
            BY <2>1, <3>1
          <6>2. Cardinality(left(k - 1) \ {i}) = Cardinality(left(k - 1)) - 1
            BY <5>2, <6>1, FS_RemoveElement
          <6> QED BY <5>2, <6>2
        <5> QED BY <1>3, <2>1, <3>1, <3>2, <5>3
      <4> QED BY <4>1, <4>2
    <3> HIDE DEF left
    <3> QED BY <1>3, <2>1, <3>1, <3>3
  <2>4. \A k \in 0..N : count[k] \in 0..N
    <3> HIDE DEF count
    <3> QED BY <1>3, <2>2, <2>3, LoopKeeps
  <2>5. Cardinality(left(N)) + N <= N /\ IsFiniteSet(left(N)) /\ Cardinality(left(N)) \in Nat
    <3> HIDE DEF left
    <3> QED BY <1>3, <2>1, <2>4
  <2>6. Cardinality(left(N)) = 0
    <3> HIDE DEF left
    <3> QED BY <1>3, <2>5
  <2> HIDE DEF left
  <2>7. left(N) = {}
    BY <2>5, <2>6, FS_EmptySet
  <2> QED BY <2>7 DEF left
<1>10. after[N] \in V
  BY <1>3, <1>8
<1>11. /\ DOMAIN after[N] \in SUBSET Tiles /\ after[N] \in [DOMAIN after[N] -> Seats]
       /\ \A i, j \in DOMAIN after[N] : i # j => ~rectsOverlap(after[N][i], after[N][j])
       /\ mv # Nobody => after[N][mv] = l[mv]
  BY <1>10 DEF V, Seating
<1>12. DOMAIN after[N] = Tiles
  BY <1>9, <1>11
<1>13. Seated(l, mv) = after[N]
  BY DEF Seated, after, b
<1>14. ~hasLayoutOverlaps(after[N])
  <2>1. \A i, j \in Tiles : i < j => i # j
    BY DEF Tiles
  <2> QED BY <1>11, <1>12, <2>1 DEF hasLayoutOverlaps
<1>15. after[N] \in Keeping(l, mv)
  BY <1>11, <1>12 DEF Keeping, Layouts
<1> QED BY <1>13, <1>14, <1>15

-----------------------------------------------------------------------------
(* The resolution of overlaps *)

\* Whatever the tiles and whatever was moved: the outcome is on the grid, nothing overlaps, and the
\* tile that was moved is where it was put.
THEOREM Resolves ==
  ASSUME NEW l \in [Tiles -> Box], NEW mv \in Tiles \cup {Nobody},
         NEW old, old # <<>> => old[1] \in Box
  PROVE  LET r == resolveLayoutCollisions(l, mv, old) IN
         /\ r \in Layouts /\ ~hasLayoutOverlaps(r)
         /\ mv # Nobody => r[mv] = OnGrid(l[mv])
<1> DEFINE n == Normalized(l)
           s == IF mv # Nobody /\ old # <<>> /\ ~isResize(old[1], n[mv]) THEN Swapped(n, mv, old[1]) ELSE n
           bias == IF mv # Nobody /\ old # <<>> THEN growthBias(old[1], n[mv]) ELSE {}
           t == Nudged(s, mv, bias)
           r == resolveLayoutCollisions(l, mv, old)
<1>1. n \in Layouts /\ \A i \in Tiles : n[i] = OnGrid(l[i])
  BY NormalizedKeeps
<1>2. n \in Keeping(n, mv)
  BY <1>1 DEF Keeping
<1>3. s \in Keeping(n, mv)
  <2> HIDE DEF n
  <2> QED BY <1>2, SwappedKeeps
<1>4. t \in Keeping(n, mv)
  <2> HIDE DEF n, s, bias
  <2> QED BY <1>3, NudgedKeeps
<1>5. r = IF hasLayoutOverlaps(t) THEN Seated(t, mv) ELSE t
  BY DEF resolveLayoutCollisions
<1> HIDE DEF n, t, r
<1>6. r \in Keeping(n, mv) /\ ~hasLayoutOverlaps(r)
  <2>1. t \in Layouts /\ (mv # Nobody => t[mv] = n[mv])
    BY <1>4 DEF Keeping
  <2>2. Seated(t, mv) \in Keeping(t, mv) /\ ~hasLayoutOverlaps(Seated(t, mv))
    BY <2>1, SeatedKeeps
  <2>3. Seated(t, mv) \in Keeping(n, mv)
    BY <2>1, <2>2 DEF Keeping
  <2> QED BY <1>4, <1>5, <2>2, <2>3
<1>7. r \in Layouts /\ (mv # Nobody => r[mv] = OnGrid(l[mv]))
  BY <1>1, <1>6 DEF Keeping
<1> QED BY <1>6, <1>7 DEF r

-----------------------------------------------------------------------------
(* The inductive invariant *)

\* A gesture begins with a layout that nothing overlaps in; a cancelled one is back there.
Gesture ==
  /\ moving => held # Nobody
  /\ held # Nobody => before \in [Tiles -> Tile] /\ ~hasLayoutOverlaps(before)
  /\ cancelled => held # Nobody /\ (~crossed => layout = before)

\* What is stacked was not placed by hand, and while a tile is held nothing is placed but by a key.
History ==
  /\ stacked => placed = <<>>
  /\ held # Nobody /\ ~crossed => placed = <<>>

IInv == TypeOK /\ Gesture /\ History /\ TilesStayApart /\ StaysPut

LEMMA InitHolds == Init => IInv
<1> SUFFICES ASSUME Init PROVE IInv
  OBVIOUS
<1>1. \A i \in Tiles : layout[i] \in Seats
  <2> SUFFICES ASSUME NEW i \in Tiles PROVE layout[i] \in Seats
    OBVIOUS
  <2> DEFINE r == layout[i]
  <2>1. /\ r \in [x : 0..Cols, y : 0..Rows, w : {Sizes[j][1] : j \in Tiles}, h : {Sizes[j][2] : j \in Tiles}]
        /\ r.x + r.w <= Cols
    BY DEF Init
  <2>2. r.w \in 1..Cols /\ r.h \in Nat \ {0}
    <3>1. r.w \in {Sizes[j][1] : j \in Tiles} /\ r.h \in {Sizes[j][2] : j \in Tiles}
      <4> HIDE DEF r
      <4> QED BY <2>1
    <3> QED BY <3>1, SizesAssumption DEF Tiles
  <2>3. r \in Rect
    <3> HIDE DEF r
    <3> QED BY <2>1, <2>2, BoundsAssumption DEF Rect
  <2> QED BY <2>1, <2>3 DEF Seats
<1>2. layout \in [Tiles -> Tile]
  BY <1>1, SeatIsTile DEF Init
<1> QED BY <1>2 DEF Init, IInv, TypeOK, Tile, Gesture, History, TilesStayApart, StaysPut

\* A layout that is committed is saved as it is, where it lies on the grid.
LEMMA CommitSaves ==
  ASSUME NEW l \in Layouts, Commit(l)
  PROVE  /\ layout' = l /\ layout' \in [Tiles -> Tile]
         /\ \A i \in Tiles : saved'[i] \in Rect /\ saved'[i].x + saved'[i].w <= Cols
<1>1. layout' = l /\ saved' = Sanitized(l)
  BY DEF Commit
<1>2. \A i \in Tiles : l[i] \in Seats
  BY DEF Layouts
<1>3. ASSUME NEW i \in Tiles PROVE saved'[i] = l[i]
  <2> DEFINE r == l[i]
  <2>1. r \in Seats /\ r \in Box /\ r.x \in Nat /\ r.y \in Nat
    BY <1>2, SeatIs, SeatIsTile, TileIsBox
  <2>2. saved'[i] = At(r, Most(0, r.x), Most(0, r.y))
    BY <1>1 DEF Sanitized
  <2>3. Most(0, r.x) = r.x /\ Most(0, r.y) = r.y
    BY <2>1 DEF Most
  <2>4. At(r, r.x, r.y) = [x |-> r.x, y |-> r.y, w |-> r.w, h |-> r.h]
    BY <2>1, AtIs
  <2>5. [x |-> r.x, y |-> r.y, w |-> r.w, h |-> r.h] = r
    BY <2>1 DEF Box
  <2> HIDE DEF r
  <2>6. saved'[i] = r
    BY <2>2, <2>3, <2>4, <2>5
  <2> QED BY <2>6 DEF r
<1>4. \A i \in Tiles : l[i] \in Tile /\ l[i] \in Rect /\ l[i].x + l[i].w <= Cols
  BY <1>2, SeatIsTile DEF Seats
<1>5. l \in [Tiles -> Tile]
  BY <1>4 DEF Layouts
<1> QED BY <1>1, <1>3, <1>4, <1>5

LEMMA Types ==
  ASSUME TypeOK
  PROVE  /\ layout \in [Tiles -> Tile] /\ layout \in [Tiles -> Box]
         /\ moving \in BOOLEAN /\ cancelled \in BOOLEAN /\ stacked \in BOOLEAN /\ crossed \in BOOLEAN
<1>1. layout \in [Tiles -> Tile]
  BY DEF TypeOK, Tile
<1>2. layout \in [Tiles -> Box]
  BY <1>1, TileIsBox
<1> QED BY <1>1, <1>2 DEF TypeOK

LEMMA HealKeeps == ASSUME IInv, Heal PROVE IInv'
<1> DEFINE l == resolveLayoutCollisions(layout, Nobody, <<>>)
<1>1. TypeOK /\ Gesture /\ History /\ TilesStayApart /\ StaysPut
  BY DEF IInv
<1>2. layout \in [Tiles -> Box]
  BY <1>1, Types
<1>3. l \in Layouts /\ ~hasLayoutOverlaps(l)
  BY <1>2, Resolves
<1>4. /\ Healing /\ Commit(l) /\ stacked' = FALSE
      /\ UNCHANGED <<held, moving, cancelled, before, ops, placed, crossed>>
  BY DEF Heal, gesture
<1> HIDE DEF l
<1>5. /\ layout' = l /\ layout' \in [Tiles -> Tile]
      /\ \A i \in Tiles : saved'[i] \in Rect /\ saved'[i].x + saved'[i].w <= Cols
  BY <1>3, <1>4, CommitSaves
<1>6. hasLayoutOverlaps(layout)
  BY <1>4 DEF Healing
<1>7. TypeOK'
  BY <1>1, <1>4, <1>5 DEF TypeOK, Tile
<1>8. Gesture'
  BY <1>1, <1>4, <1>6 DEF Gesture
<1>9. History'
  BY <1>1, <1>4 DEF History
<1>10. TilesStayApart'
  BY <1>3, <1>5 DEF TilesStayApart, hasLayoutOverlaps
<1>11. StaysPut'
  BY <1>1, <1>4, <1>6 DEF StaysPut, TilesStayApart, History
<1> QED BY <1>7, <1>8, <1>9, <1>10, <1>11 DEF IInv

LEMMA BeginKeeps == ASSUME IInv, NEW i \in Tiles, BeginLayoutGesture(i) PROVE IInv'
<1>1. TypeOK /\ Gesture /\ History /\ TilesStayApart /\ StaysPut
  BY DEF IInv
<1>2. /\ ~Healing /\ held = Nobody
      /\ held' = i /\ moving' = TRUE /\ cancelled' = FALSE /\ before' = layout
      /\ crossed' = FALSE /\ placed' = <<>>
      /\ UNCHANGED <<layout, saved, stacked>>
  BY DEF BeginLayoutGesture
<1>3. ~hasLayoutOverlaps(layout)
  BY <1>1, <1>2 DEF Healing, Gesture
<1>4. TypeOK'
  BY <1>1, <1>2 DEF TypeOK
<1>5. layout \in [Tiles -> Tile]
  BY <1>1, Types
<1>6. Gesture'
  BY <1>2, <1>3, <1>5 DEF Gesture, hasLayoutOverlaps, Nobody, Tiles
<1>7. History'
  BY <1>2 DEF History
<1>8. TilesStayApart'
  BY <1>1, <1>2 DEF TilesStayApart, hasLayoutOverlaps
<1>9. StaysPut'
  BY <1>2 DEF StaysPut
<1> QED BY <1>4, <1>6, <1>7, <1>8, <1>9 DEF IInv

LEMMA CancelKeeps == ASSUME IInv, CancelLayoutGesture PROVE IInv'
<1>1. TypeOK /\ Gesture /\ History /\ TilesStayApart /\ StaysPut
  BY DEF IInv
<1>2. /\ moving /\ cancelled' = TRUE /\ moving' = FALSE /\ layout' = before
      /\ UNCHANGED <<saved, held, before, ops, placed, stacked, crossed>>
  BY DEF CancelLayoutGesture, CommitHere
<1>3. held # Nobody /\ before \in [Tiles -> Tile] /\ ~hasLayoutOverlaps(before)
  BY <1>1, <1>2 DEF Gesture
<1>4. TypeOK'
  BY <1>1, <1>2, <1>3 DEF TypeOK, Tile
<1>5. Gesture'
  BY <1>2, <1>3 DEF Gesture, hasLayoutOverlaps
<1>6. History'
  BY <1>1, <1>2 DEF History
<1>7. TilesStayApart'
  BY <1>2, <1>3 DEF TilesStayApart, hasLayoutOverlaps
<1>8. StaysPut'
  BY <1>1, <1>2, <1>3 DEF StaysPut, History
<1> QED BY <1>4, <1>5, <1>6, <1>7, <1>8 DEF IInv

\* A layout that the resolution left is committed, after tile i was placed at t.
LEMMA PlacedKeeps ==
  ASSUME TypeOK, NEW l \in [Tiles -> Box], NEW i \in Tiles, NEW old, old # <<>> => old[1] \in Box,
         Commit(resolveLayoutCollisions(l, i, old)), placed' = <<i, l[i]>>, stacked' = FALSE
  PROVE  /\ layout' \in [Tiles -> Tile] /\ TilesStayApart' /\ StaysPut'
         /\ \A j \in Tiles : saved'[j] \in Rect /\ saved'[j].x + saved'[j].w <= Cols
<1> DEFINE r == resolveLayoutCollisions(l, i, old)
<1>1. r \in Layouts /\ ~hasLayoutOverlaps(r) /\ r[i] = OnGrid(l[i])
  <2>1. i # Nobody /\ i \in Tiles \cup {Nobody}
    BY DEF Tiles, Nobody
  <2> QED BY <2>1, Resolves
<1> HIDE DEF r
<1>2. /\ layout' = r /\ layout' \in [Tiles -> Tile]
      /\ \A j \in Tiles : saved'[j] \in Rect /\ saved'[j].x + saved'[j].w <= Cols
  BY <1>1, CommitSaves DEF r
<1>3. TilesStayApart'
  BY <1>1, <1>2 DEF TilesStayApart, hasLayoutOverlaps
<1>4. StaysPut'
  BY <1>1, <1>2 DEF StaysPut
<1> QED BY <1>2, <1>3, <1>4

LEMMA ReachIsBox == ASSUME NEW t \in Tile, NEW r \in Reach(t) PROVE r \in Box
<1>1. t \in Box /\ t.x \in Int /\ t.y \in Int /\ t.w \in Int /\ t.h \in Int
  BY ColsAssumption DEF Tile, Box
<1>2. CASE r \in Drags(t)
  <2>1. PICK x \in 0..(Cols - t.w), y \in 0..Rows : r = At(t, x, y)
    BY <1>2 DEF Drags
  <2>2. x \in Int /\ y \in Int
    OBVIOUS
  <2> QED BY <1>1, <2>1, <2>2 DEF At, Box
<1>3. CASE r \in Stretches(t)
  <2>1. PICK w \in MinW..(Cols - t.x), h \in MinH..Most(Rows, t.h) : r = Sized(t, w, h)
    BY <1>3 DEF Stretches
  <2>2. w \in Int /\ h \in Int
    OBVIOUS
  <2> QED BY <1>1, <2>1, <2>2 DEF Sized, Box
<1>4. CASE r \in Pulls(t)
  <2>1. PICK x \in 0..(t.x + t.w - MinW), y \in 0..(t.y + t.h - MinH) :
          r = [x |-> x, y |-> y, w |-> t.x + t.w - x, h |-> t.y + t.h - y]
    BY <1>4 DEF Pulls
  <2>2. x \in Int /\ y \in Int
    OBVIOUS
  <2>3. t.x + t.w - x \in Int /\ t.y + t.h - y \in Int
    BY <1>1, <2>2
  <2> QED BY <2>1, <2>2, <2>3 DEF Box
<1> QED BY <1>2, <1>3, <1>4 DEF Reach

LEMMA EndKeeps ==
  ASSUME IInv, held # Nobody, NEW t \in Reach(before[held]), EndLayoutGesture(t)
  PROVE  IInv'
<1> USE DEF Nobody
<1>1. TypeOK /\ Gesture /\ History /\ TilesStayApart /\ StaysPut
  BY DEF IInv
<1>2. /\ held' = Nobody /\ moving' = FALSE /\ cancelled' = FALSE /\ UNCHANGED crossed
      /\ IF cancelled THEN layout' = before /\ UNCHANGED <<saved, placed, stacked>>
         ELSE Commit(Dropped(t)) /\ placed' = <<held, t>> /\ stacked' = FALSE
  BY DEF EndLayoutGesture, CommitHere
<1>3. held \in Tiles /\ before \in [Tiles -> Tile] /\ ~hasLayoutOverlaps(before)
  BY <1>1 DEF Gesture, TypeOK
<1>4. Gesture'
  BY <1>2 DEF Gesture
<1>5. CASE cancelled
  <2>1. TypeOK'
    BY <1>1, <1>2, <1>3, <1>5 DEF TypeOK, Tile
  <2>2. History'
    BY <1>1, <1>2, <1>5 DEF History
  <2>3. TilesStayApart'
    BY <1>2, <1>3, <1>5 DEF TilesStayApart, hasLayoutOverlaps
  <2>4. StaysPut'
    BY <1>1, <1>2, <1>5 DEF StaysPut, History
  <2> QED BY <1>4, <2>1, <2>2, <2>3, <2>4 DEF IInv
<1>6. CASE ~cancelled
  <2> DEFINE l == [before EXCEPT ![held] = t]
             old == <<before[held]>>
  <2>1. before[held] \in Tile /\ before[held] \in Box /\ \A i \in Tiles : before[i] \in Box
    BY <1>3, TileIsBox
  <2>2. t \in Box
    BY <2>1, ReachIsBox
  <2>3. l \in [Tiles -> Box] /\ l[held] = t
    BY <1>3, <2>1, <2>2
  <2>4. old[1] \in Box
    BY <2>1
  <2>5. Commit(resolveLayoutCollisions(l, held, old)) /\ placed' = <<held, t>> /\ stacked' = FALSE
    BY <1>2, <1>6 DEF Dropped
  <2> HIDE DEF l, old
  <2>6. /\ layout' \in [Tiles -> Tile] /\ TilesStayApart' /\ StaysPut'
        /\ \A j \in Tiles : saved'[j] \in Rect /\ saved'[j].x + saved'[j].w <= Cols
    BY <1>1, <1>3, <2>3, <2>4, <2>5, PlacedKeeps
  <2>7. TypeOK'
    BY <1>1, <1>2, <2>5, <2>6 DEF TypeOK, Tile
  <2>8. History'
    BY <1>2, <2>5 DEF History
  <2> QED BY <1>4, <2>6, <2>7, <2>8 DEF IInv
<1> QED BY <1>5, <1>6

LEMMA ArrowKeeps == ASSUME IInv, NEW i \in Tiles, HandleArrow(i) PROVE IInv'
<1> DEFINE t0 == layout[i]
<1>1. TypeOK /\ Gesture /\ History /\ TilesStayApart /\ StaysPut
  BY DEF IInv
<1>2. /\ UNCHANGED <<held, moving, cancelled, before>>
      /\ crossed' = (held # Nobody) /\ stacked' = FALSE
  BY DEF HandleArrow, gesture
<1>3. PICK t \in Moved(t0) \cup Resized(t0), old \in {<<>>, <<t0>>} :
        Commit(resolveLayoutCollisions([layout EXCEPT ![i] = t], i, old)) /\ placed' = <<i, t>>
  BY DEF HandleArrow
<1>4. layout \in [Tiles -> Box] /\ t0 \in Tile /\ t0 \in Box
  BY <1>1, Types, TileIsBox
<1>5. t \in Box
  <2> HIDE DEF t0
  <2>1. t0.x \in Int /\ t0.y \in Int /\ t0.w \in Int /\ t0.h \in Int
    BY <1>4 DEF Box
  <2>2. PICK x \in Int, y \in Int, w \in Int, h \in Int : t = At(t0, x, y) \/ t = Sized(t0, w, h)
    <3>1. /\ Most(0, t0.x - 1) \in Int /\ Least(Cols - t0.w, t0.x + 1) \in Int
          /\ Most(0, t0.y - 1) \in Int /\ t0.y + 1 \in Int
          /\ Most(MinW, t0.w - 1) \in Int /\ Least(Cols - t0.x, t0.w + 1) \in Int
          /\ Most(MinH, t0.h - 1) \in Int /\ t0.h + 1 \in Int
      BY <2>1, ColsAssumption DEF Most, Least
    <3>2. CASE t \in Moved(t0)
      BY <2>1, <3>1, <3>2 DEF Moved
    <3>3. CASE t \in Resized(t0)
      BY <2>1, <3>1, <3>3 DEF Resized
    <3> QED BY <1>3, <3>2, <3>3
  <2> QED BY <1>4, <2>2 DEF At, Sized, Box
<1> DEFINE l == [layout EXCEPT ![i] = t]
<1>6. l \in [Tiles -> Box] /\ l[i] = t
  BY <1>4, <1>5
<1>7. old # <<>> => old[1] \in Box
  BY <1>4
<1> HIDE DEF t0, l
<1>8. /\ layout' \in [Tiles -> Tile] /\ TilesStayApart' /\ StaysPut'
      /\ \A j \in Tiles : saved'[j] \in Rect /\ saved'[j].x + saved'[j].w <= Cols
  BY <1>1, <1>2, <1>3, <1>6, <1>7, PlacedKeeps DEF l
<1>9. TypeOK'
  BY <1>1, <1>2, <1>8 DEF TypeOK, Tile
<1>10. Gesture'
  BY <1>1, <1>2 DEF Gesture
<1>11. History'
  BY <1>2 DEF History
<1> QED BY <1>8, <1>9, <1>10, <1>11 DEF IInv

-----------------------------------------------------------------------------
(* The toolbar of a selection: whatever it stacks, it leaves tiles *)

LEMMA StackedKeeps ==
  ASSUME IInv, held = Nobody, layout' \in [Tiles -> Tile], placed' = <<>>, stacked' = TRUE,
         UNCHANGED <<gesture, crossed>>
  PROVE  IInv'
<1>1. TypeOK /\ Gesture
  BY DEF IInv
<1>2. UNCHANGED <<held, moving, cancelled, before>>
  BY DEF gesture
<1>3. TypeOK'
  BY <1>1, <1>2 DEF TypeOK, Tile
<1>4. Gesture'
  BY <1>1, <1>2 DEF Gesture
<1> QED BY <1>3, <1>4 DEF IInv, History, TilesStayApart, StaysPut

LEMMA EdgeIsInt ==
  ASSUME layout \in [Tiles -> Tile], NEW i \in Tiles, NEW across
  PROVE  Edge(i, across) \in Int /\ Extent(i, across) \in Int
<1>1. layout[i] \in Box
  BY TileIsBox
<1> QED BY <1>1 DEF Edge, Extent, Box

LEMMA ShiftIsTile ==
  ASSUME layout \in [Tiles -> Tile], NEW i \in Tiles, NEW across, NEW to \in Int
  PROVE  Shift(i, across, to) \in Tile
<1> DEFINE r == layout[i]
<1>1. r \in Tile
  OBVIOUS
<1> HIDE DEF r
<1>2. At(r, to, r.y) \in Tile /\ At(r, r.x, to) \in Tile
  BY <1>1 DEF At, Tile
<1> QED BY <1>2 DEF Shift, r

LEMMA LengthIsInt ==
  ASSUME layout \in [Tiles -> Tile], NEW S \in SUBSET Tiles, NEW across
  PROVE  Length(S, across) \in Int
<1> DEFINE Part(i) == IF i \in S THEN Extent(i, across) ELSE 0
           step == [p \in (Nat \ {0}) \X Int |-> IF p[1] \in S THEN p[2] + Extent(p[1], across) ELSE p[2]]
           Is(f) == f = [i \in 0..N |-> IF i = 0 THEN 0 ELSE f[i - 1] + Part(i)]
           upto == CHOOSE f : Is(f)
<1>1. \A i : Part(i) \in Int /\ (i \in S => Extent(i, across) \in Int)
  BY EdgeIsInt
<1>2. step \in [(Nat \ {0}) \X Int -> Int] /\ N \in Nat
  BY <1>1, NAssumption
<1>3. PICK f : Runs(f, N, Int, 0, step)
  <2> HIDE DEF step
  <2>1. 0 \in Int
    OBVIOUS
  <2> QED BY <1>2, <2>1, LoopRuns, Zenon
<1>4. Is(f)
  <2>1. f \in [0..N -> Int] /\ f = [k \in 0..N |-> IF k = 0 THEN 0 ELSE step[<<k, f[k - 1]>>]]
    BY <1>3 DEF Runs
  <2>2. ASSUME NEW k \in 0..N, k # 0 PROVE step[<<k, f[k - 1]>>] = f[k - 1] + Part(k)
    <3>1. k \in Nat \ {0} /\ k - 1 \in 0..N
      BY <1>2, <2>2
    <3>2. f[k - 1] \in Int
      BY <2>1, <3>1
    <3>3. step[<<k, f[k - 1]>>] = IF k \in S THEN f[k - 1] + Extent(k, across) ELSE f[k - 1]
      BY <3>1, <3>2
    <3> HIDE DEF step
    <3> QED BY <1>1, <3>2, <3>3
  <2> HIDE DEF step, Part
  <2> QED BY <2>1, <2>2
<1>5. Is(upto)
  <2> HIDE DEF Is
  <2> QED BY <1>4
<1> HIDE DEF upto, Part
<1>6. upto[0] \in Int
  BY <1>2, <1>5
<1>7. ASSUME NEW k \in 1..N, upto[k - 1] \in Int PROVE upto[k] \in Int
  <2>1. k \in 0..N /\ k # 0
    BY <1>2
  <2>2. upto[k] = upto[k - 1] + Part(k)
    BY <1>5, <2>1
  <2> QED BY <1>1, <1>7, <2>2
<1>8. \A k \in 0..N : upto[k] \in Int
  BY <1>2, <1>6, <1>7, LoopKeeps
<1>9. Length(S, across) = upto[N]
  BY DEF Length, upto, Part
<1> QED BY <1>2, <1>8, <1>9

LEMMA AlignKeeps ==
  ASSUME IInv, NEW sel \in SUBSET Tiles, NEW across \in BOOLEAN, AlignSelectedWidgets(sel, across)
  PROVE  IInv'
<1> DEFINE Lowest(m) == \A i \in sel : m <= Edge(i, across)
           edges == {Edge(i, across) : i \in sel}
           least == CHOOSE m \in edges : Lowest(m)
           edge == [i \in sel |-> Edge(i, across)]
<1>1. layout \in [Tiles -> Tile]
  BY Types DEF IInv
<1>2. /\ held = Nobody /\ Cardinality(sel) >= 2
      /\ layout' = [i \in Tiles |-> IF i \in sel THEN Shift(i, across, least) ELSE layout[i]]
      /\ placed' = <<>> /\ stacked' = TRUE /\ UNCHANGED <<gesture, crossed>>
  BY DEF AlignSelectedWidgets, Commit
<1>3. sel # {}
  BY <1>2, FS_EmptySet
<1>4. least \in Int
  <2>1. \A i \in sel : Edge(i, across) \in Int
    BY <1>1, EdgeIsInt
  <2>2. edge \in [sel -> Int]
    BY <2>1
  <2>3. PICK c \in sel : \A i \in sel : edge[c] <= edge[i]
    <3> HIDE DEF edge
    <3> QED BY <1>3, <2>2, LeastOfTiles
  <2>4. Lowest(Edge(c, across)) /\ Edge(c, across) \in edges
    BY <2>3
  <2>5. least \in edges
    <3> HIDE DEF Lowest, edges
    <3> QED BY <2>4
  <2> HIDE DEF least
  <2> QED BY <2>1, <2>5
<1> HIDE DEF least
<1>5. layout' \in [Tiles -> Tile]
  BY <1>1, <1>2, <1>4, ShiftIsTile
<1> QED BY <1>2, <1>5, StackedKeeps

\* Of tiles ordered by f and then by name, one comes first and one comes last.
LEMMA FirstAndLast ==
  ASSUME NEW S \in SUBSET Tiles, S # {}, NEW f \in [S -> Int]
  PROVE  /\ \E i \in S : \A j \in S : ~(f[j] < f[i] \/ (f[j] = f[i] /\ j < i))
         /\ \E i \in S : \A j \in S \ {i} : f[j] < f[i] \/ (f[j] = f[i] /\ j < i)
<1>0. \A i \in S : i \in Int /\ f[i] \in Int
  BY DEF Tiles
<1>1. \E i \in S : \A j \in S : ~(f[j] < f[i] \/ (f[j] = f[i] /\ j < i))
  <2>1. PICK a \in S : \A j \in S : f[a] <= f[j]
    BY LeastOfTiles
  <2> DEFINE A == {j \in S : f[j] = f[a]}
             id == [j \in A |-> j]
  <2>2. id \in [A -> Int] /\ A \in SUBSET Tiles /\ A # {}
    BY <1>0
  <2>3. PICK i \in A : \A j \in A : id[i] <= id[j]
    <3> HIDE DEF id, A
    <3> QED BY <2>2, LeastOfTiles
  <2>4. \A j \in S : ~(f[j] < f[i] \/ (f[j] = f[i] /\ j < i))
    <3> SUFFICES ASSUME NEW j \in S PROVE ~(f[j] < f[i] \/ (f[j] = f[i] /\ j < i))
      OBVIOUS
    <3>1. f[i] = f[a] /\ f[a] <= f[j]
      BY <2>1
    <3>2. f[j] = f[i] => i <= j
      BY <2>3, <3>1
    <3> QED BY <1>0, <3>1, <3>2
  <2> QED BY <2>4
<1>2. \E i \in S : \A j \in S \ {i} : f[j] < f[i] \/ (f[j] = f[i] /\ j < i)
  <2>1. PICK a \in S : \A j \in S : f[j] <= f[a]
    BY GreatestOfTiles
  <2> DEFINE A == {j \in S : f[j] = f[a]}
             id == [j \in A |-> j]
  <2>2. id \in [A -> Int] /\ A \in SUBSET Tiles /\ A # {}
    BY <1>0
  <2>3. PICK i \in A : \A j \in A : id[j] <= id[i]
    <3> HIDE DEF id, A
    <3> QED BY <2>2, GreatestOfTiles
  <2>4. \A j \in S \ {i} : f[j] < f[i] \/ (f[j] = f[i] /\ j < i)
    <3> SUFFICES ASSUME NEW j \in S \ {i} PROVE f[j] < f[i] \/ (f[j] = f[i] /\ j < i)
      OBVIOUS
    <3>1. f[i] = f[a] /\ f[j] <= f[a]
      BY <2>1
    <3>2. f[j] = f[i] => j <= i
      BY <2>3, <3>1
    <3> QED BY <1>0, <3>1, <3>2
  <2> QED BY <2>4
<1> QED BY <1>1, <1>2

LEMMA DistributeKeeps ==
  ASSUME IInv, NEW sel \in SUBSET Tiles, NEW across \in BOOLEAN, DistributeSelectedWidgets(sel, across)
  PROVE  IInv'
<1> DEFINE ahead(i) == {j \in sel : Edge(j, across) < Edge(i, across) \/ (Edge(j, across) = Edge(i, across) /\ j < i)}
           n == Cardinality(sel) - 1
           first == CHOOSE i \in sel : ahead(i) = {}
           last == CHOOSE i \in sel : ahead(i) = sel \ {i}
           start == Edge(first, across)
           room == Edge(last, across) + Extent(last, across) - start - Length(sel, across)
           to(i) == (2 * n * (start + Length(ahead(i), across)) + 2 * Cardinality(ahead(i)) * room + n) \div (2 * n)
           edge == [i \in sel |-> Edge(i, across)]
<1>1. layout \in [Tiles -> Tile]
  BY Types DEF IInv
<1>2. /\ held = Nobody /\ Cardinality(sel) >= 3
      /\ layout' = [i \in Tiles |-> IF i \in sel THEN Shift(i, across, to(i)) ELSE layout[i]]
      /\ placed' = <<>> /\ stacked' = TRUE /\ UNCHANGED <<gesture, crossed>>
  BY DEF DistributeSelectedWidgets, Commit
<1>3. IsFiniteSet(sel) /\ Cardinality(sel) \in Nat
  <2>1. IsFiniteSet(Tiles)
    BY NAssumption, FS_Interval DEF Tiles
  <2> QED BY <2>1, FS_Subset, FS_CardinalityType
<1>4. sel # {} /\ n \in Nat /\ n > 0
  BY <1>2, <1>3, FS_EmptySet
<1>5. \A i \in sel : Edge(i, across) \in Int /\ Extent(i, across) \in Int
  BY <1>1, EdgeIsInt
<1>6. ASSUME NEW i \in sel
      PROVE  Length(ahead(i), across) \in Int /\ Cardinality(ahead(i)) \in Int
  <2>1. ahead(i) \in SUBSET sel /\ ahead(i) \in SUBSET Tiles
    OBVIOUS
  <2> HIDE DEF ahead
  <2> QED BY <1>1, <1>3, <2>1, LengthIsInt, FS_Subset, FS_CardinalityType
<1>7. first \in sel /\ last \in sel
  <2>1. edge \in [sel -> Int] /\ \A i \in sel : edge[i] = Edge(i, across)
    BY <1>5
  <2>2. PICK a \in sel : \A j \in sel : ~(edge[j] < edge[a] \/ (edge[j] = edge[a] /\ j < a))
    <3> HIDE DEF edge
    <3> QED BY <1>4, <2>1, FirstAndLast
  <2>3. PICK b \in sel : \A j \in sel \ {b} : edge[j] < edge[b] \/ (edge[j] = edge[b] /\ j < b)
    <3> HIDE DEF edge
    <3> QED BY <1>4, <2>1, FirstAndLast
  <2> HIDE DEF edge
  <2>4. ahead(a) = {}
    BY <2>1, <2>2
  <2>5. ahead(b) = sel \ {b}
    <3>1. b \notin ahead(b)
      <4>1. Edge(b, across) \in Int /\ b \in Int
        BY <1>5 DEF Tiles
      <4> QED BY <4>1
    <3>2. \A j \in sel \ {b} : j \in ahead(b)
      BY <2>1, <2>3
    <3>3. ahead(b) \subseteq sel
      OBVIOUS
    <3> HIDE DEF ahead
    <3> QED BY <3>1, <3>2, <3>3
  <2> HIDE DEF ahead
  <2> QED BY <2>4, <2>5
<1> HIDE DEF ahead, first, last, n
<1>8. start \in Int /\ room \in Int
  <2>1. Length(sel, across) \in Int
    BY <1>1, LengthIsInt
  <2> QED BY <1>5, <1>7, <2>1
<1> HIDE DEF start, room
<1>9. \A i \in sel : to(i) \in Int
  <2> SUFFICES ASSUME NEW i \in sel PROVE to(i) \in Int
    OBVIOUS
  <2> DEFINE a == 2 * n * (start + Length(ahead(i), across))
             b == 2 * Cardinality(ahead(i)) * room
             sum == a + b + n
             d == 2 * n
  <2>1. a \in Int /\ b \in Int
    BY <1>4, <1>6, <1>8
  <2>2. sum \in Int /\ d \in Nat /\ d > 0
    <3> HIDE DEF a, b
    <3> QED BY <1>4, <2>1
  <2> HIDE DEF sum, d
  <2>3. sum \div d \in Int
    BY <2>2
  <2> QED BY <2>3 DEF sum, d
<1> HIDE DEF to
<1>10. layout' \in [Tiles -> Tile]
  BY <1>1, <1>2, <1>9, ShiftIsTile
<1> QED BY <1>2, <1>10, StackedKeeps

-----------------------------------------------------------------------------
(* The theorems *)

LEMMA StepKeeps == IInv /\ [Next]_vars => IInv'
<1> SUFFICES ASSUME IInv, [Next]_vars PROVE IInv'
  OBVIOUS
<1>1. CASE Heal
  BY <1>1, HealKeeps
<1>2. CASE CancelLayoutGesture
  BY <1>2, CancelKeeps
<1>3. ASSUME NEW i \in Tiles, BeginLayoutGesture(i) PROVE IInv'
  BY <1>3, BeginKeeps
<1>4. ASSUME NEW i \in Tiles, HandleArrow(i) PROVE IInv'
  BY <1>4, ArrowKeeps
<1>5. ASSUME held # Nobody, NEW t \in Reach(before[held]), EndLayoutGesture(t) PROVE IInv'
  BY <1>5, EndKeeps
<1>6. ASSUME NEW sel \in SUBSET Tiles, NEW across \in BOOLEAN, AlignSelectedWidgets(sel, across) PROVE IInv'
  BY <1>6, AlignKeeps
<1>7. ASSUME NEW sel \in SUBSET Tiles, NEW across \in BOOLEAN, DistributeSelectedWidgets(sel, across) PROVE IInv'
  BY <1>7, DistributeKeeps
<1>8. CASE UNCHANGED vars
  BY <1>8 DEF vars, gesture, IInv, TypeOK, Gesture, History, TilesStayApart, StaysPut, hasLayoutOverlaps
<1> QED BY <1>1, <1>2, <1>3, <1>4, <1>5, <1>6, <1>7, <1>8 DEF Next

LEMMA Inductive == Spec => []IInv
<1>1. Init => IInv
  BY InitHolds
<1>2. IInv /\ [Next]_vars => IInv'
  BY StepKeeps
<1> QED BY <1>1, <1>2, PTL DEF Spec

\* Every tile keeps a size, and what is saved lies within the grid, unless the toolbar of a
\* selection pushed a tile over an edge: no drag, key or heal ever sends the server a tile off it.
THEOREM TypeCorrect == Spec => []TypeOK
<1>1. IInv => TypeOK
  BY DEF IInv
<1> QED BY <1>1, Inductive, PTL

\* No drop, resize, key or heal leaves two tiles on top of each other, whatever their number, sizes
\* and arrangement: the nudges may give up, the seating that follows them finds every tile a place.
THEOREM NothingStacked == Spec => []TilesStayApart
<1>1. IInv => TilesStayApart
  BY DEF IInv
<1> QED BY <1>1, Inductive, PTL

\* The tile a person placed is where they placed it: its neighbours yield, and the heal that
\* follows finds nothing to do.
THEOREM PlacedStays == Spec => []StaysPut
<1>1. IInv => StaysPut
  BY DEF IInv
<1> QED BY <1>1, Inductive, PTL

\* A gesture that Escape took back is ended by the release of the mouse without a trace, in the
\* page or in what is saved.
THEOREM TakenBack == Spec => EscapeTakesBack
<1>1. IInv /\ [Next]_vars => [cancelled /\ held' = Nobody /\ ~crossed => UNCHANGED <<layout, saved>>]_vars
  <2> SUFFICES ASSUME IInv, Next, cancelled, held' = Nobody, ~crossed
               PROVE  UNCHANGED <<layout, saved>>
    OBVIOUS
  <2>1. held # Nobody /\ layout = before
    BY DEF IInv, Gesture
  <2>2. CASE Heal
    BY <2>1, <2>2 DEF Heal, gesture
  <2>3. CASE CancelLayoutGesture
    BY <2>1, <2>3 DEF CancelLayoutGesture
  <2>4. ASSUME NEW i \in Tiles, BeginLayoutGesture(i) \/ HandleArrow(i) PROVE FALSE
    BY <2>1, <2>4 DEF BeginLayoutGesture, HandleArrow, gesture
  <2>5. ASSUME NEW t \in Reach(before[held]), EndLayoutGesture(t) PROVE UNCHANGED <<layout, saved>>
    BY <2>1, <2>5 DEF EndLayoutGesture, CommitHere
  <2>6. ASSUME NEW sel \in SUBSET Tiles, NEW across \in BOOLEAN,
               AlignSelectedWidgets(sel, across) \/ DistributeSelectedWidgets(sel, across)
        PROVE  FALSE
    BY <2>1, <2>6 DEF AlignSelectedWidgets, DistributeSelectedWidgets
  <2> QED BY <2>2, <2>3, <2>4, <2>5, <2>6 DEF Next
<1> QED BY <1>1, Inductive, PTL DEF Spec, EscapeTakesBack
=============================================================================
