-------------------------- MODULE DashboardStudio --------------------------
(***************************************************************************)
(* The dashboard studio of the browser: one store that shows one board,     *)
(* keeps a cached copy of the others, an undo history shared by all of      *)
(* them, and calls to the server whose answers come later, in any order.    *)
(*                                                                         *)
(* A board is which widgets it shows and where. A widget is "local" until   *)
(* its chart was created on the server, "saved" from then on. Data,         *)
(* titles, filters and pages are left out.                                  *)
(***************************************************************************)
EXTENDS Integers, Sequences, FiniteSets

CONSTANTS Dashboards, Widgets, Places,
          None,          \* no place, no board, no timer, no answer yet
          MaxHistory,    \* MAX_HISTORY
          MaxOps,        \* bound: what the person does
          MaxCalls       \* bound: the person waits while so many calls are out

ASSUME HistoryAssumption == MaxHistory \in Nat \ {0}
ASSUME NoneAssumption == None \notin Dashboards \cup Places

VARIABLES
  server,     \* where each chart is placed on each board, in the database
  live,       \* the boards the server has
  versions,   \* the snapshots the server keeps of each board
  known,      \* dashboards: the boards the store lists
  cache,      \* widgets and layout of each of them
  active,     \* activeDashboardId
  flat,       \* widgets and layout on show
  undo, redo, \* _undoStack, _redoStack: a snapshot, and the board it is of
  rendered,   \* activeDashboardId when the page was last rendered
  timer,      \* layoutSyncTimerRef
  calls,      \* requests without an answer
  fetching,   \* boards for whose widgets data was asked
  home,       \* history: the boards each widget was ever put on
  strayed,    \* history: an answer or a snapshot was applied to a board it is not of
  ops

store == <<known, cache, active, flat>>
history == <<undo, redo>>
remote == <<server, live, versions>>
vars == <<remote, store, history, rendered, timer, calls, fetching, home, strayed, ops>>

Board == [w : [Widgets -> {"absent", "local", "saved"}], l : [Widgets -> Places \cup {None}]]
Empty == [w |-> [x \in Widgets |-> "absent"], l |-> [x \in Widgets |-> None]]
On(b) == {x \in Widgets : b.w[x] # "absent"}
SavedOn(b) == {x \in Widgets : b.w[x] = "saved"}
Put(b, x, s, p) == [w |-> [b.w EXCEPT ![x] = s], l |-> [b.l EXCEPT ![x] = p]]
\* Mutated form: the layout keeps the place and loses its neighbour's.
Drop_FiltersLayout(b, x) == [w |-> [b.w EXCEPT ![x] = "absent"], l |-> [y \in Widgets |-> IF y = x THEN b.l[y] ELSE None]]

Drop(b, x) == Put(b, x, "absent", None)
Fresh == {x \in Widgets : home[x] = {}}

Hydrated(d) ==
  [w |-> [x \in Widgets |-> IF server[d][x] = None THEN "absent" ELSE "saved"], l |-> server[d]]

Mirror(c, d, b) == IF d \in known THEN [c EXCEPT ![d] = b] ELSE c
MirrorWidgets(c, d, b) == IF d \in known THEN [c EXCEPT ![d].w = b.w] ELSE c

\* What shows is replaced, and the copy of the active board with it.
Show(b) == /\ flat' = b
           /\ cache' = Mirror(cache, active, b)
           /\ UNCHANGED <<known, active>>

\* Mutated form: the oldest snapshot is never dropped.
Push_Unbounded(b, d) == undo' = Append(undo, [board |-> b, of |-> d]) /\ redo' = <<>>

\* A snapshot b of board d.
Push(b, d) ==
  /\ undo' = Append(IF Len(undo) >= MaxHistory THEN Tail(undo) ELSE undo, [board |-> b, of |-> d])
  /\ redo' = <<>>
PushUndo(b) == Push(b, active)

Act == ops < MaxOps /\ Cardinality(calls) < MaxCalls /\ ops' = ops + 1
Call(k, d) == [kind |-> k, d |-> d]
Stray(b) == strayed' = (strayed \/ b)
PutHome(x, d) == home' = [home EXCEPT ![x] = @ \cup {d}]

Init ==
  /\ server \in [Dashboards -> [Widgets -> Places \cup {None}]]
  /\ \A x \in Widgets : Cardinality({d \in Dashboards : server[d][x] # None}) <= 1
  /\ live = Dashboards /\ known = Dashboards
  /\ versions = [d \in Dashboards |-> {}]
  /\ active \in Dashboards /\ rendered = active
  /\ flat = Hydrated(active)
  /\ cache = [d \in Dashboards |-> IF d = active THEN flat ELSE Empty]
  /\ undo = <<>> /\ redo = <<>> /\ timer = None
  /\ calls = {} /\ fetching = {}
  /\ home = [x \in Widgets |-> {d \in Dashboards : server[d][x] # None}]
  /\ strayed = FALSE /\ ops = 0

-----------------------------------------------------------------------------
(* Which board is shown *)

\* Mutated form: the new board is marked active before what shows is saved.
Activate_SavesLate(d, k, c, b, cl, ft) ==
  LET kept == IF d \in k THEN [c EXCEPT ![d] = b] ELSE c IN
  /\ known' = k /\ active' = d /\ cache' = kept /\ flat' = kept[d]
  /\ calls' = cl \cup {Call("load", d)} /\ fetching' = ft

\* Save what shows, show the copy of d, and ask for d if the copy is empty. k, c and b are the
\* list, the copies and what shows when this runs, cl the calls that are out.
Activate(d, k, c, b, cl, ft) ==
  LET kept == IF active \in k THEN [c EXCEPT ![active] = b] ELSE c IN
  /\ known' = k
  /\ \/ d = active /\ cache' = c /\ flat' = b /\ calls' = cl /\ fetching' = ft /\ UNCHANGED active
     \/ /\ d # active /\ d \notin k
        /\ cache' = c /\ flat' = b
        /\ calls' = cl \cup {Call("load", d)}
        /\ UNCHANGED active /\ fetching' = ft
     \/ /\ d # active /\ d \in k
        /\ active' = d /\ cache' = kept /\ flat' = kept[d]
        /\ calls' = IF On(kept[d]) = {} THEN cl \cup {Call("load", d)} ELSE cl
        /\ fetching' = IF SavedOn(kept[d]) # {} THEN ft \cup {d} ELSE ft

SetActiveDashboard(d) ==
  /\ Act
  /\ d \in known \ {active}
  /\ Activate(d, known, cache, flat, calls, fetching)
  /\ UNCHANGED <<remote, history, rendered, timer, home, strayed>>

\* The server reads the board; the answer is on its way.
ReadBoard(c) ==
  /\ c.kind = "load" /\ c.d \in live
  /\ calls' = (calls \ {c}) \cup {[kind |-> "loaded", d |-> c.d, board |-> Hydrated(c.d)]}
  /\ UNCHANGED <<remote, store, history, rendered, timer, fetching, home, strayed, ops>>

LoadDashboardById(c) ==
  /\ c.kind = "loaded"
  /\ LET k == known \cup {c.d}
         new == [cache EXCEPT ![c.d] = c.board]
         left == calls \ {c}
     IN IF active = c.d
        THEN /\ known' = k /\ cache' = new /\ flat' = c.board /\ calls' = left
             /\ fetching' = IF SavedOn(c.board) # {} THEN fetching \cup {c.d} ELSE fetching
             /\ UNCHANGED active
        ELSE Activate(c.d, k, new, flat, left, fetching)
  /\ UNCHANGED <<remote, history, rendered, timer, home, strayed, ops>>

LoadFails(c) ==
  /\ c.kind \in {"load", "loaded"}
  /\ calls' = calls \ {c}
  /\ UNCHANGED <<remote, store, history, rendered, timer, fetching, home, strayed, ops>>

AskDashboards ==
  /\ Act
  /\ calls' = calls \cup {Call("list", None)}
  /\ UNCHANGED <<remote, store, history, rendered, timer, fetching, home, strayed>>

\* The list is summaries only: every copy is emptied, and the board on show is asked for again.
FetchDashboards(c) ==
  /\ c.kind = "list"
  /\ known' = live /\ cache' = [d \in Dashboards |-> Empty]
  /\ IF live = {}
     THEN active' = None /\ flat' = Empty /\ calls' = calls \ {c}
     ELSE /\ \E d \in (IF active \in live THEN {active} ELSE live) :
               calls' = (calls \ {c}) \cup {Call("load", d)}
          /\ UNCHANGED <<active, flat>>
  /\ UNCHANGED <<remote, history, rendered, timer, fetching, home, strayed, ops>>

AskAddDashboard(d) ==
  /\ Act
  /\ d \notin live /\ Call("add", d) \notin calls
  /\ \A x \in Widgets : d \notin home[x]
  /\ calls' = calls \cup {Call("add", d)}
  /\ UNCHANGED <<remote, store, history, rendered, timer, fetching, home, strayed>>

AddDashboard(c) ==
  /\ c.kind = "add"
  /\ live' = live \cup {c.d}
  /\ Activate(c.d, known \cup {c.d}, [cache EXCEPT ![c.d] = Empty], flat, calls \ {c}, fetching)
  /\ UNCHANGED <<server, versions, history, rendered, timer, home, strayed, ops>>

AskRemoveDashboard(d) ==
  /\ Act
  /\ d \in known \cap live
  /\ calls' = calls \cup {Call("delete", d)}
  /\ UNCHANGED <<remote, store, history, rendered, timer, fetching, home, strayed>>

RemoveDashboard(c) ==
  /\ c.kind = "delete"
  /\ live' = live \ {c.d}
  /\ server' = [server EXCEPT ![c.d] = Empty.l]
  /\ versions' = [versions EXCEPT ![c.d] = {}]
  /\ LET k == known \ {c.d}
         left == calls \ {c}
         gone == [cache EXCEPT ![c.d] = Empty]
     IN IF active # c.d
        THEN known' = k /\ cache' = gone /\ calls' = left /\ UNCHANGED <<active, flat, fetching>>
        ELSE IF k = {}
        THEN /\ known' = k /\ cache' = gone /\ calls' = left
             /\ active' = None /\ flat' = Empty /\ UNCHANGED fetching
        ELSE \E d \in k : Activate(d, k, gone, flat, left, fetching)
  /\ UNCHANGED <<history, rendered, timer, home, strayed, ops>>

-----------------------------------------------------------------------------
(* Editing the board on show *)

AddToStore(x, p) == PushUndo(flat) /\ Show(Put(flat, x, "local", p))
RemoveFromStore(x) == PushUndo(flat) /\ Show(Drop(flat, x))

\* A widget dropped on the canvas. One that shows no data is created at once.
AddWidget(x, p, static) ==
  /\ Act
  /\ active \in known /\ x \in Fresh
  /\ AddToStore(x, p)
  /\ calls' = IF static THEN calls \cup {[kind |-> "create", d |-> active, x |-> x, p |-> p]} ELSE calls
  /\ PutHome(x, active)
  /\ UNCHANGED <<remote, rendered, timer, fetching, strayed>>

\* Apply on a widget without a chart.
CreateChart(x) ==
  /\ Act
  /\ active # None /\ flat.w[x] = "local"
  /\ ~ \E c \in calls : c.kind = "create" /\ c.x = x
  /\ cache' = MirrorWidgets(cache, active, flat)
  /\ calls' = calls \cup {[kind |-> "create", d |-> active, x |-> x, p |-> flat.l[x]]}
  /\ UNCHANGED <<remote, known, active, flat, history, rendered, timer, fetching, home, strayed>>

Placed(d, x, p) == IF d \in live THEN [server EXCEPT ![d][x] = p] ELSE server
\* A chart created without a layout gets a place from the server.
Created(c) == {Placed(c.d, c.x, p) : p \in IF c.p = None THEN Places ELSE {c.p}}
SavedIf(b, x) == IF x \in On(b) THEN Put(b, x, "saved", b.l[x]) ELSE b

\* The chart exists: whatever board shows now is searched for the widget, and its widgets are
\* written to the board the chart was created on.
CreateAnswer(c) ==
  /\ c.kind = "create"
  /\ server' \in Created(c)
  /\ flat' = SavedIf(flat, c.x)
  /\ cache' = MirrorWidgets(cache, c.d, SavedIf(flat, c.x))
  /\ calls' = calls \ {c} /\ fetching' = fetching \cup {c.d}
  /\ Stray(c.d # active)
  /\ UNCHANGED <<live, versions, known, active, history, rendered, timer, home, ops>>

\* The request fails, before or after the server did its part.
CreateFails(c) ==
  /\ c.kind = "create"
  /\ server' \in Created(c) \cup {server}
  /\ cache' = MirrorWidgets(cache, active, flat)
  /\ calls' = calls \ {c}
  /\ UNCHANGED <<live, versions, known, active, flat, history, rendered, timer, fetching, home, strayed, ops>>

RemoveWidget(x) ==
  /\ Act
  /\ active # None /\ x \in On(flat)
  /\ IF flat.w[x] = "local"
     THEN RemoveFromStore(x) /\ UNCHANGED calls
     ELSE /\ calls' = calls \cup {[kind |-> "unlink", d |-> active, x |-> x, to |-> None]}
          /\ UNCHANGED <<store, history>>
  /\ UNCHANGED <<remote, rendered, timer, fetching, home, strayed>>

\* Success or failure, the page takes the widget off what shows now.
DeleteChart(c) ==
  /\ c.kind = "unlink"
  /\ server' \in {server, [server EXCEPT ![c.d][c.x] = None]}
  /\ RemoveFromStore(c.x)
  /\ calls' = calls \ {c}
  /\ Stray(c.d # active)
  /\ UNCHANGED <<live, versions, rendered, timer, fetching, home, ops>>

AskDuplicate(x, y) ==
  /\ Act
  /\ active # None /\ x \in On(flat) /\ flat.l[x] # None
  /\ y \in Fresh /\ ~ \E c \in calls : "y" \in DOMAIN c /\ c.y = y
  /\ calls' = calls \cup {[kind |-> "duplicate", d |-> active, y |-> y, p |-> flat.l[x]]}
  /\ UNCHANGED <<remote, store, history, rendered, timer, fetching, home, strayed>>

\* The copy appears on the board that shows now.
DuplicateWidget(c) ==
  /\ c.kind = "duplicate"
  /\ server' = Placed(c.d, c.y, c.p)
  /\ Show(Put(flat, c.y, "saved", c.p))
  /\ calls' = calls \ {c}
  /\ fetching' = IF active = None THEN fetching ELSE fetching \cup {active}
  /\ PutHome(c.y, c.d) /\ Stray(c.d # active)
  /\ UNCHANGED <<live, versions, history, rendered, timer, ops>>

-----------------------------------------------------------------------------
(* Data *)

\* Refresh, Apply, a filter or a drill: data is asked for the widgets of the active board. Requests
\* for one board count as one, whose answers come one at a time.
RefreshAllChartData ==
  /\ Act
  /\ active # None /\ SavedOn(flat) # {}
  /\ cache' = MirrorWidgets(cache, active, flat)
  /\ fetching' = fetching \cup {active}
  /\ UNCHANGED <<remote, known, active, flat, history, rendered, timer, calls, home, strayed>>

\* An answer (or an error) is put on the widgets that show now, and these become the widgets of the
\* board it was asked for.
FetchChartData(d, last) ==
  /\ d \in fetching
  /\ cache' = MirrorWidgets(cache, d, flat)
  /\ fetching' = IF last THEN fetching \ {d} ELSE fetching
  /\ Stray(d # active)
  /\ UNCHANGED <<remote, known, active, flat, history, rendered, timer, calls, home, ops>>

-----------------------------------------------------------------------------
(* Layout *)

\* Called with the store already changed: the snapshot is of the new layout. The save is bound to
\* the board the page was rendered with.
ScheduleLayoutSync(after) ==
  /\ PushUndo(after)
  /\ timer' = [d |-> rendered, l |-> after.l, w |-> SavedOn(flat)]

\* A drag, a resize or an arrow key.
CommitLayout(x, p) ==
  /\ Act
  /\ rendered = active /\ active \in known
  /\ x \in On(flat) /\ flat.l[x] # p
  /\ LET after == [flat EXCEPT !.l[x] = p] IN Show(after) /\ ScheduleLayoutSync(after)
  /\ UNCHANGED <<remote, rendered, calls, fetching, home, strayed>>

\* The page renders: leaving a board cancels its pending save.
Render ==
  /\ rendered # active
  /\ rendered' = active /\ timer' = None
  /\ UNCHANGED <<remote, store, history, calls, fetching, home, strayed, ops>>

\* Mutated form: only asks whether a board was active.
ShouldPersist_AnyBoard(atSchedule, atFire) == atSchedule # None /\ atFire # None

ShouldPersist(atSchedule, atFire) == atSchedule # None /\ atSchedule = atFire

\* One request per chart that the save names and that shows now.
UpdateChartLayout(l, xs) ==
  {[kind |-> "place", d |-> active, x |-> x, p |-> l[x]] : x \in {y \in xs \cap SavedOn(flat) : l[y] # None}}

SyncLayout ==
  /\ timer # None
  /\ timer' = None
  /\ calls' = IF ShouldPersist(timer.d, active) THEN calls \cup UpdateChartLayout(timer.l, timer.w) ELSE calls
  /\ UNCHANGED <<remote, store, history, rendered, fetching, home, strayed, ops>>

PlaceAnswer(c) ==
  /\ c.kind = "place"
  /\ server' \in {server, IF server[c.d][c.x] = None THEN server ELSE [server EXCEPT ![c.d][c.x] = c.p]}
  /\ calls' = calls \ {c}
  /\ UNCHANGED <<live, versions, store, history, rendered, timer, fetching, home, strayed, ops>>

\* A preset moves the widgets, adds a placeholder where there are too few, and saves at once.
ApplyLayoutPreset(l, x) ==
  /\ Act
  /\ active \in known
  /\ x \in Fresh
  /\ PushUndo(flat)
  /\ LET moved == [flat EXCEPT !.l = [y \in Widgets |-> IF y \in On(flat) THEN l[y] ELSE None]] IN
       /\ Show(Put(moved, x, "local", l[x]))
       /\ calls' = calls \cup UpdateChartLayout(l, SavedOn(flat))
  /\ PutHome(x, active)
  /\ UNCHANGED <<remote, rendered, timer, fetching, strayed>>

ApplyStoryStarter(x, p) == AddWidget(x, p, TRUE)

-----------------------------------------------------------------------------
(* Undo, redo, versions *)

HistoryUndo ==
  /\ ops < MaxOps /\ ops' = ops + 1
  /\ undo # <<>>
  /\ LET top == undo[Len(undo)] IN
       /\ undo' = SubSeq(undo, 1, Len(undo) - 1)
       /\ redo' = Append(redo, [board |-> flat, of |-> active])
       /\ Show(top.board)
       /\ Stray(top.of # active)
  /\ UNCHANGED <<remote, rendered, timer, calls, fetching, home>>

HistoryRedo ==
  /\ ops < MaxOps /\ ops' = ops + 1
  /\ redo # <<>>
  /\ LET top == redo[Len(redo)] IN
       /\ redo' = SubSeq(redo, 1, Len(redo) - 1)
       /\ undo' = Append(undo, [board |-> flat, of |-> active])
       /\ Show(top.board)
       /\ Stray(top.of # active)
  /\ UNCHANGED <<remote, rendered, timer, calls, fetching, home>>

SaveVersionSnapshot ==
  /\ Act
  /\ active \in live
  /\ versions' = [versions EXCEPT ![active] = @ \cup {flat}]
  /\ UNCHANGED <<server, live, store, history, rendered, timer, calls, fetching, home, strayed>>

AskRestoreVersion(b) ==
  /\ Act
  /\ active # None /\ b \in versions[active]
  /\ calls' = calls \cup {[kind |-> "restore", d |-> active, board |-> b]}
  /\ UNCHANGED <<remote, store, history, rendered, timer, fetching, home, strayed>>

\* What shows now becomes a snapshot of the board that is active now, then the version is shown and
\* becomes the copy of the board it is of.
RestoreVersionSnapshot(c) ==
  /\ c.kind = "restore"
  /\ versions' = IF active \in live THEN [versions EXCEPT ![active] = @ \cup {flat}] ELSE versions
  /\ flat' = c.board
  /\ cache' = Mirror(cache, c.d, c.board)
  /\ calls' = calls \ {c}
  /\ Stray(c.d # active)
  /\ UNCHANGED <<server, live, known, active, history, rendered, timer, fetching, home, ops>>

-----------------------------------------------------------------------------
(* To another board *)

\* The request carries the store as it was: the answer is merged into that.
AskLink(x, t, move) ==
  /\ Act
  /\ flat.w[x] = "saved" /\ t \in known \ {active}
  /\ calls' = calls \cup {[kind |-> "link", d |-> t, x |-> x, y |-> x, move |-> move, from |-> active,
                          known |-> known, cache |-> cache]}
  /\ UNCHANGED <<remote, store, history, rendered, timer, fetching, home, strayed>>

\* An unsaved widget is copied as a new chart instead.
AskCopy(x, y, t, move) ==
  /\ Act
  /\ flat.w[x] = "local" /\ t \in known \ {active} /\ y \in Fresh
  /\ ~ \E c \in calls : "y" \in DOMAIN c /\ c.y = y
  /\ calls' = calls \cup {[kind |-> "link", d |-> t, x |-> x, y |-> y, move |-> move, from |-> active,
                          known |-> known, cache |-> cache]}
  /\ UNCHANGED <<remote, store, history, rendered, timer, fetching, home, strayed>>

\* "Copy to" and "move to" of a widget's menu.
HandleCopyToDashboard(x, t, move) == AskLink(x, t, move) \/ \E y \in Widgets : AskCopy(x, y, t, move)

\* The captured copies with the widget added to the target; data is asked for the widget, which the
\* board on show may hold under the same name; the target is shown. A move then takes the widget
\* off the board on show, which is the target by now: a saved one by a call, a local one at once.
LinkWidgetToDashboard(c, p) ==
  /\ c.kind = "link"
  /\ server' = IF c.d \in live /\ server[c.d][c.y] = None THEN [server EXCEPT ![c.d][c.y] = p] ELSE server
  /\ LET b == c.cache[c.d]
         new == [c.cache EXCEPT ![c.d] = IF c.y \in On(b) THEN b ELSE Put(b, c.y, "saved", p)]
         shown == IF active = c.d THEN flat ELSE new[c.d]
         local == c.move /\ c.x # c.y
         ft == IF c.y \in On(flat) /\ active # None THEN fetching \cup {active} ELSE fetching
         left == calls \ {c}
         out == IF c.move /\ c.x = c.y THEN {[kind |-> "unlink", d |-> c.d, x |-> c.x, to |-> c.d]} ELSE {}
     IN /\ Activate(c.d, c.known, IF local THEN [new EXCEPT ![c.d] = Drop(shown, c.x)] ELSE new,
                     IF local /\ active = c.d THEN Drop(flat, c.x) ELSE flat, left \cup out, ft)
        /\ IF local THEN Push(shown, c.d) ELSE UNCHANGED history
  /\ PutHome(c.y, c.d)
  /\ Stray(active # c.from \/ cache # c.cache \/ known # c.known)
  /\ UNCHANGED <<live, versions, rendered, timer, ops>>

Forget(c) ==
  /\ c.kind \in {"list", "add", "delete", "duplicate", "restore", "link"}
  /\ calls' = calls \ {c}
  /\ UNCHANGED <<remote, store, history, rendered, timer, fetching, home, strayed, ops>>

-----------------------------------------------------------------------------
Person ==
  \/ \E d \in Dashboards : SetActiveDashboard(d) \/ AskAddDashboard(d) \/ AskRemoveDashboard(d)
  \/ AskDashboards \/ RefreshAllChartData \/ SaveVersionSnapshot \/ HistoryUndo \/ HistoryRedo
  \/ \E x \in Widgets : CreateChart(x) \/ RemoveWidget(x)
  \/ \E x \in Widgets, p \in Places : CommitLayout(x, p) \/ AddWidget(x, p, FALSE) \/ ApplyStoryStarter(x, p)
  \/ \E x \in Widgets, l \in [Widgets -> Places] : ApplyLayoutPreset(l, x)
  \/ \E x, y \in Widgets : AskDuplicate(x, y)
  \/ \E x \in Widgets, t \in Dashboards, m \in BOOLEAN : HandleCopyToDashboard(x, t, m)
  \/ \E d \in Dashboards : \E b \in versions[d] : AskRestoreVersion(b)

Answer ==
  \/ \E c \in calls :
       \/ ReadBoard(c) \/ LoadDashboardById(c) \/ LoadFails(c) \/ FetchDashboards(c)
       \/ AddDashboard(c) \/ RemoveDashboard(c) \/ CreateAnswer(c) \/ CreateFails(c)
       \/ DeleteChart(c) \/ DuplicateWidget(c) \/ PlaceAnswer(c) \/ RestoreVersionSnapshot(c)
       \/ Forget(c) \/ (\E p \in Places : LinkWidgetToDashboard(c, p))
  \/ \E d \in Dashboards, last \in BOOLEAN : FetchChartData(d, last)
  \/ Render \/ SyncLayout

Next == Person \/ Answer
Spec == Init /\ [][Next]_vars

-----------------------------------------------------------------------------
(* Properties *)

\* Every variable keeps its type; undo and redo together never hold more than MAX_HISTORY snapshots,
\* although redo pushes without looking at the limit.
TypeOK ==
  /\ server \in [Dashboards -> [Widgets -> Places \cup {None}]]
  /\ live \subseteq Dashboards /\ known \subseteq Dashboards
  /\ versions \in [Dashboards -> SUBSET Board]
  /\ cache \in [Dashboards -> Board] /\ flat \in Board
  /\ active \in Dashboards \cup {None} /\ rendered \in Dashboards \cup {None}
  /\ undo \in Seq([board : Board, of : Dashboards \cup {None}])
  /\ redo \in Seq([board : Board, of : Dashboards \cup {None}])
  /\ Len(undo) + Len(redo) <= MaxHistory
  /\ timer \in [d : Dashboards \cup {None}, l : [Widgets -> Places \cup {None}], w : SUBSET Widgets] \cup {None}
  /\ fetching \subseteq Dashboards /\ home \in [Widgets -> SUBSET Dashboards]
  /\ strayed \in BOOLEAN /\ ops \in Nat

\* No board shows, or keeps a copy with, a widget that was never put on it.
ShowsOwn ==
  /\ active # None => \A x \in On(flat) : active \in home[x]
  /\ \A d \in known : \A x \in On(cache[d]) : d \in home[x]

\* The same, as long as every answer and snapshot was applied to the board it is of.
ShowsOwnUnlessStrayed == ~strayed => ShowsOwn

\* Every widget on show has a place in the layout; without one the grid makes one up, and a save
\* would then store it.
PlacedUnlessStrayed == ~strayed => \A x \in On(flat) : flat.l[x] # None

\* A debounced layout save reaches only the board whose layout was changed.
LayoutGoesHome ==
  [][\A c \in calls' \ calls : timer # None /\ timer' = None /\ c.kind = "place" => c.d = timer.d]_vars
=============================================================================
