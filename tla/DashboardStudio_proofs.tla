------------------------ MODULE DashboardStudio_proofs ------------------------
(***************************************************************************)
(* Theorems of DashboardStudio: its types, that as long as nothing strayed   *)
(* every board shows what was put on it, with a place, and that a layout      *)
(* save reaches the board it was taken of.                                   *)
(***************************************************************************)
EXTENDS DashboardStudio, TLAPS, SequenceTheorems

Snap == [board : Board, of : Dashboards \cup {None}]

\* What a call carries.
Carries(c) ==
  /\ c.kind \in {"load", "loaded", "list", "add", "delete", "create", "unlink", "duplicate", "place", "restore", "link"}
  /\ c.kind # "list" => c.d \in Dashboards
  /\ c.kind \in {"loaded", "restore"} => c.board \in Board
  /\ c.kind \in {"create", "unlink", "place"} => c.x \in Widgets
  /\ c.kind = "create" => c.p \in Places \cup {None}
  /\ c.kind \in {"duplicate", "place"} => c.p \in Places
  /\ c.kind \in {"duplicate", "link"} => c.y \in Widgets
  /\ c.kind = "link" => /\ c.x \in Widgets /\ c.from \in Dashboards \cup {None} /\ c.d # c.from
                        /\ c.known \subseteq Dashboards /\ c.cache \in [Dashboards -> Board]
                        /\ c.move \in BOOLEAN

Typed == TypeOK /\ \A c \in calls : Carries(c)

\* What b shows was put on d (h says on which boards each widget was put), and has a place.
HeldBy(b, d, h) ==
  \A x \in Widgets : b.w[x] # "absent" => b.l[x] # None /\ (d # None => d \in h[x])

\* The copy of the board on show, a, may have lost its layout if it is listed: it is written anew
\* on leaving.
Held(c, a, k, h) ==
  \A d \in Dashboards, x \in Widgets : c[d].w[x] # "absent" =>
    d \in h[x] /\ (c[d].l[x] # None \/ (d = a /\ d \in k))

Snapshots ==
  /\ \A i \in DOMAIN undo : HeldBy(undo[i].board, undo[i].of, home)
  /\ \A i \in DOMAIN redo : HeldBy(redo[i].board, redo[i].of, home)

Versions == \A d \in Dashboards : \A b \in versions[d] : HeldBy(b, d, home)

Stored == \A d \in Dashboards, x \in Widgets : server[d][x] # None => d \in home[x]

Owed(c, h) ==
  /\ c.kind \in {"loaded", "restore"} => HeldBy(c.board, c.d, h)
  /\ c.kind = "create" => c.d \in h[c.x]
Asked == \A c \in calls : Owed(c, home)

Straight == HeldBy(flat, active, home) /\ Held(cache, active, known, home) /\ Snapshots /\ Versions /\ Stored /\ Asked
IInv == Typed /\ (~strayed => Straight)

USE DEF remote, store, history

-----------------------------------------------------------------------------
(* Types *)

LEMMA Boards ==
  /\ Empty \in Board
  /\ \A b \in Board, x \in Widgets, s \in {"absent", "local", "saved"}, p \in Places \cup {None} : Put(b, x, s, p) \in Board
  /\ \A b \in Board, x \in Widgets : Drop(b, x) \in Board /\ SavedIf(b, x) \in Board
  /\ TypeOK => \A d \in Dashboards : Hydrated(d) \in Board
  BY DEF Empty, Board, Put, Drop, SavedIf, Hydrated, TypeOK, On

LEMMA Copied ==
  ASSUME NEW c \in [Dashboards -> Board], NEW d, NEW b \in Board, known \subseteq Dashboards
  PROVE  Mirror(c, d, b) \in [Dashboards -> Board] /\ MirrorWidgets(c, d, b) \in [Dashboards -> Board]
  BY DEF Mirror, MirrorWidgets, Board

LEMMA Pushed ==
  ASSUME TypeOK, NEW b \in Board, NEW d \in Dashboards \cup {None}, Push(b, d)
  PROVE  /\ undo' \in Seq(Snap) /\ redo' \in Seq(Snap) /\ Len(undo') + Len(redo') <= MaxHistory
         /\ \A i \in DOMAIN undo' : undo'[i] = [board |-> b, of |-> d] \/ \E j \in DOMAIN undo : undo'[i] = undo[j]
         /\ redo' = <<>>
  <1> DEFINE s == IF Len(undo) >= MaxHistory THEN Tail(undo) ELSE undo
             e == [board |-> b, of |-> d]
  <1>1. undo \in Seq(Snap) /\ Len(undo) \in Nat /\ Len(undo) <= MaxHistory /\ MaxHistory \in Nat \ {0}
    BY HistoryAssumption, LenProperties DEF TypeOK, Snap
  <1>2. s \in Seq(Snap) /\ Len(s) \in Nat /\ Len(s) < MaxHistory /\ \A i \in 1..Len(s) : \E j \in 1..Len(undo) : s[i] = undo[j]
    <2>1. CASE Len(undo) >= MaxHistory
      <3>1. undo # <<>>  BY <2>1, <1>1, EmptySeq
      <3>2. Tail(undo) \in Seq(Snap) /\ Len(Tail(undo)) = Len(undo) - 1 /\ \A i \in 1..Len(Tail(undo)) : Tail(undo)[i] = undo[i + 1]
        BY <3>1, <1>1, HeadTailProperties
      <3>3. \A i \in 1..Len(Tail(undo)) : i + 1 \in 1..Len(undo)  BY <3>2, <1>1
      <3> QED  BY <3>2, <3>3, <2>1, <1>1
    <2>2. CASE Len(undo) < MaxHistory  BY <2>2, <1>1
    <2> QED  BY <2>1, <2>2, <1>1
  <1>3. e \in Snap  BY DEF Snap
  <1>4. /\ Append(s, e) \in Seq(Snap) /\ Len(Append(s, e)) = Len(s) + 1
        /\ \A i \in 1..Len(s) : Append(s, e)[i] = s[i]
        /\ Append(s, e)[Len(s) + 1] = e
    BY <1>2, <1>3, AppendProperties
  <1>5. undo' = Append(s, e) /\ redo' = <<>>  BY DEF Push
  <1>6. redo' \in Seq(Snap) /\ Len(redo') = 0  BY <1>5, EmptySeq
  <1>7. DOMAIN undo' = 1..Len(undo') /\ DOMAIN undo = 1..Len(undo)  BY <1>1, <1>4, <1>5, LenProperties
  <1>8. \A i \in 1..Len(undo') : i \in 1..Len(s) \/ i = Len(s) + 1  BY <1>4, <1>5, <1>2
  <1>9. Len(undo') + Len(redo') <= MaxHistory  BY <1>1, <1>2, <1>4, <1>5, <1>6
  <1>10. ASSUME NEW i \in DOMAIN undo' PROVE undo'[i] = [board |-> b, of |-> d] \/ \E j \in DOMAIN undo : undo'[i] = undo[j]
    <2> HIDE DEF s, e
    <2>1. CASE i \in 1..Len(s)  BY <2>1, <1>2, <1>4, <1>5, <1>7
    <2>2. CASE i = Len(s) + 1  BY <2>2, <1>4, <1>5 DEF e
    <2> QED  BY <2>1, <2>2, <1>7, <1>8, <1>10
  <1> QED  BY <1>4, <1>5, <1>6, <1>9, <1>10

\* What Activate takes is a list, copies, a board, calls and boards of the right types.
\* One stack gives its last snapshot, which shows, and the other takes what showed.
LEMMA Moved ==
  ASSUME TypeOK, NEW s \in Seq(Snap), s # <<>>, NEW t \in Seq(Snap)
  PROVE  LET e == [board |-> flat, of |-> active]
             rest == SubSeq(s, 1, Len(s) - 1)
         IN /\ s[Len(s)] \in Snap
            /\ rest \in Seq(Snap) /\ Len(rest) = Len(s) - 1
            /\ \A i \in DOMAIN rest : i \in DOMAIN s /\ rest[i] = s[i]
            /\ Append(t, e) \in Seq(Snap) /\ Len(Append(t, e)) = Len(t) + 1
            /\ \A i \in DOMAIN Append(t, e) : Append(t, e)[i] = e \/ (i \in DOMAIN t /\ Append(t, e)[i] = t[i])
  <1> DEFINE e == [board |-> flat, of |-> active]
             rest == SubSeq(s, 1, Len(s) - 1)
  <1>1. e \in Snap  BY DEF TypeOK, Snap
  <1>2. Len(s) \in Nat /\ Len(s) # 0 /\ Len(t) \in Nat /\ DOMAIN s = 1..Len(s) /\ DOMAIN t = 1..Len(t)
    BY LenProperties, EmptySeq
  <1>3. s[Len(s)] \in Snap  BY <1>2, ElementOfSeq
  <1>4. rest \in Seq(Snap) /\ Len(rest) = Len(s) - 1 /\ \A i \in 1..Len(s) - 1 : rest[i] = s[i]
    <2>1. \A i \in 1..Len(s) - 1 : s[i] \in Snap  BY <1>2, ElementOfSeq
    <2> QED  BY <1>2, <2>1, SubSeqProperties
  <1>5. DOMAIN rest = 1..Len(rest)  BY <1>4, LenProperties
  <1>6. /\ Append(t, e) \in Seq(Snap) /\ Len(Append(t, e)) = Len(t) + 1
        /\ \A i \in 1..Len(t) : Append(t, e)[i] = t[i]
        /\ Append(t, e)[Len(t) + 1] = e
    BY <1>1, AppendProperties
  <1>7. DOMAIN Append(t, e) = 1..Len(t) + 1  BY <1>6, LenProperties
  <1>8. \A i \in DOMAIN rest : i \in DOMAIN s /\ rest[i] = s[i]  BY <1>2, <1>4, <1>5
  <1>9. \A i \in DOMAIN Append(t, e) : Append(t, e)[i] = e \/ (i \in DOMAIN t /\ Append(t, e)[i] = t[i])
    <2> SUFFICES ASSUME NEW i \in DOMAIN Append(t, e) PROVE Append(t, e)[i] = e \/ (i \in DOMAIN t /\ Append(t, e)[i] = t[i])
      OBVIOUS
    <2>1. i \in 1..Len(t) \/ i = Len(t) + 1  BY <1>7, <1>2
    <2> QED  BY <2>1, <1>6, <1>2
  <1> QED  BY <1>3, <1>4, <1>6, <1>8, <1>9

LEMMA Activated ==
  ASSUME TypeOK, NEW d \in Dashboards, NEW k \in SUBSET Dashboards, NEW c \in [Dashboards -> Board], NEW b \in Board,
         NEW cl, \A e \in cl : Carries(e), NEW ft \in SUBSET Dashboards, Activate(d, k, c, b, cl, ft)
  PROVE  /\ known' \subseteq Dashboards /\ cache' \in [Dashboards -> Board] /\ flat' \in Board
         /\ active' \in Dashboards \cup {None} /\ fetching' \subseteq Dashboards
         /\ \A e \in calls' : Carries(e)
  <1> DEFINE kept == IF active \in k THEN [c EXCEPT ![active] = b] ELSE c
  <1>1. kept \in [Dashboards -> Board]  OBVIOUS
  <1>2. Carries(Call("load", d))  BY DEF Carries, Call
  <1>3. active \in Dashboards \cup {None}  BY DEF TypeOK
  <1> HIDE DEF kept
  <1> QED  BY <1>1, <1>2, <1>3 DEF Activate, kept


\* Some requests: nothing but calls changes.
AskedFor ==
  /\ UNCHANGED <<remote, store, history, rendered, timer, fetching, home, strayed>>
  /\ ops' \in Nat
  /\ \A e \in calls' : e \in calls \/ Carries(e)

LEMMA AskTypes == ASSUME Typed, AskedFor PROVE Typed'
  BY DEF AskedFor, Typed, TypeOK, Carries

\* The board on show is changed, with or without a snapshot.
LEMMA ShownTypes ==
  ASSUME TypeOK, NEW b \in Board, Show(b)
  PROVE  flat' \in Board /\ cache' \in [Dashboards -> Board] /\ known' = known /\ active' = active
  BY Copied DEF Show, TypeOK

LEMMA PersonTypes ==
  ASSUME Typed, Person
  PROVE  Typed'
<1> ops \in Nat /\ (Act => ops' \in Nat) /\ (ops' = ops + 1 => ops' \in Nat)  BY DEF Typed, TypeOK, Act
<1> TypeOK /\ \A c \in calls : Carries(c)  BY DEF Typed
<1> None \notin Dashboards /\ None \notin Places  BY NoneAssumption
<1>1. CASE \E d \in Dashboards : SetActiveDashboard(d)
  BY <1>1, Activated DEF SetActiveDashboard, Typed, TypeOK
<1>2. CASE \E d \in Dashboards : AskAddDashboard(d) \/ AskRemoveDashboard(d)
  BY <1>2, AskTypes DEF AskAddDashboard, AskRemoveDashboard, AskedFor, Call, Carries
<1>3. CASE AskDashboards
  BY <1>3, AskTypes DEF AskDashboards, AskedFor, Call, Carries
<1>4. CASE RefreshAllChartData
  BY <1>4, Copied DEF RefreshAllChartData, Typed, TypeOK
<1>5. CASE SaveVersionSnapshot
  BY <1>5 DEF SaveVersionSnapshot, Typed, TypeOK
<1>6. CASE HistoryUndo
  <2>1. undo \in Seq(Snap) /\ redo \in Seq(Snap) /\ undo # <<>> /\ Len(undo) + Len(redo) <= MaxHistory /\ MaxHistory \in Nat
    BY <1>6, HistoryAssumption DEF HistoryUndo, TypeOK, Snap
  <2>2. undo' \in Seq(Snap) /\ redo' \in Seq(Snap) /\ Len(undo') + Len(redo') <= MaxHistory
    <3>1. Len(undo) \in Nat /\ Len(redo) \in Nat  BY <2>1, LenProperties
    <3>2. /\ undo' \in Seq(Snap) /\ Len(undo') = Len(undo) - 1
          /\ redo' \in Seq(Snap) /\ Len(redo') = Len(redo) + 1
      BY <1>6, <2>1, Moved DEF HistoryUndo
    <3> QED  BY <2>1, <3>1, <3>2
  <2>3. undo[Len(undo)].board \in Board  BY <2>1, Moved DEF Snap
  <2>4. flat' \in Board /\ cache' \in [Dashboards -> Board]
    BY <1>6, <2>3, Copied DEF HistoryUndo, Show, TypeOK
  <2>5. strayed' \in BOOLEAN  BY <1>6 DEF HistoryUndo, Stray, TypeOK
  <2> QED  BY <1>6, <2>2, <2>4, <2>5 DEF HistoryUndo, Show, Typed, TypeOK, Snap
<1>7. CASE HistoryRedo
  <2>1. undo \in Seq(Snap) /\ redo \in Seq(Snap) /\ redo # <<>> /\ Len(undo) + Len(redo) <= MaxHistory /\ MaxHistory \in Nat
    BY <1>7, HistoryAssumption DEF HistoryRedo, TypeOK, Snap
  <2>2. undo' \in Seq(Snap) /\ redo' \in Seq(Snap) /\ Len(undo') + Len(redo') <= MaxHistory
    <3>1. Len(undo) \in Nat /\ Len(redo) \in Nat  BY <2>1, LenProperties
    <3>2. /\ redo' \in Seq(Snap) /\ Len(redo') = Len(redo) - 1
          /\ undo' \in Seq(Snap) /\ Len(undo') = Len(undo) + 1
      BY <1>7, <2>1, Moved DEF HistoryRedo
    <3> QED  BY <2>1, <3>1, <3>2
  <2>3. redo[Len(redo)].board \in Board  BY <2>1, Moved DEF Snap
  <2>4. flat' \in Board /\ cache' \in [Dashboards -> Board]
    BY <1>7, <2>3, Copied DEF HistoryRedo, Show, TypeOK
  <2>5. strayed' \in BOOLEAN  BY <1>7 DEF HistoryRedo, Stray, TypeOK
  <2> QED  BY <1>7, <2>2, <2>4, <2>5 DEF HistoryRedo, Show, Typed, TypeOK, Snap
<1>8. CASE \E x \in Widgets : CreateChart(x)
  <2> PICK x \in Widgets : CreateChart(x)  BY <1>8
  <2>1. cache' \in [Dashboards -> Board]  BY Copied DEF CreateChart, TypeOK
  <2>2. flat.l[x] \in Places \cup {None} /\ active \in Dashboards  BY DEF CreateChart, TypeOK, Board
  <2>3. \A e \in calls' : Carries(e)  BY <2>2 DEF CreateChart, Carries
  <2> QED  BY <2>1, <2>3 DEF CreateChart, Typed, TypeOK
<1>9. CASE \E x \in Widgets : RemoveWidget(x)
  <2> PICK x \in Widgets : RemoveWidget(x)  BY <1>9
  <2> active \in Dashboards  BY DEF RemoveWidget, TypeOK
  <2>1. CASE flat.w[x] = "local"
    <3>1. PushUndo(flat) /\ Show(Drop(flat, x)) /\ UNCHANGED calls  BY <2>1 DEF RemoveWidget, RemoveFromStore
    <3>2. flat \in Board /\ Drop(flat, x) \in Board  BY Boards DEF TypeOK
    <3> QED  BY <3>1, <3>2, Pushed, ShownTypes DEF RemoveWidget, PushUndo, Typed, TypeOK, Snap
  <2>2. CASE flat.w[x] # "local"  BY <2>2, AskTypes DEF RemoveWidget, AskedFor, Carries
  <2> QED  BY <2>1, <2>2
<1>10. CASE \E x \in Widgets, p \in Places : CommitLayout(x, p)
  <2> PICK x \in Widgets, p \in Places : CommitLayout(x, p)  BY <1>10
  <2> DEFINE after == [flat EXCEPT !.l[x] = p]
  <2>1. after \in Board /\ SavedOn(flat) \subseteq Widgets  BY DEF TypeOK, Board, SavedOn
  <2>2. Show(after) /\ PushUndo(after) /\ timer' = [d |-> rendered, l |-> after.l, w |-> SavedOn(flat)]
    BY DEF CommitLayout, ScheduleLayoutSync
  <2>3. after.l \in [Widgets -> Places \cup {None}]  BY <2>1 DEF Board
  <2> HIDE DEF after
  <2>4. timer' \in [d : Dashboards \cup {None}, l : [Widgets -> Places \cup {None}], w : SUBSET Widgets]
    BY <2>1, <2>2, <2>3 DEF TypeOK
  <2>5. undo' \in Seq(Snap) /\ redo' \in Seq(Snap) /\ Len(undo') + Len(redo') <= MaxHistory
    BY <2>1, <2>2, Pushed DEF PushUndo, TypeOK
  <2> QED  BY <2>1, <2>2, <2>4, <2>5, ShownTypes DEF CommitLayout, Typed, TypeOK, Snap
<1>11. CASE \E x \in Widgets, p \in Places : AddWidget(x, p, FALSE) \/ ApplyStoryStarter(x, p)
  <2> PICK x \in Widgets, p \in Places, static \in BOOLEAN : AddWidget(x, p, static)  BY <1>11 DEF ApplyStoryStarter
  <2>1. active \in Dashboards /\ flat \in Board /\ Put(flat, x, "local", p) \in Board
    BY Boards DEF AddWidget, TypeOK
  <2>2. PushUndo(flat) /\ Show(Put(flat, x, "local", p))  BY DEF AddWidget, AddToStore
  <2>3. \A e \in calls' : Carries(e)  BY <2>1 DEF AddWidget, Carries
  <2>4. home' \in [Widgets -> SUBSET Dashboards]  BY <2>1 DEF AddWidget, PutHome, TypeOK
  <2> QED  BY <2>1, <2>2, <2>3, <2>4, Pushed, ShownTypes DEF AddWidget, PushUndo, Typed, TypeOK, Snap
<1>12. CASE \E x \in Widgets, l \in [Widgets -> Places] : ApplyLayoutPreset(l, x)
  <2> PICK x \in Widgets, l \in [Widgets -> Places] : ApplyLayoutPreset(l, x)  BY <1>12
  <2> DEFINE moved == [flat EXCEPT !.l = [y \in Widgets |-> IF y \in On(flat) THEN l[y] ELSE None]]
  <2>1. active \in Dashboards /\ flat \in Board /\ moved \in Board
    BY DEF ApplyLayoutPreset, TypeOK, Board
  <2>2. Put(moved, x, "local", l[x]) \in Board  BY <2>1, Boards
  <2>3. PushUndo(flat) /\ Show(Put(moved, x, "local", l[x]))  BY DEF ApplyLayoutPreset
  <2> HIDE DEF moved
  <2>4. \A e \in calls' : Carries(e)
    BY <2>1 DEF ApplyLayoutPreset, UpdateChartLayout, Carries, SavedOn
  <2>5. home' \in [Widgets -> SUBSET Dashboards]  BY <2>1 DEF ApplyLayoutPreset, PutHome, TypeOK
  <2> QED  BY <2>1, <2>2, <2>3, <2>4, <2>5, Pushed, ShownTypes DEF ApplyLayoutPreset, PushUndo, Typed, TypeOK, Snap
<1>13. CASE \E x, y \in Widgets : AskDuplicate(x, y)
  BY <1>13, AskTypes DEF AskDuplicate, AskedFor, Carries, TypeOK, Board
<1>14. CASE \E x \in Widgets, t \in Dashboards, m \in BOOLEAN : HandleCopyToDashboard(x, t, m)
  <2> PICK x \in Widgets, t \in Dashboards, m \in BOOLEAN : HandleCopyToDashboard(x, t, m)  BY <1>14
  <2>1. CASE AskLink(x, t, m)
    BY <2>1, AskTypes DEF AskLink, AskedFor, Carries, TypeOK
  <2>2. CASE \E y \in Widgets : AskCopy(x, y, t, m)
    BY <2>2, AskTypes DEF AskCopy, AskedFor, Carries, TypeOK
  <2> QED  BY <2>1, <2>2 DEF HandleCopyToDashboard
<1>15. CASE \E d \in Dashboards : \E b \in versions[d] : AskRestoreVersion(b)
  BY <1>15, AskTypes DEF AskRestoreVersion, AskedFor, Carries, TypeOK
<1> QED  BY <1>1, <1>2, <1>3, <1>4, <1>5, <1>6, <1>7, <1>8, <1>9, <1>10, <1>11, <1>12, <1>13, <1>14, <1>15 DEF Person

Servers == [Dashboards -> [Widgets -> Places \cup {None}]]

LEMMA ServerAt ==
  ASSUME TypeOK, NEW d \in Dashboards, NEW x \in Widgets, NEW p \in Places \cup {None}
  PROVE  [server EXCEPT ![d][x] = p] \in Servers /\ Placed(d, x, p) \in Servers
  BY DEF TypeOK, Servers, Placed

\* An answer is taken: its call is gone, others may come.
LEMMA AnswerTypes ==
  ASSUME Typed, Answer
  PROVE  Typed'
<1> TypeOK /\ (\A c \in calls : Carries(c)) /\ ops \in Nat  BY DEF Typed, TypeOK
<1> None \notin Dashboards /\ None \notin Places  BY NoneAssumption
<1>1. ASSUME NEW c \in calls, ReadBoard(c) PROVE Typed'
  BY <1>1, Boards, AskTypes DEF ReadBoard, AskedFor, Carries
<1>2. ASSUME NEW c \in calls, LoadDashboardById(c) PROVE Typed'
  <2> DEFINE k == known \cup {c.d}
             new == [cache EXCEPT ![c.d] = c.board]
             left == calls \ {c}
  <2>1. c.d \in Dashboards /\ c.board \in Board  BY <1>2 DEF LoadDashboardById, Carries
  <2>2. k \in SUBSET Dashboards /\ new \in [Dashboards -> Board] /\ \A e \in left : Carries(e)
    BY <2>1 DEF TypeOK
  <2>3. CASE active = c.d
    BY <1>2, <2>1, <2>2, <2>3 DEF LoadDashboardById, Typed, TypeOK
  <2>4. CASE active # c.d
    <3>1. Activate(c.d, k, new, flat, left, fetching)  BY <1>2, <2>4 DEF LoadDashboardById
    <3> HIDE DEF k, new, left
    <3>2. flat \in Board /\ fetching \in SUBSET Dashboards  BY DEF TypeOK
    <3> QED  BY <1>2, <2>1, <2>2, <3>1, <3>2, Activated DEF LoadDashboardById, Typed, TypeOK
  <2> QED  BY <2>3, <2>4
<1>3. ASSUME NEW c \in calls, LoadFails(c) PROVE Typed'
  BY <1>3, AskTypes DEF LoadFails, AskedFor
<1>4. ASSUME NEW c \in calls, FetchDashboards(c) PROVE Typed'
  BY <1>4, Boards DEF FetchDashboards, Call, Carries, Typed, TypeOK
<1>5. ASSUME NEW c \in calls, AddDashboard(c) PROVE Typed'
  <2> DEFINE k == known \cup {c.d}
             new == [cache EXCEPT ![c.d] = Empty]
             left == calls \ {c}
  <2>1. c.d \in Dashboards  BY <1>5 DEF AddDashboard, Carries
  <2>2. k \in SUBSET Dashboards /\ new \in [Dashboards -> Board] /\ (\A e \in left : Carries(e))
        /\ flat \in Board /\ fetching \in SUBSET Dashboards
    BY <2>1, Boards DEF TypeOK
  <2>3. Activate(c.d, k, new, flat, left, fetching)  BY <1>5 DEF AddDashboard
  <2> HIDE DEF k, new, left
  <2> QED  BY <1>5, <2>1, <2>2, <2>3, Activated DEF AddDashboard, Typed, TypeOK
<1>6. ASSUME NEW c \in calls, RemoveDashboard(c) PROVE Typed'
  <2> DEFINE k == known \ {c.d}
             new == [cache EXCEPT ![c.d] = Empty]
             left == calls \ {c}
  <2>1. c.d \in Dashboards  BY <1>6 DEF RemoveDashboard, Carries
  <2>2. k \in SUBSET Dashboards /\ new \in [Dashboards -> Board] /\ (\A e \in left : Carries(e))
        /\ flat \in Board /\ fetching \in SUBSET Dashboards /\ Empty \in Board
    BY <2>1, Boards DEF TypeOK
  <2>3. server' \in Servers /\ versions' \in [Dashboards -> SUBSET Board]
        /\ live' \subseteq Dashboards
    BY <1>6, <2>2 DEF RemoveDashboard, TypeOK, Board, Servers
  <2>4. \/ known' = k /\ cache' = new /\ calls' = left /\ UNCHANGED <<active, flat, fetching>>
        \/ known' = k /\ cache' = new /\ calls' = left /\ active' = None /\ flat' = Empty /\ UNCHANGED fetching
        \/ \E d \in k : Activate(d, k, new, flat, left, fetching)
    BY <1>6 DEF RemoveDashboard
  <2> HIDE DEF k, new, left
  <2>5. known' \subseteq Dashboards /\ cache' \in [Dashboards -> Board] /\ flat' \in Board
        /\ active' \in Dashboards \cup {None} /\ fetching' \subseteq Dashboards
        /\ \A e \in calls' : Carries(e)
    <3>1. CASE \E d \in k : Activate(d, k, new, flat, left, fetching)
      BY <3>1, <2>2, Activated
    <3>2. CASE ~ \E d \in k : Activate(d, k, new, flat, left, fetching)
      BY <3>2, <2>2, <2>4 DEF TypeOK
    <3> QED  BY <3>1, <3>2
  <2> QED  BY <1>6, <2>3, <2>5 DEF RemoveDashboard, Typed, TypeOK, Servers
<1>7. ASSUME NEW c \in calls, CreateAnswer(c) PROVE Typed'
  <2>1. c.d \in Dashboards /\ c.x \in Widgets /\ c.p \in Places \cup {None}  BY <1>7 DEF CreateAnswer, Carries
  <2>2. server' \in Servers
    BY <1>7, <2>1, ServerAt DEF CreateAnswer, Created
  <2>3. flat' \in Board /\ cache' \in [Dashboards -> Board]
    BY <1>7, <2>1, Boards, Copied DEF CreateAnswer, TypeOK
  <2> QED  BY <1>7, <2>1, <2>2, <2>3 DEF CreateAnswer, Stray, Typed, TypeOK, Servers
<1>8. ASSUME NEW c \in calls, CreateFails(c) PROVE Typed'
  <2>1. c.d \in Dashboards /\ c.x \in Widgets /\ c.p \in Places \cup {None}  BY <1>8 DEF CreateFails, Carries
  <2>2. server' \in Servers
    BY <1>8, <2>1, ServerAt DEF CreateFails, Created, TypeOK, Servers
  <2>3. cache' \in [Dashboards -> Board]
    BY <1>8, <2>1, Copied DEF CreateFails, TypeOK
  <2> QED  BY <1>8, <2>1, <2>2, <2>3 DEF CreateFails, Typed, TypeOK, Servers
<1>9. ASSUME NEW c \in calls, DeleteChart(c) PROVE Typed'
  <2>1. c.d \in Dashboards /\ c.x \in Widgets  BY <1>9 DEF DeleteChart, Carries
  <2>2. server' \in Servers
    <3>1. server \in Servers /\ [server EXCEPT ![c.d][c.x] = None] \in Servers  BY <2>1, ServerAt DEF TypeOK, Servers
    <3> QED  BY <1>9, <3>1 DEF DeleteChart
  <2>3. flat \in Board /\ Drop(flat, c.x) \in Board /\ active \in Dashboards \cup {None}  BY <2>1, Boards DEF TypeOK
  <2>4. Push(flat, active) /\ Show(Drop(flat, c.x))  BY <1>9 DEF DeleteChart, RemoveFromStore, PushUndo
  <2> QED  BY <1>9, <2>2, <2>3, <2>4, Pushed, ShownTypes DEF DeleteChart, Stray, Typed, TypeOK, Servers, Snap
<1>10. ASSUME NEW c \in calls, DuplicateWidget(c) PROVE Typed'
  <2>1. c.d \in Dashboards /\ c.y \in Widgets /\ c.p \in Places  BY <1>10 DEF DuplicateWidget, Carries
  <2>2. server' \in Servers /\ home' \in [Widgets -> SUBSET Dashboards]
        /\ fetching' \subseteq Dashboards
    BY <1>10, <2>1, ServerAt DEF DuplicateWidget, PutHome, TypeOK
  <2>3. Put(flat, c.y, "saved", c.p) \in Board  BY <2>1, Boards DEF TypeOK
  <2> QED  BY <1>10, <2>2, <2>3, ShownTypes DEF DuplicateWidget, Stray, Typed, TypeOK, Servers
<1>11. ASSUME NEW c \in calls, PlaceAnswer(c) PROVE Typed'
  <2>1. c.d \in Dashboards /\ c.x \in Widgets /\ c.p \in Places  BY <1>11 DEF PlaceAnswer, Carries
  <2>2. server' \in Servers
    <3>1. server \in Servers /\ [server EXCEPT ![c.d][c.x] = c.p] \in Servers  BY <2>1, ServerAt DEF TypeOK, Servers
    <3> QED  BY <1>11, <3>1 DEF PlaceAnswer
  <2> QED  BY <1>11, <2>2 DEF PlaceAnswer, Typed, TypeOK, Servers
<1>12. ASSUME NEW c \in calls, RestoreVersionSnapshot(c) PROVE Typed'
  <2>1. c.d \in Dashboards /\ c.board \in Board  BY <1>12 DEF RestoreVersionSnapshot, Carries
  <2>2. versions' \in [Dashboards -> SUBSET Board]  BY <1>12 DEF RestoreVersionSnapshot, TypeOK
  <2>3. cache' \in [Dashboards -> Board]  BY <1>12, <2>1, Copied DEF RestoreVersionSnapshot, TypeOK
  <2> QED  BY <1>12, <2>1, <2>2, <2>3 DEF RestoreVersionSnapshot, Stray, Typed, TypeOK
<1>13. ASSUME NEW c \in calls, Forget(c) PROVE Typed'
  BY <1>13, AskTypes DEF Forget, AskedFor
<1>14. ASSUME NEW c \in calls, NEW p \in Places, LinkWidgetToDashboard(c, p) PROVE Typed'
  <2> DEFINE b == c.cache[c.d]
             new == [c.cache EXCEPT ![c.d] = IF c.y \in On(b) THEN b ELSE Put(b, c.y, "saved", p)]
             shown == IF active = c.d THEN flat ELSE new[c.d]
             local == c.move /\ c.x # c.y
             ft == IF c.y \in On(flat) /\ active # None THEN fetching \cup {active} ELSE fetching
             left == calls \ {c}
             out == IF c.move /\ c.x = c.y THEN {[kind |-> "unlink", d |-> c.d, x |-> c.x, to |-> c.d]} ELSE {}
             copies == IF local THEN [new EXCEPT ![c.d] = Drop(shown, c.x)] ELSE new
             board == IF local /\ active = c.d THEN Drop(flat, c.x) ELSE flat
  <2>1. c.d \in Dashboards /\ c.x \in Widgets /\ c.y \in Widgets /\ c.known \in SUBSET Dashboards
        /\ c.cache \in [Dashboards -> Board]
    BY <1>14 DEF LinkWidgetToDashboard, Carries
  <2>2. flat \in Board /\ ft \in SUBSET Dashboards  BY DEF TypeOK
  <2>3. new \in [Dashboards -> Board]  BY <2>1, Boards
  <2>4. shown \in Board  BY <2>1, <2>2, <2>3
  <2>5. copies \in [Dashboards -> Board] /\ board \in Board  BY <2>1, <2>2, <2>3, <2>4, Boards
  <2>6. \A e \in left \cup out : Carries(e)  BY <2>1 DEF Carries
  <2>7. Activate(c.d, c.known, copies, board, left \cup out, ft) /\ (Push(shown, c.d) \/ UNCHANGED history)
    BY <1>14 DEF LinkWidgetToDashboard
  <2>8. server' \in Servers /\ home' \in [Widgets -> SUBSET Dashboards]
    BY <1>14, <2>1, ServerAt DEF LinkWidgetToDashboard, PutHome, TypeOK, Servers
  <2> HIDE DEF new, shown, local, ft, left, out, copies, board
  <2>9. /\ known' \subseteq Dashboards /\ cache' \in [Dashboards -> Board] /\ flat' \in Board
        /\ active' \in Dashboards \cup {None} /\ fetching' \subseteq Dashboards
        /\ \A e \in calls' : Carries(e)
    BY <2>1, <2>2, <2>5, <2>6, <2>7, Activated
  <2>10. undo' \in Seq(Snap) /\ redo' \in Seq(Snap) /\ Len(undo') + Len(redo') <= MaxHistory
    BY <2>1, <2>4, <2>7, Pushed DEF TypeOK, Snap
  <2> QED  BY <1>14, <2>8, <2>9, <2>10 DEF LinkWidgetToDashboard, Stray, Typed, TypeOK, Servers, Snap
<1>15. CASE \E d \in Dashboards, last \in BOOLEAN : FetchChartData(d, last)
  <2> PICK d \in Dashboards, last \in BOOLEAN : FetchChartData(d, last)  BY <1>15
  <2>1. cache' \in [Dashboards -> Board]  BY Copied DEF FetchChartData, TypeOK
  <2> QED  BY <2>1 DEF FetchChartData, Stray, Typed, TypeOK
<1>16. CASE Render
  BY <1>16 DEF Render, Typed, TypeOK
<1>17. CASE SyncLayout
  <2>1. CASE ShouldPersist(timer.d, active)
    <3>1. timer \in [d : Dashboards \cup {None}, l : [Widgets -> Places \cup {None}], w : SUBSET Widgets] /\ active \in Dashboards
      BY <1>17, <2>1 DEF SyncLayout, ShouldPersist, TypeOK
    <3>2. \A e \in UpdateChartLayout(timer.l, timer.w) : Carries(e)
      BY <3>1 DEF UpdateChartLayout, Carries
    <3> QED  BY <1>17, <2>1, <3>2 DEF SyncLayout, Typed, TypeOK
  <2>2. CASE ~ShouldPersist(timer.d, active)  BY <1>17, <2>2 DEF SyncLayout, Typed, TypeOK
  <2> QED  BY <2>1, <2>2
<1> QED  BY <1>1, <1>2, <1>3, <1>4, <1>5, <1>6, <1>7, <1>8, <1>9, <1>10, <1>11, <1>12, <1>13, <1>14, <1>15, <1>16, <1>17 DEF Answer

LEMMA TypedInit == ASSUME Init PROVE Typed
  <1>1. \A d \in Dashboards : Hydrated(d) \in Board  BY DEF Init, Hydrated, Board
  <1>2. undo \in Seq(Snap) /\ redo \in Seq(Snap) /\ Len(undo) + Len(redo) <= MaxHistory
    <2>1. undo = <<>> /\ redo = <<>> /\ Len(undo) = 0 /\ Len(redo) = 0  BY EmptySeq DEF Init
    <2> QED  BY <2>1, HistoryAssumption
  <1> QED  BY <1>1, <1>2, Boards DEF Init, Typed, TypeOK, Snap, Empty, Board

LEMMA TypedStep == ASSUME Typed, [Next]_vars PROVE Typed'
  <1>1. CASE Next  BY <1>1, PersonTypes, AnswerTypes DEF Next
  <1>2. CASE UNCHANGED vars  BY <1>2 DEF vars, Typed, TypeOK, Carries
  <1> QED  BY <1>1, <1>2

\* Every variable keeps its type, and undo and redo together their limit, whatever is pushed,
\* undone and redone (useDashboardStore).
THEOREM TypeCorrect == Spec => []TypeOK
  <1>1. Spec => []Typed  BY TypedInit, TypedStep, PTL DEF Spec
  <1>2. Typed => TypeOK  BY DEF Typed
  <1> QED  BY <1>1, <1>2, PTL

-----------------------------------------------------------------------------
(* Layout saves *)

\* Only a save, a render and a change of the layout touch the timer, and only the save asks for more.
LEMMA TimerMoves == ASSUME Next PROVE UNCHANGED timer \/ UNCHANGED calls \/ SyncLayout
  <1>1. CASE Person
    BY <1>1 DEF Person, SetActiveDashboard, AskAddDashboard, AskRemoveDashboard, AskDashboards, RefreshAllChartData,
       SaveVersionSnapshot, HistoryUndo, HistoryRedo, CreateChart, RemoveWidget, CommitLayout, AddWidget, ApplyStoryStarter,
       ApplyLayoutPreset, AskDuplicate, HandleCopyToDashboard, AskLink, AskCopy, AskRestoreVersion
  <1>2. CASE Answer
    <2>1. ASSUME NEW c \in calls, ReadBoard(c) \/ LoadDashboardById(c) \/ LoadFails(c) \/ FetchDashboards(c) PROVE UNCHANGED timer
      BY <2>1 DEF ReadBoard, LoadDashboardById, LoadFails, FetchDashboards
    <2>2. ASSUME NEW c \in calls, AddDashboard(c) \/ RemoveDashboard(c) \/ CreateAnswer(c) \/ CreateFails(c) PROVE UNCHANGED timer
      BY <2>2 DEF AddDashboard, RemoveDashboard, CreateAnswer, CreateFails
    <2>3. ASSUME NEW c \in calls, DeleteChart(c) \/ DuplicateWidget(c) \/ PlaceAnswer(c) \/ RestoreVersionSnapshot(c) PROVE UNCHANGED timer
      BY <2>3 DEF DeleteChart, DuplicateWidget, PlaceAnswer, RestoreVersionSnapshot
    <2>4. ASSUME NEW c \in calls, NEW p, Forget(c) \/ LinkWidgetToDashboard(c, p) PROVE UNCHANGED timer
      BY <2>4 DEF Forget, LinkWidgetToDashboard
    <2>5. ASSUME NEW d, NEW last, FetchChartData(d, last) PROVE UNCHANGED timer
      BY <2>5 DEF FetchChartData
    <2>6. Render => UNCHANGED calls  BY DEF Render
    <2> QED  BY <1>2, <2>1, <2>2, <2>3, <2>4, <2>5, <2>6 DEF Answer
  <1> QED  BY <1>1, <1>2 DEF Next

\* A debounced layout save reaches only the board whose layout was changed: the save compares its
\* board with the one that shows when it fires (shouldPersistDebouncedLayout).
THEOREM SavesGoHome == Spec => LayoutGoesHome
  <1> DEFINE Home == \A c \in calls' \ calls : timer # None /\ timer' = None /\ c.kind = "place" => c.d = timer.d
  <1>1. ASSUME [Next]_vars PROVE Home
    <2>1. CASE SyncLayout
      <3>1. CASE ShouldPersist(timer.d, active)
        <4>1. timer.d = active  BY <3>1 DEF ShouldPersist
        <4>2. \A c \in UpdateChartLayout(timer.l, timer.w) : c.d = active  BY DEF UpdateChartLayout
        <4> QED  BY <2>1, <3>1, <4>1, <4>2 DEF SyncLayout
      <3>2. CASE ~ShouldPersist(timer.d, active)  BY <2>1, <3>2 DEF SyncLayout
      <3> QED  BY <3>1, <3>2
    <2>2. CASE UNCHANGED timer \/ UNCHANGED calls  BY <2>2
    <2>3. CASE UNCHANGED vars  BY <2>3 DEF vars
    <2> QED  BY <1>1, <2>1, <2>2, <2>3, TimerMoves
  <1>2. [][Next]_vars => [][Home]_vars  BY <1>1, PTL
  <1> QED  BY <1>2 DEF Spec, LayoutGoesHome

-----------------------------------------------------------------------------
(* What shows was put there *)

Grows == home' \in [Widgets -> SUBSET Dashboards] /\ \A x \in Widgets : home[x] \subseteq home'[x]

LEMMA HeldLater ==
  ASSUME Grows, NEW b, NEW d, HeldBy(b, d, home)
  PROVE  HeldBy(b, d, home')
  BY DEF Grows, HeldBy

LEMMA PushHeld ==
  ASSUME Typed, Grows, Snapshots, NEW b \in Board, NEW d \in Dashboards \cup {None}, Push(b, d), HeldBy(b, d, home')
  PROVE  Snapshots'
  <1>1. \A i \in DOMAIN undo' : undo'[i] = [board |-> b, of |-> d] \/ \E j \in DOMAIN undo : undo'[i] = undo[j]
    BY Pushed DEF Typed
  <1>2. DOMAIN redo' = {}  BY Pushed DEF Typed
  <1>3. \A j \in DOMAIN undo : HeldBy(undo[j].board, undo[j].of, home')  BY HeldLater DEF Snapshots
  <1> QED  BY <1>1, <1>2, <1>3 DEF Snapshots

LEMMA SnapshotsLater ==
  ASSUME Grows, Snapshots, UNCHANGED history
  PROVE  Snapshots'
  BY HeldLater DEF Snapshots

LEMMA VersionsLater ==
  ASSUME Grows, Versions, UNCHANGED versions
  PROVE  Versions'
  BY HeldLater DEF Versions

LEMMA StoredLater ==
  ASSUME Grows, Stored, UNCHANGED server
  PROVE  Stored'
  BY DEF Grows, Stored

LEMMA AskedLater ==
  ASSUME Typed, Grows, Asked, \A e \in calls' : e \in calls \/ Owed(e, home')
  PROVE  Asked'
  <1>1. \A e \in calls : Owed(e, home')  BY HeldLater DEF Asked, Owed, Typed, Carries, Grows
  <1> QED  BY <1>1 DEF Asked

LEMMA ShownHeld ==
  ASSUME Typed, Grows, Held(cache, active, known, home), NEW b \in Board, Show(b), HeldBy(b, active, home')
  PROVE  HeldBy(flat', active', home') /\ Held(cache', active', known', home')
  <1>1. CASE active \in known
    <2>1. cache' = [cache EXCEPT ![active] = b] /\ cache \in [Dashboards -> Board] /\ active \in Dashboards
      BY <1>1 DEF Show, Mirror, Typed, TypeOK
    <2>2. cache'[active] = b /\ \A d \in Dashboards : d # active => cache'[d] = cache[d]  BY <2>1
    <2>3. ASSUME NEW d \in Dashboards, NEW x \in Widgets, cache'[d].w[x] # "absent"
          PROVE  d \in home'[x] /\ (cache'[d].l[x] # None \/ d = active)
      BY <2>2, <2>3, <2>1, NoneAssumption DEF Held, HeldBy, Grows
    <2> QED  BY <2>3, <1>1 DEF Show, Held
  <1>2. CASE active \notin known
    BY <1>2 DEF Show, Mirror, Grows, Held, HeldBy, Typed, TypeOK
  <1> QED  BY <1>1, <1>2

LEMMA StoredAt ==
  ASSUME TypeOK, Stored, Grows, NEW d \in Dashboards, NEW x \in Widgets, d \in home'[x],
         NEW p, server' = server \/ server' = [server EXCEPT ![d][x] = p]
  PROVE  Stored'
  <1>1. \A e \in Dashboards, y \in Widgets : (e # d \/ y # x) => server'[e][y] = server[e][y]  BY DEF TypeOK
  <1> QED  BY <1>1 DEF Stored, Grows

\* Widgets are copied to the board on show without their places.
LEMMA MirroredHeld ==
  ASSUME TypeOK, Held(cache, active, known, home), NEW b \in Board, HeldBy(b, active, home)
  PROVE  Held(MirrorWidgets(cache, active, b), active, known, home)
  <1> DEFINE m == MirrorWidgets(cache, active, b)
  <1>1. CASE active \in known
    <2>1. m[active].w = b.w /\ active \in Dashboards /\ \A d \in Dashboards : d # active => m[d] = cache[d]
      BY <1>1 DEF MirrorWidgets, TypeOK, Board
    <2> HIDE DEF m
    <2>2. Held(m, active, known, home)  BY <1>1, <2>1, NoneAssumption DEF Held, HeldBy
    <2> QED  BY <2>2 DEF m
  <1>2. CASE active \notin known  BY <1>2 DEF MirrorWidgets
  <1> QED  BY <1>1, <1>2

LEMMA ActivatedHeld ==
  ASSUME Typed, NEW d \in Dashboards, NEW k \in SUBSET Dashboards, NEW c \in [Dashboards -> Board], NEW b \in Board,
         NEW cl, NEW ft, Activate(d, k, c, b, cl, ft),
         Held(c, active, k, home'), HeldBy(b, active, home')
  PROVE  /\ HeldBy(flat', active', home') /\ Held(cache', active', known', home')
         /\ \A e \in calls' : e \in cl \/ e.kind = "load"
  <1> DEFINE kept == IF active \in k THEN [c EXCEPT ![active] = b] ELSE c
  <1> None \notin Dashboards  BY NoneAssumption
  <1>1. \A e \in calls' : e \in cl \/ e.kind = "load"  BY DEF Activate, Call
  <1>2. CASE d = active \/ d \notin k
    BY <1>1, <1>2 DEF Activate
  <1>3. CASE d # active /\ d \in k
    <2>1. kept[d] = c[d] /\ \A x \in Widgets, e \in Dashboards : kept[e].w[x] # "absent" => kept[e].l[x] # None /\ e \in home'[x]
      BY <1>3 DEF Held, HeldBy
    <2>2. active' = d /\ cache' = kept /\ flat' = kept[d]  BY <1>3 DEF Activate
    <2> HIDE DEF kept
    <2> QED  BY <1>1, <2>1, <2>2 DEF Held, HeldBy
  <1> QED  BY <1>2, <1>3

\* Nothing but calls, and what is not of boards, changes.
LEMMA AskHeld ==
  ASSUME Typed, Straight, UNCHANGED <<store, remote, history, home>>, \A e \in calls' : e \in calls \/ Owed(e, home')
  PROVE  Straight'
  <1> Grows  BY DEF Grows, Typed, TypeOK
  <1>1. Snapshots' /\ Versions' /\ Stored' /\ Asked'
    BY SnapshotsLater, VersionsLater, StoredLater, AskedLater DEF Straight
  <1> QED  BY <1>1 DEF Straight

LEMMA PersonHeld ==
  ASSUME Typed, Straight, Person, ~strayed, ~strayed'
  PROVE  Straight'
<1> TypeOK /\ (\A c \in calls : Carries(c))  BY DEF Typed
<1> None \notin Dashboards /\ None \notin Places  BY NoneAssumption
<1> HeldBy(flat, active, home) /\ Held(cache, active, known, home) /\ Snapshots /\ Versions /\ Stored /\ Asked  BY DEF Straight
<1>0. UNCHANGED home => Grows  BY DEF Grows, TypeOK
<1>1. CASE \E d \in Dashboards : SetActiveDashboard(d)
  <2> PICK d \in Dashboards : SetActiveDashboard(d)  BY <1>1
  <2>1. Activate(d, known, cache, flat, calls, fetching) /\ UNCHANGED <<remote, history, home>>  BY DEF SetActiveDashboard
  <2>2. known \in SUBSET Dashboards /\ cache \in [Dashboards -> Board] /\ flat \in Board  BY DEF TypeOK
  <2>3. /\ HeldBy(flat', active', home') /\ Held(cache', active', known', home')
        /\ \A e \in calls' : e \in calls \/ e.kind = "load"
    BY <2>1, <2>2, ActivatedHeld
  <2> QED  BY <2>1, <2>3, <1>0, SnapshotsLater, VersionsLater, StoredLater, AskedLater DEF Straight, Owed
<1>2. CASE \E d \in Dashboards : AskAddDashboard(d) \/ AskRemoveDashboard(d)
  BY <1>2, AskHeld DEF AskAddDashboard, AskRemoveDashboard, Call, Owed
<1>3. CASE AskDashboards
  BY <1>3, AskHeld DEF AskDashboards, Call, Owed
<1>4. CASE RefreshAllChartData
  <2>1. Held(cache', active', known', home')
    BY <1>4 DEF RefreshAllChartData, MirrorWidgets, Held, HeldBy, TypeOK, Board
  <2> QED  BY <1>4, <2>1, <1>0, SnapshotsLater, VersionsLater, StoredLater, AskedLater DEF RefreshAllChartData, Straight
<1>5. CASE SaveVersionSnapshot
  <2>1. Versions'  BY <1>5 DEF SaveVersionSnapshot, Versions, TypeOK
  <2> QED  BY <1>5, <2>1, <1>0, SnapshotsLater, StoredLater, AskedLater DEF SaveVersionSnapshot, Straight
<1>6. CASE HistoryUndo
  <2> DEFINE top == undo[Len(undo)]
  <2>1. undo \in Seq(Snap) /\ redo \in Seq(Snap) /\ undo # <<>>  BY <1>6 DEF HistoryUndo, TypeOK, Snap
  <2>2. /\ top \in Snap
        /\ \A i \in DOMAIN undo' : i \in DOMAIN undo /\ undo'[i] = undo[i]
        /\ \A i \in DOMAIN redo' : redo'[i] = [board |-> flat, of |-> active] \/ (i \in DOMAIN redo /\ redo'[i] = redo[i])
    BY <1>6, <2>1, Moved DEF HistoryUndo
  <2>3. HeldBy(top.board, top.of, home)
    <3>1. Len(undo) \in DOMAIN undo  BY <2>1, LenProperties, EmptySeq
    <3> QED  BY <3>1 DEF Snapshots
  <2>4. Show(top.board) /\ top.of = active /\ UNCHANGED <<calls, remote, home>>
    BY <1>6 DEF HistoryUndo, Stray
  <2>5. HeldBy(flat', active', home') /\ Held(cache', active', known', home')
    BY <2>2, <2>3, <2>4, <1>0, ShownHeld DEF Snap
  <2> HIDE DEF top
  <2>6. Snapshots'  BY <2>2, <2>4 DEF Snapshots
  <2> QED  BY <2>4, <2>5, <2>6, <1>0, VersionsLater, StoredLater, AskedLater DEF Straight
<1>7. CASE HistoryRedo
  <2> DEFINE top == redo[Len(redo)]
  <2>1. undo \in Seq(Snap) /\ redo \in Seq(Snap) /\ redo # <<>>  BY <1>7 DEF HistoryRedo, TypeOK, Snap
  <2>2. /\ top \in Snap
        /\ \A i \in DOMAIN redo' : i \in DOMAIN redo /\ redo'[i] = redo[i]
        /\ \A i \in DOMAIN undo' : undo'[i] = [board |-> flat, of |-> active] \/ (i \in DOMAIN undo /\ undo'[i] = undo[i])
    BY <1>7, <2>1, Moved DEF HistoryRedo
  <2>3. HeldBy(top.board, top.of, home)
    <3>1. Len(redo) \in DOMAIN redo  BY <2>1, LenProperties, EmptySeq
    <3> QED  BY <3>1 DEF Snapshots
  <2>4. Show(top.board) /\ top.of = active /\ UNCHANGED <<calls, remote, home>>
    BY <1>7 DEF HistoryRedo, Stray
  <2>5. HeldBy(flat', active', home') /\ Held(cache', active', known', home')
    BY <2>2, <2>3, <2>4, <1>0, ShownHeld DEF Snap
  <2> HIDE DEF top
  <2>6. Snapshots'  BY <2>2, <2>4 DEF Snapshots
  <2> QED  BY <2>4, <2>5, <2>6, <1>0, VersionsLater, StoredLater, AskedLater DEF Straight
<1>8. CASE \E x \in Widgets : CreateChart(x)
  <2> PICK x \in Widgets : CreateChart(x)  BY <1>8
  <2>1. Held(cache', active', known', home')
    BY DEF CreateChart, MirrorWidgets, Held, HeldBy, TypeOK, Board
  <2>2. active \in home[x]  BY DEF CreateChart, HeldBy
  <2>3. \A e \in calls' : e \in calls \/ Owed(e, home')  BY <2>2 DEF CreateChart, Owed
  <2> QED  BY <2>1, <2>3, <1>0, SnapshotsLater, VersionsLater, StoredLater, AskedLater DEF CreateChart, Straight
<1>9. CASE \E x \in Widgets : RemoveWidget(x)
  <2> PICK x \in Widgets : RemoveWidget(x)  BY <1>9
  <2>1. CASE flat.w[x] = "local"
    <3>1. Push(flat, active) /\ Show(Drop(flat, x)) /\ UNCHANGED calls
      BY <2>1 DEF RemoveWidget, RemoveFromStore, PushUndo
    <3>2. flat \in Board /\ Drop(flat, x) \in Board /\ active \in Dashboards \cup {None}  BY Boards DEF TypeOK
    <3>3. HeldBy(Drop(flat, x), active, home)  BY DEF HeldBy, Drop, Put, TypeOK, Board
    <3>4. UNCHANGED <<remote, home>> /\ Grows  BY <1>0 DEF RemoveWidget
    <3>5. HeldBy(flat', active', home') /\ Held(cache', active', known', home')
      BY <3>1, <3>2, <3>3, <3>4, ShownHeld
    <3>6. Snapshots'  BY <3>1, <3>2, <3>4, PushHeld
    <3> QED  BY <3>1, <3>4, <3>5, <3>6, VersionsLater, StoredLater, AskedLater DEF Straight
  <2>2. CASE flat.w[x] # "local"  BY <2>2, AskHeld DEF RemoveWidget, Owed
  <2> QED  BY <2>1, <2>2
<1>10. CASE \E x \in Widgets, p \in Places : CommitLayout(x, p)
  <2> PICK x \in Widgets, p \in Places : CommitLayout(x, p)  BY <1>10
  <2> DEFINE after == [flat EXCEPT !.l[x] = p]
  <2>1. after \in Board /\ HeldBy(after, active, home) /\ active \in Dashboards \cup {None}  BY DEF HeldBy, TypeOK, Board
  <2>2. Show(after) /\ Push(after, active) /\ UNCHANGED <<calls, remote, home>>
    BY DEF CommitLayout, ScheduleLayoutSync, PushUndo
  <2> HIDE DEF after
  <2>3. Grows /\ HeldBy(after, active, home')  BY <2>1, <2>2, <1>0
  <2>4. HeldBy(flat', active', home') /\ Held(cache', active', known', home')  BY <2>1, <2>2, <2>3, ShownHeld
  <2>5. Snapshots'  BY <2>1, <2>2, <2>3, PushHeld
  <2> QED  BY <2>2, <2>3, <2>4, <2>5, VersionsLater, StoredLater, AskedLater DEF Straight
<1>11. CASE \E x \in Widgets, p \in Places : AddWidget(x, p, FALSE) \/ ApplyStoryStarter(x, p)
  <2> PICK x \in Widgets, p \in Places, static \in BOOLEAN : AddWidget(x, p, static)  BY <1>11 DEF ApplyStoryStarter
  <2>1. active \in Dashboards /\ flat \in Board /\ Put(flat, x, "local", p) \in Board
    BY Boards DEF AddWidget, TypeOK
  <2>2. Push(flat, active) /\ Show(Put(flat, x, "local", p)) /\ UNCHANGED remote  BY DEF AddWidget, AddToStore, PushUndo
  <2>3. Grows /\ active \in home'[x]  BY <2>1 DEF AddWidget, PutHome, Grows, TypeOK
  <2>4. HeldBy(flat, active, home') /\ HeldBy(Put(flat, x, "local", p), active, home')
    BY <2>1, <2>3, HeldLater DEF HeldBy, Put, Board
  <2>5. HeldBy(flat', active', home') /\ Held(cache', active', known', home')  BY <2>1, <2>2, <2>3, <2>4, ShownHeld
  <2>6. Snapshots'  BY <2>1, <2>2, <2>3, <2>4, PushHeld
  <2>7. \A e \in calls' : e \in calls \/ Owed(e, home')  BY <2>3 DEF AddWidget, Owed
  <2> QED  BY <2>2, <2>3, <2>5, <2>6, <2>7, VersionsLater, StoredLater, AskedLater DEF Straight
<1>12. CASE \E x \in Widgets, l \in [Widgets -> Places] : ApplyLayoutPreset(l, x)
  <2> PICK x \in Widgets, l \in [Widgets -> Places] : ApplyLayoutPreset(l, x)  BY <1>12
  <2> DEFINE moved == [flat EXCEPT !.l = [y \in Widgets |-> IF y \in On(flat) THEN l[y] ELSE None]]
  <2>1. active \in Dashboards /\ flat \in Board /\ moved \in Board
    BY DEF ApplyLayoutPreset, TypeOK, Board
  <2>2. Put(moved, x, "local", l[x]) \in Board  BY <2>1, Boards
  <2>3. Push(flat, active) /\ Show(Put(moved, x, "local", l[x])) /\ UNCHANGED remote  BY DEF ApplyLayoutPreset, PushUndo
  <2>4. Grows /\ active \in home'[x]  BY <2>1 DEF ApplyLayoutPreset, PutHome, Grows, TypeOK
  <2>5. HeldBy(moved, active, home)  BY <2>1 DEF HeldBy, On, Board
  <2> HIDE DEF moved
  <2>6. HeldBy(flat, active, home') /\ HeldBy(Put(moved, x, "local", l[x]), active, home')
    <3>1. HeldBy(flat, active, home') /\ HeldBy(moved, active, home')  BY <2>4, <2>5, HeldLater
    <3> QED  BY <2>1, <2>4, <3>1 DEF HeldBy, Put, Board
  <2>7. HeldBy(flat', active', home') /\ Held(cache', active', known', home')  BY <2>2, <2>3, <2>4, <2>6, ShownHeld
  <2>8. Snapshots'  BY <2>1, <2>3, <2>4, <2>6, PushHeld
  <2>9. \A e \in calls' : e \in calls \/ Owed(e, home')  BY DEF ApplyLayoutPreset, UpdateChartLayout, Owed
  <2> QED  BY <2>3, <2>4, <2>7, <2>8, <2>9, VersionsLater, StoredLater, AskedLater DEF Straight
<1>13. CASE \E x, y \in Widgets : AskDuplicate(x, y)
  BY <1>13, AskHeld DEF AskDuplicate, Owed
<1>14. CASE \E x \in Widgets, t \in Dashboards, m \in BOOLEAN : HandleCopyToDashboard(x, t, m)
  BY <1>14, AskHeld DEF HandleCopyToDashboard, AskLink, AskCopy, Owed
<1>15. CASE \E d \in Dashboards : \E b \in versions[d] : AskRestoreVersion(b)
  <2> PICK d \in Dashboards : \E b \in versions[d] : AskRestoreVersion(b)  BY <1>15
  <2> PICK b \in versions[d] : AskRestoreVersion(b)  OBVIOUS
  <2>1. active \in Dashboards /\ b \in versions[active]  BY DEF AskRestoreVersion, TypeOK
  <2>2. HeldBy(b, active, home)  BY <2>1 DEF Versions
  <2> QED  BY <2>2, AskHeld DEF AskRestoreVersion, Owed
<1> QED  BY <1>1, <1>2, <1>3, <1>4, <1>5, <1>6, <1>7, <1>8, <1>9, <1>10, <1>11, <1>12, <1>13, <1>14, <1>15 DEF Person

LEMMA AnswerHeld ==
  ASSUME Typed, Straight, Answer, ~strayed, ~strayed'
  PROVE  Straight'
<1> TypeOK /\ (\A c \in calls : Carries(c))  BY DEF Typed
<1> None \notin Dashboards /\ None \notin Places  BY NoneAssumption
<1> HeldBy(flat, active, home) /\ Held(cache, active, known, home) /\ Snapshots /\ Versions /\ Stored /\ Asked  BY DEF Straight
<1>0. UNCHANGED home => Grows  BY DEF Grows, TypeOK
<1>e. \A d \in Dashboards : HeldBy(Hydrated(d), d, home) /\ HeldBy(Empty, d, home)
  BY DEF Stored, Hydrated, Empty, HeldBy
<1>1. ASSUME NEW c \in calls, ReadBoard(c) PROVE Straight'
  BY <1>1, <1>e, AskHeld DEF ReadBoard, Owed, Carries
<1>2. ASSUME NEW c \in calls, LoadDashboardById(c) PROVE Straight'
  <2> DEFINE k == known \cup {c.d}
             new == [cache EXCEPT ![c.d] = c.board]
             left == calls \ {c}
  <2>1. c.d \in Dashboards /\ c.board \in Board /\ HeldBy(c.board, c.d, home) /\ UNCHANGED <<remote, history, home>>
    BY <1>2 DEF LoadDashboardById, Carries, Asked, Owed
  <2>2. k \in SUBSET Dashboards /\ new \in [Dashboards -> Board] /\ flat \in Board
    BY <2>1 DEF TypeOK
  <2>3. new[c.d] = c.board /\ \A d \in Dashboards : d # c.d => new[d] = cache[d]  BY <2>1 DEF TypeOK
  <2>4. Held(new, active, k, home')
    <3> HIDE DEF new
    <3> QED  BY <2>1, <2>3 DEF Held, HeldBy
  <2>5. HeldBy(flat', active', home') /\ Held(cache', active', known', home')
        /\ \A e \in calls' : e \in calls \/ e.kind = "load"
    <3>1. CASE active = c.d
      <4>1. known' = k /\ cache' = new /\ flat' = c.board /\ calls' = left /\ UNCHANGED active
        BY <1>2, <3>1 DEF LoadDashboardById
      <4> HIDE DEF new, k
      <4> QED  BY <3>1, <4>1, <2>1, <2>4
    <3>2. CASE active # c.d
      <4>1. Activate(c.d, k, new, flat, left, fetching)  BY <1>2, <3>2 DEF LoadDashboardById
      <4> HIDE DEF k, new
      <4>2. HeldBy(flat, active, home')  BY <2>1
      <4>3. \A e \in left : e \in calls  OBVIOUS
      <4> HIDE DEF left
      <4>4. /\ HeldBy(flat', active', home') /\ Held(cache', active', known', home')
            /\ \A e \in calls' : e \in left \/ e.kind = "load"
        BY <2>1, <2>2, <2>4, <4>1, <4>2, ActivatedHeld
      <4> QED  BY <4>3, <4>4
    <3> QED  BY <3>1, <3>2
  <2> QED  BY <2>1, <2>5, <1>0, SnapshotsLater, VersionsLater, StoredLater, AskedLater DEF Straight, Owed
<1>3. ASSUME NEW c \in calls, LoadFails(c) PROVE Straight'
  BY <1>3, AskHeld DEF LoadFails
<1>4. ASSUME NEW c \in calls, FetchDashboards(c) PROVE Straight'
  <2>1. UNCHANGED <<remote, history, home>> /\ \A e \in calls' : e \in calls \/ Owed(e, home')
    BY <1>4 DEF FetchDashboards, Call, Owed
  <2>2. HeldBy(flat', active', home') /\ Held(cache', active', known', home')
    BY <1>4, <2>1 DEF FetchDashboards, Held, HeldBy, Empty
  <2> QED  BY <2>1, <2>2, <1>0, SnapshotsLater, VersionsLater, StoredLater, AskedLater DEF Straight
<1>5. ASSUME NEW c \in calls, AddDashboard(c) PROVE Straight'
  <2> DEFINE k == known \cup {c.d}
             new == [cache EXCEPT ![c.d] = Empty]
             left == calls \ {c}
  <2>1. c.d \in Dashboards /\ UNCHANGED <<server, versions, history, home>>
        /\ Activate(c.d, k, new, flat, left, fetching)
    BY <1>5 DEF AddDashboard, Carries
  <2>2. k \in SUBSET Dashboards /\ new \in [Dashboards -> Board] /\ flat \in Board
    BY <2>1, Boards DEF TypeOK
  <2>3. new[c.d] = Empty /\ \A d \in Dashboards : d # c.d => new[d] = cache[d]  BY <2>1 DEF TypeOK
  <2>4. Held(new, active, k, home')
    <3> HIDE DEF new
    <3> QED  BY <2>1, <2>3, <1>e DEF Held, HeldBy
  <2> HIDE DEF new, k
  <2>5. HeldBy(flat', active', home') /\ Held(cache', active', known', home')
        /\ \A e \in calls' : e \in calls \/ e.kind = "load"
    BY <2>1, <2>2, <2>4, ActivatedHeld
  <2> QED  BY <2>1, <2>5, <1>0, SnapshotsLater, VersionsLater, StoredLater, AskedLater DEF Straight, Owed
<1>6. ASSUME NEW c \in calls, RemoveDashboard(c) PROVE Straight'
  <2> DEFINE k == known \ {c.d}
             new == [cache EXCEPT ![c.d] = Empty]
             left == calls \ {c}
  <2>1. c.d \in Dashboards /\ UNCHANGED <<history, home>> /\ Grows  BY <1>6, <1>0 DEF RemoveDashboard, Carries
  <2>2. k \in SUBSET Dashboards /\ new \in [Dashboards -> Board] /\ flat \in Board
    BY <2>1, Boards DEF TypeOK
  <2>3. new[c.d] = Empty /\ \A d \in Dashboards : d # c.d => new[d] = cache[d]  BY <2>1 DEF TypeOK
  <2>4. Held(new, active, k, home')
    <3> HIDE DEF new
    <3> QED  BY <2>1, <2>3, <1>e DEF Held, HeldBy
  <2>5. Stored' /\ Versions'
    <3>1. Stored'  BY <1>6, <2>1 DEF RemoveDashboard, Stored, Empty, TypeOK
    <3>2. Versions'  BY <1>6, <2>1 DEF RemoveDashboard, Versions, TypeOK
    <3> QED  BY <3>1, <3>2
  <2>6. \/ known' = k /\ cache' = new /\ calls' = left /\ UNCHANGED <<active, flat>>
        \/ known' = k /\ cache' = new /\ calls' = left /\ active' = None /\ flat' = Empty /\ k = {}
        \/ \E d \in k : Activate(d, k, new, flat, left, fetching)
    BY <1>6 DEF RemoveDashboard
  <2> HIDE DEF k, new
  <2>7. HeldBy(flat', active', home') /\ Held(cache', active', known', home')
        /\ \A e \in calls' : e \in calls \/ e.kind = "load"
    <3>1. CASE \E d \in k : Activate(d, k, new, flat, left, fetching)
      BY <3>1, <2>1, <2>2, <2>4, ActivatedHeld
    <3>2. CASE known' = k /\ cache' = new /\ calls' = left /\ UNCHANGED <<active, flat>>
      BY <3>2, <2>1, <2>4
    <3>3. CASE known' = k /\ cache' = new /\ calls' = left /\ active' = None /\ flat' = Empty /\ k = {}
      <4>1. HeldBy(flat', active', home')  BY <3>3 DEF HeldBy, Empty
      <4>2. Held(cache', active', known', home')  BY <3>3, <2>4 DEF Held
      <4> QED  BY <3>3, <4>1, <4>2
    <3> QED  BY <3>1, <3>2, <3>3, <2>6
  <2> QED  BY <2>1, <2>5, <2>7, SnapshotsLater, AskedLater DEF Straight, Owed
<1>7. ASSUME NEW c \in calls, CreateAnswer(c) PROVE Straight'
  <2>1. c.d \in Dashboards /\ c.x \in Widgets /\ c.p \in Places \cup {None} /\ c.d = active /\ c.d \in home[c.x]
    BY <1>7 DEF CreateAnswer, Carries, Asked, Owed, Stray
  <2>2. UNCHANGED <<versions, history, home, known, active>> /\ Grows /\ \A e \in calls' : e \in calls
    BY <1>7, <1>0 DEF CreateAnswer
  <2>3. Stored'
    BY <1>7, <2>1, <2>2, StoredAt DEF CreateAnswer, Created, Placed
  <2>4. SavedIf(flat, c.x) \in Board /\ HeldBy(SavedIf(flat, c.x), active, home)
    BY <2>1, Boards DEF SavedIf, Put, On, HeldBy, TypeOK, Board
  <2>5. flat' = SavedIf(flat, c.x) /\ cache' = MirrorWidgets(cache, active, SavedIf(flat, c.x))
    BY <1>7, <2>1 DEF CreateAnswer
  <2>6. Held(cache', active', known', home')  BY <2>2, <2>4, <2>5, MirroredHeld
  <2> QED  BY <2>2, <2>3, <2>4, <2>5, <2>6, SnapshotsLater, VersionsLater, AskedLater DEF Straight
<1>8. ASSUME NEW c \in calls, CreateFails(c) PROVE Straight'
  <2>1. c.d \in Dashboards /\ c.x \in Widgets /\ c.p \in Places \cup {None} /\ c.d \in home[c.x]
    BY <1>8 DEF CreateFails, Carries, Asked, Owed
  <2>2. UNCHANGED <<versions, history, home, known, active, flat>> /\ Grows /\ \A e \in calls' : e \in calls
    BY <1>8, <1>0 DEF CreateFails
  <2>3. Stored'
    BY <1>8, <2>1, <2>2, StoredAt DEF CreateFails, Created, Placed
  <2>6. Held(cache', active', known', home')
    <3>1. cache' = MirrorWidgets(cache, active, flat) /\ flat \in Board  BY <1>8 DEF CreateFails, TypeOK
    <3> QED  BY <2>2, <3>1, MirroredHeld
  <2> QED  BY <2>2, <2>3, <2>6, SnapshotsLater, VersionsLater, AskedLater DEF Straight
<1>9. ASSUME NEW c \in calls, DeleteChart(c) PROVE Straight'
  <2>1. c.d \in Dashboards /\ c.x \in Widgets  BY <1>9 DEF DeleteChart, Carries
  <2>2. Push(flat, active) /\ Show(Drop(flat, c.x)) /\ UNCHANGED <<versions, home>> /\ Grows /\ \A e \in calls' : e \in calls
    BY <1>9, <1>0 DEF DeleteChart, RemoveFromStore, PushUndo
  <2>3. Stored'  BY <1>9, <2>1, <2>2 DEF DeleteChart, Stored, TypeOK
  <2>4. flat \in Board /\ Drop(flat, c.x) \in Board /\ active \in Dashboards \cup {None}  BY <2>1, Boards DEF TypeOK
  <2>5. HeldBy(Drop(flat, c.x), active, home)  BY <2>1 DEF HeldBy, Drop, Put, TypeOK, Board
  <2>6. HeldBy(flat', active', home') /\ Held(cache', active', known', home')  BY <2>2, <2>4, <2>5, ShownHeld
  <2>7. Snapshots'  BY <2>2, <2>4, PushHeld
  <2> QED  BY <2>2, <2>3, <2>6, <2>7, VersionsLater, AskedLater DEF Straight
<1>10. ASSUME NEW c \in calls, DuplicateWidget(c) PROVE Straight'
  <2>1. c.d \in Dashboards /\ c.y \in Widgets /\ c.p \in Places /\ c.d = active
    BY <1>10 DEF DuplicateWidget, Carries, Stray
  <2>2. Show(Put(flat, c.y, "saved", c.p)) /\ UNCHANGED <<versions, history>> /\ \A e \in calls' : e \in calls
    BY <1>10 DEF DuplicateWidget
  <2>3. Grows /\ c.d \in home'[c.y]  BY <1>10, <2>1 DEF DuplicateWidget, PutHome, Grows, TypeOK
  <2>4. Stored'  BY <1>10, <2>1, <2>3 DEF DuplicateWidget, Placed, Stored, TypeOK, Grows
  <2>5. Put(flat, c.y, "saved", c.p) \in Board /\ HeldBy(flat, active, home')  BY <2>1, <2>3, HeldLater, Boards DEF TypeOK
  <2>6. HeldBy(Put(flat, c.y, "saved", c.p), active, home')
    BY <2>1, <2>3, <2>5 DEF HeldBy, Put, TypeOK, Board
  <2>7. HeldBy(flat', active', home') /\ Held(cache', active', known', home')  BY <2>2, <2>3, <2>5, <2>6, ShownHeld
  <2> QED  BY <2>2, <2>3, <2>4, <2>7, SnapshotsLater, VersionsLater, AskedLater DEF Straight
<1>11. ASSUME NEW c \in calls, PlaceAnswer(c) PROVE Straight'
  <2>1. c.d \in Dashboards /\ c.x \in Widgets  BY <1>11 DEF PlaceAnswer, Carries
  <2>2. UNCHANGED <<versions, history, home, store>> /\ Grows /\ \A e \in calls' : e \in calls  BY <1>11, <1>0 DEF PlaceAnswer
  <2>3. Stored'
    <3>1. CASE server[c.d][c.x] = None  BY <1>11, <2>2, <3>1, StoredLater DEF PlaceAnswer
    <3>2. CASE server[c.d][c.x] # None
      <4>1. c.d \in home'[c.x]  BY <2>1, <2>2, <3>2 DEF Stored
      <4> QED  BY <1>11, <2>1, <2>2, <3>2, <4>1, StoredAt DEF PlaceAnswer
    <3> QED  BY <3>1, <3>2
  <2> QED  BY <2>2, <2>3, SnapshotsLater, VersionsLater, AskedLater DEF Straight
<1>12. ASSUME NEW c \in calls, RestoreVersionSnapshot(c) PROVE Straight'
  <2>1. c.d \in Dashboards /\ c.board \in Board /\ c.d = active /\ HeldBy(c.board, c.d, home)
    BY <1>12 DEF RestoreVersionSnapshot, Carries, Asked, Owed, Stray
  <2>2. Show(c.board) /\ UNCHANGED <<server, history, home>> /\ Grows /\ \A e \in calls' : e \in calls
    BY <1>12, <2>1, <1>0 DEF RestoreVersionSnapshot, Show
  <2>3. Versions'  BY <1>12, <2>2 DEF RestoreVersionSnapshot, Versions, TypeOK
  <2>4. HeldBy(flat', active', home') /\ Held(cache', active', known', home')  BY <2>1, <2>2, ShownHeld
  <2> QED  BY <2>2, <2>3, <2>4, SnapshotsLater, StoredLater, AskedLater DEF Straight
<1>13. ASSUME NEW c \in calls, Forget(c) PROVE Straight'
  BY <1>13, AskHeld DEF Forget
<1>14. ASSUME NEW c \in calls, NEW p \in Places, LinkWidgetToDashboard(c, p) PROVE Straight'
  <2> DEFINE b == cache[c.d]
             new == [cache EXCEPT ![c.d] = IF c.y \in On(b) THEN b ELSE Put(b, c.y, "saved", p)]
             shown == new[c.d]
             local == c.move /\ c.x # c.y
             ft == IF c.y \in On(flat) /\ active # None THEN fetching \cup {active} ELSE fetching
             left == calls \ {c}
             out == IF c.move /\ c.x = c.y THEN {[kind |-> "unlink", d |-> c.d, x |-> c.x, to |-> c.d]} ELSE {}
             copies == IF local THEN [new EXCEPT ![c.d] = Drop(shown, c.x)] ELSE new
  <2>1. /\ c.d \in Dashboards /\ c.x \in Widgets /\ c.y \in Widgets
        /\ c.d # active /\ c.cache = cache /\ c.known = known
    BY <1>14 DEF LinkWidgetToDashboard, Carries, Stray
  <2>2. Activate(c.d, known, copies, flat, left \cup out, ft) /\ (Push(shown, c.d) \/ UNCHANGED history)
        /\ UNCHANGED versions
    BY <1>14, <2>1 DEF LinkWidgetToDashboard
  <2>3. Grows /\ c.d \in home'[c.y]  BY <1>14, <2>1 DEF LinkWidgetToDashboard, PutHome, Grows, TypeOK
  <2>4. Stored'  BY <1>14, <2>1, <2>3, StoredAt DEF LinkWidgetToDashboard
  <2>5. b \in Board /\ HeldBy(b, c.d, home')  BY <2>1, <2>3 DEF TypeOK, Held, HeldBy, Grows
  <2>6. shown \in Board /\ HeldBy(shown, c.d, home')
    <3>1. shown = b \/ shown = Put(b, c.y, "saved", p)  BY <2>1 DEF TypeOK
    <3> HIDE DEF shown, b
    <3>2. HeldBy(Put(b, c.y, "saved", p), c.d, home')  BY <2>1, <2>3, <2>5 DEF HeldBy, Put, Board
    <3> QED  BY <2>1, <2>5, <3>1, <3>2, Boards
  <2>7. \A d \in Dashboards : d # c.d => copies[d] = cache[d]  BY <2>1 DEF TypeOK
  <2>8. copies \in [Dashboards -> Board] /\ copies[c.d] \in {shown, Drop(shown, c.x)}
    <3>1. new \in [Dashboards -> Board]  BY <2>1, Boards DEF TypeOK
    <3> HIDE DEF new
    <3> QED  BY <2>1, <2>6, <3>1, Boards
  <2> HIDE DEF new, shown, local, ft, copies
  <2>9. HeldBy(copies[c.d], c.d, home')
    <3>1. HeldBy(Drop(shown, c.x), c.d, home')  BY <2>1, <2>6 DEF HeldBy, Drop, Put, Board
    <3> QED  BY <3>1, <2>6, <2>8
  <2>10. Held(copies, active, known, home')
    <3>1. ASSUME NEW d \in Dashboards, NEW x \in Widgets, copies[d].w[x] # "absent"
          PROVE  d \in home'[x] /\ (copies[d].l[x] # None \/ (d = active /\ d \in known))
      <4>1. CASE d = c.d  BY <3>1, <4>1, <2>9, NoneAssumption DEF HeldBy
      <4>2. CASE d # c.d  BY <3>1, <4>2, <2>7, <2>3 DEF Held, Grows
      <4> QED  BY <4>1, <4>2
    <3> QED  BY <3>1 DEF Held
  <2>11. HeldBy(flat, active, home') /\ flat \in Board /\ known \in SUBSET Dashboards  BY <2>3, HeldLater DEF TypeOK
  <2>12. \A e \in left \cup out : e \in calls \/ e.kind = "unlink"  OBVIOUS
  <2> HIDE DEF left, out
  <2>13. /\ HeldBy(flat', active', home') /\ Held(cache', active', known', home')
         /\ \A e \in calls' : e \in left \cup out \/ e.kind = "load"
    BY <2>1, <2>2, <2>8, <2>10, <2>11, ActivatedHeld
  <2>14. Snapshots'  BY <2>1, <2>2, <2>3, <2>6, PushHeld, SnapshotsLater
  <2>15. \A e \in calls' : e \in calls \/ Owed(e, home')  BY <2>12, <2>13 DEF Owed
  <2> QED  BY <2>2, <2>3, <2>4, <2>13, <2>14, <2>15, VersionsLater, AskedLater DEF Straight
<1>15. CASE \E d \in Dashboards, last \in BOOLEAN : FetchChartData(d, last)
  <2> PICK d \in Dashboards, last \in BOOLEAN : FetchChartData(d, last)  BY <1>15
  <2>1. d = active /\ UNCHANGED <<remote, known, active, flat, history, calls, home>> /\ Grows  BY <1>0 DEF FetchChartData, Stray
  <2>2. Held(cache', active', known', home')
    BY <2>1 DEF FetchChartData, MirrorWidgets, Held, HeldBy, TypeOK, Board
  <2> QED  BY <2>1, <2>2, SnapshotsLater, VersionsLater, StoredLater, AskedLater DEF Straight
<1>16. CASE Render
  BY <1>16, AskHeld DEF Render
<1>17. CASE SyncLayout
  BY <1>17, AskHeld DEF SyncLayout, UpdateChartLayout, Owed
<1> QED  BY <1>1, <1>2, <1>3, <1>4, <1>5, <1>6, <1>7, <1>8, <1>9, <1>10, <1>11, <1>12, <1>13, <1>14, <1>15, <1>16, <1>17 DEF Answer

\* What strayed once, strayed.
LEMMA StraysOn == ASSUME Next, strayed PROVE strayed'
  <1>1. CASE Person
    BY <1>1 DEF Person, SetActiveDashboard, AskAddDashboard, AskRemoveDashboard, AskDashboards, RefreshAllChartData,
       SaveVersionSnapshot, HistoryUndo, HistoryRedo, CreateChart, RemoveWidget, CommitLayout, AddWidget, ApplyStoryStarter,
       ApplyLayoutPreset, AskDuplicate, HandleCopyToDashboard, AskLink, AskCopy, AskRestoreVersion, Stray
  <1>2. CASE Answer
    <2>1. ASSUME NEW c \in calls, ReadBoard(c) \/ LoadDashboardById(c) \/ LoadFails(c) \/ FetchDashboards(c) PROVE strayed'
      BY <2>1 DEF ReadBoard, LoadDashboardById, LoadFails, FetchDashboards
    <2>2. ASSUME NEW c \in calls, AddDashboard(c) \/ RemoveDashboard(c) \/ CreateAnswer(c) \/ CreateFails(c) PROVE strayed'
      BY <2>2 DEF AddDashboard, RemoveDashboard, CreateAnswer, CreateFails, Stray
    <2>3. ASSUME NEW c \in calls, DeleteChart(c) \/ DuplicateWidget(c) \/ PlaceAnswer(c) \/ RestoreVersionSnapshot(c) PROVE strayed'
      BY <2>3 DEF DeleteChart, DuplicateWidget, PlaceAnswer, RestoreVersionSnapshot, Stray
    <2>4. ASSUME NEW c \in calls, NEW p, Forget(c) \/ LinkWidgetToDashboard(c, p) PROVE strayed'
      BY <2>4 DEF Forget, LinkWidgetToDashboard, Stray
    <2>5. ASSUME NEW d, NEW last, FetchChartData(d, last) PROVE strayed'
      BY <2>5 DEF FetchChartData, Stray
    <2>6. Render \/ SyncLayout => strayed'  BY DEF Render, SyncLayout
    <2> QED  BY <1>2, <2>1, <2>2, <2>3, <2>4, <2>5, <2>6 DEF Answer
  <1> QED  BY <1>1, <1>2 DEF Next

LEMMA StraightInit == ASSUME Init PROVE IInv
  <1>1. HeldBy(flat, active, home) /\ Held(cache, active, known, home)
    BY NoneAssumption DEF Init, HeldBy, Held, Hydrated, Empty
  <1>2. Snapshots
    <2>1. DOMAIN undo = {} /\ DOMAIN redo = {}  BY DEF Init
    <2> QED  BY <2>1 DEF Snapshots
  <1>3. Versions /\ Stored /\ Asked  BY DEF Init, Versions, Stored, Asked
  <1> QED  BY <1>1, <1>2, <1>3, TypedInit DEF IInv, Straight

LEMMA StraightStep == ASSUME IInv, [Next]_vars PROVE IInv'
  <1>1. Typed'  BY TypedStep DEF IInv
  <1>2. CASE Next
    BY <1>1, <1>2, StraysOn, PersonHeld, AnswerHeld DEF IInv, Next
  <1>3. CASE UNCHANGED vars
    BY <1>1, <1>3, AskHeld DEF vars, IInv
  <1> QED  BY <1>2, <1>3

LEMMA StraightAlways == Spec => []IInv
  BY StraightInit, StraightStep, PTL DEF Spec

\* As long as no answer and no snapshot was applied to a board it is not of, no board shows, or
\* keeps a copy with, a widget that was never put on it (useDashboardStore).
THEOREM OwnWidgets == Spec => []ShowsOwnUnlessStrayed
  <1>1. IInv => ShowsOwnUnlessStrayed
    BY DEF IInv, Straight, ShowsOwnUnlessStrayed, ShowsOwn, HeldBy, Held, On, Typed, TypeOK
  <1> QED  BY <1>1, StraightAlways, PTL

\* So long, too, every widget on show has a place, and the grid makes none up for it
\* (useDashboardStore, DashboardCanvas).
THEOREM WidgetsPlaced == Spec => []PlacedUnlessStrayed
  <1>1. IInv => PlacedUnlessStrayed
    BY DEF IInv, Straight, PlacedUnlessStrayed, HeldBy, On
  <1> QED  BY <1>1, StraightAlways, PTL
=============================================================================
