---------------------------- MODULE Workbook_proofs ----------------------------
(***************************************************************************)
(* Theorems of Workbook: its types; that a change of the content leaves       *)
(* deletion and certification alone, and replaces only points of saves,      *)
(* however requests overlap; and, if they do not, that a save replaces only  *)
(* what its tab has seen, and that the history has the content of the row,   *)
(* what a restore replaced, and every point that was not pruned, and that    *)
(* the row is a versioned document (VersionedDocument).                      *)
(***************************************************************************)
EXTENDS Workbook, FiniteSetTheorems, WellFoundedInduction, TLAPS

Fields == {"doc", "ranges", "version", "deleted", "settings"}

\* A request knows the row it loaded, and what it may change of it.
Loaded(r) ==
  /\ DOMAIN r.was = Fields /\ DOMAIN r.new = Fields
  /\ r.op \in Ops /\ r.was.version \in Nat
  /\ IF r.op \in {"save", "restore"}
     THEN r.new.version = r.was.version + 1 /\ r.new.deleted = r.was.deleted /\ r.new.settings = r.was.settings
     ELSE r.new.version = r.was.version

Shape ==
  /\ DOMAIN wb = Fields /\ wb.version \in Nat \ {0}
  /\ DOMAIN req = Tabs
  /\ \A t \in Tabs : req[t] # Idle => Loaded(req[t])

\* One request at a time, of the row as it still is.
OneRequest ==
  /\ \A t, u \in Tabs : req[t] # Idle /\ req[u] # Idle => t = u
  /\ \A t \in Tabs : req[t] # Idle => req[t].was = wb

\* No tab is ahead of the row, and one that is not behind has seen its content.
Versions ==
  /\ rev \in Nat /\ base \in [Tabs -> Nat] /\ seen \in [Tabs -> Nat]
  /\ \A t \in Tabs : base[t] <= wb.version /\ (base[t] = wb.version => seen[t] = rev)
  /\ \A t \in Tabs : req[t].op = "save" => base[t] = wb.version

IInv == Shape /\ OneRequest /\ Versions

-----------------------------------------------------------------------------
(* The steps, by what they do to rows and requests *)

\* What a request of kind op may make of the row it loads.
Fits(op, new) ==
  /\ op \in Ops /\ DOMAIN new = Fields
  /\ IF op \in {"save", "restore"}
     THEN new.version = wb.version + 1 /\ new.deleted = wb.deleted /\ new.settings = wb.settings
     ELSE new.version = wb.version /\ new.doc = wb.doc /\ new.ranges = wb.ranges

\* Where it begins.
Opening(op) == CASE op = "save" -> "loaded" [] op = "restore" -> "before" [] OTHER -> "recorded"

Starts(t) ==
  \E op, pc, new : /\ Begin(t, op, pc, new) /\ Fits(op, new) /\ pc = Opening(op)
                   /\ (op = "save" => base[t] = wb.version) /\ (op = "restore" => hist # {})
                   /\ (op \in {"save", "restore"} => ~wb.deleted)
                   /\ (wb \in Row /\ hist \subseteq Point => new \in Row)

\* A settings request writes the settings only.
LEMMA SettingsStart ==
  ASSUME Shape, NEW t \in Tabs, NEW x, wb.settings \in Settings => x \in Settings, WriteSettings(t, x)
  PROVE  Starts(t)
<1> DEFINE new == [wb EXCEPT !.settings = x]
<1>1. DOMAIN new = Fields /\ new.version = wb.version /\ new.doc = wb.doc /\ new.ranges = wb.ranges  BY DEF Shape, Fields
<1>2. Begin(t, "settings", "recorded", new)  BY DEF WriteSettings
<1>3. Fits("settings", new)  BY <1>1 DEF Fits, Ops, ContentOps
<1>4. wb \in Row => new \in Row  BY DEF Row
<1> QED BY <1>2, <1>3, <1>4 DEF Starts, Opening

LEMMA ContentStart ==
  ASSUME NEW d, NEW r
  PROVE  /\ \A op \in {"save", "restore"} : Fits(op, Edited(d, r))
         /\ wb \in Row /\ d \in Docs /\ r \in Ranges => Edited(d, r) \in Row
BY DEF Fits, Edited, Fields, Ops, ContentOps, Row

LEMMA DeletionStart ==
  ASSUME Shape, NEW t \in Tabs, Delete(t) \/ Undelete(t) PROVE Starts(t)
<1>1. ASSUME NEW b \in BOOLEAN, NEW op \in {"delete", "undelete"},
             Begin(t, op, "recorded", [wb EXCEPT !.deleted = b])
      PROVE  Starts(t)
  <2>1. Fits(op, [wb EXCEPT !.deleted = b])  BY DEF Fits, Shape, Fields, Ops, ContentOps
  <2>2. wb \in Row => [wb EXCEPT !.deleted = b] \in Row  BY DEF Row
  <2> QED BY <1>1, <2>1, <2>2 DEF Starts, Opening
<1> QED BY <1>1 DEF Delete, Undelete

\* Every step.
LEMMA Steps ==
  ASSUME Shape, [Next]_vars
  PROVE  \/ /\ UNCHANGED <<wb, hist, req, base, rev, seen>>
            /\ clock' = clock \/ clock' = clock + Gap
         \/ \E t \in Tabs : \/ Starts(t) \/ Fetch(t) \/ RecordBefore(t) \/ Record(t) \/ Abort(t)
                            \/ \E heard \in BOOLEAN : Commit(t, heard)
<1>1. ASSUME NEW t \in Tabs, NEW d \in Docs, NEW r \in Ranges, Save(t, d, r) PROVE Starts(t)
  <2>1. Begin(t, "save", "loaded", Edited(d, r)) /\ base[t] = wb.version /\ ~wb.deleted  BY <1>1 DEF Save
  <2> QED BY <2>1, ContentStart DEF Starts, Opening
<1>2. ASSUME NEW t \in Tabs, NEW p \in hist, RestoreVersion(t, p) PROVE Starts(t)
  <2>1. Begin(t, "restore", "before", Edited(p.doc, p.ranges)) /\ ~wb.deleted  BY <1>2 DEF RestoreVersion
  <2>2. hist \subseteq Point => p.doc \in Docs /\ p.ranges \in Ranges  BY DEF Point
  <2> QED BY <2>1, <2>2, ContentStart DEF Starts, Opening
<1>3. ASSUME NEW t \in Tabs, SubmitForReview(t) PROVE Starts(t)
  <2> DEFINE x == [wb.settings EXCEPT !.status = "in_review", !.by = Owner, !.locks = FALSE]
  <2>1. wb.settings \in Settings => x \in Settings  BY DEF Settings, Statuses, Users
  <2> QED BY <1>3, <2>1, SettingsStart DEF SubmitForReview
<1>4. ASSUME NEW t \in Tabs, NEW p \in Patches, PatchSettings(t, p) PROVE Starts(t)
  BY <1>4, SettingsStart, PatchesAssumption DEF PatchSettings
<1>5. ASSUME NEW t \in Tabs, NEW p \in Params, GitExport(t, p) PROVE Starts(t)
  <2>1. wb.settings \in Settings => [wb.settings EXCEPT !.params = p] \in Settings  BY DEF Settings
  <2> QED BY <1>5, <2>1, SettingsStart DEF GitExport
<1>6. ASSUME NEW t \in Tabs, NEW u, NEW status \in Statuses, NEW lock \in BOOLEAN, Decide(t, u, status, lock)
      PROVE  Starts(t)
  <2>1. wb.settings \in Settings => Decided(status, lock) \in Settings  BY DEF Settings, Decided
  <2> QED BY <1>6, <2>1, SettingsStart DEF Decide
<1>7. "approved" \in Statuses /\ "rejected" \in Statuses  BY DEF Statuses
<1> QED BY <1>1, <1>2, <1>3, <1>4, <1>5, <1>6, <1>7, DeletionStart DEF Next, Pause, vars

-----------------------------------------------------------------------------
(* The shape of requests *)

\* What a commit writes of a field is the request's if it changed it, else the row's.
LEMMA FlushedField ==
  ASSUME Shape, NEW t \in Tabs, NEW f \in Fields
  PROVE  /\ DOMAIN Flushed(t) = Fields
         /\ Flushed(t)[f] = IF req[t].new[f] # req[t].was[f] THEN req[t].new[f] ELSE wb[f]
BY DEF Flushed, Shape

LEMMA ShapeStep == ASSUME Shape, [Next]_vars PROVE Shape'
<1> USE DEF Shape
<1>1. CASE UNCHANGED <<wb, hist, req, base, rev, seen>>
  BY <1>1 DEF Loaded
<1>2. ASSUME NEW t \in Tabs, Starts(t) PROVE Shape'
  <2>1. PICK op, pc, new : Begin(t, op, pc, new) /\ Fits(op, new)  BY <1>2 DEF Starts
  <2> DEFINE r == [op |-> op, pc |-> pc, was |-> wb, new |-> new, points |-> {}]
  <2>2. req' = [req EXCEPT ![t] = r] /\ wb' = wb  BY <2>1 DEF Begin
  <2>3. Loaded(r)  BY <2>1 DEF Loaded, Fits
  <2> QED BY <2>2, <2>3
<1>3. ASSUME NEW t \in Tabs, Fetch(t) PROVE Shape'
  BY <1>3 DEF Fetch
<1>4. ASSUME NEW t \in Tabs, RecordBefore(t) \/ Record(t) PROVE Shape'
  <2>1. PICK pc, points : req' = [req EXCEPT ![t] = [op |-> req[t].op, pc |-> pc, was |-> req[t].was,
                                                  new |-> req[t].new, points |-> points]]
    BY <1>4 DEF RecordBefore, Record, RecordAs
  <2>2. wb' = wb /\ req[t] # Idle  BY <1>4 DEF RecordBefore, Record, RecordAs
  <2> DEFINE r == [op |-> req[t].op, pc |-> pc, was |-> req[t].was, new |-> req[t].new, points |-> points]
  <2>3. Loaded(r)  BY <2>2 DEF Loaded
  <2> QED BY <2>1, <2>2, <2>3
<1>5. ASSUME NEW t \in Tabs, Abort(t) PROVE Shape'
  BY <1>5 DEF Abort
<1>6. ASSUME NEW t \in Tabs, NEW heard \in BOOLEAN, Commit(t, heard) PROVE Shape'
  <2>1. /\ wb' = Flushed(t) /\ req' = [req EXCEPT ![t] = Idle] /\ req[t] # Idle
    BY <1>6 DEF Commit
  <2>2. Loaded(req[t])  BY <2>1
  <2>3. DOMAIN wb' = Fields /\ wb'.version \in Nat \ {0}
    BY <2>1, <2>2, FlushedField DEF Loaded, Fields
  <2> QED BY <2>1, <2>3
<1> QED BY <1>1, <1>2, <1>3, <1>4, <1>5, <1>6, Steps

\* The row and the request of the first commit of _create.
LEMMA ShapeInit == ASSUME Init PROVE Shape
<1>1. DOMAIN wb = Fields /\ wb.version = 1  BY DEF Init, Fields
<1>2. PICK t \in Tabs :
        req = [u \in Tabs |-> IF u = t THEN [op |-> "created", pc |-> "loaded", was |-> wb, new |-> wb, points |-> {}]
                             ELSE Idle]
  BY DEF Init
<1> DEFINE r == [op |-> "created", pc |-> "loaded", was |-> wb, new |-> wb, points |-> {}]
<1>3. Loaded(r)  BY <1>1 DEF Loaded, Ops, ContentOps
<1>4. DOMAIN req = Tabs /\ \A u \in Tabs : req[u] # Idle => req[u] = r  BY <1>2
<1> QED BY <1>1, <1>3, <1>4 DEF Shape

-----------------------------------------------------------------------------
(* The content and the rest of the row *)

\* A save or a restore in flight undoes neither a deletion nor a decision that was committed
\* meanwhile, however many tabs write at once (the columns of update_workbook and restore_version).
THEOREM ContentOnly == Spec => ContentWritesOnlyContent
<1> DEFINE Keeps == \A t \in Tabs : Commits(t, {"save", "restore"}) =>
                      wb'.deleted = wb.deleted /\ wb'.settings = wb.settings
<1>1. Init => Shape  BY ShapeInit
<1>2. Shape /\ [Next]_vars => Shape'  BY ShapeStep
<1>3. Shape /\ [Next]_vars => Keeps
  <2> SUFFICES ASSUME Shape, [Next]_vars, NEW t \in Tabs, Commits(t, {"save", "restore"})
               PROVE  wb'.deleted = wb.deleted /\ wb'.settings = wb.settings
    OBVIOUS
  <2>1. rev' # rev  BY DEF Commits
  <2>2. PICK u \in Tabs, heard \in BOOLEAN : Commit(u, heard)
    BY <2>1, Steps DEF Starts, Begin, Fetch, RecordBefore, Record, RecordAs, Abort
  <2>3. wb' = Flushed(u) /\ WritesContent(u) /\ req[u] # Idle  BY <2>1, <2>2 DEF Commit
  <2>4. Loaded(req[u])  BY <2>3 DEF Shape
  <2>5. req[u].new.deleted = req[u].was.deleted /\ req[u].new.settings = req[u].was.settings
    BY <2>3, <2>4 DEF Loaded, WritesContent
  <2> QED BY <2>3, <2>5, FlushedField DEF Fields
<1> QED BY <1>1, <1>2, <1>3, PTL DEF Spec, ContentWritesOnlyContent

-----------------------------------------------------------------------------
(* Requests that do not overlap *)

LEMMA OneRequestStep ==
  ASSUME Shape, OneRequest, Overlap = FALSE, [Next]_vars PROVE OneRequest'
<1> USE DEF OneRequest
<1>1. CASE UNCHANGED <<wb, hist, req, base, rev, seen>>
  BY <1>1
<1>2. ASSUME NEW t \in Tabs, Starts(t) PROVE OneRequest'
  <2>1. PICK op, pc, new : Begin(t, op, pc, new)  BY <1>2 DEF Starts
  <2> DEFINE r == [op |-> op, pc |-> pc, was |-> wb, new |-> new, points |-> {}]
  <2>2. req' = [req EXCEPT ![t] = r] /\ wb' = wb /\ Quiet  BY <2>1 DEF Begin, MayStart
  <2>3. \A u \in Tabs : req'[u] # Idle => u = t  BY <2>2 DEF Quiet, Shape
  <2>4. req'[t].was = wb'  BY <2>2 DEF Shape
  <2> QED BY <2>3, <2>4
<1>3. ASSUME NEW t \in Tabs, Fetch(t) PROVE OneRequest'
  BY <1>3 DEF Fetch
<1>4. ASSUME NEW t \in Tabs, RecordBefore(t) \/ Record(t) PROVE OneRequest'
  <2>1. PICK pc, points : req' = [req EXCEPT ![t] = [op |-> req[t].op, pc |-> pc, was |-> req[t].was,
                                                  new |-> req[t].new, points |-> points]]
    BY <1>4 DEF RecordBefore, Record, RecordAs
  <2>2. wb' = wb /\ req[t] # Idle  BY <1>4 DEF RecordBefore, Record, RecordAs
  <2>3. \A u \in Tabs : req'[u] # Idle => u = t  BY <2>1, <2>2 DEF Shape
  <2>4. req'[t].was = wb'  BY <2>1, <2>2 DEF Shape
  <2> QED BY <2>3, <2>4
<1>5. ASSUME NEW t \in Tabs, Abort(t) PROVE OneRequest'
  BY <1>5 DEF Abort, Shape
<1>6. ASSUME NEW t \in Tabs, NEW heard \in BOOLEAN, Commit(t, heard) PROVE OneRequest'
  <2>1. req' = [req EXCEPT ![t] = Idle] /\ req[t] # Idle  BY <1>6 DEF Commit
  <2>2. \A u \in Tabs : req'[u] = Idle  BY <2>1 DEF Shape
  <2> QED BY <2>2
<1> QED BY <1>1, <1>2, <1>3, <1>4, <1>5, <1>6, Steps

LEMMA VersionsStep ==
  ASSUME IInv, [Next]_vars PROVE Versions'
<1> USE DEF IInv, Versions
<1>1. CASE UNCHANGED <<wb, hist, req, base, rev, seen>>
  BY <1>1
<1>2. ASSUME NEW t \in Tabs, Starts(t) PROVE Versions'
  <2>1. PICK op, pc, new : Begin(t, op, pc, new) /\ (op = "save" => base[t] = wb.version)  BY <1>2 DEF Starts
  <2> DEFINE r == [op |-> op, pc |-> pc, was |-> wb, new |-> new, points |-> {}]
  <2>2. req' = [req EXCEPT ![t] = r] /\ UNCHANGED <<wb, base, rev, seen>>  BY <2>1 DEF Begin
  <2>3. \A u \in Tabs : req'[u].op = "save" => base[u] = wb.version
    BY <2>1, <2>2 DEF Shape
  <2> QED BY <2>2, <2>3
<1>3. ASSUME NEW t \in Tabs, Fetch(t) PROVE Versions'
  <2>1. /\ base' = [base EXCEPT ![t] = wb.version] /\ seen' = [seen EXCEPT ![t] = rev]
        /\ UNCHANGED <<wb, req, rev>>
    BY <1>3 DEF Fetch
  <2>2. base' \in [Tabs -> Nat] /\ seen' \in [Tabs -> Nat]  BY <2>1 DEF Shape
  <2>3. \A u \in Tabs : base'[u] <= wb.version /\ (base'[u] = wb.version => seen'[u] = rev)
    BY <2>1 DEF Shape
  <2>4. \A u \in Tabs : req[u].op = "save" => base'[u] = wb.version  BY <2>1
  <2> QED BY <2>1, <2>2, <2>3, <2>4
<1>4. ASSUME NEW t \in Tabs, RecordBefore(t) \/ Record(t) PROVE Versions'
  <2>1. PICK pc, points : req' = [req EXCEPT ![t] = [op |-> req[t].op, pc |-> pc, was |-> req[t].was,
                                                  new |-> req[t].new, points |-> points]]
    BY <1>4 DEF RecordBefore, Record, RecordAs
  <2>2. UNCHANGED <<wb, base, rev, seen>>  BY <1>4 DEF RecordBefore, Record, RecordAs
  <2>3. \A u \in Tabs : req'[u].op = req[u].op  BY <2>1 DEF Shape
  <2> QED BY <2>2, <2>3
<1>5. ASSUME NEW t \in Tabs, Abort(t) PROVE Versions'
  <2>1. req' = [req EXCEPT ![t] = Idle] /\ UNCHANGED <<wb, base, rev, seen>>  BY <1>5 DEF Abort
  <2>2. \A u \in Tabs : req'[u].op = "save" => req[u].op = "save"  BY <2>1 DEF Idle, Shape
  <2> QED BY <2>1, <2>2
<1>6. ASSUME NEW t \in Tabs, NEW heard \in BOOLEAN, Commit(t, heard) PROVE Versions'
  <2>1. /\ wb' = Flushed(t) /\ req' = [req EXCEPT ![t] = Idle] /\ req[t] # Idle
        /\ rev' = IF WritesContent(t) THEN rev + 1 ELSE rev
        /\ IF WritesContent(t) /\ heard
           THEN base' = [base EXCEPT ![t] = req[t].new.version] /\ seen' = [seen EXCEPT ![t] = rev']
           ELSE UNCHANGED <<base, seen>>
    BY <1>6 DEF Commit
  <2>2. Loaded(req[t]) /\ req[t].was = wb  BY <2>1 DEF Shape, OneRequest
  <2>3. wb'.version = req[t].new.version  BY <2>1, <2>2, FlushedField DEF Fields
  <2>4. \A u \in Tabs : req'[u] = Idle
    BY <2>1 DEF Shape, OneRequest
  <2>5. \A u \in Tabs : req'[u].op # "save"  BY <2>4 DEF Idle
  <2>6. CASE WritesContent(t)
    <3>1. wb'.version = wb.version + 1 /\ rev' = rev + 1  BY <2>1, <2>2, <2>3, <2>6 DEF Loaded, WritesContent
    <3>2. wb.version \in Nat  BY DEF Shape
    <3>3. base' \in [Tabs -> Nat] /\ seen' \in [Tabs -> Nat]  BY <2>1, <2>3, <3>1, <3>2
    <3>4. \A u \in Tabs : base'[u] <= wb'.version /\ (base'[u] = wb'.version => seen'[u] = rev')
      BY <2>1, <2>3, <3>1, <3>2
    <3> QED BY <2>5, <3>1, <3>3, <3>4
  <2>7. CASE ~WritesContent(t)
    <3>1. wb'.version = wb.version /\ rev' = rev /\ UNCHANGED <<base, seen>>
      BY <2>1, <2>2, <2>3, <2>7 DEF Loaded, WritesContent
    <3> QED BY <2>5, <3>1
  <2> QED BY <2>6, <2>7
<1> QED BY <1>1, <1>2, <1>3, <1>4, <1>5, <1>6, Steps DEF IInv

LEMMA SerialInit == ASSUME Init PROVE IInv
<1>1. Shape  BY ShapeInit
<1>2. PICK t \in Tabs :
        req = [u \in Tabs |-> IF u = t THEN [op |-> "created", pc |-> "loaded", was |-> wb, new |-> wb, points |-> {}]
                             ELSE Idle]
  BY DEF Init
<1>3. OneRequest  BY <1>2 DEF OneRequest
<1>4. \A u \in Tabs : req[u].op # "save"  BY <1>2 DEF Idle
<1>5. Versions
  <2>1. wb.version = 1 /\ rev = 1 /\ base = [u \in Tabs |-> 0] /\ seen = [u \in Tabs |-> 0]  BY DEF Init
  <2> QED BY <1>4, <2>1 DEF Versions
<1> QED BY <1>1, <1>3, <1>5 DEF IInv

\* Two tabs cannot silently overwrite each other, as long as no two requests overlap: any number of
\* tabs, saves, restores, deletions and lost answers (the version check of update_workbook).
THEOREM SeenBeforeReplaced == ASSUME Overlap = FALSE PROVE Spec => NoSilentOverwrite
<1> DEFINE Sees == \A t \in Tabs : Commits(t, {"save"}) => seen[t] = rev
<1>1. Init => IInv  BY SerialInit
<1>2. IInv /\ [Next]_vars => IInv'
  BY ShapeStep, OneRequestStep, VersionsStep DEF IInv
<1>3. IInv => Sees  BY DEF IInv, Versions, Commits
<1> QED BY <1>1, <1>2, <1>3, PTL DEF Spec, NoSilentOverwrite

-----------------------------------------------------------------------------
(* The history *)

PointFields == {"created", "at", "doc", "ranges", "reason"}

\* The points of h are of different times, all before c.
Dated(h, c) ==
  /\ \A p \in h : /\ DOMAIN p = PointFields /\ p.at \in Nat /\ p.created \in Nat
                  /\ p.created <= p.at /\ p.at < c
  /\ \A p, q \in h : p.at = q.at \/ p.created = q.created => p = q

Latest(h, p) == p \in h /\ \A q \in h : q.at <= p.at

\* The last point of h holds d.
Current(h, d) == h # {} => \E p : Latest(h, p) /\ p.doc = d

\* d is among the last two points of h.
LastTwo(h, d) == \E p, n : p \in h /\ p.doc = d /\ \A q \in h : q.at > p.at => q = n

\* A request recorded what it makes of the row; a restore also keeps what it replaces.
Recorded(r, h) ==
  /\ r.pc = "before" => r.op = "restore"
  /\ r.pc # "recorded" => r.points = {}
  /\ r.op = "restore" => hist # {}
  /\ r.pc = "recorded" => Dated(h, clock) /\ Current(h, r.new.doc)
  /\ r.pc = "recorded" /\ r.op = "restore" => LastTwo(h, wb.doc)

History ==
  /\ clock \in Nat /\ Dated(hist, clock) /\ Current(hist, wb.doc)
  /\ \A t \in Tabs : req[t] # Idle => Recorded(req[t], View(t))

\* Points added to a history, or put in the place of others.
Merged(h, points) == {p \in h : \A q \in points : q.created # p.created} \union points

LEMMA NewestIs ==
  ASSUME NEW h, NEW c \in Nat, Dated(h, c), NEW p, Latest(h, p)
  PROVE  Newest(h) = p
<1>1. \E q \in h : \A x \in h : x.at <= q.at  BY DEF Latest
<1>2. Newest(h) \in h /\ \A x \in h : x.at <= Newest(h).at  BY <1>1 DEF Newest
<1>3. Newest(h).at = p.at  BY <1>2 DEF Latest, Dated
<1> QED BY <1>2, <1>3 DEF Latest, Dated

\* What a snapshot makes of the history.
LEMMA SnapshotIs ==
  ASSUME NEW t \in Tabs, req[t].points = {}, clock \in Nat, Dated(hist, clock),
         NEW d, Current(hist, d), NEW row, NEW reason
  PROVE  LET h == Merged(hist, Snapshot(t, row, reason)) IN
         /\ Dated(h, clock + 1) /\ Current(h, row.doc)
         /\ hist # {} /\ reason = "restore" => LastTwo(h, d)
         /\ hist # {} /\ d = row.doc => Snapshot(t, row, reason) = {}
<1> DEFINE S == Snapshot(t, row, reason)
           h == Merged(hist, S)
           last == Newest(hist)
           new == NewPoint(row, reason)
           more == [last EXCEPT !.doc = row.doc, !.ranges = row.ranges, !.at = clock]
<1>1. View(t) = hist  BY DEF View
<1>2. hist # {} => Latest(hist, last) /\ last.doc = d
  BY NewestIs DEF Current
<1>3. S = IF hist # {} /\ last.doc = row.doc THEN {}
          ELSE IF hist # {} /\ SameSession(last, reason) THEN {more} ELSE {new}
  BY <1>1 DEF Snapshot
<1>4. CASE hist # {} /\ last.doc = row.doc
  <2>1. h = hist /\ S = {}  BY <1>3, <1>4 DEF Merged
  <2>2. Dated(h, clock + 1)  BY <2>1 DEF Dated
  <2>3. Current(h, row.doc)  BY <1>2, <1>4, <2>1 DEF Current
  <2>4. LastTwo(h, d)  BY <1>2, <1>4, <2>1 DEF LastTwo, Latest, Dated
  <2> QED BY <2>1, <2>2, <2>3, <2>4
<1>5. CASE hist # {} /\ last.doc # row.doc /\ SameSession(last, reason)
  <2>1. S = {more} /\ reason = "save"  BY <1>3, <1>5 DEF SameSession
  <2>2. last \in hist /\ DOMAIN last = PointFields  BY <1>2, <1>5 DEF Latest, Dated
  <2>3. /\ DOMAIN more = PointFields /\ more.created = last.created
        /\ more.at = clock /\ more.doc = row.doc
    BY <2>2 DEF PointFields
  <2>4. h = (hist \ {last}) \union {more}
    BY <2>1, <2>2, <2>3 DEF Merged, Dated
  <2> HIDE DEF more, last, h
  <2>5. Dated(h, clock + 1)
    <3>1. more.created \in Nat /\ more.created <= more.at  BY <2>2, <2>3 DEF Dated
    <3>2. \A p \in hist \ {last} : p.created # more.created /\ p.at # more.at  BY <2>2, <2>3 DEF Dated
    <3>3. \A p \in h : (p \in hist \ {last}) \/ p = more  BY <2>4
    <3>4. \A p \in h : p.at < clock + 1  BY <2>3, <3>3 DEF Dated
    <3> QED BY <2>3, <3>1, <3>2, <3>3, <3>4 DEF Dated
  <2>6. Latest(h, more)
    <3>1. \A p \in h : p.at <= clock  BY <2>3, <2>4 DEF Dated
    <3> QED BY <2>3, <2>4, <3>1 DEF Latest
  <2> QED BY <1>2, <1>5, <2>1, <2>3, <2>5, <2>6 DEF Current, h
<1>6. CASE hist = {} \/ (last.doc # row.doc /\ ~SameSession(last, reason))
  <2>1. S = {new}  BY <1>3, <1>6
  <2>2. DOMAIN new = PointFields /\ new.created = clock /\ new.at = clock /\ new.doc = row.doc
    BY DEF NewPoint, PointFields
  <2>3. h = hist \union {new}  BY <2>1, <2>2 DEF Merged, Dated
  <2>4. Dated(h, clock + 1)  BY <2>2, <2>3 DEF Dated
  <2>5. Latest(h, new)  BY <2>2, <2>3 DEF Latest, Dated
  <2>6. hist # {} => LastTwo(h, d)
    <3>1. hist # {} => last \in h /\ last.doc = d /\ \A q \in h : q.at > last.at => q = new
      BY <1>2, <2>3 DEF Latest, Dated
    <3> QED BY <3>1 DEF LastTwo
  <2>7. hist # {} => d # row.doc  BY <1>2, <1>6
  <2> QED BY <2>2, <2>4, <2>5, <2>6, <2>7 DEF Current
<1> QED BY <1>4, <1>5, <1>6

\* What pruning leaves: the last point, and the last two where there is room for them.
LEMMA KeptIs ==
  ASSUME NEW h, NEW c \in Nat, Dated(h, c)
  PROVE  /\ Dated(Kept(h), c) /\ Kept(h) \subseteq h
         /\ \A p : Latest(h, p) => Latest(Kept(h), p)
         /\ \A d : MaxHistory > 1 /\ LastTwo(h, d) => \E p \in Kept(h) : p.doc = d
<1>1. Kept(h) \subseteq h  BY DEF Kept
<1>2. Dated(Kept(h), c)  BY <1>1 DEF Dated
<1>3. ASSUME NEW p, Latest(h, p) PROVE Latest(Kept(h), p)
  <2>1. {q \in h : q.at > p.at} = {}  BY <1>3 DEF Latest, Dated
  <2>2. Cardinality({q \in h : q.at > p.at}) = 0  BY <2>1, FS_EmptySet
  <2>3. p \in Kept(h)  BY <1>3, <2>2, HistoryAssumption DEF Kept, Latest
  <2> QED BY <1>1, <1>3, <2>3 DEF Latest
<1>4. ASSUME NEW d, MaxHistory > 1, LastTwo(h, d) PROVE \E p \in Kept(h) : p.doc = d
  <2>1. PICK p \in h : p.doc = d /\ \E n : \A q \in h : q.at > p.at => q = n  BY <1>4 DEF LastTwo
  <2> DEFINE newer == {q \in h : q.at > p.at}
  <2>2. newer = {} \/ \E n : newer = {n}  BY <2>1
  <2>3. Cardinality(newer) = 0 \/ Cardinality(newer) = 1  BY <2>2, FS_EmptySet, FS_Singleton
  <2>4. p \in Kept(h)  BY <1>4, <2>3, HistoryAssumption DEF Kept
  <2> QED BY <2>1, <2>4
<1> QED BY <1>1, <1>2, <1>3, <1>4

LEMMA DatedLater ==
  ASSUME NEW h, NEW c \in Nat, NEW d \in Nat, c <= d, Dated(h, c) PROVE Dated(h, d)
BY DEF Dated

LEMMA HistoryInit == ASSUME Init PROVE History
<1>1. clock = 0 /\ hist = {}  BY DEF Init
<1>2. \A t \in Tabs : req[t] # Idle => req[t].pc = "loaded" /\ req[t].points = {} /\ req[t].op = "created"
  BY DEF Init
<1>3. Dated(hist, clock) /\ Current(hist, wb.doc)  BY <1>1 DEF Dated, Current
<1>4. \A t \in Tabs : req[t] # Idle => Recorded(req[t], View(t))  BY <1>2 DEF Recorded
<1> QED BY <1>1, <1>3, <1>4 DEF History

\* The step of a snapshot.
LEMMA HistoryRecords ==
  ASSUME IInv, History, NEW t \in Tabs, RecordBefore(t) \/ Record(t) PROVE History'
<1> USE DEF IInv
<1> DEFINE r == req[t]
<1>1. r # Idle /\ Loaded(r) /\ r.was = wb /\ Recorded(r, View(t))
  BY DEF RecordBefore, Record, RecordAs, Shape, OneRequest, History
<1>2. /\ clock \in Nat /\ clock' = clock + 1 /\ UNCHANGED <<wb, hist>>
      /\ r.pc # "recorded" /\ r.points = {}
  BY <1>1 DEF RecordBefore, Record, RecordAs, History, Recorded
<1>3. Dated(hist, clock) /\ Dated(hist, clock + 1) /\ Current(hist, wb.doc)
  BY <1>2, DatedLater DEF History
<1>4. \A u \in Tabs : u # t => req'[u] = Idle
  BY <1>1 DEF RecordBefore, Record, RecordAs, Shape, OneRequest
<1>5. CASE RecordBefore(t)
  <2>1. r.op = "restore" /\ hist # {}  BY <1>1, <1>5 DEF RecordBefore, Recorded
  <2>2. Snapshot(t, r.was, "before_restore") = {}  BY <1>1, <1>2, <1>3, <2>1, SnapshotIs
  <2>3. req'[t].op = "restore" /\ req'[t].pc = "loaded" /\ req'[t].points = {}
    BY <1>2, <1>5, <2>1, <2>2 DEF RecordBefore, RecordAs, Shape
  <2>4. Recorded(req[t], View(t))'  BY <1>2, <2>1, <2>3 DEF Recorded
  <2> QED BY <1>2, <1>3, <1>4, <2>4 DEF History
<1>6. CASE Record(t)
  <2> DEFINE points == Snapshot(t, r.new, r.op)
             h == Merged(hist, points)
  <2>1. /\ req'[t].op = r.op /\ req'[t].pc = "recorded" /\ req'[t].points = points /\ req'[t].new = r.new
    BY <1>2, <1>6 DEF Record, RecordAs, Shape
  <2>2. View(t)' = h  BY <1>2, <2>1 DEF View, Merged
  <2>3. /\ Dated(h, clock + 1) /\ Current(h, r.new.doc)
        /\ hist # {} /\ r.op = "restore" => LastTwo(h, wb.doc)
    BY <1>2, <1>3, SnapshotIs
  <2>4. Recorded(req[t], View(t))'
    <3> HIDE DEF h
    <3> QED BY <1>1, <1>2, <2>1, <2>2, <2>3 DEF Recorded
  <2> QED BY <1>2, <1>3, <1>4, <2>4 DEF History
<1> QED BY <1>5, <1>6

\* A commit under OneRequest: the row becomes what the request wants.
LEMMA CommitIs ==
  ASSUME IInv, History, NEW t \in Tabs, NEW heard \in BOOLEAN, Commit(t, heard)
  PROVE  /\ clock' = clock /\ wb'.doc = req[t].new.doc
         /\ hist' = Kept(View(t)) \/ hist' = View(t)
         /\ req[t] # Idle /\ req[t].pc = "recorded" /\ Recorded(req[t], View(t))
         /\ \A u \in Tabs : req'[u] = Idle
<1> USE DEF IInv
<1>1. /\ wb' = Flushed(t) /\ req[t] # Idle /\ req[t].pc = "recorded" /\ req' = [req EXCEPT ![t] = Idle]
      /\ hist' = IF Adds(t) THEN Kept(View(t)) ELSE View(t)
      /\ clock' = clock
  BY DEF Commit
<1>2. req[t].was = wb /\ \A u \in Tabs : req'[u] = Idle  BY <1>1 DEF OneRequest, Shape
<1>3. wb'.doc = req[t].new.doc  BY <1>1, <1>2, FlushedField DEF Fields
<1> QED BY <1>1, <1>2, <1>3 DEF History

LEMMA HistoryStep ==
  ASSUME IInv, History, Overlap = FALSE, [Next]_vars PROVE History'
<1> USE DEF IInv
<1>1. ASSUME UNCHANGED <<wb, hist, req>>, clock' = clock \/ clock' = clock + Gap PROVE History'
  <2>1. clock \in Nat /\ clock' \in Nat /\ clock <= clock'  BY <1>1, GapAssumption DEF History
  <2>2. \A t \in Tabs : View(t)' = View(t)  BY <1>1 DEF View
  <2>3. ASSUME NEW t \in Tabs, req[t] # Idle PROVE Recorded(req[t], View(t))'
    <3>1. Recorded(req[t], View(t))  BY <2>3 DEF History
    <3>2. Dated(View(t), clock) => Dated(View(t), clock')  BY <2>1, DatedLater
    <3> QED BY <1>1, <2>2, <3>1, <3>2 DEF Recorded
  <2> QED BY <1>1, <2>1, <2>3, DatedLater DEF History
<1>2. ASSUME NEW t \in Tabs, Starts(t) PROVE History'
  <2>1. PICK op, pc, new : /\ Begin(t, op, pc, new) /\ Fits(op, new) /\ pc = Opening(op)
                           /\ op = "restore" => hist # {}
    BY <1>2 DEF Starts
  <2> DEFINE r == [op |-> op, pc |-> pc, was |-> wb, new |-> new, points |-> {}]
  <2>2. req' = [req EXCEPT ![t] = r] /\ UNCHANGED <<wb, hist, clock>> /\ Quiet  BY <2>1 DEF Begin, MayStart
  <2>3. req'[t] = r /\ \A u \in Tabs : u # t => req'[u] = Idle  BY <2>2 DEF Quiet, Shape
  <2>4. View(t)' = hist  BY <2>2, <2>3 DEF View
  <2>5. pc = "recorded" => new.doc = wb.doc /\ op # "restore"  BY <2>1 DEF Opening, Fits
  <2>6. pc = "before" => op = "restore"  BY <2>1 DEF Opening
  <2>7. Recorded(req[t], View(t))'
    BY <2>1, <2>2, <2>3, <2>4, <2>5, <2>6 DEF Recorded, History
  <2> QED BY <2>2, <2>3, <2>7 DEF History
<1>3. ASSUME NEW t \in Tabs, Fetch(t) PROVE History'
  BY <1>1, <1>3 DEF Fetch
<1>4. ASSUME NEW t \in Tabs, RecordBefore(t) \/ Record(t) PROVE History'
  BY <1>4, HistoryRecords
<1>5. ASSUME NEW t \in Tabs, Abort(t) PROVE History'
  <2>1. req' = [req EXCEPT ![t] = Idle] /\ UNCHANGED <<wb, hist, clock>>  BY <1>5 DEF Abort
  <2>2. \A u \in Tabs : req'[u] # Idle => req'[u] = req[u]  BY <2>1 DEF Shape
  <2>3. \A u \in Tabs : req'[u] # Idle => View(u)' = View(u)  BY <2>1, <2>2 DEF View
  <2>4. ASSUME NEW u \in Tabs, req'[u] # Idle PROVE Recorded(req[u], View(u))'
    <3>1. Recorded(req[u], View(u))  BY <2>2, <2>4 DEF History
    <3> QED BY <2>1, <2>2, <2>3, <2>4, <3>1 DEF Recorded
  <2> QED BY <2>1, <2>4 DEF History
<1>6. ASSUME NEW t \in Tabs, NEW heard \in BOOLEAN, Commit(t, heard) PROVE History'
  <2> DEFINE h == View(t)
  <2>1. /\ clock' = clock /\ wb'.doc = req[t].new.doc
        /\ hist' = Kept(h) \/ hist' = h
        /\ Dated(h, clock) /\ Current(h, wb'.doc)
        /\ \A u \in Tabs : req'[u] = Idle
    BY <1>6, CommitIs DEF Recorded
  <2>2. clock \in Nat  BY DEF History
  <2> HIDE DEF h
  <2>3. Dated(Kept(h), clock) /\ Current(Kept(h), wb'.doc)
    BY <2>1, <2>2, KeptIs DEF Current
  <2> QED BY <2>1, <2>2, <2>3 DEF History
<1> QED BY <1>1, <1>2, <1>3, <1>4, <1>5, <1>6, Steps

LEMMA HistoryHolds == ASSUME Overlap = FALSE PROVE Spec => [](IInv /\ History)
<1>1. Init => IInv /\ History  BY SerialInit, HistoryInit
<1>2. IInv /\ History /\ [Next]_vars => (IInv /\ History)'
  BY ShapeStep, OneRequestStep, VersionsStep, HistoryStep DEF IInv
<1> QED BY <1>1, <1>2, PTL DEF Spec

\* Between requests that do not overlap, the last point of the history is the workbook as it is:
\* sessions, pruning, restores, aborted requests and a first point that was never made (_snapshot).
THEOREM LastPointIsCurrent == ASSUME Overlap = FALSE PROVE Spec => []HistoryIsCurrent
<1>1. IInv /\ History => HistoryIsCurrent
  <2> SUFFICES ASSUME History, hist # {} PROVE Newest(hist).doc = wb.doc
    BY DEF HistoryIsCurrent
  <2> QED BY NewestIs DEF History, Current
<1> QED BY <1>1, HistoryHolds, PTL

\* What a restore replaces is still in the history when it commits, if requests do not overlap and
\* the history holds two points: of all that is recorded, pruning takes it last (restore_version).
THEOREM RestoresKeep == ASSUME Overlap = FALSE, MaxHistory > 1 PROVE Spec => RestoreCanBeUndone
<1> DEFINE Keeps == \A t \in Tabs : Commits(t, {"restore"}) => \E p \in hist' : p.doc = wb.doc
<1>1. IInv /\ History /\ [Next]_vars => Keeps
  <2> SUFFICES ASSUME IInv, History, [Next]_vars, NEW t \in Tabs, Commits(t, {"restore"})
               PROVE  \E p \in hist' : p.doc = wb.doc
    OBVIOUS
  <2>1. rev' # rev /\ req[t].op = "restore"  BY DEF Commits
  <2>2. PICK u \in Tabs, heard \in BOOLEAN : Commit(u, heard)
    BY <2>1, Steps DEF Starts, Begin, Fetch, RecordBefore, Record, RecordAs, Abort, IInv
  <2>3. t = u  BY <2>1, <2>2, CommitIs DEF IInv, OneRequest, Idle
  <2> DEFINE h == View(t)
  <2>4. (hist' = Kept(h) \/ hist' = h) /\ Dated(h, clock) /\ LastTwo(h, wb.doc) /\ clock \in Nat
    BY <2>1, <2>2, <2>3, CommitIs DEF Recorded, History
  <2> HIDE DEF h
  <2> QED BY <2>4, KeptIs DEF LastTwo
<1> QED BY <1>1, HistoryHolds, PTL DEF Spec, RestoreCanBeUndone

-----------------------------------------------------------------------------
(* Pruning *)

Newer(h, p) == {q \in h : q.at > p.at}

LEMMA NewerIs ==
  ASSUME NEW h, NEW c \in Nat, Dated(h, c), IsFiniteSet(h), NEW p \in h
  PROVE  /\ IsFiniteSet(Newer(h, p)) /\ Newer(h, p) \subseteq h /\ p \notin Newer(h, p)
         /\ Cardinality(Newer(h, p)) \in Nat
         /\ \A q \in Newer(h, p) : Newer(h, q) \subseteq Newer(h, p)
<1>1. Newer(h, p) \subseteq h /\ p \notin Newer(h, p)  BY DEF Newer, Dated
<1>2. IsFiniteSet(Newer(h, p))  BY <1>1, FS_Subset
<1>3. Cardinality(Newer(h, p)) \in Nat  BY <1>2, FS_CardinalityType
<1>4. \A q \in Newer(h, p) : Newer(h, q) \subseteq Newer(h, p)  BY DEF Newer, Dated
<1> QED BY <1>1, <1>2, <1>3, <1>4

LEMMA KeptNewer ==
  ASSUME NEW h PROVE Kept(h) = {p \in h : Cardinality(Newer(h, p)) < MaxHistory}
BY DEF Kept, Newer

\* Pruning leaves at most MaxHistory points: no two have the same number of newer ones.
LEMMA KeptBound ==
  ASSUME NEW h, NEW c \in Nat, Dated(h, c), IsFiniteSet(h)
  PROVE  IsFiniteSet(Kept(h)) /\ Cardinality(Kept(h)) <= MaxHistory
<1> DEFINE K == Kept(h)
           f == [p \in K |-> Cardinality(Newer(h, p)) + 1]
           I == 1 .. MaxHistory
<1>1. IsFiniteSet(K) /\ K \subseteq h  BY FS_Subset, KeptNewer
<1>2. Cardinality(K) \in Nat  BY <1>1, FS_CardinalityType
<1>3. IsFiniteSet(I) /\ Cardinality(I) = MaxHistory
  BY FS_Interval, HistoryAssumption
<1>4. f \in [K -> I]
  <2>1. \A p \in K : Cardinality(Newer(h, p)) + 1 \in I
    BY NewerIs, KeptNewer, HistoryAssumption
  <2> QED BY <2>1
<1>5. ASSUME Cardinality(K) > MaxHistory PROVE FALSE
  <2> HIDE DEF f, I, K
  <2>1. PICK p, q \in K : p # q /\ f[p] = f[q]
    BY <1>1, <1>2, <1>3, <1>4, <1>5, FS_PigeonHole, HistoryAssumption
  <2>2. p \in h /\ q \in h  BY <1>1, <2>1
  <2>3. Cardinality(Newer(h, p)) = Cardinality(Newer(h, q))
    <3>1. Cardinality(Newer(h, p)) \in Nat /\ Cardinality(Newer(h, q)) \in Nat  BY <2>2, NewerIs
    <3>2. Cardinality(Newer(h, p)) + 1 = Cardinality(Newer(h, q)) + 1  BY <2>1 DEF f
    <3> QED BY <3>1, <3>2
  <2>4. ASSUME NEW x \in h, NEW y \in h, y.at > x.at,
               Cardinality(Newer(h, x)) = Cardinality(Newer(h, y))
        PROVE  FALSE
    <3>1. y \in Newer(h, x)  BY <2>4 DEF Newer
    <3>2. Newer(h, y) \subseteq Newer(h, x) /\ y \notin Newer(h, y) /\ IsFiniteSet(Newer(h, x))
      BY <3>1, NewerIs
    <3>3. Newer(h, x) = Newer(h, y)  BY <2>4, <3>2, FS_Subset
    <3> QED BY <3>1, <3>2, <3>3
  <2>5. p.at > q.at \/ q.at > p.at  BY <2>1, <2>2 DEF Dated
  <2> QED BY <2>2, <2>3, <2>4, <2>5
<1> QED BY <1>1, <1>2, <1>5, HistoryAssumption

\* A point that is pruned has MaxHistory newer ones among those that stay.
LEMMA KeptEnough ==
  ASSUME NEW h, NEW c \in Nat, Dated(h, c), IsFiniteSet(h), NEW p \in h, p \notin Kept(h)
  PROVE  Outlived(p, Kept(h))
<1> DEFINE N == Newer(h, p)
           K == Newer(Kept(h), p)
           D == N \ K
<1>1. K = {q \in N : Cardinality(Newer(h, q)) < MaxHistory}  BY KeptNewer DEF Newer
<1>2. /\ IsFiniteSet(N) /\ N \subseteq h /\ Cardinality(N) \in Nat /\ ~(Cardinality(N) < MaxHistory)
      /\ \A q \in N : Newer(h, q) \subseteq N
  BY NewerIs, KeptNewer
<1>3. IsFiniteSet(K) /\ Cardinality(K) \in Nat  BY <1>1, <1>2, FS_Subset, FS_CardinalityType
<1>4. ASSUME Cardinality(K) < MaxHistory PROVE FALSE
  <2> DEFINE F == {Newer(h, q) : q \in D}
  <2>1. D # {}
    <3>1. D = {} => K = N  BY <1>1
    <3> QED BY <1>2, <1>4, <3>1
  <2>2. F # {} /\ F \subseteq FiniteSubsetsOf(h)
    <3>1. \A q \in D : Newer(h, q) \in FiniteSubsetsOf(h)  BY <1>2, NewerIs DEF FiniteSubsetsOf
    <3> QED BY <2>1, <3>1
  <2>3. \E x \in F : \A y \in F : ~(<<y, x>> \in StrictSubsetOrdering(h))
    <3> HIDE DEF F
    <3> QED BY <2>2, FS_StrictSubsetOrderingWellFounded, WFMin
  <2>4. PICK q \in D : \A y \in F : ~(<<y, Newer(h, q)>> \in StrictSubsetOrdering(h))
    BY <2>3
  <2> HIDE DEF F
  <2>5. q \in h /\ q \in N  BY <1>2
  <2>6. ASSUME NEW x \in Newer(h, q), x \in D PROVE FALSE
    <3>1. Newer(h, x) \in F  BY <2>6 DEF F
    <3>2. x \in h /\ Newer(h, q) \subseteq h /\ Newer(h, x) \subseteq Newer(h, q)
      BY <2>5, NewerIs
    <3>3. x \notin Newer(h, x)  BY <3>2, NewerIs
    <3>4. <<Newer(h, x), Newer(h, q)>> \in StrictSubsetOrdering(h)
      BY <3>2, <3>3 DEF StrictSubsetOrdering
    <3> QED BY <2>4, <3>1, <3>4
  <2>7. Newer(h, q) \subseteq K  BY <1>2, <2>5, <2>6
  <2>8. Cardinality(Newer(h, q)) <= Cardinality(K) /\ Cardinality(Newer(h, q)) \in Nat
    BY <1>3, <2>5, <2>7, FS_Subset, NewerIs
  <2>9. Cardinality(Newer(h, q)) < MaxHistory  BY <1>3, <1>4, <2>8, HistoryAssumption
  <2> QED BY <1>1, <2>5, <2>9
<1>5. Cardinality(K) >= MaxHistory  BY <1>3, <1>4, HistoryAssumption
<1> QED BY <1>5 DEF Outlived, Newer

LEMMA LatestExists ==
  ASSUME NEW h, NEW c \in Nat, Dated(h, c), IsFiniteSet(h), h # {}
  PROVE  \E p : Latest(h, p)
<1> DEFINE F == {Newer(h, p) : p \in h}
<1>1. F # {} /\ F \subseteq FiniteSubsetsOf(h)
  <2>1. \A p \in h : Newer(h, p) \in FiniteSubsetsOf(h)  BY NewerIs DEF FiniteSubsetsOf
  <2> QED BY <2>1
<1>2. \E x \in F : \A y \in F : ~(<<y, x>> \in StrictSubsetOrdering(h))
  <2> HIDE DEF F
  <2> QED BY <1>1, FS_StrictSubsetOrderingWellFounded, WFMin
<1>3. PICK p \in h : \A y \in F : ~(<<y, Newer(h, p)>> \in StrictSubsetOrdering(h))
  BY <1>2
<1> HIDE DEF F
<1>4. ASSUME NEW q \in Newer(h, p) PROVE FALSE
  <2>1. q \in h /\ Newer(h, p) \subseteq h /\ Newer(h, q) \subseteq Newer(h, p)  BY NewerIs
  <2>2. q \notin Newer(h, q) /\ Newer(h, q) \in F  BY <2>1, NewerIs DEF F
  <2>3. <<Newer(h, q), Newer(h, p)>> \in StrictSubsetOrdering(h)  BY <2>1, <2>2 DEF StrictSubsetOrdering
  <2> QED BY <1>3, <2>2, <2>3
<1>5. Latest(h, p)  BY <1>4 DEF Latest, Newer, Dated
<1> QED BY <1>5

-----------------------------------------------------------------------------
(* The history, however requests overlap *)

Fresh(p) == p.at = p.created

\* Points of two origins: of different times, and of one session only if both are saves and
\* the one of P is rewritten.
Apart(P, Q) ==
  \A p \in P, q \in Q :
    /\ p.at # q.at
    /\ p.created = q.created => ~Fresh(p) /\ p.reason = "save" /\ q.reason = "save"

\* What a request has recorded: new points, or one point of the history rewritten.
Points(r) ==
  /\ IsFiniteSet(r.points) /\ Dated(r.points, clock) /\ Apart(r.points, hist)
  /\ r.pc = "before" => r.op = "restore"
  /\ r.pc = "loaded" => r.op \in ContentOps
  /\ r.pc # "recorded" => \A p \in r.points : Fresh(p)
  /\ r.pc # "recorded" /\ r.op # "restore" => r.points = {}
  /\ \A p \in r.points : ~Fresh(p) => r.points = {p}

Books ==
  /\ clock \in Nat
  /\ IsFiniteSet(hist) /\ Cardinality(hist) <= MaxHistory /\ Dated(hist, clock)
  /\ \A t \in Tabs : req[t] # Idle => Points(req[t])
  /\ \A t, u \in Tabs : t # u /\ req[t] # Idle /\ req[u] # Idle => Apart(req[t].points, req[u].points)

Typed ==
  /\ wb \in Row /\ hist \subseteq Point
  /\ \A t \in Tabs : req[t] = Idle \/ req[t] \in Request
  /\ base \in [Tabs -> Nat] /\ rev \in Nat /\ seen \in [Tabs -> Nat]

HInv == Shape /\ Books /\ Typed

\* What a snapshot adds to what the request has.
LEMMA SnapshotAdds ==
  ASSUME HInv, NEW t \in Tabs, req[t] # Idle, req[t].pc # "recorded",
         NEW row \in Row, NEW reason \in Reasons, reason = "save" => req[t].op # "restore"
  PROVE  LET S == Snapshot(t, row, reason) IN
         \/ S = {}
         \/ \E p \in Point : S = {p} /\ p.created = clock /\ p.at = clock
         \/ \E p \in Point, last \in hist :
              /\ reason = "save" /\ req[t].points = {} /\ S = {p} /\ p.created = last.created /\ p.at = clock
              /\ p.reason = "save" /\ last.reason = "save"
<1> DEFINE S == Snapshot(t, row, reason)
           last == Newest(View(t))
           new == NewPoint(row, reason)
           more == [last EXCEPT !.doc = row.doc, !.ranges = row.ranges, !.at = clock]
<1> USE DEF HInv, Books
<1>1. \/ S = {} \/ S = {new}
      \/ View(t) # {} /\ SameSession(last, reason) /\ S = {more}
  BY DEF Snapshot
<1>2. CASE S = {new}
  <2>1. new \in Point /\ new.created = clock /\ new.at = clock
    BY DEF NewPoint, Point, Row
  <2> QED BY <1>2, <2>1
<1>3. CASE View(t) # {} /\ SameSession(last, reason) /\ S = {more}
  <2>1. reason = "save" /\ last.reason = "save"  BY <1>3 DEF SameSession
  <2>2. req[t].points = {}  BY <2>1 DEF Points
  <2>3. View(t) = hist  BY <2>2 DEF View
  <2>4. \E p : Latest(hist, p)  BY <1>3, <2>3, LatestExists
  <2>5. last \in hist  BY <2>3, <2>4 DEF Newest, Latest
  <2>6. last \in Point  BY <2>5 DEF Typed
  <2>7. /\ more \in Point /\ more.created = last.created /\ more.at = clock
        /\ more.reason = last.reason
    BY <2>6 DEF Point, Row
  <2> QED BY <1>3, <2>1, <2>2, <2>5, <2>7
<1> QED BY <1>1, <1>2, <1>3

LEMMA BooksRecord ==
  ASSUME HInv, NEW t \in Tabs, RecordBefore(t) \/ Record(t)
  PROVE  Books' /\ Typed'
<1> USE DEF HInv
<1> DEFINE r == req[t]
<1>1. PICK pc \in {"loaded", "recorded"}, row \in Row, reason \in Reasons :
         /\ r # Idle /\ r.pc # "recorded" /\ r \in Request
         /\ req' = [req EXCEPT ![t] = [op |-> r.op, pc |-> pc, was |-> r.was, new |-> r.new,
                                       points |-> r.points \union Snapshot(t, row, reason)]]
         /\ reason = "save" => r.op # "restore" /\ pc = "recorded"
         /\ pc = "loaded" => r.op = "restore"
  <2>1. r # Idle /\ r \in Request  BY DEF RecordBefore, Record, Typed
  <2>2. r.was \in Row /\ r.new \in Row  BY <2>1 DEF Request
  <2>3. CASE RecordBefore(t)
    <3>1. r.op = "restore"  BY <2>1, <2>3 DEF RecordBefore, Books, Points
    <3> QED BY <2>1, <2>2, <2>3, <3>1 DEF RecordBefore, RecordAs, Reasons
  <2>4. CASE Record(t)
    <3>1. r.op \in Reasons
      BY <2>1, <2>4 DEF Record, Books, Points, ContentOps, Reasons
    <3> QED BY <2>1, <2>2, <2>4, <3>1 DEF Record, RecordAs, Reasons
  <2> QED BY <2>3, <2>4
<1> DEFINE S == Snapshot(t, row, reason)
           P == r.points
           next == [op |-> r.op, pc |-> pc, was |-> r.was, new |-> r.new, points |-> P \union S]
<1>2. clock \in Nat /\ clock' = clock + 1 /\ UNCHANGED <<wb, hist, base, rev, seen>>
  BY DEF RecordBefore, Record, RecordAs, Books
<1>3. req'[t] = next /\ \A u \in Tabs : u # t => req'[u] = req[u]  BY <1>1 DEF Shape
<1>4. \/ S = {}
      \/ \E p \in Point : S = {p} /\ p.created = clock /\ p.at = clock
      \/ \E p \in Point, last \in hist :
           /\ reason = "save" /\ P = {} /\ S = {p} /\ p.created = last.created /\ p.at = clock
           /\ p.reason = "save" /\ last.reason = "save"
  BY <1>1, SnapshotAdds
<1>5. Points(r) /\ \A u \in Tabs : u # t /\ req[u] # Idle =>
                     Points(req[u]) /\ Apart(P, req[u].points) /\ Apart(req[u].points, P)
  BY <1>1 DEF Books
<1> HIDE DEF S, P, r
<1>6. S \subseteq Point /\ IsFiniteSet(S)
  <2>1. S = {} \/ \E p \in Point : S = {p}  BY <1>4
  <2>2. IsFiniteSet({}) /\ \A x : IsFiniteSet({x})  BY FS_EmptySet, FS_Singleton
  <2> QED BY <2>1, <2>2
<1>7. Typed'
  <2>1. next \in Request  BY <1>1, <1>6 DEF Request, Ops, P
  <2> HIDE DEF next
  <2> QED BY <1>2, <1>3, <2>1 DEF Typed
<1>8. /\ \A p \in S : p.at = clock /\ DOMAIN p = PointFields
      /\ \A p, q \in S : p = q
      /\ \A p \in S : p.created \in Nat /\ p.created <= clock
  BY <1>2, <1>4 DEF Point, PointFields, Books, Dated
<1>9. /\ \A p \in P : p.at \in Nat /\ p.at < clock /\ p.created <= p.at /\ p.created \in Nat
      /\ IsFiniteSet(P) /\ Dated(P, clock)
  BY <1>5 DEF Points, Dated, P
<1>10. \A p \in P, q \in S : p.created # q.created  BY <1>2, <1>4, <1>9
<1>11. Dated(P \union S, clock + 1)
  <2>1. \A p, q \in P \union S : p.at = q.at \/ p.created = q.created => p = q
    BY <1>8, <1>9, <1>10 DEF Dated
  <2> QED BY <1>2, <1>8, <1>9, <2>1 DEF Dated
<1>12. ASSUME NEW Q, \A q \in Q : q.at \in Nat /\ q.at < clock /\ q.created \in Nat /\ q.created <= q.at,
              \A q \in Q, x \in hist : q.created = x.created => q = x \/ (~Fresh(q) /\ q.reason = "save")
       PROVE  Apart(S, Q) /\ (Q \cap hist = {} => Apart(Q, S))
  <2>1. CASE S = {}  BY <2>1 DEF Apart
  <2>2. ASSUME NEW p \in Point, S = {p}, p.created = clock, p.at = clock PROVE Apart(S, Q) /\ Apart(Q, S)
    BY <1>2, <1>12, <2>2 DEF Apart
  <2>3. ASSUME NEW p \in Point, NEW last \in hist, S = {p}, p.created = last.created, p.at = clock,
               p.reason = "save", last.reason = "save"
        PROVE  Apart(S, Q) /\ (Q \cap hist = {} => Apart(Q, S))
    <3>1. p.created < p.at /\ ~Fresh(p)  BY <1>2, <2>3 DEF Books, Dated, Fresh
    <3>2. \A q \in Q : q.at # p.at  BY <1>2, <1>12, <2>3
    <3>3. \A q \in Q : q.created = p.created => q.reason = "save" /\ (q \in hist \/ ~Fresh(q))
      BY <1>12, <2>3
    <3> QED BY <2>3, <3>1, <3>2, <3>3 DEF Apart
  <2> QED BY <1>4, <2>1, <2>2, <2>3
<1>13. Apart(P \union S, hist)
  <2>1. Apart(S, hist)  BY <1>12 DEF Books, Dated
  <2> QED BY <1>5, <2>1 DEF Apart, Points, P
<1>14. ASSUME NEW u \in Tabs, u # t, req[u] # Idle
       PROVE  Apart(P \union S, req[u].points) /\ Apart(req[u].points, P \union S)
  <2> DEFINE Q == req[u].points
  <2>1. /\ \A q \in Q : q.at \in Nat /\ q.at < clock /\ q.created \in Nat /\ q.created <= q.at
        /\ \A q \in Q, x \in hist : q.at # x.at /\ (q.created = x.created => ~Fresh(q) /\ q.reason = "save")
    BY <1>5, <1>14 DEF Points, Dated, Apart
  <2>2. Q \cap hist = {}  BY <2>1
  <2>3. Apart(S, Q) /\ Apart(Q, S)  BY <1>12, <2>1, <2>2
  <2>4. Apart(P, Q) /\ Apart(Q, P)  BY <1>5, <1>14
  <2> QED BY <2>3, <2>4 DEF Apart
<1>15. Points(req[t])'
  <2>1. IsFiniteSet(P \union S)  BY <1>6, <1>9, FS_Union
  <2>2. \A p \in S : ~Fresh(p) => reason = "save" /\ P = {}
    BY <1>4 DEF Fresh
  <2>3. \A p \in P : Fresh(p)  BY <1>1, <1>5 DEF Points, P, r
  <2>4. pc = "loaded" => \A p \in P \union S : Fresh(p)  BY <1>1, <2>2, <2>3
  <2>5. \A p \in P \union S : ~Fresh(p) => P \union S = {p}  BY <1>8, <2>2, <2>3
  <2>6. req'[t].points = P \union S /\ req'[t].pc = pc /\ req'[t].op = r.op  BY <1>3
  <2>7. r.op # "restore" => pc = "recorded"  BY <1>1 DEF r
  <2>8. pc = "loaded" \/ pc = "recorded"  BY <1>1
  <2> QED BY <1>2, <1>11, <1>13, <2>1, <2>4, <2>5, <2>6, <2>7, <2>8 DEF Points, ContentOps
<1>16. Books'
  <2>1. \A u \in Tabs : u # t /\ req[u] # Idle => Points(req[u])'
    BY <1>2, <1>3, <1>5, DatedLater DEF Points
  <2>2. next.points = P \union S  OBVIOUS
  <2> HIDE DEF next
  <2>3. \A u \in Tabs : req'[u] # Idle => Points(req[u])'  BY <1>3, <1>15, <2>1
  <2>4. \A u, v \in Tabs : u # v /\ req'[u] # Idle /\ req'[v] # Idle => Apart(req'[u].points, req'[v].points)
    BY <1>3, <1>14, <2>2 DEF Books
  <2>5. Dated(hist, clock')  BY <1>2, DatedLater DEF Books
  <2> QED BY <1>2, <2>3, <2>4, <2>5 DEF Books
<1> QED BY <1>7, <1>16

\* A commit with a rewritten point rewrites nothing else; one without prunes what it adds to.
LEMMA CommitWrites ==
  ASSUME HInv, NEW t \in Tabs, NEW heard \in BOOLEAN, Commit(t, heard)
  PROVE  LET V == View(t) P == req[t].points IN
         /\ Dated(V, clock) /\ IsFiniteSet(V)
         /\ hist' \subseteq V /\ V \subseteq hist \union P
         /\ V # hist' => hist' = Kept(V)
         /\ \A p \in hist, q \in P : q.created = p.created =>
              p.reason = "save" /\ q.reason = "save" /\ q \in hist'
         /\ \A p \in hist : p \in V \/ \E q \in P : q.created = p.created
         /\ IsFiniteSet(hist') /\ Cardinality(hist') <= MaxHistory
<1> DEFINE V == View(t)
           P == req[t].points
<1> USE DEF HInv
<1>1. /\ req[t] # Idle /\ Flushable(t)
      /\ hist' = IF Adds(t) THEN Kept(V) ELSE V
  BY DEF Commit
<1>2. /\ clock \in Nat /\ Points(req[t])
      /\ IsFiniteSet(hist) /\ Cardinality(hist) <= MaxHistory /\ Dated(hist, clock)
  BY <1>1 DEF Books
<1>3. V = Merged(hist, P)  BY DEF View, Merged
<1>4. /\ IsFiniteSet(P) /\ Dated(P, clock) /\ Apart(P, hist)
      /\ \A p \in P : ~Fresh(p) => P = {p}
  BY <1>2 DEF Points
<1>5. Adds(t) <=> \E p \in P : Fresh(p)  BY DEF Adds, Fresh
<1>6. \A p \in P : ~Fresh(p) => \E q \in hist : q.created = p.created  BY <1>1 DEF Flushable, Fresh
<1> HIDE DEF V, P
<1>7. V \subseteq hist \union P /\ \A p \in hist : p \in V \/ \E q \in P : q.created = p.created
  BY <1>3 DEF Merged
<1>8. IsFiniteSet(V)  BY <1>2, <1>4, <1>7, FS_Union, FS_Subset
<1>9. Dated(V, clock)
  <2>1. \A p, q \in V : p.at = q.at => p = q  BY <1>2, <1>3, <1>4 DEF Merged, Dated, Apart
  <2>2. \A p, q \in V : p.created = q.created => p = q  BY <1>2, <1>3, <1>4 DEF Merged, Dated
  <2>3. \A p \in V : p \in hist \/ p \in P  BY <1>7
  <2> QED BY <1>2, <1>4, <2>1, <2>2, <2>3 DEF Dated
<1>10. hist' \subseteq V /\ (V # hist' => hist' = Kept(V))  BY <1>1, KeptNewer
<1>11. ASSUME NEW p \in hist, NEW q \in P, q.created = p.created
       PROVE  p.reason = "save" /\ q.reason = "save" /\ q \in hist'
  <2>1. ~Fresh(q) /\ p.reason = "save" /\ q.reason = "save"  BY <1>4, <1>11 DEF Apart
  <2>2. ~Adds(t)  BY <1>4, <1>5, <2>1
  <2>3. q \in V  BY <1>3 DEF Merged
  <2> QED BY <1>1, <2>1, <2>2, <2>3
<1>12. IsFiniteSet(hist')  BY <1>8, <1>10, FS_Subset
<1>13. Cardinality(hist') <= MaxHistory
  <2>1. CASE Adds(t)
    BY <1>1, <1>2, <1>8, <1>9, <2>1, KeptBound
  <2>2. CASE P = {}
    <3>1. V = hist  BY <1>3, <2>2 DEF Merged
    <3> QED BY <1>1, <1>2, <1>5, <2>2, <3>1
  <2>3. CASE ~Adds(t) /\ P # {}
    <3>1. PICK p \in P : P = {p}  BY <1>4, <1>5, <2>3
    <3>2. PICK q \in hist : q.created = p.created  BY <1>5, <1>6, <2>3, <3>1
    <3>3. V = (hist \ {q}) \union {p}  BY <1>2, <1>3, <3>1, <3>2 DEF Merged, Dated
    <3>4. IsFiniteSet(hist \ {q}) /\ Cardinality(hist \ {q}) = Cardinality(hist) - 1
      BY <1>2, FS_RemoveElement
    <3>5. Cardinality(V) <= Cardinality(hist)
      <4>1. Cardinality(hist) \in Nat  BY <1>2, FS_CardinalityType
      <4> DEFINE rest == hist \ {q}
      <4> HIDE DEF rest
      <4>2. IsFiniteSet(rest) /\ Cardinality(rest) = Cardinality(hist) - 1  BY <3>4 DEF rest
      <4>3. Cardinality(rest \cup {p}) = IF p \in rest THEN Cardinality(rest) ELSE Cardinality(rest) + 1
        BY <4>2, FS_AddElement
      <4>4. V = rest \cup {p}  BY <3>3 DEF rest
      <4> QED BY <4>1, <4>2, <4>3, <4>4
    <3>6. hist' = V /\ Cardinality(hist) \in Nat /\ Cardinality(V) \in Nat
      BY <1>1, <1>2, <1>8, <2>3, FS_CardinalityType
    <3> QED BY <1>2, <3>5, <3>6, HistoryAssumption
  <2> QED BY <2>1, <2>2, <2>3
<1> QED BY <1>7, <1>8, <1>9, <1>10, <1>11, <1>12, <1>13 DEF V, P

LEMMA BooksCommit ==
  ASSUME HInv, NEW t \in Tabs, NEW heard \in BOOLEAN, Commit(t, heard)
  PROVE  Books' /\ Typed'
<1> USE DEF HInv
<1> DEFINE V == View(t)
           P == req[t].points
<1>1. /\ req[t] # Idle /\ req' = [req EXCEPT ![t] = Idle] /\ wb' = Flushed(t) /\ clock' = clock
      /\ rev' = IF WritesContent(t) THEN rev + 1 ELSE rev
      /\ IF WritesContent(t) /\ heard
         THEN base' = [base EXCEPT ![t] = req[t].new.version] /\ seen' = [seen EXCEPT ![t] = rev']
         ELSE UNCHANGED <<base, seen>>
  BY DEF Commit
<1>2. /\ Dated(V, clock) /\ hist' \subseteq V /\ V \subseteq hist \union P
      /\ IsFiniteSet(hist') /\ Cardinality(hist') <= MaxHistory
  BY CommitWrites
<1>3. /\ req'[t] = Idle /\ \A u \in Tabs : u # t => req'[u] = req[u]  BY <1>1 DEF Shape
<1>4. Typed'
  <2>1. req[t] \in Request  BY <1>1 DEF Typed
  <2>2. wb' \in Row
    <3>1. req[t].new \in Row /\ wb \in Row  BY <2>1 DEF Request, Typed
    <3>2. \A f \in Fields : wb'[f] = req[t].new[f] \/ wb'[f] = wb[f]
      BY <1>1, FlushedField
    <3>3. wb' = [f \in Fields |-> wb'[f]]  BY <1>1 DEF Flushed, Shape
    <3> QED BY <3>1, <3>2, <3>3 DEF Row, Fields
  <2>3. hist' \subseteq Point
    <3>1. P \subseteq Point  BY <2>1 DEF Request
    <3> QED BY <1>2, <3>1 DEF Typed
  <2>4. req[t].new.version \in Nat /\ rev' \in Nat  BY <1>1, <2>1 DEF Request, Row, Typed
  <2>5. base' \in [Tabs -> Nat] /\ seen' \in [Tabs -> Nat]  BY <1>1, <2>4 DEF Typed
  <2> QED BY <1>3, <2>2, <2>3, <2>4, <2>5 DEF Typed
<1>5. Books'
  <2>1. ASSUME NEW u \in Tabs, req'[u] # Idle PROVE u # t /\ req'[u] = req[u] /\ Points(req[u])'
    <3>1. u # t /\ req'[u] = req[u] /\ Points(req[u])  BY <1>3, <2>1 DEF Books
    <3>2. Apart(req[u].points, P) /\ Apart(req[u].points, hist)  BY <1>1, <3>1, <2>1 DEF Books, Points
    <3>3. Apart(req'[u].points, hist')  BY <1>2, <3>1, <3>2 DEF Apart
    <3> QED BY <1>1, <3>1, <3>3 DEF Points
  <2>2. Dated(hist', clock)  BY <1>2 DEF Dated
  <2>3. \A u, v \in Tabs : u # v /\ req'[u] # Idle /\ req'[v] # Idle => Apart(req'[u].points, req'[v].points)
    BY <2>1 DEF Books
  <2> QED BY <1>1, <1>2, <2>1, <2>2, <2>3 DEF Books
<1> QED BY <1>4, <1>5

LEMMA BooksInit == ASSUME Init PROVE HInv
<1>1. Shape  BY ShapeInit
<1>2. clock = 0 /\ hist = {} /\ base = [t \in Tabs |-> 0] /\ seen = [t \in Tabs |-> 0] /\ rev = 1  BY DEF Init
<1>3. wb \in Row
  <2> DEFINE First == [status: {"draft"}, by: {Nobody}, locks: {FALSE}, params: Params]
  <2>1. First \subseteq Settings  BY DEF Settings, Statuses
  <2>2. wb \in [doc: Docs, ranges: Ranges, version: {1}, deleted: {FALSE}, settings: First]  BY DEF Init
  <2> HIDE DEF First
  <2>3. \A D, F : D \subseteq Nat /\ F \subseteq BOOLEAN =>
          [doc: Docs, ranges: Ranges, version: D, deleted: F, settings: First] \subseteq Row
    BY <2>1 DEF Row
  <2>4. {1} \subseteq Nat /\ {FALSE} \subseteq BOOLEAN  OBVIOUS
  <2> QED BY <2>2, <2>3, <2>4
<1> DEFINE r == [op |-> "created", pc |-> "loaded", was |-> wb, new |-> wb, points |-> {}]
<1>4. PICK t \in Tabs : req = [u \in Tabs |-> IF u = t THEN r ELSE Idle]  BY DEF Init
<1>5. r \in Request  BY <1>3 DEF Request, Ops, ContentOps
<1>6. \A u \in Tabs : req[u] = Idle \/ (u = t /\ req[u] = r)  BY <1>4
<1>7. Typed  BY <1>2, <1>3, <1>5, <1>6 DEF Typed
<1>8. Points(r)  BY FS_EmptySet DEF Points, Dated, Apart, ContentOps
<1>9. Cardinality(hist) <= MaxHistory /\ IsFiniteSet(hist)
  BY <1>2, FS_EmptySet, HistoryAssumption
<1>10. Dated(hist, clock)  BY <1>2 DEF Dated
<1> HIDE DEF r
<1>11. Books  BY <1>2, <1>6, <1>8, <1>9, <1>10 DEF Books
<1> QED BY <1>1, <1>7, <1>11 DEF HInv

LEMMA BooksStep == ASSUME HInv, [Next]_vars PROVE HInv'
<1> USE DEF HInv
<1>1. ASSUME UNCHANGED <<wb, hist, rev>>, clock' = clock \/ clock' = clock + Gap,
             \A t \in Tabs : req'[t] = Idle \/ req'[t] = req[t],
             base' \in [Tabs -> Nat], seen' \in [Tabs -> Nat]
      PROVE  Books' /\ Typed'
  <2>1. clock \in Nat /\ clock' \in Nat /\ clock <= clock'  BY <1>1, GapAssumption DEF Books
  <2>2. \A t \in Tabs : req'[t] # Idle => req[t] # Idle /\ req'[t] = req[t]  BY <1>1
  <2>3. ASSUME NEW t \in Tabs, req'[t] # Idle PROVE Points(req[t])'
    <3>1. Points(req[t])  BY <2>2, <2>3 DEF Books
    <3>2. Dated(req[t].points, clock')  BY <2>1, <3>1, DatedLater DEF Points
    <3> QED BY <1>1, <2>2, <2>3, <3>1, <3>2 DEF Points
  <2>4. Dated(hist, clock')  BY <2>1, DatedLater DEF Books
  <2>5. \A t, u \in Tabs : t # u /\ req'[t] # Idle /\ req'[u] # Idle => Apart(req'[t].points, req'[u].points)
    BY <2>2 DEF Books
  <2>6. Books'  BY <1>1, <2>1, <2>3, <2>4, <2>5 DEF Books
  <2>7. Typed'  BY <1>1, <2>2 DEF Typed
  <2> QED BY <2>6, <2>7
<1>2. ASSUME NEW t \in Tabs, Starts(t) PROVE Books' /\ Typed'
  <2>1. PICK op, pc, new : /\ Begin(t, op, pc, new) /\ Fits(op, new) /\ pc = Opening(op)
                           /\ (wb \in Row /\ hist \subseteq Point => new \in Row)
    BY <1>2 DEF Starts
  <2> DEFINE r == [op |-> op, pc |-> pc, was |-> wb, new |-> new, points |-> {}]
  <2>2. req' = [req EXCEPT ![t] = r] /\ UNCHANGED <<wb, hist, clock, base, rev, seen>>
    BY <2>1 DEF Begin
  <2>3. req'[t] = r /\ \A u \in Tabs : u # t => req'[u] = req[u]  BY <2>2 DEF Shape
  <2>4. /\ op \in Ops /\ new \in Row /\ pc \in {"before", "loaded", "recorded"}
        /\ (pc = "before" => op = "restore") /\ (pc = "loaded" => op \in ContentOps)
    BY <2>1 DEF Fits, Opening, Typed, ContentOps
  <2>5. r \in Request  BY <2>4 DEF Request, Typed
  <2>6. Points(r)  BY <2>4, FS_EmptySet DEF Points, Dated, Apart
  <2>7. r.points = {}  OBVIOUS
  <2>8. Points(req[t])'  BY <2>2, <2>3, <2>6 DEF Points
  <2> HIDE DEF r
  <2>9. \A u \in Tabs : req'[u] # Idle => Points(req[u])'
    BY <2>2, <2>3, <2>8 DEF Books, Points
  <2>10. \A u, v \in Tabs : u # v /\ req'[u] # Idle /\ req'[v] # Idle => Apart(req'[u].points, req'[v].points)
    BY <2>3, <2>7 DEF Books, Apart
  <2>11. Books'  BY <2>2, <2>9, <2>10 DEF Books
  <2>12. Typed'  BY <2>2, <2>3, <2>5 DEF Typed
  <2> QED BY <2>11, <2>12
<1>3. ASSUME NEW t \in Tabs, Fetch(t) PROVE Books' /\ Typed'
  <2>1. wb.version \in Nat /\ rev \in Nat  BY DEF Typed, Row
  <2>2. base' \in [Tabs -> Nat] /\ seen' \in [Tabs -> Nat]  BY <1>3, <2>1 DEF Fetch, Typed
  <2> QED BY <1>1, <1>3, <2>2 DEF Fetch
<1>4. ASSUME NEW t \in Tabs, Abort(t) PROVE Books' /\ Typed'
  BY <1>1, <1>4 DEF Abort, Shape, Typed
<1>5. CASE UNCHANGED <<wb, hist, req, base, rev, seen>> /\ (clock' = clock \/ clock' = clock + Gap)
  <2>1. /\ UNCHANGED <<wb, hist, rev>> /\ (clock' = clock \/ clock' = clock + Gap)
        /\ \A t \in Tabs : req'[t] = Idle \/ req'[t] = req[t]
        /\ base' \in [Tabs -> Nat] /\ seen' \in [Tabs -> Nat]
    BY <1>5 DEF Typed
  <2> QED BY <1>1, <2>1, ShapeStep
<1> QED BY <1>2, <1>3, <1>4, <1>5, BooksRecord, BooksCommit, ShapeStep, Steps

LEMMA BooksHold == Spec => []HInv
<1>1. Init => HInv  BY BooksInit
<1>2. HInv /\ [Next]_vars => HInv'  BY BooksStep
<1> QED BY <1>1, <1>2, PTL DEF Spec

\* Every variable keeps its type and the history never outgrows MAX_HISTORY, however requests
\* overlap: the points of two requests that were both recorded before either commits included.
THEOREM TypeCorrect == Spec => []TypeOK
<1>1. HInv => TypeOK  BY DEF HInv, Typed, Books, TypeOK
<1> QED BY <1>1, BooksHold, PTL

\* However requests overlap, pruning takes only points with MAX_HISTORY newer ones, and nothing
\* but a save replaces a point, which was a save too (_snapshot).
THEOREM OtherPointsStay == Spec => OnlySavesRewritten
<1> DEFINE Stays == \A p \in hist :
             \/ p \in hist'
             \/ p.reason = "save" /\ \E q \in hist' : q.created = p.created /\ q.reason = "save"
             \/ Outlived(p, hist')
<1>1. HInv /\ [Next]_vars => Stays
  <2> SUFFICES ASSUME HInv, [Next]_vars, hist' # hist, NEW p \in hist
               PROVE  \/ p \in hist'
                      \/ p.reason = "save" /\ \E q \in hist' : q.created = p.created /\ q.reason = "save"
                      \/ Outlived(p, hist')
    OBVIOUS
  <2>1. PICK t \in Tabs, heard \in BOOLEAN : Commit(t, heard)
    BY Steps DEF Starts, Begin, Fetch, RecordBefore, Record, RecordAs, Abort, HInv
  <2>2. clock \in Nat  BY DEF HInv, Books
  <2>3. CASE p \in View(t)
    BY <2>1, <2>2, <2>3, CommitWrites, KeptEnough
  <2>4. CASE p \notin View(t)
    BY <2>1, <2>4, CommitWrites
  <2> QED BY <2>3, <2>4
<1> QED BY <1>1, BooksHold, PTL DEF Spec, OnlySavesRewritten

\* What a request rewrites is a point of the session it saw running.
InSession ==
  \A t \in Tabs : req[t] # Idle =>
    \A p \in hist, q \in req[t].points : q.created = p.created => q.at < p.at + Gap

LEMMA InSessionStep ==
  ASSUME HInv, OneRequest, InSession, Overlap = FALSE, [Next]_vars PROVE InSession'
<1> USE DEF HInv
<1>1. ASSUME \A t \in Tabs : req'[t] = Idle \/ (req'[t] = req[t] /\ UNCHANGED hist) \/ req'[t].points = {}
      PROVE  InSession'
  BY <1>1 DEF InSession
<1>2. ASSUME NEW t \in Tabs, Starts(t) PROVE InSession'
  <2>1. PICK op, pc, new : Begin(t, op, pc, new)  BY <1>2 DEF Starts
  <2> QED BY <1>1, <2>1 DEF Begin, Shape
<1>3. ASSUME NEW t \in Tabs, RecordBefore(t) \/ Record(t) PROVE InSession'
  <2>1. PICK row, reason :
          /\ UNCHANGED hist /\ req[t] # Idle
          /\ req'[t].points = req[t].points \union Snapshot(t, row, reason)
          /\ \A u \in Tabs : u # t => req'[u] = req[u]
          /\ reason = "save" => req[t].op # "restore" /\ req[t].pc # "recorded"
    BY <1>3 DEF RecordBefore, Record, RecordAs, Shape, Books, Points
  <2>2. \A u \in Tabs : u # t => req'[u] = Idle  BY <2>1 DEF OneRequest
  <2> DEFINE last == Newest(View(t))
             more == [last EXCEPT !.doc = row.doc, !.ranges = row.ranges, !.at = clock]
             new == NewPoint(row, reason)
  <2>3. clock \in Nat /\ Dated(hist, clock) /\ IsFiniteSet(hist) /\ Points(req[t])  BY <2>1 DEF Books
  <2>4. ASSUME NEW p \in hist, NEW q \in Snapshot(t, row, reason), q.created = p.created
        PROVE  q.at < p.at + Gap
    <3>1. new.created # p.created  BY <2>3 DEF NewPoint, Dated
    <3>2. View(t) # {} /\ SameSession(last, reason) /\ q = more
      BY <2>4, <3>1 DEF Snapshot
    <3>3. reason = "save" /\ clock < last.at + Gap  BY <3>2 DEF SameSession
    <3>4. View(t) = hist  BY <2>1, <2>3, <3>3 DEF Points, View
    <3>5. last \in hist  BY <2>3, <3>2, <3>4, LatestExists DEF Newest, Latest
    <3>6. DOMAIN last = PointFields  BY <2>3, <3>5 DEF Dated
    <3>7. more.created = last.created /\ more.at = clock  BY <3>6 DEF PointFields
    <3>8. p = last  BY <2>3, <2>4, <3>2, <3>5, <3>7 DEF Dated
    <3> QED BY <3>2, <3>3, <3>7, <3>8
  <2>5. \A p \in hist, q \in req[t].points : q.created = p.created => q.at < p.at + Gap
    BY <2>1 DEF InSession
  <2> QED BY <2>1, <2>2, <2>4, <2>5 DEF InSession
<1>4. ASSUME NEW t \in Tabs, Fetch(t) \/ Abort(t) PROVE InSession'
  BY <1>1, <1>4 DEF Fetch, Abort, Shape
<1>5. ASSUME NEW t \in Tabs, NEW heard \in BOOLEAN, Commit(t, heard) PROVE InSession'
  BY <1>1, <1>5 DEF Commit, Shape, OneRequest
<1>6. CASE UNCHANGED <<wb, hist, req, base, rev, seen>>
  BY <1>1, <1>6
<1> QED BY <1>2, <1>3, <1>4, <1>5, <1>6, Steps

\* Requests one at a time: a point of the history is final, unless it is a save and the next save
\* comes before its session ends, and pruning takes only points with MAX_HISTORY newer ones.
THEOREM PointsStay == ASSUME Overlap = FALSE PROVE Spec => SavedPointsSurvive
<1> DEFINE Stays == \A p \in hist :
             \/ \E q \in hist' : /\ q.created = p.created
                                 /\ q = p \/ (p.reason = "save" /\ q.at < p.at + Gap)
             \/ Outlived(p, hist')
           Inv == IInv /\ HInv /\ InSession
<1>1. Init => Inv
  <2>1. Init => InSession  BY DEF Init, InSession
  <2> QED BY <2>1, SerialInit, BooksInit
<1>2. Inv /\ [Next]_vars => Inv'
  BY ShapeStep, OneRequestStep, VersionsStep, BooksStep, InSessionStep DEF IInv
<1>3. Inv /\ [Next]_vars => Stays
  <2> SUFFICES ASSUME HInv, InSession, [Next]_vars, hist' # hist, NEW p \in hist
               PROVE  \/ \E q \in hist' : /\ q.created = p.created
                                          /\ q = p \/ (p.reason = "save" /\ q.at < p.at + Gap)
                      \/ Outlived(p, hist')
    OBVIOUS
  <2>1. PICK t \in Tabs, heard \in BOOLEAN : Commit(t, heard)
    BY Steps DEF Starts, Begin, Fetch, RecordBefore, Record, RecordAs, Abort, HInv
  <2>2. clock \in Nat /\ req[t] # Idle  BY <2>1 DEF HInv, Books, Commit
  <2>3. CASE p \in View(t)
    BY <2>1, <2>2, <2>3, CommitWrites, KeptEnough
  <2>4. CASE p \notin View(t)
    BY <2>1, <2>2, <2>4, CommitWrites DEF InSession
  <2> QED BY <2>3, <2>4
<1> HIDE DEF Inv
<1> QED BY <1>1, <1>2, <1>3, PTL DEF Spec, SavedPointsSurvive

-----------------------------------------------------------------------------
(* Workbook implements VersionedDocument *)

\* A row in the trash gets no other content, and only a save and a restore change any.
ContentRequests ==
  \A t \in Tabs : req[t] # Idle =>
    IF WritesContent(t) THEN ~req[t].was.deleted
    ELSE req[t].new.doc = req[t].was.doc /\ req[t].new.ranges = req[t].was.ranges

LEMMA ContentRequestsStep == ASSUME Shape, ContentRequests, [Next]_vars PROVE ContentRequests'
<1> USE DEF ContentRequests, WritesContent
<1>1. ASSUME NEW t \in Tabs, Starts(t) PROVE ContentRequests'
  <2>1. PICK op, pc, new : /\ Begin(t, op, pc, new)
                           /\ IF op \in {"save", "restore"} THEN ~wb.deleted
                              ELSE new.doc = wb.doc /\ new.ranges = wb.ranges
    BY <1>1 DEF Starts, Fits
  <2> DEFINE r == [op |-> op, pc |-> pc, was |-> wb, new |-> new, points |-> {}]
  <2>2. req' = [req EXCEPT ![t] = r] /\ r.op = op /\ r.was = wb /\ r.new = new  BY <2>1 DEF Begin
  <2> QED BY <2>1, <2>2 DEF Shape
<1>2. ASSUME NEW t \in Tabs, RecordBefore(t) \/ Record(t) PROVE ContentRequests'
  <2>1. PICK pc, points : req' = [req EXCEPT ![t] = [op |-> req[t].op, pc |-> pc, was |-> req[t].was,
                                                  new |-> req[t].new, points |-> points]]
    BY <1>2 DEF RecordBefore, Record, RecordAs
  <2>2. req[t] # Idle  BY <1>2 DEF RecordBefore, Record
  <2> QED BY <2>1, <2>2 DEF Shape
<1>3. ASSUME NEW t \in Tabs, Fetch(t) \/ Abort(t) \/ \E heard \in BOOLEAN : Commit(t, heard) PROVE ContentRequests'
  BY <1>3 DEF Fetch, Abort, Commit, Shape
<1>4. CASE UNCHANGED <<wb, hist, req, base, rev, seen>>
  BY <1>4
<1> QED BY <1>1, <1>2, <1>3, <1>4, Steps

\* A commit is a write of the document, a move into or out of the trash, or nothing.
LEMMA DocumentStep ==
  ASSUME IInv, ContentRequests, wb \in Row, wb' \in Row, [Next]_vars
  PROVE  Document!Next \/ UNCHANGED Document!documentVars
<1>1. CASE wb' = wb
  BY <1>1 DEF Document!documentVars
<1>2. ASSUME NEW t \in Tabs, NEW heard \in BOOLEAN, Commit(t, heard)
      PROVE  Document!Next \/ UNCHANGED Document!documentVars
  <2>1. wb' = Flushed(t) /\ req[t] # Idle  BY <1>2 DEF Commit
  <2>2. Loaded(req[t]) /\ req[t].was = wb /\ Shape  BY <2>1 DEF IInv, Shape, OneRequest
  <2>3. \A f \in Fields : wb'[f] = req[t].new[f]  BY <2>1, <2>2, FlushedField
  <2>4. CASE WritesContent(t)
    <3>1. wb'.version = wb.version + 1 /\ wb'.deleted = wb.deleted
      BY <2>2, <2>3, <2>4 DEF Loaded, WritesContent, Fields
    <3>2. wb.deleted = FALSE  BY <2>1, <2>2, <2>4 DEF ContentRequests, Row
    <3>3. <<wb'.doc, wb'.ranges>> \in Docs \X Ranges  BY DEF Row
    <3> QED BY <3>1, <3>2, <3>3 DEF Document!Next, Document!Write
  <2>5. CASE ~WritesContent(t)
    <3>1. wb'.version = wb.version  BY <2>2, <2>3, <2>5 DEF Loaded, WritesContent, Fields
    <3>2. wb'.doc = wb.doc /\ wb'.ranges = wb.ranges
      BY <2>1, <2>2, <2>3, <2>5 DEF ContentRequests, Fields
    <3>3. wb.deleted \in BOOLEAN /\ wb'.deleted \in BOOLEAN  BY DEF Row
    <3> QED BY <3>1, <3>2, <3>3 DEF Document!Next, Document!Move, Document!documentVars
  <2> QED BY <2>4, <2>5
<1> QED BY <1>1, <1>2, Steps DEF Starts, Begin, Fetch, RecordBefore, Record, RecordAs, Abort, IInv

\* With requests one at a time a workbook is a versioned document: any number of tabs, contents,
\* saves, restores, deletions, settings, certifications, lost answers and dead requests.
THEOREM ImplementsDocument == ASSUME Overlap = FALSE PROVE Spec => Document!Spec
<1> DEFINE Inv == IInv /\ ContentRequests
<1>1. Init => Document!Init
  BY DEF Init, Document!Init
<1>2. Init => Inv
  <2>1. ASSUME Init PROVE ContentRequests
    <3>1. PICK t \in Tabs :
            req = [u \in Tabs |-> IF u = t THEN [op |-> "created", pc |-> "loaded", was |-> wb, new |-> wb, points |-> {}]
                                  ELSE Idle]
      BY <2>1 DEF Init
    <3> QED BY <3>1 DEF ContentRequests, WritesContent
  <2> QED BY <2>1, SerialInit
<1>3. Inv /\ [Next]_vars => Inv'
  BY ShapeStep, OneRequestStep, VersionsStep, ContentRequestsStep DEF IInv
<1>4. TypeOK => wb \in Row
  BY DEF TypeOK
<1>5. Inv /\ wb \in Row /\ (wb \in Row)' /\ [Next]_vars => [Document!Next]_(Document!documentVars)
  BY DocumentStep
<1> HIDE DEF Inv
<1> QED BY <1>1, <1>2, <1>3, <1>4, <1>5, TypeCorrect, PTL DEF Spec, Document!Spec

\* A version of a versioned document names its content: it never comes back with another.
LEMMA VersionsNameContents ==
  ASSUME NEW v \in Nat, NEW c
  PROVE  Document!Spec => Document!VersionNamesContent(v, c)
<1> DEFINE Typed1 == wb.version \in Nat
           Read == wb.version = v /\ <<wb.doc, wb.ranges>> = c
           Held == wb.version \in Nat /\ (Read \/ wb.version > v)
<1>1. Document!Init => Typed1
  BY DEF Document!Init
<1>2. Typed1 /\ [Document!Next]_(Document!documentVars) => Typed1'
  BY DEF Document!Next, Document!Write, Document!Move, Document!documentVars
<1>3. Typed1 /\ Read => Held
  OBVIOUS
<1>4. Held /\ [Document!Next]_(Document!documentVars) => Held'
  BY DEF Document!Next, Document!Write, Document!Move, Document!documentVars
<1>5. Held => (wb.version = v => <<wb.doc, wb.ranges>> = c)
  OBVIOUS
<1> HIDE DEF Typed1, Held
<1> QED BY <1>1, <1>2, <1>3, <1>4, <1>5, PTL DEF Document!Spec, Document!VersionNamesContent

\* With requests one at a time, whoever saw version v of a workbook saw its one content: what the
\* comparison of versions in update_workbook rests on.
THEOREM VersionIsContent ==
  ASSUME Overlap = FALSE, NEW v \in Nat, NEW c
  PROVE  Spec => Document!VersionNamesContent(v, c)
BY ImplementsDocument, VersionsNameContents, PTL
=============================================================================
