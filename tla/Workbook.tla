------------------------------ MODULE Workbook ------------------------------
(***************************************************************************)
(* One workbook (a spreadsheet document), its row, its history and the     *)
(* requests of the tabs that have it open.                                 *)
(*                                                                         *)
(* A request reads the row, awaits, and writes back at its commit; no row  *)
(* lock is taken, so the requests of two tabs interleave at those points.  *)
(* A commit writes only the columns whose value the request changed.       *)
(* The document and its title are one value here (the history compares     *)
(* and restores them together); the live data ranges are another.          *)
(*                                                                         *)
(* Every writer but Decide is the owner: load_workbook refuses the others, *)
(* so every point of the history has the same author.                      *)
(***************************************************************************)
EXTENDS Naturals, FiniteSets

CONSTANTS
  Tabs,         \* the owner's tabs; each has at most one request in flight
  Docs,         \* documents
  Ranges,       \* definitions of the live data ranges
  Owner,        \* the user who made the workbook
  Reviewer,     \* another member of the project it is shared with
  Nobody,       \* no user
  Params,       \* the other settings (parameters, compute profile, ...)
  Patches,      \* settings fields a settings request may carry
  Gap,          \* SESSION_GAP
  MaxHistory,   \* MAX_HISTORY
  MaxClock,     \* bound: snapshots taken and time passed
  MaxRev,       \* bound: contents committed
  Overlap       \* TRUE: requests interleave; FALSE: one at a time

ASSUME GapAssumption == Gap \in Nat \ {0}
ASSUME HistoryAssumption == MaxHistory \in Nat \ {0}

VARIABLES
  wb,      \* the committed row
  hist,    \* the committed points of its history
  req,     \* the request each tab has in flight
  clock,   \* now
  base,    \* the version each tab last saw
  rev,     \* history variable: how many contents were committed so far
  seen     \* history variable: the content each tab last saw

vars == <<wb, hist, req, clock, base, rev, seen>>

Users == {Owner, Reviewer}
Statuses == {"draft", "in_review", "approved", "rejected"}
Settings == [status: Statuses, by: Users \union {Nobody}, locks: BOOLEAN, params: Params]

\* A patch carries settings.
Patched(c, p) == [f \in DOMAIN c |-> IF f \in DOMAIN p THEN p[f] ELSE c[f]]
ASSUME PatchesAssumption == \A p \in Patches, c \in Settings : Patched(c, p) \in Settings

Row == [doc: Docs, ranges: Ranges, version: Nat, deleted: BOOLEAN, settings: Settings]
Reasons == {"created", "save", "before_restore", "restore"}
Point == [created: Nat, at: Nat, doc: Docs, ranges: Ranges, reason: Reasons]
ContentOps == {"created", "save", "restore"}
Ops == ContentOps \union {"delete", "undelete", "settings"}
Request == [op: Ops, pc: {"before", "loaded", "recorded"}, was: Row, new: Row, points: SUBSET Point]
Idle == [op |-> "none"]

-----------------------------------------------------------------------------
(* Helpers *)

settings_locked(c) == c.status = "approved" /\ c.locks

Newest(points) == CHOOSE p \in points : \A q \in points : q.at <= p.at

\* Mutated form: one point too many stays.
Kept_OneMore(points) == {p \in points : Cardinality({q \in points : q.at > p.at}) <= MaxHistory}

\* Mutated form: one point too few stays.
Kept_OneFewer(points) == {p \in points : Cardinality({q \in points : q.at > p.at}) + 1 < MaxHistory}

\* The newest MAX_HISTORY points.
Kept(points) == {p \in points : Cardinality({q \in points : q.at > p.at}) < MaxHistory}

\* The history as a request reads it: committed points, and its own.
View(t) ==
  {p \in hist : \A q \in req[t].points : q.created # p.created} \union req[t].points

\* Mutated form: any point may be continued, whatever it was recorded for.
SameSession_AnyReason(last, reason) == clock < last.at + Gap

\* Mutated form: a session never ends.
SameSession_Endless(last, reason) == reason = "save" /\ last.reason = "save"

\* A save soon after a save: the point of the running session.
SameSession(last, reason) ==
  /\ reason = "save"
  /\ last.reason = "save"
  /\ clock < last.at + Gap

NewPoint(row, reason) ==
  [created |-> clock, at |-> clock, doc |-> row.doc, ranges |-> row.ranges, reason |-> reason]

\* Mutated form: a session's first point is never brought up to date.
Snapshot_FirstOfSession(t, row, reason) ==
  LET view == View(t) last == Newest(view) IN
  IF view # {} /\ (last.doc = row.doc \/ SameSession(last, reason))
  THEN {} ELSE {NewPoint(row, reason)}

\* _snapshot: the points it adds or rewrites (at most one).
Snapshot(t, row, reason) ==
  LET view == View(t) last == Newest(view) IN
  IF view # {} /\ last.doc = row.doc THEN {}
  ELSE IF view # {} /\ SameSession(last, reason)
  THEN {[last EXCEPT !.doc = row.doc, !.ranges = row.ranges, !.at = clock]}
  ELSE {NewPoint(row, reason)}

\* Mutated form: the whole row as the request holds it.
Flushed_WholeRow(t) == req[t].new

\* The columns a request changed, over whatever the row holds by now.
Flushed(t) ==
  [f \in DOMAIN wb |-> IF req[t].new[f] # req[t].was[f] THEN req[t].new[f] ELSE wb[f]]

-----------------------------------------------------------------------------
(* Requests *)

Quiet == \A t \in Tabs : req[t] = Idle

MayStart(t) == IF Overlap THEN req[t] = Idle ELSE Quiet

Begin(t, op, pc, new) ==
  /\ MayStart(t)
  /\ req' = [req EXCEPT ![t] = [op |-> op, pc |-> pc, was |-> wb, new |-> new, points |-> {}]]
  /\ UNCHANGED <<wb, hist, clock, base, rev, seen>>

\* GET: the tab opens the workbook.
Fetch(t) ==
  /\ req[t] = Idle
  /\ ~wb.deleted
  /\ base' = [base EXCEPT ![t] = wb.version]
  /\ seen' = [seen EXCEPT ![t] = rev]
  /\ UNCHANGED <<wb, hist, req, clock, rev>>

\* The row with another content, one version on.
Edited(d, r) ==
  [doc |-> d, ranges |-> r, version |-> wb.version + 1, deleted |-> wb.deleted, settings |-> wb.settings]

\* PUT, up to the await on the engine: not deleted, not locked, and the tab's version.
Save(t, d, r) ==
  /\ base[t] # 0
  /\ ~wb.deleted
  /\ ~settings_locked(wb.settings)
  /\ base[t] = wb.version
  /\ Begin(t, "save", "loaded", Edited(d, r))

\* Mutated form: a restore leaves the version as it is.
RestoreVersion_SameVersion(t, p) ==
  /\ ~wb.deleted
  /\ Begin(t, "restore", "before", [wb EXCEPT !.doc = p.doc, !.ranges = p.ranges])

\* POST versions/{id}/restore: whatever the version the tab saw, locked or not.
RestoreVersion(t, p) ==
  /\ ~wb.deleted
  /\ Begin(t, "restore", "before", Edited(p.doc, p.ranges))

\* DELETE is soft; POST restore undoes it.
Delete(t) == ~wb.deleted /\ Begin(t, "delete", "recorded", [wb EXCEPT !.deleted = TRUE])
Undelete(t) == Begin(t, "undelete", "recorded", [wb EXCEPT !.deleted = FALSE])

\* The settings are one JSON column (the certification's status, submitter and lock, and
\* the rest): a request writes all of it from what it read.
WriteSettings(t, settings) == Begin(t, "settings", "recorded", [wb EXCEPT !.settings = settings])

\* On a locked workbook only a patch of the certification passes.
PatchSettings(t, p) ==
  /\ ~wb.deleted
  /\ settings_locked(wb.settings) => DOMAIN p # {"params"}
  /\ WriteSettings(t, Patched(wb.settings, p))

SubmitForReview(t) ==
  /\ ~wb.deleted
  /\ WriteSettings(t, [wb.settings EXCEPT !.status = "in_review", !.by = Owner, !.locks = FALSE])

\* Stamps the export into the settings, locked or not.
GitExport(t, p) == ~wb.deleted /\ WriteSettings(t, [wb.settings EXCEPT !.params = p])

\* Approve or reject, as answered to user u. Only the owner's write load passes;
\* then the document must be in review, and the submitter is turned away.
Refusal(u) ==  \* the answer's status; 200 when there is none
  IF u # Owner THEN 403
  ELSE IF wb.settings.status # "in_review" THEN 409
  ELSE IF wb.settings.by = u THEN 403
  ELSE 200

Decided(status, lock) == [wb.settings EXCEPT !.status = status, !.locks = lock]

Decide(t, u, status, lock) ==
  /\ ~wb.deleted
  /\ Refusal(u) = 200
  /\ WriteSettings(t, Decided(status, lock))

-----------------------------------------------------------------------------
(* The rest of a request *)

\* Snapshots carry distinct times, so each moves the clock.
RecordAs(t, row, reason, pc) ==
  /\ clock < MaxClock
  /\ clock' = clock + 1
  /\ req' = [req EXCEPT ![t] = [op |-> @.op, pc |-> pc, was |-> @.was, new |-> @.new,
                              points |-> @.points \union Snapshot(t, row, reason)]]
  /\ UNCHANGED <<wb, hist, base, rev, seen>>

RecordBefore(t) ==
  /\ req[t] # Idle
  /\ req[t].pc = "before"
  /\ RecordAs(t, req[t].was, "before_restore", "loaded")

Record(t) ==
  /\ req[t] # Idle
  /\ req[t].pc = "loaded"
  /\ RecordAs(t, req[t].new, req[t].op, "recorded")

\* A point that was rewritten must still exist, or the flush fails and all is rolled back.
Flushable(t) ==
  \A p \in req[t].points : p.at # p.created => \E q \in hist : q.created = p.created

Adds(t) == \E p \in req[t].points : p.at = p.created

WritesContent(t) == req[t].op \in {"save", "restore"}

\* heard: the tab gets the answer (and a restore's tab reloads).
Commit(t, heard) ==
  /\ req[t] # Idle
  /\ req[t].pc = "recorded"
  /\ Flushable(t)
  /\ wb' = Flushed(t)
  /\ hist' = IF Adds(t) THEN Kept(View(t)) ELSE View(t)
  /\ rev' = IF WritesContent(t) THEN rev + 1 ELSE rev
  /\ IF WritesContent(t) /\ heard
     THEN /\ base' = [base EXCEPT ![t] = req[t].new.version]
          /\ seen' = [seen EXCEPT ![t] = rev']
     ELSE UNCHANGED <<base, seen>>
  /\ req' = [req EXCEPT ![t] = Idle]
  /\ rev' <= MaxRev
  /\ UNCHANGED <<clock>>

\* The request dies: a crash, a lost connection, an exception, a failed flush.
Abort(t) ==
  /\ req[t] # Idle
  /\ req' = [req EXCEPT ![t] = Idle]
  /\ UNCHANGED <<wb, hist, clock, base, rev, seen>>

\* Time passes beyond a session.
Pause ==
  /\ clock + Gap <= MaxClock
  /\ clock' = clock + Gap
  /\ UNCHANGED <<wb, hist, req, base, rev, seen>>

-----------------------------------------------------------------------------
(* The state after the first commit of _create: the row is there, its first point is not. *)
Init ==
  /\ wb \in [doc: Docs, ranges: Ranges, version: {1}, deleted: {FALSE},
             settings: [status: {"draft"}, by: {Nobody}, locks: {FALSE}, params: Params]]
  /\ hist = {}
  /\ \E t \in Tabs :
       req = [u \in Tabs |->
                IF u = t THEN [op |-> "created", pc |-> "loaded", was |-> wb, new |-> wb, points |-> {}]
                ELSE Idle]
  /\ clock = 0
  /\ base = [t \in Tabs |-> 0]
  /\ rev = 1
  /\ seen = [t \in Tabs |-> 0]

Next ==
  \/ \E t \in Tabs :
       \/ Fetch(t) \/ Delete(t) \/ Undelete(t) \/ SubmitForReview(t)
       \/ RecordBefore(t) \/ Record(t) \/ Abort(t)
       \/ \E heard \in BOOLEAN : Commit(t, heard)
       \/ \E d \in Docs, r \in Ranges : Save(t, d, r)
       \/ \E p \in hist : RestoreVersion(t, p)
       \/ \E p \in Patches : PatchSettings(t, p)
       \/ \E p \in Params : GitExport(t, p)
       \/ \E u \in Users, lock \in BOOLEAN : Decide(t, u, "approved", lock)
       \/ \E u \in Users : Decide(t, u, "rejected", FALSE)
  \/ Pause

Spec == Init /\ [][Next]_vars

-----------------------------------------------------------------------------
(* Properties *)

\* Every variable keeps its type; the history never outgrows MAX_HISTORY.
TypeOK ==
  /\ wb \in Row
  /\ hist \in SUBSET Point
  /\ Cardinality(hist) <= MaxHistory
  /\ \A t \in Tabs : req[t] = Idle \/ req[t] \in Request
  /\ clock \in Nat
  /\ base \in [Tabs -> Nat]
  /\ rev \in Nat
  /\ seen \in [Tabs -> Nat]

Commits(t, ops) == req[t].op \in ops /\ req[t].pc = "recorded" /\ req'[t] = Idle /\ rev' # rev

\* "Two tabs can't silently overwrite each other": a save replaces the very content its tab
\* last saw, whatever saves, restores, deletes and lost answers came before (update_workbook).
NoSilentOverwrite == [][\A t \in Tabs : Commits(t, {"save"}) => seen[t] = rev]_vars

\* A restore can itself be undone: the document it replaces is a point of the history
\* afterwards (restore_version, _snapshot).
RestoreCanBeUndone ==
  [][\A t \in Tabs : Commits(t, {"restore"}) => \E p \in hist' : p.doc = wb.doc]_vars

\* Between requests the newest point of the history is the workbook as it is (_snapshot).
HistoryIsCurrent == Quiet /\ hist # {} => Newest(hist).doc = wb.doc

\* p leaves the history only when MAX_HISTORY newer points exist.
Outlived(p, h) == Cardinality({q \in h : q.at > p.at}) >= MaxHistory

\* Between requests that do not overlap, a point of the history is final unless it is a save of
\* the running session, and leaves only when MAX_HISTORY newer points exist (_snapshot).
SavedPointsSurvive ==
  [][\A p \in hist :
       \/ \E q \in hist' : /\ q.created = p.created
                           /\ q = p \/ (p.reason = "save" /\ q.at < p.at + Gap)
       \/ Outlived(p, hist')]_vars

\* However requests overlap, only saves are ever rewritten, and only by saves: what a restore
\* left, or replaced, and the first content stay as they are until pruned (_snapshot).
OnlySavesRewritten ==
  [][\A p \in hist :
       \/ p \in hist'
       \/ p.reason = "save" /\ \E q \in hist' : q.created = p.created /\ q.reason = "save"
       \/ Outlived(p, hist')]_vars

\* A save or a restore in flight undoes neither a deletion nor a decision on the
\* certification that was committed meanwhile (update_workbook, restore_version).
ContentWritesOnlyContent ==
  [][\A t \in Tabs : Commits(t, {"save", "restore"}) =>
       wb'.deleted = wb.deleted /\ wb'.settings = wb.settings]_vars

\* Requests that do not overlap keep a versioned document, whatever the tabs do.
Document == INSTANCE VersionedDocument
  WITH Contents <- Docs \X Ranges, version <- wb.version,
       content <- <<wb.doc, wb.ranges>>, deleted <- wb.deleted
=============================================================================
