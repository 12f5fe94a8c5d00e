---------------------------- MODULE DocumentEditor ----------------------------
(***************************************************************************)
(* One open sheet or notebook and its autosave. The whole document is sent   *)
(* with the version it was read at; the server takes it only if that is      *)
(* still its version. Meanwhile the person types, results arrive, other      *)
(* people write to the document or delete it, and answers are lost.          *)
(*                                                                          *)
(* A document is what each of its items (cells, live ranges, the title)      *)
(* holds: a stamp that every change draws anew, or None.                     *)
(***************************************************************************)
EXTENDS Integers, FiniteSets

CONSTANTS Items, None,
          MaxEdits,    \* bound: changes, by anyone
          MaxOps,      \* bound: what the person asks of the editor apart from changes
          MaxCalls,    \* bound: requests that are out at once
          MaxFaults    \* bound: answers and requests lost or refused

ASSUME NoneAssumption == None \notin 0..MaxEdits
ASSUME BoundsAssumption == MaxEdits \in Nat /\ MaxCalls \in Nat

VARIABLES
  kind,      \* "sheet" or "notebook"
  server,    \* the row: its version, what it holds, whether it is in the trash
  past,      \* what the row held before: the history that can be restored
  doc,       \* modelRef and rangesRef, or cellsRef
  pending,   \* the engine's change queue holds a change (sheets)
  saveState, problem,   \* saveState, saveProblem
  version,   \* versionRef
  calls,     \* requests without an answer: what was asked, and the answer on its way
  running,   \* the items whose query is running
  deleted,   \* lastDeleted
  open,      \* the page is open
  stamp, ops, faults,
  seen,      \* history: every stamp the editor ever held
  raced      \* history: the document was read again with a save, or another reading, out

editor == <<doc, pending, saveState, problem, version, running, deleted, open, seen>>
vars == <<kind, server, past, editor, calls, stamp, ops, faults, raced>>

Stamps == 0..MaxEdits
Content == [Items -> Stamps \cup {None}]
Held(d) == {d[i] : i \in Items} \ {None}
Slots == 1..MaxCalls
Saves(k) == calls[k] # None /\ calls[k].op = "save"
SaveOut == \E k \in Slots : Saves(k)
Loads(k) == calls[k] # None /\ calls[k].op = "load"
LoadOut == \E k \in Slots : Loads(k)

Init ==
  /\ kind \in {"sheet", "notebook"}
  /\ server = [version |-> 1, doc |-> [i \in Items |-> 0], gone |-> FALSE]
  /\ past = {}
  /\ doc = server.doc /\ pending = FALSE
  /\ saveState = "saved" /\ problem = FALSE /\ version = 1
  /\ calls = [k \in Slots |-> None] /\ running = {} /\ deleted = None /\ open = TRUE
  /\ stamp = 0 /\ ops = 0 /\ faults = 0
  /\ seen = {0} /\ raced = FALSE

-----------------------------------------------------------------------------
(* Changes *)

Sticky == IF kind = "sheet" THEN {"conflict", "gone"} ELSE {"conflict"}
\* Mutated form: nothing is marked while a save is out.
MarkDirty_NotWhileSaving == saveState' = IF saveState \in Sticky \cup {"saving"} THEN saveState ELSE "dirty"

MarkDirty == saveState' = IF saveState \in Sticky THEN saveState ELSE "dirty"

\* The document changes. The sheet's grid only puts the change in the engine's queue.
Change(d, noticed) ==
  /\ doc' = d
  /\ seen' = seen \cup Held(d)
  /\ IF noticed THEN MarkDirty /\ UNCHANGED pending
     ELSE pending' = TRUE /\ UNCHANGED saveState

NewStamp == stamp < MaxEdits /\ stamp' = stamp + 1
Ask == open /\ ops < MaxOps /\ ops' = ops + 1

\* Typing in the grid, a cell or the title; adding a cell, a range.
Edit(i, noticed) ==
  /\ open /\ NewStamp
  /\ kind = "notebook" => noticed
  /\ Change([doc EXCEPT ![i] = stamp'], noticed)
  /\ UNCHANGED <<kind, server, past, problem, version, calls, running, deleted, open, ops, faults, raced>>

RemoveCell(i) ==
  /\ kind = "notebook" /\ Ask /\ doc[i] # None
  /\ Change([doc EXCEPT ![i] = None], TRUE)
  /\ deleted' = [item |-> i, was |-> doc[i]]
  /\ UNCHANGED <<kind, server, past, problem, version, calls, running, open, stamp, faults, raced>>

UndoDelete ==
  /\ Ask /\ deleted # None
  /\ Change([doc EXCEPT ![deleted.item] = deleted.was], TRUE)
  /\ deleted' = None
  /\ UNCHANGED <<kind, server, past, problem, version, calls, running, open, stamp, faults, raced>>

UnlinkRange(i) ==
  /\ kind = "sheet" /\ Ask /\ doc[i] # None
  /\ Change([doc EXCEPT ![i] = None], TRUE)
  /\ UNCHANGED <<kind, server, past, problem, version, calls, running, deleted, open, stamp, faults, raced>>

\* A cell is run, or a range is refreshed: what it held when the query was sent does not matter.
AskRun(i) ==
  /\ Ask /\ doc[i] # None /\ i \notin running
  /\ running' = running \cup {i}
  /\ UNCHANGED <<kind, server, past, doc, pending, saveState, problem, version, calls, deleted, open, stamp, faults, seen, raced>>

Ran(i) ==
  /\ open /\ i \in running
  /\ running' = running \ {i}
  /\ UNCHANGED <<kind, server, past, problem, version, calls, deleted, open, ops, faults, raced>>

\* The result, or the error, goes to the cell of that id, if there still is one.
RunCell(i) ==
  /\ kind = "notebook" /\ Ran(i)
  /\ IF doc[i] = None THEN Change(doc, TRUE) /\ UNCHANGED stamp
     ELSE NewStamp /\ Change([doc EXCEPT ![i] = stamp'], TRUE)

\* The rows are written, and the range is brought up to date if it is still listed; a query that
\* fails changes nothing.
RefreshRange(i) ==
  /\ kind = "sheet" /\ Ran(i)
  /\ \/ doc[i] # None /\ NewStamp /\ Change([doc EXCEPT ![i] = stamp'], TRUE)
     \/ doc[i] = None /\ Change(doc, TRUE) /\ UNCHANGED stamp
     \/ UNCHANGED <<doc, pending, saveState, seen, stamp>>

\* The poll of the engine's queue.
Drain ==
  /\ open /\ pending
  /\ pending' = FALSE /\ MarkDirty
  /\ UNCHANGED <<kind, server, past, doc, problem, version, calls, running, deleted, open, stamp, ops, faults, seen, raced>>

-----------------------------------------------------------------------------
(* Saving *)

\* The row takes a document: one version on, and what it held is in the history.
Stored(d) ==
  /\ server' = [version |-> server.version + 1, doc |-> d, gone |-> FALSE]
  /\ past' = past \cup {server.doc}

Send(c) == \E k \in Slots : calls[k] = None /\ (\A j \in Slots : j < k => calls[j] # None) /\ calls' = [calls EXCEPT ![k] = c]

SaveNow ==
  /\ open
  /\ saveState' = "saving"
  /\ Send([op |-> "save", doc |-> doc, version |-> version, answer |-> None])
  /\ raced' = (raced \/ LoadOut)
  /\ UNCHANGED <<kind, server, past, doc, pending, problem, version, running, deleted, open, stamp, faults, seen>>

AutoSave == saveState = "dirty" /\ SaveNow /\ UNCHANGED ops
Retry == saveState = "error" /\ ~problem /\ SaveNow /\ UNCHANGED ops
\* Ctrl+S in a notebook, whatever is already on its way.
SaveKey == kind = "notebook" /\ Ask /\ SaveNow
\* Before a sheet is exported or made a data source.
ExportXlsx == kind = "sheet" /\ Ask /\ saveState \in {"dirty", "saving"} /\ SaveNow

\* Mutated form: an answer always means saved.
SaveOk_Always(v) == version' = v /\ problem' = FALSE /\ saveState' = "saved"

SaveOk(v) ==
  /\ version' = v /\ problem' = FALSE
  /\ saveState' = IF saveState = "saving" THEN "saved" ELSE saveState

\* Mutated form: a refused save takes over the server's version and tries again.
SaveFails_Adopts(why) ==
  /\ problem' = (why = 400)
  /\ IF why = 409 THEN version' = server.version /\ saveState' = "dirty"
     ELSE UNCHANGED version /\ saveState' = "error"

\* Mutated form: a deleted notebook is told apart too.
SaveFails_Gone(why) ==
  /\ problem' = (why \in {409, 404, 400})
  /\ saveState' = IF why = 409 THEN "conflict" ELSE IF why = 404 THEN "gone" ELSE "error"
  /\ UNCHANGED version

SaveFails(why) ==
  /\ problem' = (why \in {409, 404, 400})
  /\ saveState' = IF why = 409 THEN "conflict" ELSE IF why = 404 /\ kind = "sheet" THEN "gone" ELSE "error"
  /\ UNCHANGED version

SaveAnswer(k) ==
  /\ Saves(k) /\ calls[k].answer # None
  /\ IF open
     THEN IF calls[k].answer.ok THEN SaveOk(calls[k].answer.version) ELSE SaveFails(calls[k].answer.status)
     ELSE UNCHANGED <<version, problem, saveState>>
  /\ calls' = [calls EXCEPT ![k] = None]
  /\ UNCHANGED <<kind, server, past, doc, pending, running, deleted, open, stamp, ops, faults, seen, raced>>

\* The answer of a share, which carries the version and no document.
SetVisibility ==
  /\ Ask
  /\ Send([op |-> "share", version |-> version, answer |-> None])
  /\ UNCHANGED <<kind, server, past, editor, stamp, faults, raced>>

ShareAnswer(k) ==
  /\ calls[k] # None /\ calls[k].op = "share" /\ calls[k].answer # None
  /\ version' = IF calls[k].answer.ok THEN calls[k].answer.version ELSE version
  /\ calls' = [calls EXCEPT ![k] = None]
  /\ UNCHANGED <<kind, server, past, doc, pending, saveState, problem, running, deleted, open, stamp, ops, faults, seen, raced>>

-----------------------------------------------------------------------------
(* Reading again *)

Load ==
  /\ Send([op |-> "load", answer |-> None])
  /\ raced' = (raced \/ SaveOut \/ LoadOut)

\* "Reload" of the conflict notice.
Reload ==
  /\ Ask /\ saveState = "conflict"
  /\ Load
  /\ UNCHANGED <<kind, server, past, editor, stamp, faults>>

\* A version of the history becomes the document, which is then read again.
RestoreVersion(d) ==
  /\ Ask /\ d \in past /\ ~server.gone
  /\ Stored(d)
  /\ Load
  /\ UNCHANGED <<kind, editor, stamp, faults>>

LoadAnswer(k) ==
  /\ Loads(k) /\ calls[k].answer # None
  /\ IF open /\ calls[k].answer.ok
     THEN /\ doc' = calls[k].answer.doc /\ version' = calls[k].answer.version
          /\ seen' = seen \cup Held(doc')
          /\ pending' = FALSE /\ saveState' = "saved"
     ELSE UNCHANGED <<doc, version, seen, pending, saveState>>
  /\ calls' = [calls EXCEPT ![k] = None]
  /\ UNCHANGED <<kind, server, past, problem, running, deleted, open, stamp, ops, faults, raced>>

\* Put back from the trash, then saved like any change. The other way out is a new sheet.
RestoreDeleted ==
  /\ Ask /\ saveState = "gone"
  /\ server' = [server EXCEPT !.gone = FALSE]
  /\ saveState' = "dirty"
  /\ UNCHANGED <<kind, past, doc, pending, problem, version, calls, running, deleted, open, stamp, faults, seen, raced>>

\* The page is closed, after a question or without one.
Leave ==
  /\ Ask
  /\ open' = FALSE /\ running' = {} /\ deleted' = None
  /\ UNCHANGED <<kind, server, past, doc, pending, saveState, problem, version, calls, stamp, faults, seen, raced>>

-----------------------------------------------------------------------------
(* The server, the network, and other people, for as long as the page is open *)

Ok == [ok |-> TRUE, version |-> server'.version]
Refused(status) == [ok |-> FALSE, status |-> status]

Reply(k, a) == calls' = [calls EXCEPT ![k].answer = a]

Handle(k) ==
  /\ calls[k] # None /\ calls[k].answer = None
  /\ LET c == calls[k]
     IN \/ server.gone /\ Reply(k, Refused(404)) /\ UNCHANGED <<server, past>>
        \/ /\ ~server.gone /\ c.op = "load"
           /\ Reply(k, [ok |-> TRUE, version |-> server.version, doc |-> server.doc]) /\ UNCHANGED <<server, past>>
        \/ /\ ~server.gone /\ c.op # "load" /\ c.version # server.version
           /\ Reply(k, Refused(409)) /\ UNCHANGED <<server, past>>
        \/ /\ ~server.gone /\ c.op = "share" /\ c.version = server.version
           /\ server' = [server EXCEPT !.version = @ + 1]
           /\ Reply(k, Ok) /\ UNCHANGED past
        \/ /\ ~server.gone /\ c.op = "save" /\ c.version = server.version
           /\ Stored(c.doc) /\ Reply(k, Ok)
  /\ UNCHANGED <<kind, editor, stamp, ops, faults, raced>>

Fault == faults < MaxFaults /\ faults' = faults + 1

\* The request or its answer is lost (no status, or 5xx), or the document is refused (4xx).
NetworkFails(k) ==
  /\ open /\ Fault
  /\ calls[k] # None
  /\ \E s \in {0} \cup (IF calls[k].answer = None THEN {400} ELSE {}) :
       Reply(k, Refused(s))
  /\ UNCHANGED <<kind, server, past, editor, stamp, ops, raced>>

OtherSaves(i) ==
  /\ open /\ ~server.gone /\ NewStamp
  /\ Stored([server.doc EXCEPT ![i] = stamp'])
  /\ UNCHANGED <<kind, editor, calls, ops, faults, raced>>

OtherDeletes ==
  /\ open /\ Fault /\ ~server.gone
  /\ server' = [server EXCEPT !.gone = TRUE]
  /\ UNCHANGED <<kind, past, editor, calls, stamp, ops, raced>>

-----------------------------------------------------------------------------
Answer(k) == SaveAnswer(k) \/ ShareAnswer(k) \/ LoadAnswer(k)

Next ==
  \/ \E i \in Items : Edit(i, TRUE) \/ Edit(i, FALSE) \/ OtherSaves(i)
  \/ \E i \in Items : RemoveCell(i) \/ UnlinkRange(i) \/ AskRun(i) \/ RunCell(i) \/ RefreshRange(i)
  \/ UndoDelete \/ Drain \/ AutoSave \/ Retry \/ SaveKey \/ ExportXlsx \/ SetVisibility
  \/ Reload \/ (\E d \in past : RestoreVersion(d)) \/ RestoreDeleted \/ Leave
  \/ OtherDeletes
  \/ \E k \in Slots : Handle(k) \/ NetworkFails(k) \/ Answer(k)

\* Timers fire, the server answers, and answers are received; nobody has to type or click.
Fairness ==
  /\ WF_vars(Drain) /\ WF_vars(AutoSave) /\ WF_vars(Retry)
  /\ \A k \in Slots : WF_vars(Handle(k)) /\ WF_vars(Answer(k))

Spec == Init /\ [][Next]_vars /\ Fairness

-----------------------------------------------------------------------------
(* Properties *)

Fails == [ok : {FALSE}, status : Nat]
Writes == {None} \cup [ok : {TRUE}, version : Nat] \cup Fails
Reads == {None} \cup [ok : {TRUE}, version : Nat, doc : Content] \cup Fails
SaveCall == [op : {"save"}, doc : Content, version : Nat, answer : Writes]
ShareCall == [op : {"share"}, version : Nat, answer : Writes]
LoadCall == [op : {"load"}, answer : Reads]
Call == SaveCall \cup ShareCall \cup LoadCall

ASSUME RequestAssumption == None \notin Call

\* The states of the editor and the shape of what it sends.
TypeOK ==
  /\ kind \in {"sheet", "notebook"}
  /\ server \in [version : Nat, doc : Content, gone : BOOLEAN]
  /\ past \subseteq Content /\ doc \in Content
  /\ pending \in BOOLEAN /\ problem \in BOOLEAN /\ open \in BOOLEAN
  /\ saveState \in {"saved", "dirty", "saving", "conflict", "gone", "error"}
  /\ saveState = "gone" => kind = "sheet"
  /\ version \in Nat /\ calls \in [Slots -> {None} \cup Call]
  /\ running \subseteq Items /\ deleted \in {None} \cup [item : Items, was : Stamps]
  /\ stamp \in Stamps /\ seen \subseteq Stamps

\* A save never replaces what this editor has not shown: somebody else's change is refused over,
\* not written over, in whatever order requests are handled and answers arrive.
NoSilentOverwrite ==
  [][\A k \in Slots : Saves(k) /\ calls'[k] # None /\ calls'[k] # calls[k] /\ server'.doc # server.doc
       => Held(server.doc) \subseteq seen]_vars

\* "Saved", with nothing on its way, is true: the server holds what is on screen, or a later version
\* that the next save will be refused for; as long as no reading of the document overlapped a save or
\* another reading (saveNow, load).
SavedMeansSaved ==
  open /\ saveState = "saved" /\ ~pending /\ ~SaveOut /\ ~raced
    => doc = server.doc \/ version # server.version

\* Every change ends up saved, unless the editor says that it is not: nothing stays unsaved because
\* an answer was lost, or because it was typed while a save was out.
EditsSettle ==
  <>[](\/ ~open \/ saveState \in {"conflict", "gone"} \/ (saveState = "error" /\ problem)
       \/ (saveState = "saved" /\ ~pending /\ ~SaveOut
             /\ (doc = server.doc \/ version # server.version \/ server.gone \/ raced)))

\* The server as the editor sees it: a versioned document.
Document == INSTANCE VersionedDocument
  WITH Contents <- Content, version <- server.version, content <- server.doc, deleted <- server.gone
=============================================================================
