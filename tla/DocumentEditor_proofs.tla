------------------------- MODULE DocumentEditor_proofs -------------------------
(***************************************************************************)
(* Theorems about DocumentEditor, for any items and any bounds: the types,   *)
(* that no save replaces what the editor has not shown, and that what it     *)
(* calls saved is what the server holds, and that it asks of the server no   *)
(* more than a versioned document (VersionedDocument).                       *)
(***************************************************************************)
EXTENDS DocumentEditor, TLAPS

-----------------------------------------------------------------------------
(* The types *)

\* Putting one stamp, or None, into a document gives a document.
LEMMA PutType ==
  ASSUME NEW d \in Content, NEW i \in Items, NEW s \in Stamps \cup {None}
  PROVE  [d EXCEPT ![i] = s] \in Content
BY DEF Content

\* What a document holds are stamps.
LEMMA HeldType ==
  ASSUME NEW d \in Content
  PROVE  Held(d) \subseteq Stamps
BY DEF Held, Content

\* A new stamp is a stamp.
LEMMA NewStampType ==
  ASSUME TypeOK, NewStamp
  PROVE  stamp' \in Stamps
BY BoundsAssumption DEF TypeOK, NewStamp, Stamps

\* A change keeps the types of what it writes.
LEMMA ChangeType ==
  ASSUME TypeOK, NEW d \in Content, NEW noticed \in BOOLEAN, Change(d, noticed)
  PROVE  /\ doc' \in Content /\ seen' \subseteq Stamps /\ pending' \in BOOLEAN
         /\ saveState' \in {"saved", "dirty", "saving", "conflict", "gone", "error"}
         /\ saveState' = "gone" => kind = "sheet"
BY HeldType DEF Change, MarkDirty, TypeOK, Sticky

\* A request that is sent is one of the three kinds.
LEMMA SendType ==
  ASSUME TypeOK, NEW c \in Call, Send(c)
  PROVE  calls' \in [Slots -> {None} \cup Call]
BY DEF TypeOK, Send

\* A slot may always be emptied.
LEMMA EmptyType ==
  ASSUME TypeOK, NEW k \in Slots
  PROVE  [calls EXCEPT ![k] = None] \in [Slots -> {None} \cup Call]
BY DEF TypeOK

\* An answer to a save or a share, and to a load, fits the request it answers.
LEMMA WriteAnswerType ==
  ASSUME NEW c \in SaveCall \cup ShareCall, NEW a \in Writes
  PROVE  [c EXCEPT !.answer = a] \in Call
BY DEF SaveCall, ShareCall, Call

LEMMA ReadAnswerType ==
  ASSUME NEW c \in LoadCall, NEW a \in Reads
  PROVE  [c EXCEPT !.answer = a] \in Call
BY DEF LoadCall, Call

\* What is stored is a document.
LEMMA StoredType ==
  ASSUME TypeOK, NEW d \in Content, Stored(d)
  PROVE  /\ server' \in [version : Nat, doc : Content, gone : BOOLEAN] /\ server'.version \in Nat
         /\ past' \subseteq Content
BY DEF TypeOK, Stored

\* A refusal is an answer to anything.
LEMMA RefusedType ==
  ASSUME NEW s \in Nat
  PROVE  Refused(s) \in Writes /\ Refused(s) \in Reads
BY DEF Refused, Fails, Writes, Reads

\* A request keeps its kind when it is answered.
LEMMA ReplyType ==
  ASSUME TypeOK, NEW k \in Slots, calls[k] # None, NEW a, Reply(k, a),
         calls[k].op # "load" => a \in Writes, calls[k].op = "load" => a \in Reads
  PROVE  calls' \in [Slots -> {None} \cup Call]
<1>1. CASE calls[k].op # "load"
  <2>1. calls[k] \in SaveCall \cup ShareCall
    BY <1>1 DEF TypeOK, Call, LoadCall
  <2>2. [calls[k] EXCEPT !.answer = a] \in Call
    BY <1>1, <2>1, WriteAnswerType
  <2> QED
    BY <2>2 DEF TypeOK, Reply
<1>2. CASE calls[k].op = "load"
  <2>1. calls[k] \in LoadCall
    BY <1>2 DEF TypeOK, Call, SaveCall, ShareCall
  <2>2. [calls[k] EXCEPT !.answer = a] \in Call
    BY <1>2, <2>1, ReadAnswerType
  <2> QED
    BY <2>2 DEF TypeOK, Reply
<1> QED
  BY <1>1, <1>2

LEMMA InitType == Init => TypeOK
<1> SUFFICES ASSUME Init PROVE TypeOK
  OBVIOUS
<1>1. 0 \in Stamps
  BY BoundsAssumption DEF Stamps
<1>2. [i \in Items |-> 0] \in Content
  BY <1>1 DEF Content
<1> QED
  BY <1>1, <1>2 DEF Init, TypeOK

\* The whole of the types is kept by a step that keeps those of the variables it writes.
LEMMA ChangesOfThePerson ==
  ASSUME TypeOK, NEW i \in Items,
         \/ \E noticed \in BOOLEAN : Edit(i, noticed)
         \/ RemoveCell(i) \/ UndoDelete \/ UnlinkRange(i) \/ AskRun(i) \/ RunCell(i) \/ RefreshRange(i)
  PROVE  TypeOK'
<1>0. doc \in Content /\ doc[i] \in Stamps \cup {None}
  BY DEF TypeOK, Content
<1>1. ASSUME NEW noticed \in BOOLEAN, Edit(i, noticed) PROVE TypeOK'
  <2>1. stamp' \in Stamps /\ [doc EXCEPT ![i] = stamp'] \in Content
    BY <1>0, <1>1, NewStampType, PutType DEF Edit
  <2> QED
    BY <1>1, <2>1, ChangeType DEF Edit, TypeOK
<1>2. ASSUME RemoveCell(i) PROVE TypeOK'
  <2>1. [doc EXCEPT ![i] = None] \in Content
    BY <1>0, PutType
  <2>2. deleted' \in [item : Items, was : Stamps]
    BY <1>0, <1>2 DEF RemoveCell
  <2> QED
    BY <1>2, <2>1, <2>2, ChangeType DEF RemoveCell, Ask, TypeOK
<1>3. ASSUME UndoDelete PROVE TypeOK'
  <2>1. deleted.item \in Items /\ deleted.was \in Stamps
    BY <1>3 DEF UndoDelete, TypeOK
  <2>2. [doc EXCEPT ![deleted.item] = deleted.was] \in Content
    BY <1>0, <2>1, PutType
  <2> QED
    BY <1>3, <2>2, ChangeType DEF UndoDelete, Ask, TypeOK
<1>4. ASSUME UnlinkRange(i) PROVE TypeOK'
  <2>1. [doc EXCEPT ![i] = None] \in Content
    BY <1>0, PutType
  <2> QED
    BY <1>4, <2>1, ChangeType DEF UnlinkRange, Ask, TypeOK
<1>5. ASSUME AskRun(i) PROVE TypeOK'
  BY <1>5 DEF AskRun, Ask, TypeOK
<1>6. ASSUME Ran(i), NewStamp, Change([doc EXCEPT ![i] = stamp'], TRUE) PROVE TypeOK'
  <2>1. stamp' \in Stamps /\ [doc EXCEPT ![i] = stamp'] \in Content
    BY <1>0, <1>6, NewStampType, PutType
  <2> QED
    BY <1>6, <2>1, ChangeType DEF Ran, TypeOK
<1>7. ASSUME Ran(i), Change(doc, TRUE), UNCHANGED stamp PROVE TypeOK'
  BY <1>0, <1>7, ChangeType DEF Ran, TypeOK
<1>8. ASSUME Ran(i), UNCHANGED <<doc, pending, saveState, seen, stamp>> PROVE TypeOK'
  BY <1>8 DEF Ran, TypeOK
<1> QED
  BY <1>1, <1>2, <1>3, <1>4, <1>5, <1>6, <1>7, <1>8 DEF RunCell, RefreshRange

\* Requests and their answers keep the types.
LEMMA RequestsOfTheEditor ==
  ASSUME TypeOK,
         \/ Drain \/ AutoSave \/ Retry \/ SaveKey \/ ExportXlsx \/ SetVisibility \/ Reload
         \/ \E d \in past : RestoreVersion(d)
         \/ RestoreDeleted \/ Leave
         \/ \E k \in Slots : Answer(k)
  PROVE  TypeOK'
<1>1. CASE Drain
  BY <1>1 DEF Drain, MarkDirty, Sticky, TypeOK
<1>2. ASSUME SaveNow PROVE TypeOK'
  <2>1. [op |-> "save", doc |-> doc, version |-> version, answer |-> None] \in Call
    BY DEF TypeOK, Call, SaveCall, Writes
  <2> QED
    BY <1>2, <2>1, SendType DEF SaveNow, TypeOK
<1>3. CASE SetVisibility
  <2>1. [op |-> "share", version |-> version, answer |-> None] \in Call
    BY DEF TypeOK, Call, ShareCall, Writes
  <2> QED
    BY <1>3, <2>1, SendType DEF SetVisibility, Ask, editor, TypeOK
<1>4. [op |-> "load", answer |-> None] \in Call
  BY DEF Call, LoadCall, Reads
<1>5. CASE Reload
  BY <1>4, <1>5, SendType DEF Reload, Load, Ask, editor, TypeOK
<1>6. ASSUME NEW d \in past, RestoreVersion(d) PROVE TypeOK'
  <2>1. d \in Content
    BY DEF TypeOK
  <2>2. server' \in [version : Nat, doc : Content, gone : BOOLEAN] /\ past' \subseteq Content
    BY <1>6, <2>1, StoredType DEF RestoreVersion
  <2> QED
    BY <1>4, <1>6, <2>2, SendType DEF RestoreVersion, Load, Ask, editor, TypeOK
<1>7. CASE RestoreDeleted
  BY <1>7 DEF RestoreDeleted, Ask, TypeOK
<1>8. CASE Leave
  BY <1>8 DEF Leave, Ask, TypeOK
<1>9. ASSUME NEW k \in Slots, Answer(k) PROVE TypeOK'
  <2>0. calls' \in [Slots -> {None} \cup Call]
    BY <1>9, EmptyType DEF Answer, SaveAnswer, ShareAnswer, LoadAnswer
  <2>1. CASE SaveAnswer(k)
    <3>1. calls[k].answer \in Writes
      BY <2>1 DEF SaveAnswer, Saves, TypeOK, Call, SaveCall, ShareCall, LoadCall
    <3>2. calls[k].answer.ok => calls[k].answer.version \in Nat
      BY <2>1, <3>1 DEF SaveAnswer, Writes, Fails
    <3>3. CASE open /\ calls[k].answer.ok
      BY <2>0, <2>1, <3>2, <3>3 DEF SaveAnswer, SaveOk, TypeOK
    <3>4. CASE open /\ ~calls[k].answer.ok
      BY <2>0, <2>1, <3>4 DEF SaveAnswer, SaveFails, TypeOK
    <3>5. CASE ~open
      BY <2>0, <2>1, <3>5 DEF SaveAnswer, TypeOK
    <3> QED
      BY <3>3, <3>4, <3>5
  <2>2. CASE ShareAnswer(k)
    <3>1. calls[k].answer \in Writes
      BY <2>2 DEF ShareAnswer, TypeOK, Call, SaveCall, ShareCall, LoadCall
    <3>2. calls[k].answer.ok => calls[k].answer.version \in Nat
      BY <2>2, <3>1 DEF ShareAnswer, Writes, Fails
    <3> QED
      BY <2>0, <2>2, <3>2 DEF ShareAnswer, TypeOK
  <2>3. CASE LoadAnswer(k)
    <3>1. calls[k].answer \in Reads
      BY <2>3 DEF LoadAnswer, Loads, TypeOK, Call, SaveCall, ShareCall, LoadCall
    <3>2. calls[k].answer.ok => calls[k].answer.version \in Nat /\ calls[k].answer.doc \in Content
      BY <2>3, <3>1 DEF LoadAnswer, Reads, Fails
    <3> QED
      BY <2>0, <2>3, <3>2, HeldType DEF LoadAnswer, TypeOK
  <2> QED
    BY <1>9, <2>1, <2>2, <2>3 DEF Answer
<1> QED
  BY <1>1, <1>2, <1>3, <1>5, <1>6, <1>7, <1>8, <1>9 DEF AutoSave, Retry, SaveKey, ExportXlsx, Ask

\* The server, the network and other people keep the types.
LEMMA StepsOfTheOthers ==
  ASSUME TypeOK,
         \/ \E i \in Items : OtherSaves(i)
         \/ OtherDeletes
         \/ \E k \in Slots : Handle(k) \/ NetworkFails(k)
  PROVE  TypeOK'
<1>1. ASSUME NEW i \in Items, OtherSaves(i) PROVE TypeOK'
  <2>1. stamp' \in Stamps
    BY <1>1, NewStampType DEF OtherSaves
  <2>2. [server.doc EXCEPT ![i] = stamp'] \in Content
    BY <2>1, PutType DEF TypeOK
  <2>3. server' \in [version : Nat, doc : Content, gone : BOOLEAN] /\ past' \subseteq Content
    BY <1>1, <2>2, StoredType DEF OtherSaves
  <2> QED
    BY <1>1, <2>1, <2>3 DEF OtherSaves, editor, TypeOK
<1>2. CASE OtherDeletes
  BY <1>2 DEF OtherDeletes, editor, TypeOK
<1>3. ASSUME NEW k \in Slots, Handle(k) PROVE TypeOK'
  <2>1. CASE server.gone /\ Reply(k, Refused(404)) /\ UNCHANGED <<server, past>>
    <3>1. Refused(404) \in Writes /\ Refused(404) \in Reads
      BY RefusedType
    <3>2. calls' \in [Slots -> {None} \cup Call]
      BY <1>3, ReplyType, <2>1, <3>1 DEF Handle
    <3> QED
      BY <1>3, <2>1, <3>2 DEF Handle, editor, TypeOK
  <2>2. CASE /\ calls[k].op = "load" /\ UNCHANGED <<server, past>>
             /\ Reply(k, [ok |-> TRUE, version |-> server.version, doc |-> server.doc])
    <3>1. [ok |-> TRUE, version |-> server.version, doc |-> server.doc] \in Reads
      BY DEF Reads, TypeOK
    <3>2. calls' \in [Slots -> {None} \cup Call]
      BY <1>3, ReplyType, <2>2, <3>1 DEF Handle
    <3> QED
      BY <1>3, <2>2, <3>2 DEF Handle, editor, TypeOK
  <2>3. CASE /\ calls[k].op # "load" /\ UNCHANGED <<server, past>>
             /\ Reply(k, Refused(409))
    <3>1. Refused(409) \in Writes
      BY RefusedType
    <3>2. calls' \in [Slots -> {None} \cup Call]
      BY <1>3, ReplyType, <2>3, <3>1 DEF Handle
    <3> QED
      BY <1>3, <2>3, <3>2 DEF Handle, editor, TypeOK
  <2>4. CASE /\ calls[k].op = "share" /\ server' = [server EXCEPT !.version = @ + 1]
             /\ Reply(k, Ok) /\ UNCHANGED past
    <3>1. server' \in [version : Nat, doc : Content, gone : BOOLEAN] /\ server'.version \in Nat
      BY <2>4 DEF TypeOK
    <3>2. Ok \in Writes
      BY <3>1 DEF Ok, Writes
    <3>3. calls' \in [Slots -> {None} \cup Call]
      BY <1>3, ReplyType, <2>4, <3>2 DEF Handle
    <3> QED
      BY <1>3, <2>4, <3>1, <3>3 DEF Handle, editor, TypeOK
  <2>5. CASE /\ calls[k].op = "save" /\ Stored(calls[k].doc)
             /\ Reply(k, Ok)
    <3>0. calls[k].doc \in Content
      BY <1>3, <2>5 DEF Handle, TypeOK, Call, SaveCall, ShareCall, LoadCall
    <3>1. /\ server' \in [version : Nat, doc : Content, gone : BOOLEAN] /\ server'.version \in Nat
          /\ past' \subseteq Content
      BY <2>5, <3>0, StoredType
    <3>2. Ok \in Writes
      BY <3>1 DEF Ok, Writes
    <3>3. calls' \in [Slots -> {None} \cup Call]
      BY <1>3, ReplyType, <2>5, <3>2 DEF Handle
    <3> QED
      BY <1>3, <3>1, <3>3 DEF Handle, editor, TypeOK
  <2> QED
    BY <1>3, <2>1, <2>2, <2>3, <2>4, <2>5 DEF Handle
<1>4. ASSUME NEW k \in Slots, NetworkFails(k) PROVE TypeOK'
  <2>1. PICK s \in {0, 400} : Reply(k, Refused(s))
    BY <1>4 DEF NetworkFails
  <2>2. Refused(s) \in Writes /\ Refused(s) \in Reads
    BY RefusedType
  <2>3. calls[k] # None
    BY <1>4 DEF NetworkFails
  <2>4. calls' \in [Slots -> {None} \cup Call]
    BY <2>1, <2>2, <2>3, ReplyType
  <2> QED
    BY <1>4, <2>4 DEF NetworkFails, editor, TypeOK
<1> QED
  BY <1>1, <1>2, <1>3, <1>4

LEMMA NextType == TypeOK /\ [Next]_vars => TypeOK'
<1> SUFFICES ASSUME TypeOK, [Next]_vars PROVE TypeOK'
  OBVIOUS
<1>1. CASE \/ \E i \in Items : Edit(i, TRUE) \/ Edit(i, FALSE)
           \/ \E i \in Items : RemoveCell(i) \/ UnlinkRange(i) \/ AskRun(i) \/ RunCell(i) \/ RefreshRange(i)
  BY <1>1, ChangesOfThePerson
<1>2. CASE UndoDelete
  <2>1. deleted.item \in Items
    BY <1>2 DEF UndoDelete, TypeOK
  <2> QED
    BY <1>2, <2>1, ChangesOfThePerson
<1>3. CASE \/ Drain \/ AutoSave \/ Retry \/ SaveKey \/ ExportXlsx \/ SetVisibility \/ Reload
           \/ \E d \in past : RestoreVersion(d)
           \/ RestoreDeleted \/ Leave
           \/ \E k \in Slots : Answer(k)
  BY <1>3, RequestsOfTheEditor
<1>4. CASE \/ \E i \in Items : OtherSaves(i)
           \/ OtherDeletes
           \/ \E k \in Slots : Handle(k) \/ NetworkFails(k)
  BY <1>4, StepsOfTheOthers
<1>5. CASE UNCHANGED vars
  BY <1>5 DEF vars, editor, TypeOK
<1> QED
  BY <1>1, <1>2, <1>3, <1>4, <1>5 DEF Next

\* Every variable of the editor keeps its type, whatever is typed, lost, refused or overtaken.
THEOREM TypeCorrect == Spec => []TypeOK
<1>1. Init => TypeOK
  BY InitType
<1>2. TypeOK /\ [Next]_vars => TypeOK'
  BY NextType
<1> QED
  BY <1>1, <1>2, PTL DEF Spec
-----------------------------------------------------------------------------
(* No save replaces what the editor has not shown *)

\* A version that the editor has is a promise about the row: as long as the row is still at it, the
\* editor has shown all that the row holds.
Knows(v, row, shown) == v <= row.version /\ (v = row.version => Held(row.doc) \subseteq shown)

\* What was read is the row, as long as the row is still at that version.
Read(v, d, row) == v <= row.version /\ (v = row.version => d = row.doc)

\* The same of what is on its way: the version a request carries, the one an answer brings, and the
\* document that is read.
KnownCall(c, row, shown) ==
  /\ c.op \in {"save", "share"} => Knows(c.version, row, shown)
  /\ c.op = "save" => Held(c.doc) \subseteq shown
  /\ c.op \in {"save", "share"} /\ c.answer # None /\ c.answer.ok => Knows(c.answer.version, row, shown)
  /\ c.op = "load" /\ c.answer # None /\ c.answer.ok => Read(c.answer.version, c.answer.doc, row)

KnownCalls == \A k \in Slots : calls[k] # None => KnownCall(calls[k], server, seen)

IInv == TypeOK /\ Held(doc) \subseteq seen /\ Knows(version, server, seen) /\ KnownCalls

Row == [version : Nat, doc : Content, gone : BOOLEAN]

\* A row that is not written, or is written once.
Follows(row, next) ==
  \/ next.version = row.version /\ next.doc = row.doc
  \/ next.version = row.version + 1

\* What the editor knows lasts: it only sees more, and a row that is written moves past it.
LEMMA KnowledgeLasts ==
  ASSUME NEW row \in Row, NEW next \in Row, Follows(row, next), NEW shown, NEW more, shown \subseteq more
  PROVE  /\ \A v \in Nat : Knows(v, row, shown) => Knows(v, next, more)
         /\ \A c \in Call : KnownCall(c, row, shown) => KnownCall(c, next, more)
<1>0. row.version \in Nat
  BY DEF Row
<1>1. ASSUME NEW v \in Nat, Knows(v, row, shown) PROVE Knows(v, next, more)
  BY <1>0, <1>1 DEF Knows, Follows
<1>2. ASSUME NEW v \in Nat, NEW d, Read(v, d, row) PROVE Read(v, d, next)
  BY <1>0, <1>2 DEF Read, Follows
<1>3. ASSUME NEW c \in Call, KnownCall(c, row, shown) PROVE KnownCall(c, next, more)
  <2>1. c.op \in {"save", "share"} => c.version \in Nat /\ (c.answer # None /\ c.answer.ok => c.answer.version \in Nat)
    BY DEF Call, SaveCall, ShareCall, LoadCall, Writes, Fails
  <2>2. c.op = "load" /\ c.answer # None /\ c.answer.ok => c.answer.version \in Nat
    BY DEF Call, SaveCall, ShareCall, LoadCall, Reads, Fails
  <2> QED
    BY <1>1, <1>2, <1>3, <2>1, <2>2 DEF KnownCall
<1> QED
  BY <1>1, <1>3

\* After a change the editor has shown what it shows.
LEMMA ChangeIsSeen ==
  ASSUME NEW d, NEW noticed \in BOOLEAN, Change(d, noticed)
  PROVE  seen \subseteq seen' /\ Held(doc') \subseteq seen'
BY DEF Change

\* A step that writes at most one slot keeps the invariant, if the editor has shown what it shows
\* afterwards, and knows the version it then has and the request that is then in the slot.
LEMMA OneSlot ==
  ASSUME IInv, TypeOK', seen \subseteq seen', Held(doc') \subseteq seen', Follows(server, server'),
         version' = version \/ Knows(version', server', seen'),
         NEW k \in Slots, \A j \in Slots \ {k} : calls'[j] = calls[j],
         calls'[k] \in {calls[k], None} \/ KnownCall(calls'[k], server', seen')
  PROVE  IInv'
<1>0. server \in Row /\ server' \in Row /\ version \in Nat
  BY DEF IInv, TypeOK, Row
<1>1. Knows(version', server', seen')
  BY <1>0, KnowledgeLasts DEF IInv
<1>2. ASSUME NEW j \in Slots, calls'[j] = calls[j], calls[j] # None PROVE KnownCall(calls'[j], server', seen')
  <2>1. calls[j] \in Call /\ KnownCall(calls[j], server, seen)
    BY <1>2 DEF IInv, TypeOK, KnownCalls
  <2> QED
    BY <1>0, <1>2, <2>1, KnowledgeLasts
<1>3. KnownCalls'
  BY <1>2 DEF KnownCalls
<1> QED
  BY <1>1, <1>3 DEF IInv

\* A step that sends nothing and hears nothing, in particular.
LEMMA NoSlot ==
  ASSUME IInv, TypeOK', seen \subseteq seen', Held(doc') \subseteq seen', Follows(server, server'),
         UNCHANGED <<version, calls>>
  PROVE  IInv'
<1>0. server \in Row /\ server' \in Row /\ version \in Nat
  BY DEF IInv, TypeOK, Row
<1>1. Knows(version', server', seen')
  BY <1>0, KnowledgeLasts DEF IInv
<1>2. ASSUME NEW j \in Slots, calls[j] # None PROVE KnownCall(calls[j], server', seen')
  BY <1>0, <1>2, KnowledgeLasts DEF IInv, TypeOK, KnownCalls
<1> QED
  BY <1>1, <1>2 DEF IInv, KnownCalls

\* A request that is sent carries what the editor has.
LEMMA SendStep ==
  ASSUME IInv, TypeOK', NEW c \in Call, Send(c), c.answer = None,
         c.op \in {"save", "share"} => c.version = version,
         c.op = "save" => c.doc = doc,
         Follows(server, server'), UNCHANGED <<doc, seen, version>>
  PROVE  IInv'
<1>0. server \in Row /\ server' \in Row
  BY DEF IInv, TypeOK, Row
<1>1. KnownCall(c, server, seen)
  BY DEF IInv, KnownCall
<1>2. KnownCall(c, server', seen')
  BY <1>0, <1>1, KnowledgeLasts
<1>3. PICK k \in Slots : calls' = [calls EXCEPT ![k] = c]
  BY DEF Send
<1>4. calls'[k] = c /\ \A j \in Slots \ {k} : calls'[j] = calls[j]
  BY <1>3 DEF IInv, TypeOK
<1> QED
  BY <1>2, <1>4, OneSlot DEF IInv

LEMMA InitInv == Init => IInv
<1> SUFFICES ASSUME Init PROVE IInv
  OBVIOUS
<1>1. TypeOK
  BY InitType
<1>2. Held(doc) \subseteq seen
  BY DEF Init, Held
<1>3. Knows(version, server, seen)
  BY <1>2 DEF Init, Knows
<1>4. KnownCalls
  BY DEF Init, KnownCalls
<1> QED
  BY <1>1, <1>2, <1>3, <1>4 DEF IInv

\* What the person changes, and what the page does without a request.
LEMMA ChangesAreSeen ==
  ASSUME IInv, TypeOK', NEW i \in Items,
         \/ \E noticed \in BOOLEAN : Edit(i, noticed)
         \/ RemoveCell(i) \/ UndoDelete \/ UnlinkRange(i) \/ AskRun(i) \/ RunCell(i) \/ RefreshRange(i)
  PROVE  IInv'
<1>1. UNCHANGED <<server, version, calls>>
  BY DEF Edit, RemoveCell, UndoDelete, UnlinkRange, AskRun, RunCell, RefreshRange, Ran
<1>2. \A d : Change(d, TRUE) \/ Change(d, FALSE) => seen \subseteq seen' /\ Held(doc') \subseteq seen'
  BY ChangeIsSeen
<1>3. UNCHANGED <<doc, seen>> => seen \subseteq seen' /\ Held(doc') \subseteq seen'
  BY DEF IInv
<1>4. ASSUME NEW noticed \in BOOLEAN, Edit(i, noticed) PROVE seen \subseteq seen' /\ Held(doc') \subseteq seen'
  BY <1>4, ChangeIsSeen DEF Edit
<1>5. ASSUME RemoveCell(i) \/ UndoDelete \/ UnlinkRange(i) PROVE seen \subseteq seen' /\ Held(doc') \subseteq seen'
  BY <1>2, <1>5 DEF RemoveCell, UndoDelete, UnlinkRange
<1>6. ASSUME AskRun(i) PROVE seen \subseteq seen' /\ Held(doc') \subseteq seen'
  BY <1>3, <1>6 DEF AskRun
<1>7. ASSUME RunCell(i) \/ RefreshRange(i) PROVE seen \subseteq seen' /\ Held(doc') \subseteq seen'
  BY <1>2, <1>3, <1>7 DEF RunCell, RefreshRange
<1>8. seen \subseteq seen' /\ Held(doc') \subseteq seen'
  BY <1>4, <1>5, <1>6, <1>7
<1> QED
  BY <1>1, <1>8, NoSlot DEF Follows

\* An answer brings the version the row had when it was given; a document that is read is shown.
LEMMA AnswersAreKnown ==
  ASSUME IInv, TypeOK', NEW k \in Slots, Answer(k)
  PROVE  IInv'
<1>0. UNCHANGED server /\ Follows(server, server')
  BY DEF Answer, SaveAnswer, ShareAnswer, LoadAnswer, Follows
<1>1. calls'[k] = None /\ \A j \in Slots \ {k} : calls'[j] = calls[j]
  BY DEF Answer, SaveAnswer, ShareAnswer, LoadAnswer, IInv, TypeOK
<1>2. KnownCall(calls[k], server, seen)
  BY DEF Answer, SaveAnswer, ShareAnswer, LoadAnswer, Loads, Saves, IInv, KnownCalls
<1>3. CASE SaveAnswer(k) \/ ShareAnswer(k)
  <2>1. UNCHANGED <<doc, seen>>
    BY <1>3 DEF SaveAnswer, ShareAnswer
  <2>2. version' = version \/ (calls[k].answer.ok /\ version' = calls[k].answer.version)
    BY <1>3 DEF SaveAnswer, ShareAnswer, SaveOk, SaveFails
  <2>3. version' = version \/ Knows(version', server, seen)
    BY <1>2, <1>3, <2>2 DEF SaveAnswer, ShareAnswer, Saves, KnownCall
  <2> QED
    BY <1>0, <1>1, <2>1, <2>3, OneSlot DEF IInv
<1>4. CASE LoadAnswer(k) /\ open /\ calls[k].answer.ok
  <2>1. doc' = calls[k].answer.doc /\ version' = calls[k].answer.version /\ seen' = seen \cup Held(doc')
    BY <1>4 DEF LoadAnswer
  <2>2. Read(version', doc', server)
    BY <1>2, <1>4, <2>1 DEF LoadAnswer, Loads, KnownCall
  <2>3. Knows(version', server, seen')
    BY <2>1, <2>2 DEF Read, Knows
  <2> QED
    BY <1>0, <1>1, <2>1, <2>3, OneSlot
<1>5. CASE LoadAnswer(k) /\ ~(open /\ calls[k].answer.ok)
  BY <1>0, <1>1, <1>5, OneSlot DEF LoadAnswer, IInv
<1> QED
  BY <1>3, <1>4, <1>5 DEF Answer

\* What the editor asks for carries the version and the document it has.
LEMMA RequestsAreKnown ==
  ASSUME IInv, TypeOK',
         \/ Drain \/ AutoSave \/ Retry \/ SaveKey \/ ExportXlsx \/ SetVisibility \/ Reload
         \/ \E d \in past : RestoreVersion(d)
         \/ RestoreDeleted \/ Leave
  PROVE  IInv'
<1>1. ASSUME SaveNow PROVE IInv'
  <2>1. [op |-> "save", doc |-> doc, version |-> version, answer |-> None] \in Call
    BY DEF IInv, TypeOK, Call, SaveCall, Writes
  <2> QED
    BY <1>1, <2>1, SendStep DEF SaveNow, Follows
<1>2. CASE SetVisibility
  <2>1. [op |-> "share", version |-> version, answer |-> None] \in Call
    BY DEF IInv, TypeOK, Call, ShareCall, Writes
  <2> QED
    BY <1>2, <2>1, SendStep DEF SetVisibility, editor, Follows
<1>3. [op |-> "load", answer |-> None] \in Call
  BY DEF Call, LoadCall, Reads
<1>4. CASE Reload
  BY <1>3, <1>4, SendStep DEF Reload, Load, editor, Follows
<1>5. ASSUME NEW d \in past, RestoreVersion(d) PROVE IInv'
  <2>1. Follows(server, server')
    BY <1>5 DEF RestoreVersion, Stored, Follows
  <2> QED
    BY <1>3, <1>5, <2>1, SendStep DEF RestoreVersion, Load, editor
<1>6. CASE Drain \/ RestoreDeleted \/ Leave
  <2>1. server'.version = server.version /\ server'.doc = server.doc
    BY <1>6 DEF Drain, RestoreDeleted, Leave, IInv, TypeOK
  <2>2. UNCHANGED <<doc, seen, version, calls>>
    BY <1>6 DEF Drain, RestoreDeleted, Leave
  <2> QED
    BY <2>1, <2>2, NoSlot DEF Follows, IInv
<1> QED
  BY <1>1, <1>2, <1>4, <1>5, <1>6 DEF AutoSave, Retry, SaveKey, ExportXlsx

\* A request that is answered with what the editor may know.
LEMMA ReplyStep ==
  ASSUME IInv, TypeOK', NEW k \in Slots, calls[k] # None, NEW a, Reply(k, a),
         Follows(server, server'), UNCHANGED <<doc, seen, version>>,
         calls[k].op \in {"save", "share"} /\ a # None /\ a.ok => Knows(a.version, server', seen'),
         calls[k].op = "load" /\ a # None /\ a.ok => Read(a.version, a.doc, server')
  PROVE  IInv'
<1>0. server \in Row /\ server' \in Row
  BY DEF IInv, TypeOK, Row
<1>1. calls[k] \in Call /\ KnownCall(calls[k], server', seen')
  BY <1>0, KnowledgeLasts DEF IInv, TypeOK, KnownCalls
<1>2. calls'[k] = [calls[k] EXCEPT !.answer = a] /\ \A j \in Slots \ {k} : calls'[j] = calls[j]
  BY DEF Reply, IInv, TypeOK
<1>3. /\ calls'[k].op = calls[k].op /\ calls'[k].answer = a
      /\ calls[k].op \in {"save", "share"} => calls'[k].version = calls[k].version
      /\ calls[k].op = "save" => calls'[k].doc = calls[k].doc
  BY <1>1, <1>2 DEF Call, SaveCall, ShareCall, LoadCall
<1>4. KnownCall(calls'[k], server', seen')
  BY <1>1, <1>3 DEF KnownCall
<1> QED
  BY <1>2, <1>4, OneSlot DEF IInv

\* The server answers with the version it then has, and takes only a document that was shown.
LEMMA OthersAreUnknown ==
  ASSUME IInv, TypeOK',
         \/ \E i \in Items : OtherSaves(i)
         \/ OtherDeletes
         \/ \E k \in Slots : Handle(k) \/ NetworkFails(k)
  PROVE  IInv'
<1>0. \A s : Refused(s).ok = FALSE
  BY DEF Refused
<1>1. ASSUME NEW i \in Items, OtherSaves(i) PROVE IInv'
  BY <1>1, NoSlot DEF OtherSaves, Stored, Follows, editor, IInv
<1>2. CASE OtherDeletes
  <2>1. server'.version = server.version /\ server'.doc = server.doc
    BY <1>2 DEF OtherDeletes, IInv, TypeOK
  <2> QED
    BY <1>2, <2>1, NoSlot DEF OtherDeletes, Follows, editor, IInv
<1>3. ASSUME NEW k \in Slots, NetworkFails(k) PROVE IInv'
  <2>1. PICK s : Reply(k, Refused(s))
    BY <1>3 DEF NetworkFails
  <2>2. calls[k] # None /\ UNCHANGED <<server, doc, seen, version>>
    BY <1>3 DEF NetworkFails, editor
  <2> QED
    BY <1>0, <2>1, <2>2, ReplyStep DEF Follows
<1>4. ASSUME NEW k \in Slots, Handle(k) PROVE IInv'
  <2>0. calls[k] # None /\ UNCHANGED <<doc, seen, version>>
    BY <1>4 DEF Handle, editor
  <2>1. CASE UNCHANGED server /\ \E s : Reply(k, Refused(s))
    BY <1>0, <2>0, <2>1, ReplyStep DEF Follows
  <2>2. CASE /\ calls[k].op = "load" /\ UNCHANGED server
             /\ Reply(k, [ok |-> TRUE, version |-> server.version, doc |-> server.doc])
    <3>1. Read(server.version, server.doc, server')
      BY <2>2 DEF Read, IInv, TypeOK
    <3> QED
      BY <2>0, <2>2, <3>1, ReplyStep DEF Follows
  <2>3. CASE /\ calls[k].op = "share" /\ calls[k].version = server.version
             /\ server' = [server EXCEPT !.version = @ + 1] /\ Reply(k, Ok)
    <3>1. Held(server.doc) \subseteq seen
      BY <2>0, <2>3 DEF IInv, KnownCalls, KnownCall, Knows
    <3>2. server'.version = server.version + 1 /\ server'.doc = server.doc /\ server'.version \in Nat
      BY <2>3 DEF IInv, TypeOK
    <3>3. Knows(server'.version, server', seen')
      BY <2>0, <3>1, <3>2 DEF Knows
    <3> QED
      BY <2>0, <2>3, <3>2, <3>3, ReplyStep DEF Follows, Ok
  <2>4. CASE calls[k].op = "save" /\ Stored(calls[k].doc) /\ Reply(k, Ok)
    <3>1. Held(calls[k].doc) \subseteq seen
      BY <2>0, <2>4 DEF IInv, KnownCalls, KnownCall
    <3>2. server'.version = server.version + 1 /\ server'.doc = calls[k].doc /\ server'.version \in Nat
      BY <2>4 DEF Stored, IInv, TypeOK
    <3>3. Knows(server'.version, server', seen')
      BY <2>0, <3>1, <3>2 DEF Knows
    <3> QED
      BY <2>0, <2>4, <3>2, <3>3, ReplyStep DEF Follows, Ok
  <2> QED
    BY <1>4, <2>1, <2>2, <2>3, <2>4 DEF Handle
<1> QED
  BY <1>1, <1>2, <1>3, <1>4

LEMMA NextInv == IInv /\ [Next]_vars => IInv'
<1> SUFFICES ASSUME IInv, [Next]_vars PROVE IInv'
  OBVIOUS
<1>0. TypeOK'
  BY NextType DEF IInv
<1>1. CASE \/ \E i \in Items : Edit(i, TRUE) \/ Edit(i, FALSE)
           \/ \E i \in Items : RemoveCell(i) \/ UnlinkRange(i) \/ AskRun(i) \/ RunCell(i) \/ RefreshRange(i)
  BY <1>0, <1>1, ChangesAreSeen
<1>2. CASE UndoDelete
  <2>1. deleted.item \in Items
    BY <1>2 DEF UndoDelete, IInv, TypeOK
  <2> QED
    BY <1>0, <1>2, <2>1, ChangesAreSeen
<1>3. CASE \/ Drain \/ AutoSave \/ Retry \/ SaveKey \/ ExportXlsx \/ SetVisibility \/ Reload
           \/ \E d \in past : RestoreVersion(d)
           \/ RestoreDeleted \/ Leave
  BY <1>0, <1>3, RequestsAreKnown
<1>4. CASE \E k \in Slots : Answer(k)
  BY <1>0, <1>4, AnswersAreKnown
<1>5. CASE \/ \E i \in Items : OtherSaves(i)
           \/ OtherDeletes
           \/ \E k \in Slots : Handle(k) \/ NetworkFails(k)
  BY <1>0, <1>5, OthersAreUnknown
<1>6. CASE UNCHANGED vars
  BY <1>0, <1>6, NoSlot DEF vars, editor, Follows, IInv
<1> QED
  BY <1>1, <1>2, <1>3, <1>4, <1>5, <1>6 DEF Next

Shown ==
  \A k \in Slots : Saves(k) /\ calls'[k] # None /\ calls'[k] # calls[k] /\ server'.doc # server.doc
    => Held(server.doc) \subseteq seen

\* Only a save that the server takes writes the row and changes its own slot.
LEMMA WrittenWasShown == IInv /\ [Next]_vars => [Shown]_vars
<1> SUFFICES ASSUME IInv, Next, NEW k \in Slots,
                    Saves(k), calls'[k] # None, calls'[k] # calls[k], server'.doc # server.doc
             PROVE  Held(server.doc) \subseteq seen
  BY DEF Shown
<1>1. calls[k] # None /\ calls[k].op = "save" /\ KnownCall(calls[k], server, seen)
  BY DEF Saves, IInv, KnownCalls
<1>2. ~UNCHANGED server /\ ~UNCHANGED calls
  OBVIOUS
<1>3. ASSUME NEW j \in Slots, Handle(j) PROVE Held(server.doc) \subseteq seen
  <2>1. \A a : Reply(j, a) => (j = k \/ calls'[k] = calls[k])
    BY DEF Reply, IInv, TypeOK
  <2>2. \E a : Reply(j, a)
    BY <1>3 DEF Handle
  <2>3. j = k
    BY <2>1, <2>2
  <2>4. calls[k].version = server.version
    BY <1>1, <1>2, <1>3, <2>3 DEF Handle
  <2> QED
    BY <1>1, <2>4 DEF KnownCall, Knows
<1>4. ASSUME NEW d \in past, RestoreVersion(d) PROVE FALSE
  BY <1>1, <1>4 DEF RestoreVersion, Load, Send, IInv, TypeOK
<1>5. ASSUME NEW i \in Items, OtherSaves(i) PROVE FALSE
  BY <1>2, <1>5 DEF OtherSaves
<1>6. ASSUME RestoreDeleted \/ OtherDeletes PROVE FALSE
  BY <1>6 DEF RestoreDeleted, OtherDeletes, editor
<1>7. ASSUME NEW j \in Slots, NetworkFails(j) \/ Answer(j) PROVE FALSE
  BY <1>2, <1>7 DEF NetworkFails, Answer, SaveAnswer, ShareAnswer, LoadAnswer
<1>8. ASSUME NEW i \in Items,
             \/ Edit(i, TRUE) \/ Edit(i, FALSE)
             \/ RemoveCell(i) \/ UnlinkRange(i) \/ AskRun(i) \/ RunCell(i) \/ RefreshRange(i)
      PROVE  FALSE
  BY <1>2, <1>8 DEF Edit, RemoveCell, UnlinkRange, AskRun, RunCell, RefreshRange, Ran
<1>9. ASSUME \/ UndoDelete \/ Drain \/ AutoSave \/ Retry \/ SaveKey \/ ExportXlsx \/ SetVisibility \/ Reload \/ Leave
      PROVE  FALSE
  BY <1>2, <1>9 DEF UndoDelete, Drain, AutoSave, Retry, SaveKey, ExportXlsx, SaveNow, SetVisibility, Reload, Leave, editor
<1> QED
  BY <1>3, <1>4, <1>5, <1>6, <1>7, <1>8, <1>9 DEF Next

\* A save of this editor never replaces what it has not shown, for any number of items and of
\* requests that are out at once, in whatever order they are handled, answered or lost.
THEOREM NothingOverwritten == Spec => NoSilentOverwrite
<1>1. Init => IInv
  BY InitInv
<1>2. IInv /\ [Next]_vars => IInv'
  BY NextInv
<1>3. IInv /\ [Next]_vars => [Shown]_vars
  BY WrittenWasShown
<1> QED
  BY <1>1, <1>2, <1>3, PTL DEF Spec, NoSilentOverwrite, Shown

-----------------------------------------------------------------------------
(* Saved is saved *)

\* A request carries a version as the row's, or its answer brings one.
Carries(c, v) ==
  /\ c # None /\ c.op \in {"save", "share"}
  /\ v = c.version \/ (c.answer # None /\ c.answer.ok /\ v = c.answer.version)

Believed(v) == v = version \/ \E k \in Slots : Carries(calls[k], v)
RowBelieved == Believed(server.version)

\* Readings overlap neither saves nor each other.
Alone ==
  ~raced => \A j, k \in Slots : Loads(j) /\ (Loads(k) \/ Saves(k)) => j = k

\* What was read is what the row holds, if the editor will believe to have its version.
ReadIsCurrent ==
  ~raced => \A k \in Slots : Loads(k) /\ calls[k].answer # None /\ calls[k].answer.ok /\ RowBelieved
              => calls[k].answer.doc = server.doc

\* Nothing changed since the last save was sent, or answered, or the document was read.
Unchanged == open /\ saveState \in {"saved", "saving"} /\ ~pending

\* A save is out that the row did not take, or not yet.
Untaken(k) == Saves(k) /\ (calls[k].answer = None \/ ~calls[k].answer.ok)

\* The row holds what is on screen if it has a version the editor believes in, and so do the saves
\* that it may still take.
Confirmed ==
  /\ RowBelieved => server.doc = doc
  /\ \A k \in Slots : Saves(k) /\ calls[k].version = server.version => calls[k].doc = doc

\* One of these saves carries what is on screen.
Awaited == \E k \in Slots : Untaken(k) /\ calls[k].doc = doc

Truthful == ~raced /\ Unchanged => Confirmed \/ Awaited

SInv == IInv /\ raced \in BOOLEAN /\ Alone /\ ReadIsCurrent /\ Truthful

\* Nobody believes in a version to come.
LEMMA BelievedBound == ASSUME IInv, NEW v, Believed(v) PROVE v \in Nat /\ v <= server.version
<1>1. CASE v = version
  BY <1>1 DEF IInv, TypeOK, Knows
<1>2. ASSUME NEW k \in Slots, Carries(calls[k], v) PROVE v \in Nat /\ v <= server.version
  <2>1. calls[k] \in Call /\ KnownCall(calls[k], server, seen)
    BY <1>2 DEF Carries, IInv, TypeOK, KnownCalls
  <2>2. v = calls[k].version => v \in Nat
    BY <1>2, <2>1 DEF Carries, Call, SaveCall, ShareCall, LoadCall
  <2>3. calls[k].answer # None /\ calls[k].answer.ok => calls[k].answer.version \in Nat
    BY <1>2, <2>1 DEF Carries, Call, SaveCall, ShareCall, LoadCall, Writes, Fails
  <2> QED
    BY <1>2, <2>1, <2>2, <2>3 DEF Carries, KnownCall, Knows
<1> QED
  BY <1>1, <1>2 DEF Believed

\* The page does something without a request: what was unchanged may be changed.
LEMMA QuietStep ==
  ASSUME SInv, IInv', UNCHANGED <<version, calls, raced>>,
         server'.version = server.version, server'.doc = server.doc, Unchanged' => Unchanged /\ doc' = doc
  PROVE  SInv'
<1>1. RowBelieved' = RowBelieved
  BY DEF RowBelieved, Believed
<1>2. Alone' /\ ReadIsCurrent'
  BY <1>1 DEF SInv, Alone, ReadIsCurrent, Loads, Saves
<1>3. Truthful'
  BY <1>1 DEF SInv, Truthful, Confirmed, Awaited, Untaken, Saves
<1> QED
  BY <1>2, <1>3 DEF SInv

\* A row that moves on has a version that nobody believes in, and that no save carries.
LEMMA NewVersion ==
  ASSUME IInv, server'.version = server.version + 1
  PROVE  /\ server.version \in Nat /\ ~Believed(server'.version)
         /\ \A k \in Slots : Saves(k) => calls[k].version # server'.version
<1>1. server.version \in Nat
  BY DEF IInv, TypeOK
<1>2. ~Believed(server'.version)
  <2> SUFFICES ASSUME Believed(server'.version) PROVE FALSE
    OBVIOUS
  <2>1. \A v : Believed(v) => v \in Nat /\ v <= server.version
    BY BelievedBound
  <2> QED
    BY <1>1, <2>1
<1>3. \A k \in Slots : Saves(k) => Carries(calls[k], calls[k].version)
  BY DEF Saves, Carries
<1> QED
  BY <1>1, <1>2, <1>3 DEF Believed

\* The row moves on without the editor.
LEMMA RowStep ==
  ASSUME SInv, IInv', UNCHANGED <<version, calls, raced, doc, saveState, pending, open>>,
         server'.version = server.version + 1
  PROVE  SInv'
<1>1. ~Believed(server'.version) /\ \A k \in Slots : Saves(k) => calls[k].version # server'.version
  BY NewVersion DEF SInv
<1>2. ~RowBelieved'
  BY <1>1 DEF RowBelieved, Believed
<1>3. Alone' /\ ReadIsCurrent'
  BY <1>2 DEF SInv, Alone, ReadIsCurrent, Loads, Saves
<1>4. Confirmed'
  BY <1>1, <1>2 DEF Confirmed, Saves
<1> QED
  BY <1>3, <1>4 DEF SInv, Truthful

\* A request that is sent takes a free slot.
LEMMA SendSlot ==
  ASSUME TypeOK, NEW c \in Call, Send(c)
  PROVE  \E k \in Slots : /\ calls[k] = None /\ calls'[k] = c /\ c # None
                          /\ \A j \in Slots \ {k} : calls'[j] = calls[j]
BY RequestAssumption DEF Send, TypeOK

\* The editor sends a save of what is on screen.
LEMMA SaveStep ==
  ASSUME SInv, IInv', SaveNow
  PROVE  SInv'
<1>0. TypeOK /\ [op |-> "save", doc |-> doc, version |-> version, answer |-> None] \in Call
  BY DEF SInv, IInv, TypeOK, Call, SaveCall, Writes
<1>1. PICK k \in Slots : /\ calls'[k] = [op |-> "save", doc |-> doc, version |-> version, answer |-> None]
                         /\ calls'[k] # None /\ \A j \in Slots \ {k} : calls'[j] = calls[j]
  BY <1>0, SendSlot DEF SaveNow
<1>2. UNCHANGED <<server, doc, version>> /\ raced' = (raced \/ LoadOut)
  BY DEF SaveNow
<1>3. raced \in BOOLEAN /\ raced' \in BOOLEAN
  BY <1>2 DEF SInv
<1>4. \A j \in Slots : Loads(j)' => Loads(j)
  BY <1>1 DEF Loads
<1>5. ~raced' => ~LoadOut
  BY <1>2, <1>3
<1>6. Alone' /\ ReadIsCurrent'
  BY <1>4, <1>5 DEF Alone, ReadIsCurrent, LoadOut
<1>7. Awaited'
  BY <1>1, <1>2 DEF Awaited, Untaken, Saves
<1> QED
  BY <1>3, <1>6, <1>7 DEF SInv, Truthful

\* The editor shares: nothing new is believed.
LEMMA ShareStep ==
  ASSUME SInv, IInv', SetVisibility
  PROVE  SInv'
<1>0. TypeOK /\ [op |-> "share", version |-> version, answer |-> None] \in Call
  BY DEF SInv, IInv, TypeOK, Call, ShareCall, Writes
<1>1. PICK k \in Slots : /\ calls[k] = None /\ calls'[k] = [op |-> "share", version |-> version, answer |-> None]
                         /\ \A j \in Slots \ {k} : calls'[j] = calls[j]
  BY <1>0, SendSlot DEF SetVisibility
<1>2. UNCHANGED <<server, doc, version, raced, saveState, pending, open>>
  BY DEF SetVisibility, editor
<1>3. \A j \in Slots : Loads(j)' = Loads(j) /\ Saves(j)' = Saves(j)
  BY <1>1 DEF Loads, Saves
<1>4. RowBelieved' => RowBelieved
  BY <1>1, <1>2 DEF RowBelieved, Believed, Carries
<1>5. Alone' /\ ReadIsCurrent'
  BY <1>1, <1>2, <1>3, <1>4 DEF SInv, Alone, ReadIsCurrent, Loads
<1>6. Confirmed => Confirmed'
  BY <1>1, <1>2, <1>3, <1>4 DEF Confirmed, Saves
<1>7. Awaited => Awaited'
  BY <1>1, <1>2, <1>3 DEF Awaited, Untaken, Saves
<1> QED
  BY <1>2, <1>5, <1>6, <1>7 DEF SInv, Truthful, Unchanged

\* The document is read again, at once or after a version of the history was put back.
LEMMA LoadStep ==
  ASSUME SInv, IInv', Load, UNCHANGED <<version, doc, saveState, pending, open>>,
         server' = server \/ server'.version = server.version + 1
  PROVE  SInv'
<1>0. TypeOK /\ [op |-> "load", answer |-> None] \in Call
  BY DEF SInv, IInv, Call, LoadCall, Reads
<1>1. PICK k \in Slots : /\ calls[k] = None /\ calls'[k] = [op |-> "load", answer |-> None]
                         /\ \A j \in Slots \ {k} : calls'[j] = calls[j]
  BY <1>0, SendSlot DEF Load
<1>2. raced' = (raced \/ SaveOut \/ LoadOut) /\ raced \in BOOLEAN /\ raced' \in BOOLEAN
  BY DEF Load, SInv
<1>3. ~raced' => ~raced /\ \A j \in Slots : ~Saves(j) /\ ~Saves(j)' /\ (Loads(j)' => j = k)
  <2>1. ~raced' => ~raced /\ ~SaveOut /\ ~LoadOut
    BY <1>2
  <2>2. \A j \in Slots : (Saves(j)' => Saves(j)) /\ (Loads(j)' => Loads(j) \/ j = k)
    BY <1>1 DEF Saves, Loads
  <2> QED
    BY <2>1, <2>2 DEF SaveOut, LoadOut
<1>4. Alone'
  BY <1>3 DEF Alone
<1>5. ReadIsCurrent'
  BY <1>1, <1>3 DEF ReadIsCurrent
<1>6. RowBelieved' => RowBelieved /\ server' = server
  <2>1. \A v : Believed(v)' => Believed(v)
    BY <1>1 DEF Believed, Carries
  <2>2. server'.version = server.version + 1 => ~Believed(server'.version)
    BY NewVersion DEF SInv
  <2> QED
    BY <2>1, <2>2 DEF RowBelieved, Believed
<1>7. ~raced' /\ Unchanged' => Confirmed'
  <2> SUFFICES ASSUME ~raced', Unchanged' PROVE Confirmed'
    OBVIOUS
  <2>1. Confirmed
    BY <1>3 DEF SInv, Truthful, Unchanged, Awaited, Untaken
  <2> QED
    BY <1>3, <1>6, <2>1 DEF Confirmed
<1> QED
  BY <1>2, <1>4, <1>5, <1>7 DEF SInv, Truthful

\* A request keeps what it asks for when it is answered, and the others are not touched.
LEMMA ReplySlot ==
  ASSUME TypeOK, NEW k \in Slots, calls[k] # None, NEW a, Reply(k, a),
         calls[k].op # "load" => a \in Writes, calls[k].op = "load" => a \in Reads
  PROVE  /\ calls'[k] # None /\ calls'[k].op = calls[k].op /\ calls'[k].answer = a
         /\ calls[k].op \in {"save", "share"} => calls'[k].version = calls[k].version
         /\ calls[k].op = "save" => calls'[k].doc = calls[k].doc
         /\ \A j \in Slots \ {k} : calls'[j] = calls[j]
         /\ \A j \in Slots : Loads(j)' = Loads(j) /\ Saves(j)' = Saves(j)
<1>1. calls[k] \in Call
  BY DEF TypeOK
<1>2. calls'[k] = [calls[k] EXCEPT !.answer = a] /\ \A j \in Slots \ {k} : calls'[j] = calls[j]
  BY DEF Reply, TypeOK
<1>3. calls'[k] # None
  <2>1. CASE calls[k].op = "load"
    BY <1>1, <1>2, <2>1, ReadAnswerType, RequestAssumption DEF Call, SaveCall, ShareCall
  <2>2. CASE calls[k].op # "load"
    BY <1>1, <1>2, <2>2, WriteAnswerType, RequestAssumption DEF Call, LoadCall
  <2> QED
    BY <2>1, <2>2
<1>4. /\ calls'[k].op = calls[k].op /\ calls'[k].answer = a
      /\ calls[k].op \in {"save", "share"} => calls'[k].version = calls[k].version
      /\ calls[k].op = "save" => calls'[k].doc = calls[k].doc
  BY <1>1, <1>2 DEF Call, SaveCall, ShareCall, LoadCall
<1> QED
  BY <1>2, <1>3, <1>4 DEF Loads, Saves

\* A request that is refused, or whose answer is lost, makes nobody believe more.
LEMMA RefusedStep ==
  ASSUME SInv, IInv', UNCHANGED <<server, doc, version, raced, saveState, pending, open>>,
         NEW k \in Slots, calls[k] # None, NEW s \in Nat, Reply(k, Refused(s))
  PROVE  SInv'
<1>1. /\ calls'[k].op = calls[k].op /\ calls'[k].answer = Refused(s)
      /\ calls[k].op \in {"save", "share"} => calls'[k].version = calls[k].version
      /\ calls[k].op = "save" => calls'[k].doc = calls[k].doc
      /\ \A j \in Slots \ {k} : calls'[j] = calls[j]
      /\ \A j \in Slots : Loads(j)' = Loads(j) /\ Saves(j)' = Saves(j)
  <2>1. TypeOK /\ Refused(s) \in Writes /\ Refused(s) \in Reads
    BY RefusedType DEF SInv, IInv
  <2> QED
    BY <2>1, ReplySlot
<1>2. ~calls'[k].answer.ok
  BY <1>1 DEF Refused
<1>4. RowBelieved' => RowBelieved
  BY <1>1, <1>2 DEF RowBelieved, Believed, Carries
<1>5. Alone' /\ ReadIsCurrent'
  BY <1>1, <1>2, <1>4 DEF SInv, Alone, ReadIsCurrent
<1>6. Confirmed => Confirmed'
  BY <1>1, <1>4 DEF Confirmed, Saves
<1>7. Awaited => Awaited'
  BY <1>1, <1>2 DEF Awaited, Untaken, Saves
<1> QED
  BY <1>5, <1>6, <1>7 DEF SInv, Truthful, Unchanged

\* The server gives out the document it holds.
LEMMA LoadHandled ==
  ASSUME SInv, IInv', UNCHANGED <<server, doc, version, raced, saveState, pending, open>>,
         NEW k \in Slots, Loads(k), Reply(k, [ok |-> TRUE, version |-> server.version, doc |-> server.doc])
  PROVE  SInv'
<1>1. /\ calls'[k].op = "load" /\ calls'[k].answer.doc = server.doc
      /\ \A j \in Slots \ {k} : calls'[j] = calls[j]
      /\ \A j \in Slots : Loads(j)' = Loads(j) /\ Saves(j)' = Saves(j)
  <2>1. TypeOK /\ [ok |-> TRUE, version |-> server.version, doc |-> server.doc] \in Reads
    BY DEF SInv, IInv, TypeOK, Reads
  <2> QED
    BY <2>1, ReplySlot DEF Loads
<1>2. RowBelieved' => RowBelieved
  BY <1>1 DEF RowBelieved, Believed, Carries
<1>3. Alone' /\ ReadIsCurrent'
  BY <1>1, <1>2 DEF SInv, Alone, ReadIsCurrent
<1>4. (Confirmed => Confirmed') /\ (Awaited => Awaited')
  BY <1>1, <1>2 DEF Loads, Confirmed, Awaited, Untaken, Saves
<1> QED
  BY <1>3, <1>4 DEF SInv, Truthful, Unchanged

\* A share that the server takes moves the row on, and changes nothing it holds.
LEMMA ShareHandled ==
  ASSUME SInv, IInv', UNCHANGED <<doc, version, raced, saveState, pending, open>>,
         NEW k \in Slots, calls[k] # None, calls[k].op = "share", calls[k].version = server.version,
         server'.version = server.version + 1, server'.doc = server.doc, Reply(k, Ok)
  PROVE  SInv'
<1>1. /\ calls'[k].op = "share" /\ \A j \in Slots \ {k} : calls'[j] = calls[j]
      /\ \A j \in Slots : Loads(j)' = Loads(j) /\ Saves(j)' = Saves(j)
  <2>1. TypeOK /\ Ok \in Writes
    BY DEF SInv, IInv, TypeOK, Ok, Writes
  <2> QED
    BY <2>1, ReplySlot
<1>2. RowBelieved
  BY DEF RowBelieved, Believed, Carries
<1>3. \A j \in Slots : Saves(j)' => calls'[j].version # server'.version
  <2>1. \A j \in Slots : Saves(j) => calls[j].version # server'.version
    BY NewVersion DEF SInv
  <2> QED
    BY <1>1, <2>1 DEF Saves
<1>4. Alone' /\ ReadIsCurrent'
  BY <1>1, <1>2 DEF SInv, Alone, ReadIsCurrent, Loads
<1>5. (Confirmed => Confirmed') /\ (Awaited => Awaited')
  BY <1>1, <1>2, <1>3 DEF Confirmed, Awaited, Untaken, Saves
<1> QED
  BY <1>4, <1>5 DEF SInv, Truthful, Unchanged

\* A save that the server takes: it was the awaited one, it carries the same, or another is awaited.
LEMMA SaveHandled ==
  ASSUME SInv, IInv', UNCHANGED <<doc, version, raced, saveState, pending, open>>,
         NEW k \in Slots, Saves(k), calls[k].version = server.version, Stored(calls[k].doc), Reply(k, Ok)
  PROVE  SInv'
<1>0. server'.version = server.version + 1 /\ server'.doc = calls[k].doc
  BY DEF Stored
<1>1. /\ calls'[k].op = "save" /\ calls'[k].version = calls[k].version
      /\ \A j \in Slots \ {k} : calls'[j] = calls[j]
      /\ \A j \in Slots : Loads(j)' = Loads(j) /\ Saves(j)' = Saves(j)
  <2>1. TypeOK /\ Ok \in Writes
    BY <1>0 DEF SInv, IInv, TypeOK, Ok, Writes
  <2> QED
    BY <2>1, ReplySlot DEF Saves
<1>2. \A j \in Slots : Saves(j)' => calls'[j].version # server'.version
  <2>1. \A j \in Slots : Saves(j) => calls[j].version # server'.version
    BY <1>0, NewVersion DEF SInv
  <2> QED
    BY <1>1, <2>1 DEF Saves
<1>3. ~raced => \A j \in Slots : ~Loads(j)
  BY DEF SInv, Alone, Loads, Saves
<1>4. Alone' /\ ReadIsCurrent'
  BY <1>1, <1>3 DEF Alone, ReadIsCurrent
<1>5. calls[k].doc = doc => Confirmed'
  BY <1>0, <1>2 DEF Confirmed
<1>6. Confirmed => calls[k].doc = doc
  BY DEF Confirmed
<1>7. Awaited => calls[k].doc = doc \/ Awaited'
  BY <1>1 DEF Awaited, Untaken
<1> QED
  BY <1>4, <1>5, <1>6, <1>7 DEF SInv, Truthful, Unchanged

\* An answer frees its slot.
LEMMA AnswerSlot ==
  ASSUME TypeOK, NEW k \in Slots, Answer(k)
  PROVE  /\ calls'[k] = None /\ \A j \in Slots \ {k} : calls'[j] = calls[j]
         /\ \A j \in Slots : /\ Loads(j)' => Loads(j) /\ calls'[j] = calls[j]
                             /\ Saves(j)' => Saves(j) /\ calls'[j] = calls[j]
         /\ \A v : Believed(v)' => v = version' \/ Believed(v)
<1>1. calls' = [calls EXCEPT ![k] = None]
  BY DEF Answer, SaveAnswer, ShareAnswer, LoadAnswer
<1>2. calls'[k] = None /\ \A j \in Slots \ {k} : calls'[j] = calls[j]
  BY <1>1 DEF TypeOK
<1> QED
  BY <1>2 DEF Loads, Saves, Believed, Carries

\* An answer that brings no document: what it makes the editor believe was on its way, and after a
\* failure the editor does not say that it is saved.
LEMMA WriteAnswered ==
  ASSUME SInv, IInv', NEW k \in Slots, SaveAnswer(k) \/ ShareAnswer(k)
  PROVE  SInv'
<1>1. Answer(k) /\ UNCHANGED <<server, doc, pending, open, raced>>
  BY DEF Answer, SaveAnswer, ShareAnswer
<1>2. /\ \A j \in Slots : /\ Loads(j)' => Loads(j) /\ calls'[j] = calls[j]
                          /\ Saves(j)' => Saves(j) /\ calls'[j] = calls[j]
      /\ \A v : Believed(v)' => v = version' \/ Believed(v)
      /\ \A j \in Slots \ {k} : calls'[j] = calls[j]
  BY <1>1, AnswerSlot DEF SInv, IInv
<1>3. version' = version \/ (calls[k].answer.ok /\ version' = calls[k].answer.version)
  BY DEF SaveAnswer, ShareAnswer, SaveOk, SaveFails
<1>4. Believed(version')
  BY <1>3 DEF Believed, Carries, SaveAnswer, ShareAnswer, Saves
<1>5. RowBelieved' => RowBelieved
  BY <1>1, <1>2, <1>4 DEF RowBelieved
<1>6. Alone' /\ ReadIsCurrent'
  BY <1>1, <1>2, <1>5 DEF SInv, Alone, ReadIsCurrent
<1>7. Confirmed => Confirmed'
  BY <1>1, <1>2, <1>5 DEF Confirmed
<1>8. Unchanged' => Unchanged /\ ~(Saves(k) /\ Untaken(k))
  BY <1>1 DEF Unchanged, Untaken, SaveAnswer, ShareAnswer, SaveOk, SaveFails, Saves
<1>9. Awaited /\ Unchanged' => Awaited'
  BY <1>1, <1>2, <1>8 DEF Awaited, Untaken, Saves
<1> QED
  BY <1>1, <1>6, <1>7, <1>8, <1>9 DEF SInv, Truthful

\* A document that was read alone is shown, and it is the row's if the row's version is believed.
LEMMA ReadAnswered ==
  ASSUME SInv, IInv', NEW k \in Slots, LoadAnswer(k)
  PROVE  SInv'
<1>1. Answer(k) /\ Loads(k) /\ UNCHANGED <<server, open, raced>>
  BY DEF Answer, LoadAnswer
<1>2. /\ calls'[k] = None
      /\ \A j \in Slots : /\ Loads(j)' => Loads(j) /\ calls'[j] = calls[j]
                          /\ Saves(j)' => Saves(j) /\ calls'[j] = calls[j]
      /\ \A v : Believed(v)' => v = version' \/ Believed(v)
      /\ \A j \in Slots \ {k} : calls'[j] = calls[j]
  BY <1>1, AnswerSlot DEF SInv, IInv
<1>3. ~raced => \A j \in Slots : ~Loads(j)' /\ ~Saves(j)'
  BY <1>1, <1>2 DEF SInv, Alone, Loads, Saves
<1>4. Alone' /\ ReadIsCurrent'
  BY <1>1, <1>3 DEF Alone, ReadIsCurrent
<1>5. CASE open /\ calls[k].answer.ok
  <2>1. doc' = calls[k].answer.doc /\ version' = calls[k].answer.version /\ calls[k].answer # None
    BY <1>5 DEF LoadAnswer
  <2>2. KnownCall(calls[k], server, seen)
    BY <1>1 DEF Loads, SInv, IInv, KnownCalls
  <2>3. Read(version', doc', server)
    BY <1>1, <1>5, <2>1, <2>2 DEF KnownCall, Loads
  <2>4. ~raced /\ RowBelieved => doc' = server.doc
    BY <1>1, <1>5, <2>1 DEF SInv, ReadIsCurrent
  <2>5. ~raced => Confirmed'
    BY <1>1, <1>2, <1>3, <2>3, <2>4 DEF Confirmed, RowBelieved, Read
  <2> QED
    BY <1>1, <1>4, <2>5 DEF SInv, Truthful
<1>6. CASE ~(open /\ calls[k].answer.ok)
  <2>1. UNCHANGED <<doc, version, pending, saveState>>
    BY <1>6 DEF LoadAnswer
  <2>2. RowBelieved' => RowBelieved
    BY <1>1, <1>2, <2>1 DEF RowBelieved, Believed
  <2>3. Confirmed => Confirmed'
    BY <1>1, <1>2, <2>1, <2>2 DEF Confirmed
  <2>4. Awaited => Awaited'
    BY <1>1, <1>2, <2>1 DEF Awaited, Untaken, Saves, Loads
  <2> QED
    BY <1>1, <1>4, <2>1, <2>3, <2>4 DEF SInv, Truthful, Unchanged
<1> QED
  BY <1>5, <1>6

\* Whatever the person types, runs or clicks leaves the document marked, unless nothing changed.
LEMMA ChangesAreMarked ==
  ASSUME SInv, IInv', NEW i \in Items,
         \/ \E noticed \in BOOLEAN : Edit(i, noticed)
         \/ RemoveCell(i) \/ UnlinkRange(i) \/ AskRun(i) \/ RunCell(i) \/ RefreshRange(i)
  PROVE  SInv'
<1>1. UNCHANGED <<version, calls, raced>> /\ server'.version = server.version /\ server'.doc = server.doc
  BY DEF Edit, RemoveCell, UnlinkRange, AskRun, RunCell, RefreshRange, Ran
<1>2. \A d : \A noticed \in BOOLEAN : Change(d, noticed) /\ open' = open => ~Unchanged'
  BY DEF Change, MarkDirty, Sticky, Unchanged
<1>3. Unchanged' => Unchanged /\ doc' = doc
  BY <1>2 DEF Edit, RemoveCell, UnlinkRange, AskRun, RunCell, RefreshRange, Ran, Unchanged
<1> QED
  BY <1>1, <1>3, QuietStep

LEMMA NextSInv == SInv /\ [Next]_vars => SInv'
<1> SUFFICES ASSUME SInv, [Next]_vars PROVE SInv'
  OBVIOUS
<1>0. IInv'
  BY NextInv DEF SInv
<1>1. CASE \/ \E i \in Items : Edit(i, TRUE) \/ Edit(i, FALSE)
           \/ \E i \in Items : RemoveCell(i) \/ UnlinkRange(i) \/ AskRun(i) \/ RunCell(i) \/ RefreshRange(i)
  BY <1>0, <1>1, ChangesAreMarked
<1>2. CASE UndoDelete \/ Drain \/ RestoreDeleted \/ Leave
  <2>1. UNCHANGED <<version, calls, raced>> /\ server'.version = server.version /\ server'.doc = server.doc
    BY <1>2 DEF SInv, IInv, TypeOK, UndoDelete, Drain, RestoreDeleted, Leave
  <2>2. Unchanged' => Unchanged /\ doc' = doc
    BY <1>2 DEF UndoDelete, Change, MarkDirty, Sticky, Drain, RestoreDeleted, Leave, Unchanged
  <2> QED
    BY <1>0, <2>1, <2>2, QuietStep
<1>3. CASE AutoSave \/ Retry \/ SaveKey \/ ExportXlsx
  BY <1>0, <1>3, SaveStep DEF AutoSave, Retry, SaveKey, ExportXlsx
<1>4. CASE SetVisibility
  BY <1>0, <1>4, ShareStep
<1>5. CASE Reload
  BY <1>0, <1>5, LoadStep DEF Reload, editor
<1>6. ASSUME NEW d \in past, RestoreVersion(d) PROVE SInv'
  <2>1. server'.version = server.version + 1
    BY <1>6 DEF RestoreVersion, Stored
  <2> QED
    BY <1>0, <1>6, <2>1, LoadStep DEF RestoreVersion, editor
<1>7. ASSUME NEW i \in Items, OtherSaves(i) PROVE SInv'
  <2>1. server'.version = server.version + 1
    BY <1>7 DEF OtherSaves, Stored
  <2> QED
    BY <1>0, <1>7, <2>1, RowStep DEF OtherSaves, editor
<1>8. CASE OtherDeletes
  <2>1. UNCHANGED <<version, calls, raced, doc, saveState, pending, open>>
    BY <1>8 DEF OtherDeletes, editor
  <2>2. server'.version = server.version /\ server'.doc = server.doc
    BY <1>8 DEF OtherDeletes, SInv, IInv, TypeOK
  <2>3. Unchanged' => Unchanged /\ doc' = doc
    BY <2>1 DEF Unchanged
  <2> QED
    BY <1>0, <2>1, <2>2, <2>3, QuietStep
<1>9. ASSUME NEW k \in Slots, NetworkFails(k) PROVE SInv'
  <2>1. PICK s \in {0, 400} : Reply(k, Refused(s))
    BY <1>9 DEF NetworkFails
  <2> QED
    BY <1>0, <1>9, <2>1, RefusedStep DEF NetworkFails, editor
<1>10. ASSUME NEW k \in Slots, Handle(k) PROVE SInv'
  <2>0. calls[k] # None /\ UNCHANGED <<doc, version, raced, saveState, pending, open>>
    BY <1>10 DEF Handle, editor
  <2>1. CASE UNCHANGED server /\ \E s \in {404, 409} : Reply(k, Refused(s))
    BY <1>0, <2>0, <2>1, RefusedStep
  <2>2. CASE /\ calls[k].op = "load" /\ UNCHANGED server
             /\ Reply(k, [ok |-> TRUE, version |-> server.version, doc |-> server.doc])
    BY <1>0, <2>0, <2>2, LoadHandled DEF Loads
  <2>3. CASE /\ calls[k].op = "share" /\ calls[k].version = server.version
             /\ server' = [server EXCEPT !.version = @ + 1] /\ Reply(k, Ok)
    <3>1. server'.version = server.version + 1 /\ server'.doc = server.doc
      BY <2>3 DEF SInv, IInv, TypeOK
    <3> QED
      BY <1>0, <2>0, <2>3, <3>1, ShareHandled
  <2>4. CASE calls[k].op = "save" /\ calls[k].version = server.version /\ Stored(calls[k].doc) /\ Reply(k, Ok)
    BY <1>0, <2>0, <2>4, SaveHandled DEF Saves
  <2> QED
    BY <1>10, <2>1, <2>2, <2>3, <2>4 DEF Handle
<1>11. ASSUME NEW k \in Slots, Answer(k) PROVE SInv'
  BY <1>0, <1>11, WriteAnswered, ReadAnswered DEF Answer
<1>12. CASE UNCHANGED vars
  <2>1. UNCHANGED <<server, version, calls, raced, doc, saveState, pending, open>>
    BY <1>12 DEF vars, editor
  <2>2. Unchanged' => Unchanged /\ doc' = doc
    BY <2>1 DEF Unchanged
  <2> QED
    BY <1>0, <2>1, <2>2, QuietStep
<1> QED
  BY <1>1, <1>2, <1>3, <1>4, <1>5, <1>6, <1>7, <1>8, <1>9, <1>10, <1>11, <1>12 DEF Next

\* "Saved" is true of what is on screen, for any number of requests that are out at once: the server
\* holds it, or a version of the document that the next save is refused for, as long as no reading
\* overlapped a save or another reading.
THEOREM SavedIsSaved == Spec => []SavedMeansSaved
<1>1. Init => SInv
  <2> SUFFICES ASSUME Init PROVE SInv
    OBVIOUS
  <2>1. IInv
    BY InitInv
  <2>2. doc = server.doc /\ \A k \in Slots : ~Saves(k) /\ ~Loads(k)
    BY DEF Init, Saves, Loads
  <2>3. Alone /\ ReadIsCurrent /\ Confirmed /\ raced \in BOOLEAN
    BY <2>2 DEF Init, Alone, ReadIsCurrent, Confirmed
  <2> QED
    BY <2>1, <2>3 DEF SInv, Truthful
<1>2. SInv /\ [Next]_vars => SInv'
  BY NextSInv
<1>3. SInv => SavedMeansSaved
  <2> SUFFICES ASSUME SInv, open, saveState = "saved", ~pending, ~SaveOut, ~raced, version = server.version
               PROVE  doc = server.doc
    BY DEF SavedMeansSaved
  <2>1. Confirmed
    BY DEF SInv, Truthful, Unchanged, Awaited, Untaken, SaveOut
  <2> QED
    BY <2>1 DEF Confirmed, RowBelieved, Believed
<1> QED
  BY <1>1, <1>2, <1>3, PTL DEF Spec

-----------------------------------------------------------------------------
(* DocumentEditor implements VersionedDocument *)

\* What is stored over a row that is not in the trash is a write of the document.
LEMMA StoredIsWrite ==
  ASSUME TypeOK, ~server.gone, NEW d \in Content, Stored(d)
  PROVE  Document!Next
BY DEF TypeOK, Stored, Document!Next, Document!Write

\* What the person, the network and others do to the row is a write, a move or nothing.
LEMMA DocumentStep ==
  ASSUME TypeOK, [Next]_vars
  PROVE  Document!Next \/ UNCHANGED Document!documentVars
<1>1. CASE UNCHANGED server
  BY <1>1 DEF Document!documentVars
<1>2. ASSUME NEW d \in past, RestoreVersion(d) PROVE Document!Next
  BY <1>2, StoredIsWrite DEF RestoreVersion, TypeOK
<1>3. ASSUME NEW g \in BOOLEAN, server' = [server EXCEPT !.gone = g]
      PROVE  Document!Next \/ UNCHANGED Document!documentVars
  BY <1>3 DEF TypeOK, Document!Next, Document!Move, Document!documentVars
<1>4. ASSUME NEW i \in Items, OtherSaves(i) PROVE Document!Next
  <2>1. [server.doc EXCEPT ![i] = stamp'] \in Content
    BY <1>4, NewStampType, PutType DEF OtherSaves, TypeOK
  <2> QED
    BY <1>4, <2>1, StoredIsWrite DEF OtherSaves
<1>5. ASSUME NEW k \in Slots, Handle(k) PROVE Document!Next \/ UNCHANGED Document!documentVars
  <2>1. CASE ~server.gone /\ server' = [server EXCEPT !.version = @ + 1]
    BY <2>1 DEF TypeOK, Document!Next, Document!Write
  <2>2. CASE ~server.gone /\ calls[k].op = "save" /\ Stored(calls[k].doc)
    <3>1. calls[k].doc \in Content
      BY <1>5, <2>2 DEF Handle, TypeOK, Call, SaveCall, ShareCall, LoadCall
    <3> QED
      BY <2>2, <3>1, StoredIsWrite
  <2> QED
    BY <1>1, <1>5, <2>1, <2>2 DEF Handle
<1>6. RestoreDeleted \/ OtherDeletes => Document!Next \/ UNCHANGED Document!documentVars
  BY <1>3 DEF RestoreDeleted, OtherDeletes
<1>7. ASSUME \/ \E i \in Items : Edit(i, TRUE) \/ Edit(i, FALSE) \/ RemoveCell(i) \/ UnlinkRange(i)
                                  \/ AskRun(i) \/ RunCell(i) \/ RefreshRange(i)
             \/ UndoDelete \/ Drain \/ AutoSave \/ Retry \/ SaveKey \/ ExportXlsx \/ SetVisibility
             \/ Reload \/ Leave \/ (\E k \in Slots : NetworkFails(k) \/ Answer(k)) \/ UNCHANGED vars
      PROVE  UNCHANGED server
  <2>1. ASSUME NEW i \in Items, \/ Edit(i, TRUE) \/ Edit(i, FALSE) \/ RemoveCell(i) \/ UnlinkRange(i)
                                \/ AskRun(i) \/ RunCell(i) \/ RefreshRange(i)
        PROVE  UNCHANGED server
    BY <2>1 DEF Edit, RemoveCell, UnlinkRange, AskRun, RunCell, RefreshRange, Ran
  <2>2. UndoDelete \/ Drain \/ AutoSave \/ Retry \/ SaveKey \/ ExportXlsx \/ SetVisibility \/ Reload \/ Leave
          => UNCHANGED server
    BY DEF UndoDelete, Drain, AutoSave, Retry, SaveKey, ExportXlsx, SaveNow, SetVisibility, Reload, Leave
  <2>3. ASSUME NEW k \in Slots, NetworkFails(k) \/ Answer(k) PROVE UNCHANGED server
    BY <2>3 DEF NetworkFails, Answer, SaveAnswer, ShareAnswer, LoadAnswer
  <2> QED
    BY <1>7, <2>1, <2>2, <2>3 DEF vars
<1> QED
  BY <1>1, <1>2, <1>4, <1>5, <1>6, <1>7 DEF Next

\* The server as the editor sees it is a versioned document, whatever the person, other people and
\* the network do; with requests one at a time the server of Workbook is one too.
THEOREM ImplementsDocument == Spec => Document!Spec
<1>1. Init => Document!Init
  BY BoundsAssumption DEF Init, Document!Init, Content, Stamps
<1>2. TypeOK /\ [Next]_vars => [Document!Next]_(Document!documentVars)
  BY DocumentStep
<1> QED
  BY <1>1, <1>2, TypeCorrect, PTL DEF Spec, Document!Spec
=============================================================================
