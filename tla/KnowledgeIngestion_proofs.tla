---------------------- MODULE KnowledgeIngestion_proofs ----------------------
(***************************************************************************)
(* What holds of the knowledge base for any number of documents, files,    *)
(* batches, jobs and tries: the types, that no chunk outlives its          *)
(* document, that a ready document's content is stored, that no document   *)
(* waits for nothing, and that the rows are registers (DocumentRegisters). *)
(***************************************************************************)
EXTENDS KnowledgeIngestion, TLAPS

-----------------------------------------------------------------------------
(* Types *)

\* A document's row keeps its type when one row is replaced, and so do the jobs.
LEMMA SetDocType ==
  ASSUME TypeOK, NEW s \in Slots, jobs[s].doc \in DocIds, NEW doc \in Doc, SetDoc(s, doc)
  PROVE  docs' \in [DocIds -> Doc]
BY DEF TypeOK, SetDoc

LEMMA JobType ==
  ASSUME TypeOK, NEW s \in Slots, jobs[s].pc \in Stages
  PROVE  jobs[s] \in Job /\ jobs[s] # NoJob /\ jobs[s].doc \in DocIds /\ docs[jobs[s].doc] \in Doc
BY DEF TypeOK, Job, Stages, NoJob

LEMMA EnqueueType ==
  ASSUME TypeOK, NEW d \in DocIds, Enqueue(d)
  PROVE  jobs' \in [Slots -> Job \union {NoJob}]
<1>1. Queued(d) \in Job
  BY TriesAssumption DEF Queued, Job, Stages
<1>2. QED
  BY <1>1 DEF TypeOK, Enqueue

LEMMA InitType == Init => TypeOK
<1> SUFFICES ASSUME Init PROVE TypeOK
  OBVIOUS
<1>1. [status |-> "absent", file |-> NoFile, hash |-> NoFile, count |-> 0] \in Doc
  BY DEF Doc, Statuses
<1>2. NoChunks \in [1 .. Batches -> 0 .. MaxCopies]
  BY CopiesAssumption DEF NoChunks
<1>3. QED
  BY <1>1, <1>2 DEF Init, TypeOK, NoReindex

\* What each endpoint does to the types.
LEMMA EndpointType ==
  ASSUME TypeOK, NEW d \in DocIds,
         (\E f \in Files : Upload(d, f)) \/ Retry(d) \/ Delete(d) \/ ReindexEnqueue(d)
         \/ ReindexRead \/ ReindexCommit
  PROVE  TypeOK'
<1>1. CASE \E f \in Files : Upload(d, f)
  <2> PICK f \in Files : Upload(d, f)
    BY <1>1
  <2>1. [status |-> "processing", file |-> f, hash |-> NoFile, count |-> 0] \in Doc
    BY DEF Doc, Statuses
  <2>2. jobs' \in [Slots -> Job \union {NoJob}]
    BY EnqueueType DEF Upload
  <2>3. QED
    BY <2>1, <2>2 DEF Upload, TypeOK
<1>2. CASE Retry(d)
  <2>1. [docs[d] EXCEPT !.status = "processing"] \in Doc
    BY DEF TypeOK, Doc, Statuses
  <2>2. jobs' \in [Slots -> Job \union {NoJob}]
    BY <1>2, EnqueueType DEF Retry
  <2>3. QED
    BY <1>2, <2>1, <2>2 DEF Retry, TypeOK
<1>3. CASE Delete(d)
  <2>1. [docs[d] EXCEPT !.status = "deleted"] \in Doc
    BY DEF TypeOK, Doc, Statuses
  <2>2. NoChunks \in [1 .. Batches -> 0 .. MaxCopies]
    BY CopiesAssumption DEF NoChunks
  <2>3. QED
    BY <1>3, <2>1, <2>2 DEF Delete, TypeOK
<1>4. CASE ReindexEnqueue(d)
  <2>1. jobs' \in [Slots -> Job \union {NoJob}]
    BY <1>4, EnqueueType DEF ReindexEnqueue
  <2>2. QED
    BY <1>4, <2>1 DEF ReindexEnqueue, TypeOK
<1>5. CASE ReindexRead
  BY <1>5 DEF ReindexRead, TypeOK
<1>6. CASE ReindexCommit
  <2>1. \A e \in DocIds : [docs[e] EXCEPT !.status = "processing"] \in Doc
    BY DEF TypeOK, Doc, Statuses
  <2>2. QED
    BY <1>6, <2>1 DEF ReindexCommit, TypeOK, NoReindex
<1>7. QED
  BY <1>1, <1>2, <1>3, <1>4, <1>5, <1>6

\* Only a job that exists takes a step.
LEMMA WorkJob ==
  ASSUME TypeOK, NEW s \in Slots, Work(s) \/ Timeout(s) \/ Kill(s)
  PROVE  jobs[s] \in Job /\ jobs[s] # NoJob /\ jobs[s].doc \in DocIds /\ Own(s) \in Doc
<1>1. jobs[s].pc \in Stages
  BY DEF TypeOK, Work, Start, GiveUp, Fetch, FetchFails, Lookup, Fold, Claim, Parse, ParseFails, Store,
     StoreFails, Finish, Timeout, Kill, At, InProgress, Stages, Job, NoJob
<1>2. QED
  BY <1>1, JobType DEF Own

\* What each step of a job does to the types.
LEMMA WorkType ==
  ASSUME TypeOK, NEW s \in Slots, Work(s) \/ Timeout(s) \/ Kill(s)
  PROVE  TypeOK'
<1> DEFINE JobsOK == jobs' \in [Slots -> Job \union {NoJob}]
<1>1. /\ jobs[s] \in Job /\ jobs[s] # NoJob /\ jobs[s].doc \in DocIds /\ Own(s) \in Doc
  BY WorkJob
<1>2. End(s) => JobsOK
  BY DEF End, TypeOK
<1>3. \A pc \in Stages : Goto(s, pc) => JobsOK
  BY <1>1 DEF Goto, TypeOK, Job
<1>4. \A st \in Statuses, h \in Files \union {NoFile}, n \in Nat :
        /\ [Own(s) EXCEPT !.status = st] \in Doc
        /\ [Own(s) EXCEPT !.status = st, !.count = n] \in Doc
        /\ [Own(s) EXCEPT !.status = st, !.hash = h] \in Doc
        /\ [Own(s) EXCEPT !.status = st, !.hash = h, !.count = n] \in Doc
  BY <1>1 DEF Doc
<1>5. Own(s).file \in Files \union {NoFile} /\ jobs[s].count \in Nat /\ Batches \in Nat
  BY <1>1, BatchesAssumption DEF Doc, Job
<1>6. Fails(s) => docs' \in [DocIds -> Doc] /\ JobsOK
  <2>1. [Own(s) EXCEPT !.status = "failed"] \in Doc
    BY <1>4, <1>5 DEF Statuses
  <2>2. QED
    BY <2>1, <1>1, <1>2, SetDocType DEF Fails
<1>7. CASE Start(s)
  <2>0. jobs[s].tries + 1 \in 0 .. MaxTries
    <3>1. jobs[s].tries \in 0 .. MaxTries /\ jobs[s].tries < MaxTries
      BY <1>7, <1>1 DEF Start, Job
    <3>2. QED
      BY <3>1, TriesAssumption
  <2>1. [jobs[s] EXCEPT !.pc = "fetch", !.tries = @ + 1] \in Job
    BY <2>0, <1>1 DEF Job, Stages
  <2>2. jobs' = [jobs EXCEPT ![s] = [jobs[s] EXCEPT !.pc = "fetch", !.tries = @ + 1]]
    BY <1>7, <1>1 DEF Start, TypeOK
  <2>3. QED
    BY <1>7, <2>1, <2>2 DEF Start, TypeOK
<1>8. CASE GiveUp(s) \/ StoreFails(s) \/ Timeout(s)
  BY <1>8, <1>2 DEF GiveUp, StoreFails, Timeout, TypeOK
<1>9. CASE Fetch(s) \/ Parse(s) \/ Kill(s)
  <2>1. JobsOK
    BY <1>9, <1>3 DEF Fetch, Parse, Kill, Stages
  <2>2. QED
    BY <1>9, <2>1 DEF Fetch, Parse, Kill, TypeOK
<1>10. CASE FetchFails(s) \/ ParseFails(s)
  BY <1>10, <1>6 DEF FetchFails, ParseFails, TypeOK
<1>11. CASE Lookup(s)
  <2>1. CASE Goto(s, "claim") /\ UNCHANGED docs
    BY <1>11, <2>1, <1>3 DEF Lookup, TypeOK, Stages
  <2>2. CASE \E d \in Identical(s) :
               jobs' = [jobs EXCEPT ![s].pc = "fold", ![s].count = docs[d].count] /\ UNCHANGED docs
    <3> PICK d \in Identical(s) :
               jobs' = [jobs EXCEPT ![s].pc = "fold", ![s].count = docs[d].count] /\ UNCHANGED docs
      BY <2>2
    <3>1. docs[d].count \in Nat
      BY DEF Identical, TypeOK, Doc
    <3>2. [jobs[s] EXCEPT !.pc = "fold", !.count = docs[d].count] \in Job
      BY <3>1, <1>1 DEF Job, Stages
    <3>3. QED
      BY <3>2, <1>11 DEF Lookup, TypeOK
  <2>3. CASE Fails(s)
    BY <1>11, <2>3, <1>6 DEF Lookup, TypeOK
  <2>4. QED
    BY <1>11, <2>1, <2>2, <2>3 DEF Lookup
<1>12. CASE Fold(s)
  <2>1. [Own(s) EXCEPT !.status = "ready", !.hash = Own(s).file, !.count = jobs[s].count] \in Doc
    BY <1>4, <1>5 DEF Statuses
  <2>2. QED
    BY <1>12, <2>1, <1>1, <1>2, SetDocType DEF Fold, TypeOK
<1>13. CASE Claim(s)
  <2>1. CASE ~Exists(jobs[s].doc)
    BY <1>13, <2>1, <1>2 DEF Claim, TypeOK
  <2>2. CASE Exists(jobs[s].doc)
    <3>1. [Own(s) EXCEPT !.status = "processing", !.hash = Own(s).file] \in Doc
      BY <1>4, <1>5 DEF Statuses
    <3>2. docs' \in [DocIds -> Doc]
      BY <1>13, <2>2, <3>1, <1>1, SetDocType DEF Claim
    <3>3. [jobs[s] EXCEPT !.pc = "parse", !.count = 0] \in Job
      BY <1>1 DEF Job, Stages
    <3>4. JobsOK
      BY <1>13, <2>2, <3>3 DEF Claim, TypeOK
    <3>5. QED
      BY <1>13, <3>2, <3>4 DEF Claim, TypeOK
  <2>3. QED
    BY <2>1, <2>2
<1>14. CASE Store(s)
  <2> DEFINE d == jobs[s].doc
             i == jobs[s].count + 1
  <2>1. i \in 1 .. Batches
    BY <1>14, <1>5 DEF Store
  <2>2. [jobs[s] EXCEPT !.count = @ + 1] \in Job
    BY <1>1 DEF Job
  <2>3. JobsOK
    BY <1>14, <2>2 DEF Store, TypeOK
  <2>4. OneMore(chunks[d][i]) \in 0 .. MaxCopies
    <3>1. chunks[d][i] \in 0 .. MaxCopies
      BY <2>1, <1>1 DEF TypeOK
    <3>2. QED
      BY <3>1, CopiesAssumption DEF OneMore
  <2>5. chunks' \in [DocIds -> [1 .. Batches -> 0 .. MaxCopies]]
    <3>1. chunks' = [chunks EXCEPT ![d] = [chunks[d] EXCEPT ![i] = OneMore(chunks[d][i])]]
      BY <1>14 DEF Store
    <3>2. [chunks[d] EXCEPT ![i] = OneMore(chunks[d][i])] \in [1 .. Batches -> 0 .. MaxCopies]
      BY <2>1, <2>4, <1>1 DEF TypeOK
    <3>3. QED
      BY <3>1, <3>2, <1>1 DEF TypeOK
  <2>6. QED
    BY <1>14, <2>3, <2>5 DEF Store, TypeOK
<1>15. CASE Finish(s)
  <2>1. [Own(s) EXCEPT !.status = "ready", !.count = Batches] \in Doc
    BY <1>4, <1>5 DEF Statuses
  <2>2. QED
    BY <1>15, <2>1, <1>1, <1>2, SetDocType DEF Finish, TypeOK
<1>16. QED
  BY <1>7, <1>8, <1>9, <1>10, <1>11, <1>12, <1>13, <1>14, <1>15 DEF Work

LEMMA NextType == TypeOK /\ [Next]_vars => TypeOK'
<1> SUFFICES ASSUME TypeOK, [Next]_vars PROVE TypeOK'
  OBVIOUS
<1>1. CASE UNCHANGED vars
  BY <1>1 DEF vars, TypeOK
<1>2. CASE \E s \in Slots : Work(s) \/ Timeout(s) \/ Kill(s)
  BY <1>2, WorkType
<1>3. CASE \E d \in DocIds : (\E f \in Files : Upload(d, f)) \/ Retry(d) \/ Delete(d) \/ ReindexEnqueue(d)
  BY <1>3, EndpointType
<1>4. CASE ReindexRead \/ ReindexCommit
  <2>1. CASE DocIds = {}
    BY <2>1, <1>4 DEF ReindexRead, ReindexCommit, TypeOK, NoReindex
  <2>2. CASE DocIds # {}
    BY <2>2, <1>4, EndpointType
  <2>3. QED
    BY <2>1, <2>2
<1>5. QED
  BY <1>1, <1>2, <1>3, <1>4 DEF Next

\* Every variable keeps its type, for any documents, files, batches, jobs and tries.
THEOREM TypeCorrect == Spec => []TypeOK
<1>1. QED
  BY InitType, NextType, PTL DEF Spec

-----------------------------------------------------------------------------
(* No chunk outlives its document *)

\* Documents stay, with the file they were uploaded with; a new hash is that of the file.
Keeps ==
  \A d \in DocIds : Exists(d) =>
    Exists(d)' /\ docs'[d].file = docs[d].file /\ docs'[d].hash \in {docs[d].hash, docs[d].file}

\* Rows that do not exist are not written.
Untouched == \A d \in DocIds : ~Exists(d) => docs'[d] = docs[d]

LEMMA SetDocKeeps ==
  ASSUME TypeOK, NEW s \in Slots, jobs[s].doc \in DocIds, NEW doc \in Doc, SetDoc(s, doc),
         doc.status \notin {"absent", "deleted"}, doc.file = Own(s).file,
         doc.hash \in {Own(s).hash, Own(s).file}
  PROVE  Keeps /\ Untouched
BY DEF TypeOK, SetDoc, Own, Keeps, Untouched, Exists

LEMMA SameKeeps == UNCHANGED docs => Keeps /\ Untouched
BY DEF Keeps, Untouched, Exists

LEMMA WorkKeeps ==
  ASSUME TypeOK, NEW s \in Slots, Work(s) \/ Timeout(s) \/ Kill(s)
  PROVE  Keeps /\ Untouched
<1>1. /\ jobs[s] \in Job /\ jobs[s].doc \in DocIds /\ Own(s) \in Doc
  BY WorkJob
<1>2. Own(s).file \in Files \union {NoFile} /\ jobs[s].count \in Nat /\ Batches \in Nat
  BY <1>1, BatchesAssumption DEF Doc, Job
<1>3. CASE Fails(s)
  <2> DEFINE doc == [Own(s) EXCEPT !.status = "failed"]
  <2>1. /\ doc \in Doc /\ doc.status \notin {"absent", "deleted"} /\ doc.file = Own(s).file
        /\ doc.hash = Own(s).hash
    BY <1>1 DEF Doc, Statuses
  <2>2. QED
    BY <1>3, <2>1, <1>1, SetDocKeeps DEF Fails
<1>4. CASE Fold(s)
  <2> DEFINE doc == [Own(s) EXCEPT !.status = "ready", !.hash = Own(s).file, !.count = jobs[s].count]
  <2>1. /\ doc \in Doc /\ doc.status \notin {"absent", "deleted"} /\ doc.file = Own(s).file
        /\ doc.hash = Own(s).file
    BY <1>1, <1>2 DEF Doc, Statuses
  <2>2. QED
    BY <1>4, <2>1, <1>1, SetDocKeeps DEF Fold
<1>5. CASE Claim(s)
  <2> DEFINE doc == [Own(s) EXCEPT !.status = "processing", !.hash = Own(s).file]
  <2>1. /\ doc \in Doc /\ doc.status \notin {"absent", "deleted"} /\ doc.file = Own(s).file
        /\ doc.hash = Own(s).file
    BY <1>1, <1>2 DEF Doc, Statuses
  <2>2. CASE Exists(jobs[s].doc)
    BY <1>5, <2>1, <2>2, <1>1, SetDocKeeps DEF Claim
  <2>3. CASE ~Exists(jobs[s].doc)
    BY <1>5, <2>3, SameKeeps DEF Claim
  <2>4. QED
    BY <2>2, <2>3
<1>6. CASE Finish(s)
  <2> DEFINE doc == [Own(s) EXCEPT !.status = "ready", !.count = Batches]
  <2>1. /\ doc \in Doc /\ doc.status \notin {"absent", "deleted"} /\ doc.file = Own(s).file
        /\ doc.hash = Own(s).hash
    BY <1>1, <1>2 DEF Doc, Statuses
  <2>2. QED
    BY <1>6, <2>1, <1>1, SetDocKeeps DEF Finish
<1>7. CASE UNCHANGED docs
  BY <1>7, SameKeeps
<1>8. Fails(s) \/ Fold(s) \/ Claim(s) \/ Finish(s) \/ UNCHANGED docs
  BY DEF Work, Start, GiveUp, Fetch, FetchFails, Lookup, Parse, ParseFails, Store, StoreFails, Timeout, Kill
<1>9. QED
  BY <1>3, <1>4, <1>5, <1>6, <1>7, <1>8

\* Every endpoint but the deletion keeps the documents, and none but it changes the chunks.
LEMMA EndpointKeeps ==
  ASSUME TypeOK, \/ \E d \in DocIds, f \in Files : Upload(d, f)
                 \/ \E d \in DocIds : Retry(d) \/ ReindexEnqueue(d)
                 \/ ReindexRead \/ ReindexCommit
  PROVE  Keeps /\ UNCHANGED chunks
<1>1. ASSUME NEW d \in DocIds, NEW f \in Files, Upload(d, f) PROVE Keeps /\ UNCHANGED chunks
  BY <1>1 DEF TypeOK, Upload, Keeps, Exists
<1>2. ASSUME NEW d \in DocIds, Retry(d) PROVE Keeps /\ UNCHANGED chunks
  BY <1>2 DEF TypeOK, Retry, Keeps, Exists, Doc
<1>3. CASE (\E d \in DocIds : ReindexEnqueue(d)) \/ ReindexRead
  BY <1>3, SameKeeps DEF ReindexEnqueue, ReindexRead
<1>4. CASE ReindexCommit
  <2>1. \A d \in DocIds : docs'[d] = docs[d] \/ (Exists(d) /\ docs'[d] = [docs[d] EXCEPT !.status = "processing"])
    BY <1>4 DEF ReindexCommit
  <2>2. \A d \in DocIds : docs[d] \in Doc
    BY DEF TypeOK
  <2>3. QED
    BY <1>4, <2>1, <2>2 DEF ReindexCommit, Keeps, Exists, Doc
<1>5. QED
  BY <1>1, <1>2, <1>3, <1>4

LEMMA NextChunks == TypeOK /\ ChunksHaveDocument /\ [Next]_vars => ChunksHaveDocument'
<1> SUFFICES ASSUME TypeOK, ChunksHaveDocument, [Next]_vars PROVE ChunksHaveDocument'
  OBVIOUS
<1>1. CASE Keeps /\ UNCHANGED chunks
  BY <1>1 DEF ChunksHaveDocument, Keeps, Exists
<1>2. ASSUME NEW d \in DocIds, Delete(d) PROVE ChunksHaveDocument'
  BY <1>2 DEF Delete, ChunksHaveDocument, Exists, TypeOK
<1>3. ASSUME NEW s \in Slots, Work(s) \/ Timeout(s) \/ Kill(s) PROVE ChunksHaveDocument'
  <2>1. Keeps
    BY <1>3, WorkKeeps
  <2>2. CASE Store(s)
    <3>1. Exists(jobs[s].doc) /\ UNCHANGED docs
      BY <2>2 DEF Store
    <3>2. \A d \in DocIds : ~Exists(d) => chunks'[d] = chunks[d]
      BY <2>2, <3>1 DEF Store, TypeOK
    <3>3. QED
      BY <3>1, <3>2 DEF ChunksHaveDocument, Exists
  <2>3. CASE ~Store(s)
    <3>1. UNCHANGED chunks
      BY <1>3, <2>3 DEF Work, Start, GiveUp, Fetch, FetchFails, Lookup, Fold, Claim, Parse, ParseFails,
         StoreFails, Finish, Timeout, Kill
    <3>2. QED
      BY <1>1, <2>1, <3>1
  <2>4. QED
    BY <2>2, <2>3
<1>4. CASE UNCHANGED vars
  BY <1>1, <1>4, SameKeeps DEF vars
<1>5. CASE \/ \E d \in DocIds, f \in Files : Upload(d, f)
           \/ \E d \in DocIds : Retry(d) \/ ReindexEnqueue(d)
           \/ ReindexRead \/ ReindexCommit
  BY <1>1, <1>5, EndpointKeeps
<1>6. QED
  BY <1>2, <1>3, <1>4, <1>5 DEF Next

\* A deletion leaves no chunk behind, whatever the job of the document is in the middle of,
\* and whatever else is lost, killed or refused.
THEOREM ChunksGone == Spec => []ChunksHaveDocument
<1>1. Init => ChunksHaveDocument
  BY DEF Init, ChunksHaveDocument
<1>2. QED
  BY <1>1, NextChunks, TypeCorrect, PTL DEF Spec

-----------------------------------------------------------------------------
(* A ready document's content is stored, when documents are not deleted *)

\* Nothing is deleted, and a row's hash, once it has one, is that of its file.
RowsInOrder ==
  \A d \in DocIds : /\ docs[d].status # "deleted"
                    /\ docs[d].hash \in {NoFile, docs[d].file}
                    /\ Exists(d) => docs[d].file \in Files

\* Jobs, and the reindex request, are about documents that exist.
JobsInOrder ==
  /\ \A s \in Slots : jobs[s] # NoJob => Exists(jobs[s].doc)
  /\ \A d \in reindex.todo : Exists(d)

\* A job about to fold has something to fold onto; one that stores has stored what it counts.
InOrder(s) ==
  /\ At(s, "fold") =>
       \E e \in DocIds : Exists(e) /\ docs[e].file = docs[jobs[s].doc].file /\ Complete(e)
  /\ At(s, "parse") => jobs[s].count = 0
  /\ At(s, "store") => \A i \in 1 .. Batches : i <= jobs[s].count => chunks[jobs[s].doc][i] > 0

ProgressInOrder == \A s \in Slots : InOrder(s)

IInv == TypeOK /\ RowsInOrder /\ JobsInOrder /\ ProgressInOrder /\ ReadyIsStored

\* What is stored stays stored.
Grows == \A d \in DocIds, i \in 1 .. Batches : chunks[d][i] > 0 => chunks'[d][i] > 0

LEMMA StoredStays ==
  ASSUME Keeps, Grows, NEW e \in DocIds, Exists(e), Complete(e)
  PROVE  Exists(e)' /\ docs'[e].file = docs[e].file /\ Complete(e)'
BY DEF Keeps, Grows, Complete

LEMMA StoreAdds ==
  ASSUME TypeOK, NEW s \in Slots, Store(s)
  PROVE  Grows /\ chunks'[jobs[s].doc][jobs[s].count + 1] > 0
<1> DEFINE d == jobs[s].doc
           i == jobs[s].count + 1
<1>1. d \in DocIds /\ i \in 1 .. Batches
  <2>1. jobs[s] \in Job
    BY WorkJob DEF Work
  <2>2. jobs[s].count < Batches
    BY DEF Store
  <2>3. QED
    BY <2>1, <2>2, BatchesAssumption DEF Job
<1>2. chunks[d][i] \in 0 .. MaxCopies
  BY <1>1 DEF TypeOK
<1>3. OneMore(chunks[d][i]) > 0
  BY <1>2, CopiesAssumption DEF OneMore
<1>4. chunks' = [chunks EXCEPT ![d] = [chunks[d] EXCEPT ![i] = OneMore(chunks[d][i])]]
  BY DEF Store
<1>5. QED
  BY <1>1, <1>3, <1>4 DEF Grows, TypeOK

LEMMA WorkGrows ==
  ASSUME TypeOK, NEW s \in Slots, Work(s) \/ Timeout(s) \/ Kill(s)
  PROVE  Grows
<1>1. CASE UNCHANGED chunks
  BY <1>1 DEF Grows
<1>2. CASE Store(s)
  BY <1>2, StoreAdds
<1>3. UNCHANGED chunks \/ Store(s)
  BY DEF Work, Start, GiveUp, Fetch, FetchFails, Lookup, Fold, Claim, Parse, ParseFails, StoreFails,
     Finish, Timeout, Kill
<1>4. QED
  BY <1>1, <1>2, <1>3

\* A step of a job leaves the other jobs alone, and works on the same document to its end.
LEMMA WorkJobs ==
  ASSUME TypeOK, NEW s \in Slots, Work(s) \/ Timeout(s) \/ Kill(s)
  PROVE  /\ \A t \in Slots : t # s => jobs'[t] = jobs[t]
         /\ jobs'[s] = NoJob \/ jobs'[s].doc = jobs[s].doc
         /\ UNCHANGED reindex
<1>1. jobs[s] \in Job
  BY WorkJob
<1>2. End(s) \/ (\E pc \in Stages : Goto(s, pc)) =>
        /\ \A t \in Slots : t # s => jobs'[t] = jobs[t]
        /\ jobs'[s] = NoJob \/ jobs'[s].doc = jobs[s].doc
  BY <1>1 DEF End, Goto, TypeOK, Job
<1>3. UNCHANGED reindex
  BY DEF Work, Start, GiveUp, Fetch, FetchFails, Lookup, Fold, Claim, Parse, ParseFails, Store,
     StoreFails, Finish, Timeout, Kill
<1>4. CASE End(s) \/ \E pc \in Stages : Goto(s, pc)
  BY <1>2, <1>3, <1>4
<1>5. CASE Start(s) \/ Claim(s) \/ Store(s) \/ Lookup(s)
  BY <1>1, <1>2, <1>3, <1>5 DEF Start, Claim, Store, Lookup, Fails, TypeOK, Job, Stages
<1>6. \/ End(s) \/ (\E pc \in Stages : Goto(s, pc))
      \/ Start(s) \/ Claim(s) \/ Store(s) \/ Lookup(s)
  BY DEF Work, GiveUp, Fetch, FetchFails, Fails, Fold, Parse, ParseFails, StoreFails, Finish,
     Timeout, Kill, Stages
<1>7. QED
  BY <1>4, <1>5, <1>6

\* Where a job comes from when it is about to fold, to parse or to store.
LEMMA WorkStages ==
  ASSUME TypeOK, NEW s \in Slots, Work(s) \/ Timeout(s) \/ Kill(s)
  PROVE  /\ At(s, "fold")' => Lookup(s) /\ Identical(s) # {} /\ UNCHANGED docs
         /\ At(s, "parse")' => Claim(s) /\ jobs'[s].count = 0
         /\ At(s, "store")' => \/ Parse(s) /\ jobs'[s].count = jobs[s].count
                               \/ Store(s) /\ jobs'[s].count = jobs[s].count + 1
<1>1. jobs[s] \in Job
  BY WorkJob
<1>2. End(s) => jobs'[s] = NoJob
  BY DEF End, TypeOK
<1>3. \A pc \in Stages : Goto(s, pc) => jobs'[s].pc = pc /\ jobs'[s].count = jobs[s].count
  BY <1>1 DEF Goto, TypeOK, Job
<1>4. CASE End(s)
  BY <1>2, <1>4 DEF At, NoJob
<1>5. CASE Start(s)
  BY <1>5, <1>1 DEF Start, At, TypeOK, Job
<1>6. CASE Fetch(s) \/ Kill(s)
  BY <1>6, <1>3 DEF Fetch, Kill, At, Stages
<1>7. CASE Parse(s)
  BY <1>7, <1>3 DEF Parse, At, Stages
<1>8. CASE Lookup(s)
  <2>1. CASE Goto(s, "claim")
    BY <2>1, <1>3 DEF At, Stages
  <2>2. CASE Fails(s)
    BY <2>2, <1>4 DEF Fails
  <2>3. ASSUME NEW d \in Identical(s), UNCHANGED docs,
               jobs' = [jobs EXCEPT ![s].pc = "fold", ![s].count = docs[d].count]
        PROVE  At(s, "fold")' /\ Identical(s) # {} /\ UNCHANGED docs
    BY <2>3, <1>1 DEF At, TypeOK, Job
  <2>4. QED
    BY <1>8, <2>1, <2>2, <2>3 DEF Lookup, At
<1>9. CASE Claim(s)
  <2>1. CASE End(s)
    BY <2>1, <1>4
  <2>2. CASE jobs' = [jobs EXCEPT ![s].pc = "parse", ![s].count = 0]
    BY <1>9, <2>2, <1>1 DEF At, TypeOK, Job
  <2>3. QED
    BY <1>9, <2>1, <2>2 DEF Claim
<1>10. CASE Store(s)
  BY <1>10, <1>1 DEF Store, At, TypeOK, Job
<1>11. QED
  BY <1>4, <1>5, <1>6, <1>7, <1>8, <1>9, <1>10 DEF Work, GiveUp, FetchFails, Fails, Fold, ParseFails,
     StoreFails, Finish, Timeout

\* Only the fold and the finish of its own job make a document ready.
LEMMA NewlyReady ==
  ASSUME TypeOK, NEW s \in Slots, Work(s) \/ Timeout(s) \/ Kill(s),
         NEW d \in DocIds, docs[d].status # "ready", docs'[d].status = "ready"
  PROVE  d = jobs[s].doc /\ Exists(d) /\ (Fold(s) \/ Finish(s))
<1>1. jobs[s].doc \in DocIds /\ Own(s) \in Doc
  BY WorkJob
<1>2. \A doc : SetDoc(s, doc) => d = jobs[s].doc /\ Exists(d) /\ docs'[d] = doc
  BY DEF SetDoc, TypeOK
<1>3. CASE Fails(s)
  BY <1>1, <1>2, <1>3 DEF Fails, Doc
<1>4. CASE Claim(s)
  <2> DEFINE doc == [Own(s) EXCEPT !.status = "processing", !.hash = Own(s).file]
  <2>1. doc.status = "processing"
    BY <1>1 DEF Doc
  <2>2. CASE Exists(jobs[s].doc)
    BY <1>2, <1>4, <2>1, <2>2 DEF Claim
  <2>3. CASE ~Exists(jobs[s].doc)
    BY <1>4, <2>3 DEF Claim
  <2>4. QED
    BY <2>2, <2>3
<1>5. Fails(s) \/ Claim(s) \/ UNCHANGED docs \/ Fold(s) \/ Finish(s)
  BY DEF Work, Start, GiveUp, Fetch, FetchFails, Lookup, Parse, ParseFails, Store, StoreFails, Timeout, Kill
<1>6. CASE Fold(s)
  BY <1>2, <1>6 DEF Fold
<1>7. CASE Finish(s)
  BY <1>2, <1>7 DEF Finish
<1>8. QED
  BY <1>3, <1>4, <1>5, <1>6, <1>7

LEMMA WorkInv ==
  ASSUME IInv, NEW s \in Slots, Work(s) \/ Timeout(s) \/ Kill(s)
  PROVE  RowsInOrder' /\ JobsInOrder' /\ ProgressInOrder' /\ ReadyIsStored'
<1> USE DEF IInv
<1>1. Keeps /\ Untouched /\ Grows
  BY WorkKeeps, WorkGrows
<1>2. \A e \in DocIds : Exists(e) /\ Complete(e) =>
        Exists(e)' /\ docs'[e].file = docs[e].file /\ Complete(e)'
  BY <1>1, StoredStays
<1>3. jobs[s] \in Job /\ jobs[s] # NoJob /\ jobs[s].doc \in DocIds /\ Exists(jobs[s].doc)
  BY WorkJob DEF JobsInOrder
<1>4. RowsInOrder'
  BY <1>1 DEF RowsInOrder, Keeps, Untouched, Exists
<1>5. JobsInOrder'
  <2>1. \A t \in Slots : jobs'[t] # NoJob =>
          jobs[t] # NoJob /\ jobs'[t].doc = jobs[t].doc /\ jobs[t].doc \in DocIds
    BY <1>3, WorkJobs DEF TypeOK, Job
  <2>2. \A d \in reindex'.todo : d \in reindex.todo /\ d \in DocIds
    BY WorkJobs DEF TypeOK
  <2>3. \A d \in DocIds : Exists(d) => Exists(d)'
    BY <1>1 DEF Keeps
  <2>4. QED
    BY <2>1, <2>2, <2>3 DEF JobsInOrder, Exists
<1>6. ASSUME NEW t \in Slots, t # s PROVE InOrder(t)'
  <2>1. jobs'[t] = jobs[t]
    BY <1>6, WorkJobs
  <2>2. CASE jobs[t] = NoJob
    BY <2>1, <2>2 DEF InOrder, At, NoJob
  <2>3. CASE jobs[t] # NoJob
    <3>1. jobs[t] \in Job /\ jobs[t].doc \in DocIds /\ Exists(jobs[t].doc) /\ InOrder(t)
      BY <2>3 DEF JobsInOrder, ProgressInOrder, TypeOK, Job
    <3>2. docs'[jobs[t].doc].file = docs[jobs[t].doc].file
      BY <3>1, <1>1 DEF Keeps
    <3>3. At(t, "fold")' => \E e \in DocIds : Exists(e)' /\ docs'[e].file = docs'[jobs[t].doc].file /\ Complete(e)'
      BY <3>1, <3>2, <2>1, <1>2 DEF InOrder, At
    <3>4. At(t, "store")' => \A i \in 1 .. Batches : i <= jobs[t].count => chunks'[jobs[t].doc][i] > 0
      BY <3>1, <2>1, <1>1 DEF InOrder, At, Grows
    <3>5. At(t, "parse")' => jobs[t].count = 0
      BY <3>1, <2>1 DEF InOrder, At
    <3>6. QED
      BY <3>3, <3>4, <3>5, <2>1 DEF InOrder
  <2>4. QED
    BY <2>2, <2>3
<1>7. InOrder(s)'
  <2>1. jobs'[s] # NoJob => jobs'[s].doc = jobs[s].doc
    BY WorkJobs
  <2>2. docs'[jobs[s].doc].file = docs[jobs[s].doc].file
    BY <1>1, <1>3 DEF Keeps
  <2>3. ASSUME At(s, "fold")'
        PROVE  \E e \in DocIds : Exists(e)' /\ docs'[e].file = docs'[jobs'[s].doc].file /\ Complete(e)'
    <3>1. Identical(s) # {} /\ jobs'[s] # NoJob
      BY <2>3, WorkStages DEF At, NoJob
    <3>2. PICK d \in Identical(s) : TRUE
      BY <3>1
    <3>3. docs[d].file = docs[jobs[s].doc].file
      BY <1>3, FilesAssumption DEF Identical, RowsInOrder, Own
    <3>4. PICK e \in DocIds : Exists(e) /\ docs[e].file = docs[d].file /\ Complete(e)
      BY DEF ReadyIsStored, Identical
    <3>5. QED
      BY <1>2, <2>1, <2>2, <3>1, <3>3, <3>4
  <2>4. ASSUME At(s, "parse")' PROVE jobs'[s].count = 0
    BY <2>4, WorkStages
  <2>5. ASSUME At(s, "store")', NEW i \in 1 .. Batches, i <= jobs'[s].count
        PROVE  chunks'[jobs'[s].doc][i] > 0
    <3>1. jobs'[s] # NoJob /\ jobs[s].count \in Nat
      BY <1>3, <2>5 DEF At, NoJob, Job
    <3>2. CASE Parse(s) /\ jobs'[s].count = jobs[s].count
      BY <2>5, <3>1, <3>2, BatchesAssumption DEF Parse, ProgressInOrder, InOrder
    <3>3. CASE Store(s) /\ jobs'[s].count = jobs[s].count + 1
      <4>1. CASE i <= jobs[s].count
        BY <1>1, <1>3, <2>1, <3>1, <3>3, <4>1 DEF Store, ProgressInOrder, InOrder, Grows
      <4>2. CASE i = jobs[s].count + 1
        BY <1>3, <2>1, <3>1, <3>3, <4>2, StoreAdds
      <4>3. QED
        BY <2>5, <3>1, <3>3, <4>1, <4>2, BatchesAssumption
    <3>4. QED
      BY <2>5, <3>2, <3>3, WorkStages
  <2>6. QED
    BY <2>3, <2>4, <2>5 DEF InOrder
<1>8. ProgressInOrder'
  BY <1>6, <1>7 DEF ProgressInOrder
<1>9. ASSUME NEW d \in DocIds, docs'[d].status = "ready"
      PROVE  \E e \in DocIds : Exists(e)' /\ docs'[e].file = docs'[d].file /\ Complete(e)'
  <2>1. Exists(d) /\ \E e \in DocIds : Exists(e) /\ docs[e].file = docs[d].file /\ Complete(e)
    <3>1. CASE docs[d].status = "ready"
      BY <3>1 DEF ReadyIsStored, Exists
    <3>2. CASE docs[d].status # "ready"
      <4>1. d = jobs[s].doc /\ Exists(d) /\ (Fold(s) \/ Finish(s))
        BY <1>9, <3>2, NewlyReady
      <4>2. CASE Fold(s)
        BY <4>1, <4>2 DEF Fold, ProgressInOrder, InOrder
      <4>3. CASE Finish(s)
        <5>1. Complete(d)
          BY <4>1, <4>3, BatchesAssumption DEF Finish, ProgressInOrder, InOrder, Complete
        <5>2. QED
          BY <4>1, <5>1
      <4>4. QED
        BY <4>1, <4>2, <4>3
    <3>3. QED
      BY <3>1, <3>2
  <2>2. docs'[d].file = docs[d].file
    BY <1>1, <2>1 DEF Keeps
  <2>3. QED
    BY <1>2, <2>1, <2>2
<1>10. ReadyIsStored'
  BY <1>9 DEF ReadyIsStored
<1>11. QED
  BY <1>4, <1>5, <1>8, <1>10

\* What an endpoint may do to the rows and to the jobs: put a row at "processing", put a job
\* of a document that exists on the queue.
EndpointRows ==
  \A d \in DocIds : /\ docs'[d].status \in {docs[d].status, "processing"}
                    /\ docs'[d].hash \in {NoFile, docs'[d].file}
                    /\ docs'[d].status = "processing" => docs'[d].file \in Files

EndpointJobs ==
  /\ \A s \in Slots : jobs'[s] = jobs[s] \/ \E d \in DocIds : Exists(d)' /\ jobs'[s] = Queued(d)
  /\ \A d \in reindex'.todo : d \in DocIds /\ Exists(d)'

LEMMA EnqueueJobs ==
  ASSUME TypeOK, NEW d \in DocIds, Exists(d)', Enqueue(d)
  PROVE  \A s \in Slots : jobs'[s] = jobs[s] \/ \E e \in DocIds : Exists(e)' /\ jobs'[s] = Queued(e)
BY DEF TypeOK, Enqueue

LEMMA EndpointSteps ==
  ASSUME IInv, \/ \E d \in DocIds, f \in Files : Upload(d, f)
               \/ \E d \in DocIds : Retry(d) \/ ReindexEnqueue(d)
               \/ ReindexRead \/ ReindexCommit
  PROVE  EndpointRows /\ EndpointJobs
<1> USE DEF IInv
<1>1. Keeps
  BY EndpointKeeps
<1>2. \A d \in DocIds : Exists(d) => Exists(d)'
  BY <1>1 DEF Keeps
<1>3. \A d \in reindex.todo : d \in DocIds /\ Exists(d)'
  BY <1>2 DEF JobsInOrder, TypeOK
<1>4. UNCHANGED docs => EndpointRows
  BY DEF RowsInOrder, EndpointRows, Exists
<1>5. ASSUME NEW d \in DocIds, NEW f \in Files, Upload(d, f) PROVE EndpointRows /\ EndpointJobs
  <2>1. docs' = [docs EXCEPT ![d] = [status |-> "processing", file |-> f, hash |-> NoFile, count |-> 0]]
    BY <1>5 DEF Upload
  <2>2. Exists(d)'
    BY <2>1 DEF TypeOK, Exists
  <2>3. EndpointRows
    BY <2>1 DEF RowsInOrder, EndpointRows, Exists, TypeOK
  <2>4. QED
    BY <1>3, <1>5, <2>2, <2>3, EnqueueJobs DEF Upload, EndpointJobs
<1>6. ASSUME NEW d \in DocIds, Retry(d) PROVE EndpointRows /\ EndpointJobs
  <2>1. docs[d] \in Doc /\ Exists(d) /\ docs' = [docs EXCEPT ![d] = [docs[d] EXCEPT !.status = "processing"]]
    BY <1>6 DEF Retry, TypeOK
  <2>2. EndpointRows
    BY <2>1 DEF RowsInOrder, EndpointRows, Exists, TypeOK, Doc
  <2>3. QED
    BY <1>2, <1>3, <1>6, <2>1, <2>2, EnqueueJobs DEF Retry, EndpointJobs
<1>7. ASSUME NEW d \in DocIds, ReindexEnqueue(d) PROVE EndpointRows /\ EndpointJobs
  <2>1. \A e \in reindex'.todo : e \in reindex.todo
    BY <1>7 DEF ReindexEnqueue, TypeOK
  <2>2. Exists(d)'
    BY <1>3, <1>7 DEF ReindexEnqueue
  <2>3. QED
    BY <1>3, <1>4, <1>7, <2>1, <2>2, EnqueueJobs DEF ReindexEnqueue, EndpointJobs
<1>8. CASE ReindexRead
  BY <1>2, <1>4, <1>8 DEF ReindexRead, EndpointJobs, Exists
<1>9. CASE ReindexCommit
  <2>1. \A d \in DocIds : docs[d] \in Doc
                        /\ \/ docs'[d] = docs[d]
                           \/ Exists(d) /\ docs'[d] = [docs[d] EXCEPT !.status = "processing"]
    BY <1>9 DEF ReindexCommit, TypeOK
  <2>2. EndpointRows
    BY <2>1 DEF RowsInOrder, EndpointRows, Exists, Doc
  <2>3. QED
    BY <1>9, <2>2 DEF ReindexCommit, NoReindex, EndpointJobs
<1>10. QED
  BY <1>5, <1>6, <1>7, <1>8, <1>9

LEMMA EndpointInv ==
  ASSUME IInv, Keeps, EndpointRows, EndpointJobs, UNCHANGED chunks
  PROVE  RowsInOrder' /\ JobsInOrder' /\ ProgressInOrder' /\ ReadyIsStored'
<1> USE DEF IInv
<1>1. \A e \in DocIds : Exists(e) /\ Complete(e) =>
        Exists(e)' /\ docs'[e].file = docs[e].file /\ Complete(e)'
  BY DEF Keeps, Complete
<1>2. RowsInOrder'
  <2> SUFFICES ASSUME NEW d \in DocIds
               PROVE  /\ docs'[d].status # "deleted" /\ docs'[d].hash \in {NoFile, docs'[d].file}
                      /\ Exists(d)' => docs'[d].file \in Files
    BY DEF RowsInOrder
  <2>1. CASE docs'[d].status = "processing"
    BY <2>1 DEF EndpointRows
  <2>2. CASE docs'[d].status = docs[d].status
    BY <2>2 DEF EndpointRows, Keeps, RowsInOrder, Exists
  <2>3. QED
    BY <2>1, <2>2 DEF EndpointRows
<1>3. JobsInOrder'
  <2>1. ASSUME NEW s \in Slots, jobs'[s] # NoJob PROVE Exists(jobs[s].doc)'
    <3>1. CASE jobs'[s] = jobs[s]
      BY <2>1, <3>1 DEF JobsInOrder, Keeps, Exists, TypeOK, Job
    <3>2. ASSUME NEW d \in DocIds, Exists(d)', jobs'[s] = Queued(d) PROVE Exists(jobs[s].doc)'
      BY <3>2 DEF Queued, Exists
    <3>3. QED
      BY <3>1, <3>2 DEF EndpointJobs
  <2>2. QED
    BY <2>1 DEF JobsInOrder, EndpointJobs, Exists
<1>4. ASSUME NEW s \in Slots PROVE InOrder(s)'
  <2>1. ASSUME NEW d \in DocIds, jobs'[s] = Queued(d) PROVE InOrder(s)'
    BY <2>1 DEF Queued, InOrder, At
  <2>2. CASE jobs'[s] = jobs[s] /\ jobs[s] = NoJob
    BY <2>2 DEF NoJob, InOrder, At
  <2>3. CASE jobs'[s] = jobs[s] /\ jobs[s] # NoJob
    <3>1. jobs[s].doc \in DocIds /\ docs'[jobs[s].doc].file = docs[jobs[s].doc].file /\ InOrder(s)
      BY <2>3 DEF JobsInOrder, ProgressInOrder, Keeps, TypeOK, Job
    <3>2. At(s, "fold")' =>
            \E e \in DocIds : Exists(e)' /\ docs'[e].file = docs'[jobs'[s].doc].file /\ Complete(e)'
      BY <1>1, <2>3, <3>1 DEF InOrder, At
    <3>3. QED
      BY <2>3, <3>1, <3>2 DEF InOrder, At
  <2>4. QED
    BY <2>1, <2>2, <2>3 DEF EndpointJobs
<1>5. ASSUME NEW d \in DocIds, docs'[d].status = "ready"
      PROVE  \E e \in DocIds : Exists(e)' /\ docs'[e].file = docs'[d].file /\ Complete(e)'
  <2>1. docs[d].status = "ready" /\ docs'[d].file = docs[d].file
    BY <1>5 DEF EndpointRows, Keeps, Exists
  <2>2. QED
    BY <1>1, <2>1 DEF ReadyIsStored
<1>6. QED
  BY <1>2, <1>3, <1>4, <1>5 DEF ProgressInOrder, ReadyIsStored

LEMMA InitInv == Init => IInv
<1> SUFFICES ASSUME Init PROVE IInv
  OBVIOUS
<1>1. TypeOK
  BY InitType
<1>2. RowsInOrder /\ ReadyIsStored
  BY DEF Init, RowsInOrder, ReadyIsStored, Exists
<1>3. JobsInOrder
  BY DEF Init, JobsInOrder, NoReindex
<1>4. ProgressInOrder
  BY DEF Init, ProgressInOrder, InOrder, At, NoJob
<1>5. QED
  BY <1>1, <1>2, <1>3, <1>4 DEF IInv

LEMMA NextInv ==
  ASSUME MayDelete = FALSE
  PROVE  IInv /\ [Next]_vars => IInv'
<1> SUFFICES ASSUME IInv, [Next]_vars PROVE IInv'
  OBVIOUS
<1>1. TypeOK /\ TypeOK'
  BY NextType DEF IInv
<1>2. CASE \E s \in Slots : Work(s) \/ Timeout(s) \/ Kill(s)
  BY <1>1, <1>2, WorkInv DEF IInv
<1>3. CASE \/ \E d \in DocIds, f \in Files : Upload(d, f)
           \/ \E d \in DocIds : Retry(d) \/ ReindexEnqueue(d)
           \/ ReindexRead \/ ReindexCommit
  <2>1. EndpointRows /\ EndpointJobs
    BY <1>3, EndpointSteps
  <2>2. Keeps /\ UNCHANGED chunks
    BY <1>1, <1>3, EndpointKeeps
  <2>3. RowsInOrder' /\ JobsInOrder' /\ ProgressInOrder' /\ ReadyIsStored'
    BY <2>1, <2>2, EndpointInv
  <2>4. QED
    BY <1>1, <2>3 DEF IInv
<1>4. CASE UNCHANGED vars
  BY <1>4 DEF vars, IInv, TypeOK, RowsInOrder, JobsInOrder, ProgressInOrder, InOrder, ReadyIsStored,
     Exists, At, Complete
<1>5. QED
  BY <1>2, <1>3, <1>4 DEF Next, Delete

\* Where documents are not deleted, whatever fails, is lost or is killed, a ready document can
\* be found: all of its content is stored, under it or under an identical document.
THEOREM ReadyStored ==
  ASSUME MayDelete = FALSE
  PROVE  Spec => []ReadyIsStored
<1>1. IInv => ReadyIsStored
  BY DEF IInv
<1>2. QED
  BY <1>1, InitInv, NextInv, PTL DEF Spec

-----------------------------------------------------------------------------
(* No document is left at "processing" *)

\* A job that waits has a try left.
HasTries == \A s \in Slots : At(s, "queued") => jobs[s].tries < MaxTries

Attended == TypeOK /\ reindex = NoReindex /\ HasTries /\ ProcessingHasJob

\* Rows of other documents than that of the job stay, and so do other jobs.
OnlyOwn(s) ==
  /\ \A d \in DocIds : d # jobs[s].doc => docs'[d] = docs[d]
  /\ \A t \in Slots : t # s => jobs'[t] = jobs[t]

\* The job goes on, or leaves its document settled.
GoesOn(s) ==
  /\ jobs'[s] # NoJob
  /\ jobs'[s].doc = jobs[s].doc
  /\ At(s, "queued")' => jobs'[s].tries < MaxTries
Settled(s) == jobs'[s] = NoJob /\ docs'[jobs[s].doc].status # "processing"

\* A step of a job that is never given up, cut off or broken.
LEMMA WorkEnds ==
  ASSUME MayBreak = FALSE, MaxKills \in Nat, MaxKills < MaxTries,
         TypeOK, HasTries, NEW s \in Slots, Work(s) \/ Timeout(s) \/ Kill(s)
  PROVE  OnlyOwn(s) /\ (GoesOn(s) \/ Settled(s)) /\ UNCHANGED reindex
<1>1. /\ jobs[s] \in Job /\ jobs[s] # NoJob /\ jobs[s].doc \in DocIds /\ Own(s) \in Doc
  BY WorkJob
<1>2. DOMAIN jobs = Slots /\ DOMAIN docs = DocIds
  BY DEF TypeOK
<1>3. MaxTries \in Nat /\ jobs[s].tries \in Nat
  BY <1>1, TriesAssumption DEF Job
<1>4. End(s) => (\A t \in Slots : t # s => jobs'[t] = jobs[t]) /\ jobs'[s] = NoJob
  BY <1>2 DEF End
<1>5. ASSUME NEW doc \in Doc, SetDoc(s, doc), doc.status # "processing", End(s)
      PROVE  OnlyOwn(s) /\ Settled(s)
  BY <1>1, <1>2, <1>4, <1>5 DEF SetDoc, OnlyOwn, Settled, Exists
<1>6. CASE Fails(s)
  <2>1. [Own(s) EXCEPT !.status = "failed"] \in Doc /\ [Own(s) EXCEPT !.status = "failed"].status = "failed"
    BY <1>1 DEF Doc, Statuses
  <2> QED BY <1>5, <1>6, <2>1 DEF Fails, Work, Start, GiveUp, Fetch, FetchFails, Lookup, Fold, Claim,
          Parse, ParseFails, Store, StoreFails, Finish, Timeout, Kill
<1>7. CASE Fold(s)
  <2> DEFINE doc == [Own(s) EXCEPT !.status = "ready", !.hash = Own(s).file, !.count = jobs[s].count]
  <2>1. doc \in Doc /\ doc.status = "ready"
    BY <1>1 DEF Doc, Statuses, Job
  <2> QED BY <1>5, <1>7, <2>1 DEF Fold
<1>8. CASE Finish(s)
  <2> DEFINE doc == [Own(s) EXCEPT !.status = "ready", !.count = Batches]
  <2>1. doc \in Doc /\ doc.status = "ready"
    BY <1>1, BatchesAssumption DEF Doc, Statuses
  <2> QED BY <1>5, <1>8, <2>1 DEF Finish
<1>9. CASE GiveUp(s) \/ Timeout(s)
  BY <1>3, <1>9 DEF GiveUp, Timeout, HasTries
<1>10. CASE StoreFails(s) \/ (Claim(s) /\ ~Exists(jobs[s].doc))
  BY <1>1, <1>4, <1>10 DEF StoreFails, Claim, OnlyOwn, Settled, Exists
<1>11. CASE Claim(s) /\ Exists(jobs[s].doc)
  BY <1>1, <1>2, <1>11 DEF Claim, SetDoc, OnlyOwn, GoesOn, At, Job, Stages, NoJob
<1>12. CASE Start(s)
  BY <1>1, <1>2, <1>12 DEF Start, OnlyOwn, GoesOn, At, Job, Stages, NoJob
<1>13. CASE Fetch(s) \/ Parse(s)
  BY <1>1, <1>2, <1>13 DEF Fetch, Parse, Goto, OnlyOwn, GoesOn, At, Job, Stages, NoJob
<1>14. CASE Kill(s)
  BY <1>1, <1>2, <1>3, <1>14 DEF Kill, Goto, OnlyOwn, GoesOn, At, Job, Stages, NoJob
<1>15. CASE Lookup(s) /\ ~Fails(s)
  <2>1. UNCHANGED <<docs, reindex>>
    BY <1>15 DEF Lookup
  <2>2. CASE Goto(s, "claim")
    BY <1>1, <1>2, <2>1, <2>2 DEF Goto, OnlyOwn, GoesOn, At, Job, Stages, NoJob
  <2>3. ASSUME NEW d \in DocIds, jobs' = [jobs EXCEPT ![s].pc = "fold", ![s].count = docs[d].count]
        PROVE  OnlyOwn(s) /\ GoesOn(s)
    BY <1>1, <1>2, <2>1, <2>3 DEF OnlyOwn, GoesOn, At, Job, Stages, NoJob
  <2> QED BY <1>15, <2>1, <2>2, <2>3 DEF Lookup, Identical
<1>16. CASE Store(s)
  BY <1>1, <1>2, <1>16 DEF Store, OnlyOwn, GoesOn, At, Job, Stages, NoJob
<1> QED BY <1>6, <1>7, <1>8, <1>9, <1>10, <1>11, <1>12, <1>13, <1>14, <1>15, <1>16
        DEF Work, FetchFails, ParseFails

LEMMA AttendedStep ==
  ASSUME MayLose = FALSE, MayBreak = FALSE, MayReindex = FALSE, MaxKills \in Nat, MaxKills < MaxTries
  PROVE  Attended /\ [Next]_vars => Attended'
<1> SUFFICES ASSUME Attended, [Next]_vars PROVE Attended'
  OBVIOUS
<1>1. TypeOK /\ TypeOK' /\ HasTries /\ ProcessingHasJob /\ reindex = NoReindex
  BY NextType DEF Attended
<1>2. DOMAIN jobs = Slots /\ DOMAIN docs = DocIds
  BY <1>1 DEF TypeOK
<1>3. CASE UNCHANGED vars
  BY <1>1, <1>3 DEF vars, Attended, HasTries, ProcessingHasJob, At
<1>4. ASSUME NEW s \in Slots, Work(s) \/ Timeout(s) \/ Kill(s) PROVE Attended'
  <2>1. OnlyOwn(s) /\ (GoesOn(s) \/ Settled(s)) /\ UNCHANGED reindex
    BY <1>1, <1>4, WorkEnds
  <2>2. HasTries'
    BY <1>1, <2>1 DEF HasTries, OnlyOwn, GoesOn, Settled, At, NoJob
  <2>3. ASSUME NEW d \in DocIds, docs'[d].status = "processing"
        PROVE  \E t \in Slots : jobs'[t] # NoJob /\ jobs'[t].doc = d
    <3>1. CASE d = jobs[s].doc
      BY <2>1, <2>3, <3>1 DEF GoesOn, Settled
    <3>2. CASE d # jobs[s].doc
      BY <1>1, <2>1, <2>3, <3>2 DEF OnlyOwn, ProcessingHasJob, NoReindex
    <3> QED BY <3>1, <3>2
  <2> QED BY <1>1, <2>1, <2>2, <2>3 DEF Attended, ProcessingHasJob
\* A new job for d; what other jobs there are stays.
<1>5. ASSUME NEW d \in DocIds, (\E f \in Files : Upload(d, f)) \/ Retry(d) PROVE Attended'
  <2>1. PICK s \in Slots : jobs[s] = NoJob /\ jobs' = [jobs EXCEPT ![s] = Queued(d)]
    BY <1>5 DEF Upload, Retry, Enqueue
  <2>2. UNCHANGED reindex /\ \A e \in DocIds : e # d => docs'[e] = docs[e]
    BY <1>2, <1>5 DEF Upload, Retry
  <2>3. jobs'[s] = Queued(d) /\ \A t \in Slots : t # s => jobs'[t] = jobs[t]
    BY <1>2, <2>1
  <2>4. HasTries'
    BY <1>1, <2>3, TriesAssumption DEF HasTries, At, Queued
  <2>5. ProcessingHasJob'
    BY <1>1, <2>1, <2>2, <2>3 DEF ProcessingHasJob, Queued, NoJob, NoReindex
  <2> QED BY <1>1, <2>2, <2>4, <2>5 DEF Attended
<1>6. ASSUME NEW d \in DocIds, Delete(d) PROVE Attended'
  BY <1>1, <1>2, <1>6 DEF Delete, Attended, HasTries, ProcessingHasJob, At, TypeOK, Doc
<1>7. ~ReindexRead /\ ~ReindexCommit /\ \A d \in DocIds : ~ReindexEnqueue(d)
  BY <1>1 DEF ReindexRead, ReindexCommit, ReindexEnqueue, NoReindex
<1> QED BY <1>3, <1>4, <1>5, <1>6, <1>7 DEF Next

\* Where nothing is lost, cut off, refused by the database or reindexed, and a job is not killed in every
\* one of its tries, a document at "processing" has a job, whatever else fails and whatever is deleted
\* or retried: no failure forgets to mark its row.
THEOREM ProcessingEnds ==
  ASSUME MayLose = FALSE, MayBreak = FALSE, MayReindex = FALSE, MaxKills \in Nat, MaxKills < MaxTries
  PROVE  Spec => []ProcessingHasJob
<1>1. Init => Attended
  <2> SUFFICES ASSUME Init PROVE Attended
    OBVIOUS
  <2>1. HasTries /\ ProcessingHasJob /\ reindex = NoReindex
    BY DEF Init, HasTries, ProcessingHasJob, At, NoJob
  <2> QED BY <2>1, InitType DEF Attended
<1>2. Attended /\ [Next]_vars => Attended'
  BY AttendedStep
<1>3. Attended => ProcessingHasJob
  BY DEF Attended
<1> QED BY <1>1, <1>2, <1>3, PTL DEF Spec

-----------------------------------------------------------------------------
(* KnowledgeIngestion implements DocumentRegisters *)

Lives == [d \in DocIds |-> Life(docs[d].status)]
Contained == [d \in DocIds |-> docs[d].file]

\* A document lives as its status says; it exists while it is pending or settled.
LEMMA LifeIs ==
  ASSUME TypeOK, NEW d \in DocIds
  PROVE  /\ Lives[d] = Life(docs[d].status) /\ Contained[d] = docs[d].file
         /\ Exists(d) <=> Lives[d] \in {"pending", "settled"}
         /\ docs[d].status = "absent" <=> Lives[d] = "absent"
         /\ docs[d].status = "deleted" <=> Lives[d] = "gone"
         /\ docs[d].status = "processing" <=> Lives[d] = "pending"
BY DEF TypeOK, Doc, Statuses, Lives, Contained, Life, Exists

\* The steps of the registers, and of nothing.
Register == Registers!Next \/ UNCHANGED Registers!registers

\* What writes one row that exists, and neither deletes it nor gives it another file, settles the
\* document, resumes it, or does nothing to it.
LEMMA OneWritten ==
  ASSUME TypeOK, TypeOK', NEW d \in DocIds, Exists(d), Exists(d)', docs'[d].file = docs[d].file,
         \A e \in DocIds : e # d => docs'[e] = docs[e]
  PROVE  Register
<1>1. Contained' = Contained
  BY DEF Contained
<1>2. \A e \in DocIds : e # d => Lives'[e] = Lives[e]
  BY DEF Lives
<1>3. Lives[d] \in {"pending", "settled"} /\ Lives'[d] \in {"pending", "settled"}
  BY LifeIs DEF TypeOK, Doc, Statuses, Lives, Life, Exists
<1>4. DOMAIN Lives = DocIds /\ DOMAIN Lives' = DocIds
      /\ Lives = [e \in DocIds |-> Lives[e]] /\ Lives' = [e \in DocIds |-> Lives'[e]]
  BY DEF Lives
<1>5. CASE Lives'[d] = Lives[d]
  <2>1. Lives' = Lives
    BY <1>2, <1>4, <1>5
  <2> QED
    BY <1>1, <2>1 DEF Register, Registers!registers, Lives, Contained
<1>6. CASE Lives[d] = "pending" /\ Lives'[d] = "settled"
  <2>1. Lives' = [Lives EXCEPT ![d] = "settled"]
    BY <1>2, <1>4, <1>6
  <2> QED
    BY <1>1, <1>6, <2>1 DEF Register, Registers!Next, Registers!Settle, Lives, Contained
<1>7. CASE Lives[d] = "settled" /\ Lives'[d] = "pending"
  <2>1. Lives' = [e \in DocIds |-> IF e \in {d} THEN "pending" ELSE Lives[e]]
    BY <1>2, <1>4, <1>7
  <2>2. Registers!Resume({d})
    BY <1>1, <1>7, <2>1 DEF Registers!Resume, Lives, Contained
  <2> QED
    BY <2>2 DEF Register, Registers!Next
<1> QED
  BY <1>3, <1>5, <1>6, <1>7

\* A job writes the row of its own document, if there still is one.
LEMMA WorkRegister ==
  ASSUME TypeOK, TypeOK', NEW s \in Slots, Work(s) \/ Timeout(s) \/ Kill(s)
  PROVE  Register
<1> DEFINE d == jobs[s].doc
<1>1. d \in DocIds /\ Keeps /\ Untouched
  BY WorkJob, WorkKeeps
<1>2. UNCHANGED docs \/ \E doc : SetDoc(s, doc)
  BY DEF Work, Start, GiveUp, Fetch, FetchFails, Lookup, Fold, Claim, Parse, ParseFails, Store, StoreFails,
     Finish, Timeout, Kill, Fails
<1>3. \A e \in DocIds : e # d => docs'[e] = docs[e]
  BY <1>1, <1>2 DEF SetDoc, TypeOK
<1>4. CASE Exists(d)
  BY <1>1, <1>3, <1>4, OneWritten DEF Keeps
<1>5. CASE ~Exists(d)
  <2>1. docs' = docs
    BY <1>1, <1>3, <1>5 DEF Untouched, TypeOK
  <2> QED
    BY <2>1 DEF Register, Registers!registers
<1> QED
  BY <1>4, <1>5

\* An endpoint puts a document, removes it, or resumes some; a deleted row is never written.
LEMMA EndpointRegister ==
  ASSUME TypeOK, TypeOK', \/ \E d \in DocIds, f \in Files : Upload(d, f)
                          \/ \E d \in DocIds : Retry(d) \/ Delete(d) \/ ReindexEnqueue(d)
                          \/ ReindexRead \/ ReindexCommit
  PROVE  Register
<1>0. Lives = [e \in DocIds |-> Lives[e]] /\ Lives' = [e \in DocIds |-> Lives'[e]]
  BY DEF Lives
<1>1. ASSUME NEW d \in DocIds, NEW f \in Files, Upload(d, f) PROVE Register
  <2>1. docs[d].status = "absent" /\ docs'[d].status = "processing" /\ docs'[d].file = f
        /\ \A e \in DocIds : e # d => docs'[e] = docs[e]
    BY <1>1 DEF Upload, TypeOK
  <2>2. Lives' = [Lives EXCEPT ![d] = "pending"]
    BY <1>0, <2>1 DEF Lives, Life
  <2>3. Contained' = [Contained EXCEPT ![d] = f]
    BY <2>1 DEF Contained
  <2>4. Lives[d] = "absent"
    BY <2>1, LifeIs
  <2> QED
    BY <2>2, <2>3, <2>4 DEF Register, Registers!Next, Registers!Put, Lives, Contained
<1>2. ASSUME NEW d \in DocIds, Retry(d) PROVE Register
  <2>1. /\ Exists(d) /\ docs'[d] = [docs[d] EXCEPT !.status = "processing"]
        /\ \A e \in DocIds : e # d => docs'[e] = docs[e]
    BY <1>2 DEF Retry, TypeOK
  <2>2. Exists(d)' /\ docs'[d].file = docs[d].file
    BY <2>1 DEF TypeOK, Doc, Exists
  <2> QED
    BY <2>1, <2>2, OneWritten
<1>3. ASSUME NEW d \in DocIds, Delete(d) PROVE Register
  <2>1. /\ Exists(d) /\ docs'[d] = [docs[d] EXCEPT !.status = "deleted"]
        /\ \A e \in DocIds : e # d => docs'[e] = docs[e]
    BY <1>3 DEF Delete, TypeOK
  <2>2. docs'[d].status = "deleted" /\ docs'[d].file = docs[d].file
    BY <2>1 DEF TypeOK, Doc
  <2>3. Lives' = [Lives EXCEPT ![d] = "gone"]
    BY <1>0, <2>1, <2>2 DEF Lives, Life
  <2>4. Contained' = Contained
    BY <2>1, <2>2 DEF Contained
  <2>5. Lives[d] \in {"pending", "settled"}
    BY <2>1, LifeIs
  <2> QED
    BY <2>3, <2>4, <2>5 DEF Register, Registers!Next, Registers!Remove, Lives, Contained
<1>4. CASE (\E d \in DocIds : ReindexEnqueue(d)) \/ ReindexRead
  BY <1>4 DEF ReindexEnqueue, ReindexRead, Register, Registers!registers
<1>5. CASE ReindexCommit
  <2> DEFINE Given == {d \in DocIds : docs'[d] # docs[d]}
             D == {d \in Given : Lives[d] = "settled"}
  <2>1. \A d \in DocIds : d \in Given => Exists(d) /\ docs'[d] = [docs[d] EXCEPT !.status = "processing"]
    BY <1>5 DEF ReindexCommit
  <2>2. \A d \in DocIds : docs'[d].file = docs[d].file /\ (d \in Given => docs'[d].status = "processing")
    BY <2>1 DEF TypeOK, Doc
  <2>3. Contained' = Contained
    BY <2>2 DEF Contained
  <2>4. \A d \in DocIds : d \in Given => Lives[d] \in {"pending", "settled"} /\ Lives'[d] = "pending"
    BY <2>1, <2>2, LifeIs DEF Lives, Life
  <2>5. \A d \in DocIds : d \notin Given => Lives'[d] = Lives[d]
    BY DEF Lives
  <2>6. Lives' = [d \in DocIds |-> IF d \in D THEN "pending" ELSE Lives[d]]
    BY <1>0, <2>4, <2>5
  <2>7. D \in SUBSET DocIds /\ \A d \in D : Lives[d] = "settled"
    OBVIOUS
  <2> HIDE DEF D
  <2>8. Registers!Resume(D)
    BY <2>3, <2>6, <2>7 DEF Registers!Resume, Lives, Contained
  <2> QED
    BY <2>7, <2>8 DEF Register, Registers!Next
<1> QED
  BY <1>1, <1>2, <1>3, <1>4, <1>5

\* A knowledge base keeps its documents as registers, with every mishap switched on or off: no job
\* half done, no retry and no reindex brings a deleted document back, or changes what was uploaded.
THEOREM ImplementsRegisters == Spec => Registers!Spec
<1>1. Init => Registers!Init
  BY DEF Init, Registers!Init, Life
<1>2. TypeOK /\ TypeOK' /\ [Next]_vars => [Registers!Next]_(Registers!registers)
  <2>1. UNCHANGED vars => UNCHANGED Registers!registers
    BY DEF vars, Registers!registers
  <2> QED
    BY <2>1, WorkRegister, EndpointRegister DEF Next, Register
<1> QED
  BY <1>1, <1>2, TypeCorrect, PTL DEF Spec, Registers!Spec

\* A deleted document stays deleted, and a document keeps the content it was uploaded with.
THEOREM DeletedForGood ==
  ASSUME NEW d \in DocIds, NEW f
  PROVE  Spec => Registers!GoneForGood(d) /\ Registers!ContentForGood(d, f)
<1> DEFINE Gone == Lives[d] = "gone"
           There == Lives[d] # "absent" /\ Contained[d] = f
<1>1. Gone /\ [Registers!Next]_(Registers!registers) => Gone'
  BY DEF Registers!Next, Registers!Put, Registers!Settle, Registers!Resume, Registers!Remove,
     Registers!registers, Lives
<1>2. There /\ [Registers!Next]_(Registers!registers) => There'
  BY DEF Registers!Next, Registers!Put, Registers!Settle, Registers!Resume, Registers!Remove,
     Registers!registers, Lives, Contained
<1>3. There => Contained[d] = f
  OBVIOUS
<1> QED
  BY <1>1, <1>2, <1>3, ImplementsRegisters, PTL
  DEF Registers!Spec, Registers!GoneForGood, Registers!ContentForGood, Lives, Contained
=============================================================================
