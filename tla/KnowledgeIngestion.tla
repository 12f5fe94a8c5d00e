------------------------- MODULE KnowledgeIngestion -------------------------
(***************************************************************************)
(* One knowledge base: its documents, their chunks, and the background     *)
(* jobs that parse, chunk and embed an uploaded file.                      *)
(*                                                                         *)
(* The endpoints write the document's row and put a job on the queue; the  *)
(* worker runs up to Running jobs at a time, interleaved at their awaits.  *)
(* A job may be killed with its worker and is then taken up again, at most *)
(* MaxTries times. What an embedding holds is left out; a batch of chunks, *)
(* stored by one commit, is one element.                                   *)
(***************************************************************************)
EXTENDS Naturals, FiniteSets

CONSTANTS
  DocIds,       \* documents that may be uploaded
  Files,        \* contents (two uploads of the same bytes are one file)
  NoFile,       \* no content
  Batches,      \* how many batches of chunks a file makes
  Slots,        \* bound: jobs queued or running at once
  Running,      \* ARQ_MAX_JOBS
  MaxTries,     \* max_tries
  MaxKills,     \* bound: tries of a job that its worker may be killed in
  MaxCopies,    \* bound: copies of a batch are counted up to here
  MayLose,      \* a job may fail to reach the queue
  MayFail,      \* the storage or the parser may fail
  MayBreak,     \* the database may refuse a batch; a job may exceed its time
  MayReindex,   \* the knowledge base may be reindexed
  MayDelete     \* documents may be deleted

ASSUME BatchesAssumption == Batches \in Nat \ {0}
ASSUME TriesAssumption == MaxTries \in Nat \ {0}
ASSUME FilesAssumption == NoFile \notin Files
ASSUME CopiesAssumption == MaxCopies \in Nat \ {0}

VARIABLES
  docs,      \* rows of knowledge_documents
  chunks,    \* copies of each batch a document has in document_chunks
  jobs,      \* jobs queued or running
  reindex    \* the reindex request in flight

vars == <<docs, chunks, jobs, reindex>>

NoJob == [pc |-> "none"]
Statuses == {"absent", "processing", "ready", "failed", "deleted"}
Doc == [status: Statuses, file: Files \union {NoFile}, hash: Files \union {NoFile}, count: Nat]
Stages == {"queued", "fetch", "lookup", "fold", "claim", "parse", "store"}
Job == [pc: Stages, doc: DocIds, tries: 0 .. MaxTries, count: Nat]
NoReindex == [todo |-> {}, failed |-> {}]

Exists(d) == docs[d].status \notin {"absent", "deleted"}
NoChunks == [i \in 1 .. Batches |-> 0]

-----------------------------------------------------------------------------
(* The endpoints *)

Queued(d) == [pc |-> "queued", doc |-> d, tries |-> 0, count |-> 0]

\* enqueue_job answers None when the queue is out of reach, and no caller looks. That it comes
\* after the commit of the row is one step here: a request that dies in between is a lost job.
Enqueue(d) ==
  \/ \E s \in Slots : jobs[s] = NoJob /\ jobs' = [jobs EXCEPT ![s] = Queued(d)]
  \/ MayLose /\ UNCHANGED jobs

Upload(d, f) ==
  /\ docs[d].status = "absent"
  /\ docs' = [docs EXCEPT ![d] = [status |-> "processing", file |-> f, hash |-> NoFile, count |-> 0]]
  /\ Enqueue(d)
  /\ UNCHANGED <<chunks, reindex>>

\* Whatever the status, and with the chunks of earlier tries in place.
Retry(d) ==
  /\ Exists(d)
  /\ docs' = [docs EXCEPT ![d].status = "processing"]
  /\ Enqueue(d)
  /\ UNCHANGED <<chunks, reindex>>

Delete(d) ==
  /\ MayDelete
  /\ Exists(d)
  /\ docs' = [docs EXCEPT ![d].status = "deleted"]
  /\ chunks' = [chunks EXCEPT ![d] = NoChunks]
  /\ UNCHANGED <<jobs, reindex>>

\* The reindex request reads the rows, enqueues a job per unfinished document, and only
\* then commits the status it gave the failed ones.
ReindexRead ==
  /\ MayReindex
  /\ reindex = NoReindex
  /\ reindex' = [todo |-> {d \in DocIds : docs[d].status \in {"failed", "processing"}},
                 failed |-> {d \in DocIds : docs[d].status = "failed"}]
  /\ UNCHANGED <<docs, chunks, jobs>>

ReindexEnqueue(d) ==
  /\ d \in reindex.todo
  /\ reindex' = [reindex EXCEPT !.todo = @ \ {d}]
  /\ Enqueue(d)
  /\ UNCHANGED <<docs, chunks>>

\* The commit fails as a whole when one of its rows is gone.
ReindexCommit ==
  /\ reindex # NoReindex
  /\ reindex.todo = {}
  /\ docs' = [d \in DocIds |->
                IF d \in reindex.failed /\ (\A e \in reindex.failed : Exists(e))
                THEN [docs[d] EXCEPT !.status = "processing"] ELSE docs[d]]
  /\ reindex' = NoReindex
  /\ UNCHANGED <<chunks, jobs>>

-----------------------------------------------------------------------------
(* The job *)

At(s, pc) == jobs[s].pc = pc
Goto(s, pc) == jobs' = [jobs EXCEPT ![s].pc = pc]
End(s) == jobs' = [jobs EXCEPT ![s] = NoJob]
InProgress == {s \in Slots : jobs[s] # NoJob /\ jobs[s].pc # "queued"}

\* An UPDATE of the row of the job's document; it matches no row once that is deleted.
SetDoc(s, doc) ==
  docs' = [docs EXCEPT ![jobs[s].doc] = IF Exists(jobs[s].doc) THEN doc ELSE @]

Own(s) == docs[jobs[s].doc]

Fails(s) == SetDoc(s, [Own(s) EXCEPT !.status = "failed"]) /\ End(s)

Start(s) ==
  /\ At(s, "queued")
  /\ jobs[s].tries < MaxTries
  /\ Cardinality(InProgress) < Running
  /\ jobs' = [jobs EXCEPT ![s].pc = "fetch", ![s].tries = @ + 1]
  /\ UNCHANGED <<docs, chunks, reindex>>

\* A job that was killed in each of its tries is given up.
GiveUp(s) ==
  /\ At(s, "queued")
  /\ jobs[s].tries = MaxTries
  /\ End(s)
  /\ UNCHANGED <<docs, chunks, reindex>>

\* The bytes come back from the storage.
Fetch(s) ==
  /\ At(s, "fetch")
  /\ Goto(s, "lookup")
  /\ UNCHANGED <<docs, chunks, reindex>>

\* Mutated form: nothing is written when the bytes cannot be fetched.
FetchFails_Unmarked(s) ==
  /\ MayFail
  /\ At(s, "fetch")
  /\ End(s)
  /\ UNCHANGED <<docs, chunks, reindex>>

FetchFails(s) ==
  /\ MayFail
  /\ At(s, "fetch")
  /\ Fails(s)
  /\ UNCHANGED <<chunks, reindex>>

\* Ready documents of the knowledge base with the job's content.
Identical(s) ==
  {d \in DocIds : /\ d # jobs[s].doc
                  /\ docs[d].status = "ready"
                  /\ docs[d].hash = Own(s).file}

\* None: ingest. One: fold onto it. More: scalar_one_or_none raises, and the task fails the row.
Lookup(s) ==
  /\ At(s, "lookup")
  /\ \/ /\ Identical(s) = {}
        /\ Goto(s, "claim")
        /\ UNCHANGED docs
     \/ \E d \in Identical(s) :
          /\ Identical(s) = {d}
          /\ jobs' = [jobs EXCEPT ![s].pc = "fold", ![s].count = docs[d].count]
          /\ UNCHANGED docs
     \/ /\ Cardinality(Identical(s)) > 1
        /\ Fails(s)
  /\ UNCHANGED <<chunks, reindex>>

\* Mutated form: the row of the second upload is left as it is.
Fold_LeavesRow(s) ==
  /\ At(s, "fold")
  /\ End(s)
  /\ UNCHANGED <<docs, chunks, reindex>>

\* The row takes the results of the identical document.
Fold(s) ==
  /\ At(s, "fold")
  /\ SetDoc(s, [Own(s) EXCEPT !.status = "ready", !.hash = Own(s).file, !.count = jobs[s].count])
  /\ End(s)
  /\ UNCHANGED <<chunks, reindex>>

\* The row gets its hash; a row deleted meanwhile ends the job.
Claim(s) ==
  /\ At(s, "claim")
  /\ IF Exists(jobs[s].doc)
     THEN /\ SetDoc(s, [Own(s) EXCEPT !.status = "processing", !.hash = Own(s).file])
          /\ jobs' = [jobs EXCEPT ![s].pc = "parse", ![s].count = 0]
     ELSE End(s) /\ UNCHANGED docs
  /\ UNCHANGED <<chunks, reindex>>

Parse(s) ==
  /\ At(s, "parse")
  /\ Goto(s, "store")
  /\ UNCHANGED <<docs, chunks, reindex>>

\* No text, no chunks, or an exception of the parser.
ParseFails(s) ==
  /\ MayFail
  /\ At(s, "parse")
  /\ Fails(s)
  /\ UNCHANGED <<chunks, reindex>>

OneMore(n) == IF n < MaxCopies THEN n + 1 ELSE n

\* Mutated form: no foreign key from a chunk to its document.
Store_NoForeignKey(s) ==
  /\ At(s, "store")
  /\ jobs[s].count < Batches
  /\ jobs' = [jobs EXCEPT ![s].count = @ + 1]
  /\ chunks' = [chunks EXCEPT ![jobs[s].doc][jobs[s].count + 1] = OneMore(@)]
  /\ UNCHANGED <<docs, reindex>>

\* One batch is embedded and committed.
Store(s) ==
  /\ At(s, "store")
  /\ jobs[s].count < Batches
  /\ Exists(jobs[s].doc)
  /\ jobs' = [jobs EXCEPT ![s].count = @ + 1]
  /\ chunks' = [chunks EXCEPT ![jobs[s].doc][jobs[s].count + 1] = OneMore(@)]
  /\ UNCHANGED <<docs, reindex>>

\* The flush of a batch fails: its document is gone, or the database refuses it. Without a
\* rollback the session refuses _mark_failed's UPDATE too, which is logged and dropped.
StoreFails(s) ==
  /\ At(s, "store")
  /\ jobs[s].count < Batches
  /\ MayBreak \/ ~Exists(jobs[s].doc)
  /\ End(s)
  /\ UNCHANGED <<docs, chunks, reindex>>

\* Mutated form: the row is ready before its last batch.
Finish_Early(s) ==
  /\ At(s, "store")
  /\ jobs[s].count + 1 >= Batches
  /\ SetDoc(s, [Own(s) EXCEPT !.status = "ready", !.count = jobs[s].count])
  /\ End(s)
  /\ UNCHANGED <<chunks, reindex>>

Finish(s) ==
  /\ At(s, "store")
  /\ jobs[s].count = Batches
  /\ SetDoc(s, [Own(s) EXCEPT !.status = "ready", !.count = Batches])
  /\ End(s)
  /\ UNCHANGED <<chunks, reindex>>

\* Past job_timeout the job is cancelled, which no handler of it catches, and not tried again.
Timeout(s) ==
  /\ MayBreak
  /\ s \in InProgress
  /\ End(s)
  /\ UNCHANGED <<docs, chunks, reindex>>

\* Mutated form: a killed job is not taken up again.
Kill_Forgotten(s) ==
  /\ s \in InProgress
  /\ jobs[s].tries <= MaxKills
  /\ End(s)
  /\ UNCHANGED <<docs, chunks, reindex>>

\* The worker dies or shuts down; the job stays in the queue.
Kill(s) ==
  /\ s \in InProgress
  /\ jobs[s].tries <= MaxKills
  /\ Goto(s, "queued")
  /\ UNCHANGED <<docs, chunks, reindex>>

-----------------------------------------------------------------------------
Init ==
  /\ docs = [d \in DocIds |-> [status |-> "absent", file |-> NoFile, hash |-> NoFile, count |-> 0]]
  /\ chunks = [d \in DocIds |-> NoChunks]
  /\ jobs = [s \in Slots |-> NoJob]
  /\ reindex = NoReindex

Work(s) ==
  \/ Start(s) \/ GiveUp(s) \/ Fetch(s) \/ FetchFails(s) \/ Lookup(s) \/ Fold(s) \/ Claim(s)
  \/ Parse(s) \/ ParseFails(s) \/ Store(s) \/ StoreFails(s) \/ Finish(s)

Next ==
  \/ \E d \in DocIds : \E f \in Files : Upload(d, f)
  \/ \E d \in DocIds : Retry(d) \/ Delete(d) \/ ReindexEnqueue(d)
  \/ ReindexRead \/ ReindexCommit
  \/ \E s \in Slots : Work(s) \/ Timeout(s) \/ Kill(s)

Spec == Init /\ [][Next]_vars

\* The worker is supervised and keeps taking up and advancing the jobs it has.
FairSpec == Spec /\ \A s \in Slots : WF_vars(Work(s))

-----------------------------------------------------------------------------
(* Properties *)

\* Every variable keeps its type.
TypeOK ==
  /\ docs \in [DocIds -> Doc]
  /\ chunks \in [DocIds -> [1 .. Batches -> 0 .. MaxCopies]]
  /\ jobs \in [Slots -> Job \union {NoJob}]
  /\ reindex \in [todo: SUBSET DocIds, failed: SUBSET DocIds]

\* No document is left at "processing" with nothing to take it out of there: a job for it is
\* queued or running, or the reindex request is about to queue one (upload, retry, reindex,
\* ingest_knowledge_document, ingest_document).
ProcessingHasJob ==
  \A d \in DocIds : docs[d].status = "processing" =>
    (\E s \in Slots : jobs[s] # NoJob /\ jobs[s].doc = d) \/ d \in reindex.todo

Complete(d) == \A i \in 1 .. Batches : chunks[d][i] > 0

\* A ready document can be found: all of its content is stored, under it or under an
\* identical document it was folded onto (ingest_document).
ReadyIsStored ==
  \A d \in DocIds : docs[d].status = "ready" =>
    \E e \in DocIds : Exists(e) /\ docs[e].file = docs[d].file /\ Complete(e)

\* A deletion leaves no chunk behind, even with a job of the document half done
\* (delete_knowledge_document, _embed_and_store).
ChunksHaveDocument == \A d \in DocIds : ~Exists(d) => chunks[d] = NoChunks

\* An upload ends ready or failed, through crashes of the worker and failures of the file.
Settles ==
  \A d \in DocIds : docs[d].status = "processing" ~> docs[d].status # "processing"

\* The documents as registers: a status of the row, whatever its hash and count are.
Life(status) ==
  CASE status = "processing" -> "pending"
    [] status \in {"ready", "failed"} -> "settled"
    [] status = "deleted" -> "gone"
    [] OTHER -> "absent"

Registers == INSTANCE DocumentRegisters
  WITH Names <- DocIds, Contents <- Files, NoContent <- NoFile,
       life <- [d \in DocIds |-> Life(docs[d].status)],
       content <- [d \in DocIds |-> docs[d].file]
=============================================================================
