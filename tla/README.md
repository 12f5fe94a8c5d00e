# TLA+ specifications of Aicser

Aicser is a self-hosted analytics product: dashboards, charts, spreadsheets ("workbooks"),
notebooks, document search and a publishing feed, served by a FastAPI server
(`server/`), ARQ background workers and a Next.js client (`client/`). This directory holds
TLA+ models of the parts whose correctness depends on the order of things, TLC
configurations that check them on small instances, and TLAPS proofs of what holds for
every instance.

Contents: [the system](#1-the-system) · [the modules](#2-the-modules) ·
[the runs](#3-the-runs) · [the proofs](#4-the-proofs) · [findings](#5-findings) ·
[what is left out](#6-what-is-not-modelled) · [plan](#7-plan).

Run a model with `tlc -config License_one.cfg LicenseService`, a proof with
`tlapm KnowledgeIngestion_proofs.tla`. All source paths below are under `server/src/`
unless they start with `client/` or are said to be the client's, which are under
`client/src/`.

## 1. The system

### Shape

Every server process is one event loop; a request is a coroutine with its own database
session. A session reads rows, awaits (the database, a thread, an outside server) and
commits. PostgreSQL runs at READ COMMITTED, almost no handler takes a row lock, and an
ORM commit writes the columns whose value the request changed. So the unit of
interleaving is "load" and "commit", between which any other request, of the same process
or of another, may commit. JSON columns (settings, rules, token lists) are one value and
are written whole. Background work is queued in Redis through ARQ and runs in a worker
process, again as coroutines, with at most `max_jobs` at a time, a timeout per job and a
bounded number of tries.

The client is one thread per tab. A handler runs to its next `await` without
interruption; what it read before may be stale after. Its stores (Zustand) are global to the
tab and outlive the page that asked; requests of one page are answered in any order, also
after the person has moved on. Timers (autosave, debounced layout saves, retries) are one more
source of steps. So the unit of interleaving is the stretch between two awaits, and a request in
flight is state.

### Components

| component | state it keeps | operations | interacts with | what is hard |
|---|---|---|---|---|
| `core/licensing` | one row `license_state`; a `LicenseState` in the memory of each process | activate/validate at startup, refresh loop, offline file, request guards | the vendor's license server, the operator's environment | outages, refusals, restarts, several processes on one row, clocks |
| `modules/workbooks` | `workbooks` rows, `workbook_versions` history | save with a version check, restore a version, delete/undelete, settings and certification | the editor in the browser, which retries saves | two tabs, lost answers, pruning, JSON settings |
| `modules/knowledge` + `shared/jobs` | `knowledge_documents`, `document_chunks`; the queue | upload, retry, reindex, delete; the ingestion job | object storage, parser, embedding service, ARQ | jobs killed between commits, lost jobs, identical uploads, deletion under a job |
| `modules/share_links` + publishing rules in `modules/feed` | `share_links` rows; `organizations.settings["publishing"]` | save, on/off, approve/decline, take everything public down, undo that, change the rules | roles of members, the feed's posts | approval order, roles that change, stale undo |
| `modules/feed` (posts) | posts, snapshots, comments, follows | publish, approve, rank, take down | publishing rules, notifications | the approval flow of links again |
| `modules/notebooks` | notebooks, history, certification | the same shape as workbooks | browser-side Python | as workbooks |
| `modules/embed` | tokens as one JSON setting per user; used links | create, revoke, open a session | `packages/embed*`, share links | read-modify-write of the list, single use across processes |
| `modules/dashboards` | dashboards, pages, versions; build progress in cache and memory | edit, build with AI, stream progress | Redis pub/sub, SSE | progress events after the end, two stores of one session |
| `core/cache`, `shared/middleware/rate_limiter` | Redis or a bounded dict | get/set/evict, sliding windows | everything | fallback, eviction, counting refused requests |
| `modules/data`, `queries`, `charts`, `prep`, `spatial`, `exports` | data sources, engines' pools, definitions | connect, route, execute, transform, render | databases, storage | mostly I/O and pure transformation |
| `modules/authentication`, `user`, `notifications`, `onboarding`, and the small CRUD modules | rows | sign in, roles, inbox, settings | most of the above | sessions, otherwise little |
| client: dashboard studio | `useDashboardStore`: the flat widgets and layout on show, a cached copy of every board, undo and redo | switch, load, add, copy, link, undo, restore versions, save the layout | dashboards, charts | answers that arrive on another board, one undo history for all boards |
| client: dashboard grid | layout of the page, the gesture under way | drag, resize, nudge, align, distribute, cancel, resolve overlaps | the studio's store | a gesture cancelled half way, overlaps that never resolve |
| client: sheets and notebooks | document, version, save state, results | type, autosave, retry, run, refresh, restore, share | workbooks, notebooks | saves out while typing, lost answers, versions of late answers |
| client: signing in and out | user, token, logout barrier, `sessionStorage`, cookies | sign in (with a second step), sign out, reload, establish who is signed in | authentication, the identity provider | a sign-out while a request that signs in is under way |
| client: all else | forms and pages | edit rows through single requests | the server | little |

What makes each modelled component correct:

* **Licensing.** Writes of the enterprise features pass only on a real grant at most a grace
  period old; a refusal is final until somebody grants again; restarts neither renew nor lose
  anything; an ended license leaves the data readable; outages end, and the license comes back.
* **Workbooks.** A save never replaces content its tab has not seen; what is replaced by a
  restore stays in the history; the history loses only its oldest points; content requests
  leave deletion and certification alone.
* **Knowledge.** Every upload ends ready or failed; what is ready can be found; what is
  deleted cannot; an identical upload costs nothing and fails nothing.
* **Share links.** What is public was let out by the rules or by an approver; what was
  turned off stays off; an undo is exact; nothing waits for nobody.
* **Studio.** A board shows and saves only its own widgets, with the places they were given.
* **Grid.** Tiles never end on top of each other; what a person placed stays where it was
  placed; a cancelled gesture leaves nothing behind.
* **Editors.** A save never replaces what its editor did not show; "saved" is true; every change
  ends saved or is reported as not saved.
* **Signing in and out.** Signed out is signed out, whatever was under way; requests are sent as
  the user on screen; a page stops loading.

## 2. The modules

| module | component | lines of state machine it stands for |
|---|---|---|
| `LicenseService` | `core/licensing` | `service.py`, `state.py`, `client.py`, `verify.py`, `dependencies.py` |
| `LicensePromise` | abstract specification of the above | none: what an operator may rely on |
| `LicenseService_proofs` | theorems | |
| `Workbook`, `MCWorkbook` | `modules/workbooks` | `router.py`, `governance.py`, `workbook_access.py`, parts of `enterprise_router.py` |
| `KnowledgeIngestion`, `MCKnowledge` | `modules/knowledge`, `shared/jobs` | `router.py`, `document_ingestion_service.py`, `tasks.py`, `client.py`, `worker.py` |
| `DocumentRegisters` | abstract specification of the above | none: what a knowledge base promises about its documents |
| `KnowledgeIngestion_proofs` | theorems | |
| `Workbook_proofs` | theorems | |
| `VersionedDocument` | abstract specification of a stored document, for `Workbook` and `DocumentEditor` | none: what the tabs of a document may rely on |
| `ShareLinks`, `MCShareLinks` | `modules/share_links`, publishing rules of `modules/feed` | `service.py`, `router.py`, `publish_policy.py`, parts of `service_actions.py` |
| `ShareLinks_proofs` | theorems | |
| `DashboardStudio`, `MCDashboardStudio` | dashboard studio (client) | `stores/useDashboardStore.ts`, `stores/slices/dashboardRuntimeSlice.ts`, parts of `dashboards/page.tsx`, `Canvas/DashboardCanvas.tsx` |
| `DashboardStudio_proofs` | theorems | |
| `DashboardGrid`, `MCDashboardGrid` | dashboard grid (client) | `Canvas/DashboardCanvas.tsx`, `utils/layoutSanitize.ts` |
| `DashboardGrid_proofs` | theorems | |
| `DocumentEditor` | sheets and notebooks (client) | `WorkbookEditor.tsx`, `NotebookEditor.tsx`, `WorkbookHistoryDrawer.tsx` |
| `DocumentEditor_proofs` | theorems | |
| `AuthSession` | signing in and out (client) | `useAuthStore.ts`, `logoutBarrier.ts`, `bearerToken.ts`, the pages under `app/(auth)` |
| `AuthSession_proofs` | theorems | |

`MC` modules add only what TLC needs: symmetry sets and the values of constants that are not
sets of model values. Definitions whose comment begins "Mutated form" belong to no behaviour
of the module: each is a plausible mistake in the code, kept next to the right definition so
that one can see that some property notices it.

### LicenseService

*State.* `rows` is the table `license_state`, a row named by the worker that inserted it
(`_get_or_create_row`); `mem` is each process's `LicenseState`; `pc` and `call` are where a
process is in `bootstrap` or `refresh_once` and what it holds over its await (the row as
loaded, then the answer). `vendor` is the license server: reachable or not, the license
active or not, its end date. `setting` is the environment: key, file or neither.
`grants`, `verdict` and `blind` are history.

*Actions.* `BootstrapLoad`, the answer (`ServerAnswer` or `FileAnswer`), `BootstrapFinish`;
`RefreshLoad`, the answer, `RefreshFinish`; `RefreshSkip` is a cycle that returns early.
`Accept` is `_apply_result` with its commit, `Invalidate` is `_mark_invalid` with the commit
of its callers, `RestoreFromRow` the grace branch of `_handle_bootstrap_failure`.
`Commit` writes the columns that differ from what was loaded, as the session does.
`BootstrapRaise` and `RefreshRaise` are exceptions the code does not name: the first leaves a
process without a refresh loop (`lifespan.py:193`), the second only costs the cycle
(`refresh_loop`). `Crash` and `Redeploy` blank the memory. One `Tick` is a day.

*Abstracted.* Seats, features and license type travel with `valid` and are left out;
signatures are the answer "failed"; the 15-minute cycle is "at least one per day".

### Workbook

*State.* The row `wb`, the committed points `hist` of its history, one request per tab
(`req`: the row as loaded, as changed, and the points the session has pending), the version
each tab last saw (`base`), and two history variables (`rev`, `seen`) that say which content
a tab really saw.

*Actions.* A request starts with its guards (`Save`, `RestoreVersion`, `Delete`, `Undelete`,
`PatchSettings`, `SubmitForReview`, `GitExport`, `Decide`), records its points (`Record`,
`RecordBefore`: `_snapshot`, with the coalescing of a session's saves) and ends at `Commit`,
which applies the changed columns and prunes to `MaxHistory`. `heard` in `Commit` is whether
the tab gets the answer: if not, its editor retries with the old version. `Abort` is a request
that dies. With `Overlap = FALSE` one request runs at a time, which is how the code's own
comments reason; with `TRUE` requests interleave.

*Abstracted.* Document and title are one value (they are compared and restored together). A
point's author is left out because only the owner writes: `load_workbook(write=True)` refuses
everybody else, reviewers included.

### KnowledgeIngestion

*State.* `docs` (status, file, hash, chunk count), `chunks` (copies stored of each batch),
`jobs` (queued or running, with their stage and their tries) and the reindex request in
flight, which enqueues before it commits.

*Actions.* Endpoints: `Upload`, `Retry`, `Delete`, `ReindexRead/Enqueue/Commit`. The job:
`Start`, `Fetch`, `Lookup` (the deduplication query), `Fold` or `Claim`, `Parse`, `Store` (one
batch, one commit), `Finish`, with `FetchFails`, `ParseFails`, `StoreFails`, `Timeout`, `Kill`,
`GiveUp`. An UPDATE of a deleted row matches nothing (`SetDoc`); an INSERT of a chunk of a
deleted document fails on its foreign key (`Store`, `StoreFails`).

*Switches.* `MayLose` (the queue is out of reach and `enqueue_job` answers None), `MayFail`
(storage or parser), `MayBreak` (the database refuses a batch, or a job exceeds
`job_timeout`), `MayReindex`, `MayDelete`. They let each run say under which mishaps its
properties hold.

### ShareLinks

*State.* One link per item, the organization's publishing rules (with the last take-down,
which is stored inside them), the approvers, one request per user with what it loaded, and
two history variables: what was `cleared` for the public, and the last take-down not undone.

*Actions.* `BeginSave` / `Save` and likewise for turning off and on, approving, declining,
`TakeDownPublic`, `RestorePublic` (Undo) and `PutPolicy`. `State` is `_public_state` over
`public_decision`; `may_review` is the second-approver rule; `Written` is what an ORM commit
writes of a link; the rules are written whole. `Roles` changes who approves at any time.

*Abstracted.* What a link shows is a `title`; what looks like personal data is a set of
titles. Opening a link, its saved copy and reminders are left out.

### DashboardStudio

*State.* `server`, `live` and `versions` are the database; `known` and `cache` the store's list of
boards and its copy of each; `flat` is what shows (the store keeps widgets and layout of
the active board twice), `undo` and `redo` the snapshots, each with the board it was taken
of (which the code does not record; the module does, to know when one is applied elsewhere);
`timer` is the debounced layout save; `calls` the requests without an answer. `home` and
`strayed` are history.

*Actions.* What the person does (`Person`): switch, create, delete and reload boards, add,
remove, duplicate, copy and move widgets, change the layout, presets, undo, redo, version
snapshots. What comes back (`Answer`): each answer is an action of its own on whatever the
store holds by then; `Render` and `SyncLayout` are the effect of the page and its timer.
`Activate` is `setActiveDashboard` with its `_syncActiveToCache`; it takes the state it runs on as
arguments because several answers run it after their own assignments.

*Abstracted.* A board is which widgets it shows and where; a widget is absent, local (its chart is
not created yet) or saved. Titles, data, filters and pages are left out.

### DashboardGrid

*State.* `layout` is the page's layout in the store, `saved` what was last given to
`onLayoutSync`; `held`, `moving`, `cancelled`, `before` are the refs of the gesture. `placed`,
`stacked` and `crossed` are history.

*Actions.* `BeginLayoutGesture`, `EndLayoutGesture`, `CancelLayoutGesture` (Escape, after which the
grid component still sends its stop event), `HandleArrow`, `AlignSelectedWidgets`,
`DistributeSelectedWidgets`, and `Heal`, the effect that takes apart what a render finds
overlapping. `resolveLayoutCollisions` is written out in its three phases, with the guard of its
loop; each loop of the code is a recursive function from the count of its turns to what is there after
them (`Round`, `Nudged`, `Seated`, `Length`), so that the proofs can speak of a turn.

*Abstracted.* Tiles are numbered in the order of the array, the grid is `Cols` wide and the person
drops within `Rows`; rows below are unbounded. What the grid component shows while the mouse moves
is left out: it drags over its own copy, and only the stop event reaches the store.

### DocumentEditor

One module for both editors (`kind`): they differ in what the sheet queues in its engine before it
is marked dirty (`Drain`) and in that a notebook knows no "gone".

*State.* `server` is the row; `doc`, `version`, `saveState`, `problem`, `pending`, `running`, `deleted`
are the refs and states of the component; `calls` are the requests, each first without and then
with its answer, so that the order of handling and the order of answering are both free. A document is
what each item (a cell, a live range) holds: a stamp drawn anew by every change.

*Actions.* Typing (`Edit`), removing and undoing, results of queries that arrive (`RunCell`,
`RefreshRange`), `AutoSave`, `Retry` (every 8 s), `SaveKey`, sharing, reloading, restoring a version,
leaving; `Handle` is the server, `Answer` the client's continuation, `NetworkFails` loses a request or
only its answer; `OtherSaves` and `OtherDeletes` are somebody else.

### AuthSession

*State.* One tab: the store (`user`, `loading`), the barrier (`epoch`, `inProgress`), which init is the
latest and which are cancelled, `sessionStorage` (`bearer`, `sticky`, `second`), the browser's `cookie` and the identity
provider's session, and `tasks`, the asynchronous functions under way with what each took along
(the epoch it started in, whose token it carries).

*Actions.* `Login`, `VerifyTwoFactor`, `BackToPassword`, `Logout`, `FetchApi` (a request that finds no token
and exchanges the provider's session in the background), `Reload`, `NewTab`; and one action per
continuation of `init`, of the exchange, of signing in and of signing out. `Load` is a page that starts: module
state is lost, `sessionStorage` is kept.

*Switch.* `MayRush` lets signing in and out overlap an init or an exchange of the same epoch. The run has
it off: what happens with it on is under "further observations". Exchanges of older epochs stay under way in
either case; they are what the epoch is for.

## 3. The runs

States are distinct states; a run that ends in a violation counts what TLC had
found when it met the counterexample. Every run finishes in under three minutes on two cores.

| run | instance | checks | states |
|---|---|---|---|
| `license_one` | 1 process, grace 1 day, days 0..4, end dates {2, never}, all settings | `ImplementsPromise`, `TypeOK`, `RefusalSticks`, `MemoryMirrorsRow`, `StaysReadable`; under fairness `Recovers`, `OutageCutsOff` | 378 000 |
| `license_two` | 2 processes on one row, grace 0, days 0..2, cycles that raise | `WritesAreEntitled` | 934 000 |
| `workbook_serial` | 2 tabs, 2 contents, history of 2, session gap 3, all settings requests | `TypeOK`, `HistoryIsCurrent`, `NoSilentOverwrite`, `RestoreCanBeUndone`, `SavedPointsSurvive` | 507 000 |
| `workbook_overlap` | interleaved, 2 contents, history of 2, 3 contents written, the patch that locks | `ContentWritesOnlyContent`, `OnlySavesRewritten` | 3 000 000 |
| `knowledge_core` | 2 documents of 1 file, 2 jobs, 2 batches, 2 tries, failures and kills | `ProcessingHasJob`, `ReadyIsStored`; under fairness `Settles` | 110 000 |
| `knowledge_delete` | the same with 1 batch and everything that can go wrong, deletions and reindexing included | `ChunksHaveDocument` | 795 000 |
| `share_serial` | 3 members, 1 item, 2 titles (one personal), a window of 1, times 1..2, one request at a time | `TypeOK`, `OnlyUndoExposes`, `OffSticks`, `UndoIsExact` | 330 000 |
| `studio` | 2 boards, 2 widgets, 2 places, history of 2, 3 acts of the person, 2 calls out | `TypeOK`, `ShowsOwnUnlessStrayed`, `PlacedUnlessStrayed`, `LayoutGoesHome` | 1 719 000 |
| `grid` | 3 tiles (one locked), 4 columns, drops in 2 rows, 2 acts | `TypeOK`, `TilesStayApart`, `StaysPut`, `EscapeTakesBack` | 62 000 |
| `editor` | a sheet or a notebook of 1 item, 2 changes, 2 requests out, 2 other acts, 1 fault | `TypeOK`, `SavedMeansSaved`, `NoSilentOverwrite`; under fairness `EditsSettle` | 402 000 |
| `account` | 2 users, 2 attempts, 6 acts, 2 failures | `TypeOK`, `LoggedOutStaysOut`, `TokenIsOfUser`, `BarrierIsUp`; under fairness `LoadingEndsUnlessSignedOut` | 202 000 |
| `account_loading` | the same | `LoadingEnds`: violated | counterexample |

### What they show, and why the bounds are enough

*Licensing.* With a grace of one day and four days, a grant, an outage inside the grace, its
end, a refusal, a restart in each of these and a recovery all fit before the clock ends. One
end date inside the range and "never" cover an ended and an endless license. `LastUp = 2`
stops the server from coming back on the last days, so that an outage can be seen to outlast
its grace in a bounded clock; `OutageCutsOff` says so in its hypothesis. `license_two` starts
from one installed row, because two processes that start on an empty table insert two; grace 0 is then the tightest deadline, and `MayRaise` adds the failed
cycles. `RefusalSticks`, `MemoryMirrorsRow` and `StaysReadable` are stated for one process:
with several, a process keeps what it concluded until its own next cycle.

*Workbooks.* Two tabs are enough for a stale save; a history of two points is the smallest in
which a restore's two points evict everything else; a gap of three against a clock of six
gives saves inside a session, across one, and a restore in between. The two bounds `MaxClock`
and `MaxRev` cap snapshots and contents. In `workbook_overlap` a clock of four still lets a save
continue a session, start one after the gap, and push a point out of a history of two. `HistoryIsCurrent` and
`SavedPointsSurvive` are for requests that do not overlap: a point's time is taken before the commit, so
overlapping commits may land in the other order, and may put back the time of a point that is saved over.
What is left of the history then is `OnlySavesRewritten`, which the proofs establish for every bound.

*Knowledge.* Two documents of one file give every case of the deduplication but the third
upload (an observation below); two jobs run at once; two batches give a document half stored;
two tries with one kill give a repeated job, and in `knowledge_delete` kills may use up all
tries. `MaxCopies = 1` means that a batch is stored or not: the two properties are about
being there and not about how often. `ReadyIsStored` is checked without deletions, where it
holds; see the observations for why not with them.

*Share links.* Three members are needed for the second-approver rule to have a requester, an
approver and a role that changes; one item is enough because links meet only through the
rules; two titles tell a cleared from an uncleared change; with a window of 1 and two moments
an undo can be in time and too late.

*Studio.* Two boards are enough for an answer to meet the wrong one, and two widgets for a widget to be
missed beside one that is handled. Three acts with two calls out give "ask, switch, answer" and "change,
switch, undo"; a history of two meets its limit. `strayed` marks the steps at which the code applies an
answer or a snapshot to another board than it is of (they are listed below); the two invariants are about
everything else: switches, layout saves, undo on one board, copies, loads that answer in time.

*Grid.* Three tiles are the least that can be pushed in a chain, and that Distribute accepts; a locked one
shows what yields. The sizes are a square, a single cell, and a tile as wide as the grid of four columns, so that
Distribute may push the square off an edge. The guard of the loop is 8 instead of 160; it is reached, so that the last
phase, which seats what still overlaps, is exercised. That none of these numbers matters is
what the proofs add.

*Editor.* One item is enough because items meet only through "the document" as a whole: the instance
with two items passes as well (2.9 million states, five minutes). Two changes and two requests out let a
change fall into a save, a save overlap a save, and an answer overtake another; one fault loses any one of
them. `raced` excludes from two properties the case in which a document is read again while a save or another
reading is out, which is an observation. The second half of it shows only with three other acts or with
three requests out; `SavedMeansSaved` was checked there too (2.95 million states), and is proved for any bounds.

*Signing in and out.* Two users tell whose token it is; two attempts are a retry; six acts give sign in,
sign out, sign in as another, reload, with everything that may be late between.

`CHECK_DEADLOCK FALSE` stands where a run ends because its bounded clock or its documents are
used up and all work is done.

### Fairness

*LicenseService.* Weak fairness of each process's steps and of the answer: the event loop runs
every ready coroutine, an HTTP call has a timeout of 10 s, the supervisor (`restart:
unless-stopped`, or the orchestrator) starts a dead process again. Strong fairness of `Tick`:
time passes even though it has to wait for the cycles of the day, which other steps may keep
disabling for a while. Nothing is assumed of the vendor, the operator, or of crashes: the two
liveness properties say in their own hypotheses what must hold of them.

*KnowledgeIngestion.* Weak fairness of `Work(s)`: the worker is supervised, its queue is polled
for ever, and every await of a job returns or is cut by `job_timeout`. `Kill` is not fair and is
bounded by `MaxKills` per job, which must be below `MaxTries`: a job killed in each of its tries
is given up with its document at "processing" (as ARQ does; the code has nothing that looks for
such rows). `Timeout`, a batch the database refuses and lost jobs are outside the run for the same
reason: each leaves the document at "processing".

*DocumentEditor.* Weak fairness of `Drain`, `AutoSave` and `Retry`: they are timers of an open page; of
`Handle` and `Answer`: the server handles what reaches it, and what is lost is lost by `NetworkFails`,
which also answers the client. Nothing is assumed of the person. `EditsSettle` lets the page be closed.

*AuthSession.* Weak fairness of the answers together: there are finitely many acts, so finitely many
tasks, and each fetch is answered or fails.

## 4. The proofs

TLAPS proves, for every value of the constants that satisfies the modules' named
assumptions:

| theorem | says |
|---|---|
| `LicenseService_proofs!TypeCorrect` | `Spec => []TypeOK` |
| `LicenseService_proofs!EntitledWrites` | while the table holds one row, `WritesAreEntitled`: any number of processes, any grace period, any interleaving, restarts, failed cycles |
| `KnowledgeIngestion_proofs!TypeCorrect` | `Spec => []TypeOK` |
| `KnowledgeIngestion_proofs!ChunksGone` | `Spec => []ChunksHaveDocument`, with every mishap switched on or off |
| `KnowledgeIngestion_proofs!ReadyStored` | if `MayDelete = FALSE`, `Spec => []ReadyIsStored`, any number of documents, jobs and batches, with losses, failures, timeouts, kills, retries and reindexing |
| `KnowledgeIngestion_proofs!ProcessingEnds` | if `MayLose`, `MayBreak` and `MayReindex` are FALSE and `MaxKills < MaxTries`, `Spec => []ProcessingHasJob` |
| `KnowledgeIngestion_proofs!ImplementsRegisters` | `Spec => Registers!Spec`: the documents are `DocumentRegisters`, with every mishap switched on or off |
| `KnowledgeIngestion_proofs!DeletedForGood` | `Spec => Registers!GoneForGood(d) /\ Registers!ContentForGood(d, f)`, likewise |
| `LicenseService_proofs!Promised` | with one process whose commits do not fail, `Spec => ImplementsPromise`: the refinement, any grace period and bounds |
| `LicenseService_proofs!Refused`, `!Mirrored`, `!Readable` | under the same hypothesis, `Spec => []RefusalSticks`, `Spec => []MemoryMirrorsRow`, `Spec => []StaysReadable` |
| `Workbook_proofs!TypeCorrect` | `Spec => []TypeOK`, requests interleaved or not |
| `Workbook_proofs!OtherPointsStay` | `Spec => OnlySavesRewritten`, requests interleaved or not |
| `Workbook_proofs!LastPointIsCurrent`, `!PointsStay` | if `Overlap = FALSE`, `Spec => []HistoryIsCurrent` and `Spec => SavedPointsSurvive`, any length of the history |
| `Workbook_proofs!RestoresKeep` | if `Overlap = FALSE` and `MaxHistory > 1`, `Spec => RestoreCanBeUndone` |
| `Workbook_proofs!ContentOnly` | `Spec => ContentWritesOnlyContent`, requests interleaved or not |
| `Workbook_proofs!SeenBeforeReplaced` | if `Overlap = FALSE`, `Spec => NoSilentOverwrite`, any number of tabs, contents and versions, with lost answers and aborted requests |
| `Workbook_proofs!ImplementsDocument` | if `Overlap = FALSE`, `Spec => Document!Spec`: a workbook is a `VersionedDocument` |
| `Workbook_proofs!VersionIsContent` | if `Overlap = FALSE`, `Spec => Document!VersionNamesContent(v, c)`, for every version and content |
| `ShareLinks_proofs!TypeCorrect`, `!NobodyStuck` | `Spec => []TypeOK` and `Spec => []SomebodyCanDecide` (a waiting link has somebody who may decide, as long as there are approvers), requests interleaved or not |
| `ShareLinks_proofs!OffForGood`, `!RulesHold`, `!UndoneOnce` | if `Overlap = FALSE`, `Spec => OffSticks`, `Spec => OnlyUndoExposes`, `Spec => UndoIsExact`, any number of items, users, titles and times |
| `DocumentEditor_proofs!TypeCorrect` | `Spec => []TypeOK` |
| `DocumentEditor_proofs!NothingOverwritten` | `Spec => NoSilentOverwrite`, any number of items and of requests out at once |
| `DocumentEditor_proofs!SavedIsSaved` | `Spec => []SavedMeansSaved`, likewise |
| `DocumentEditor_proofs!ImplementsDocument` | `Spec => Document!Spec`: the server an editor talks to is a `VersionedDocument` |
| `DashboardStudio_proofs!TypeCorrect` | `Spec => []TypeOK` |
| `DashboardStudio_proofs!SavesGoHome` | `Spec => LayoutGoesHome`, any boards, widgets and calls |
| `DashboardStudio_proofs!OwnWidgets`, `!WidgetsPlaced` | `Spec => []ShowsOwnUnlessStrayed` and `Spec => []PlacedUnlessStrayed`, any boards, widgets, length of the undo history and order of the answers |
| `DashboardGrid_proofs!TypeCorrect`, `!NothingStacked`, `!PlacedStays` | `Spec => []TypeOK`, `Spec => []TilesStayApart` and `Spec => []StaysPut`, any number of tiles of any sizes, any width of the grid, any number of rounds |
| `DashboardGrid_proofs!TakenBack` | `Spec => EscapeTakesBack`, likewise |
| `DashboardGrid_proofs!Resolves` | whatever rectangles `resolveLayoutCollisions` is given, and whatever was moved: it leaves every tile on the grid, none on another, and the moved one where it was put |
| `AuthSession_proofs!TypeCorrect` | `Spec => []TypeOK` |
| `AuthSession_proofs!BarrierUp` | `Spec => []BarrierIsUp`, with `MayRush` on or off |
| `AuthSession_proofs!SignedOutForGood`, `!SentAsUser` | if `MayRush = FALSE`, `Spec => []LoggedOutStaysOut` and `Spec => []TokenIsOfUser`, any number of users and attempts |

**EntitledWrites.** `WritesAreEntitled` speaks of the memory of serving processes only; it is
not inductive, because a process that starts takes its memory from the row, and a process in
the middle of a call applies an answer to a row it loaded earlier. The invariant therefore
says of *three* places that validity comes with a grant: the row, what a call holds of the row,
and memory — in each, "valid" implies a grant made on the day recorded as `last`, and a process
that has completed today's cycle holds nothing older than a grace period. The tick is where
the deadline could slip: its guard is that every running process has completed a cycle, and a
completed cycle either has refreshed `last`, or has looked at the deadline, or has set
`blind`. The hypothesis that the table holds one row is needed: with two, `SELECT ... LIMIT 1`
may load a different row each time, and two workers that start on an empty table do insert two.

**ChunksGone.** Two facts about steps carry it: no step but a deletion makes a document stop
existing (`Keeps`), and rows that do not exist are not written (`Untouched`, from `SetDoc`). The
only step that adds a chunk has the existence of its document in its guard: the foreign key.

**ReadyStored.** "Ready" is not enough: a job that is about to fold relies on the identical
document it found, and a job that finishes relies on the batches of its own try. `IInv` adds
three conjuncts: `RowsInOrder` (nothing is deleted; a hash, once there, is that of the file, so
that "same hash" means "same file"), `JobsInOrder` (jobs and the reindex request are about
documents that exist), and `ProgressInOrder` (a job at "fold" has a complete document of its
file; a job at "store" has every batch it counts). `Grows` and `Keeps` show that what is stored
stays stored under steps of other jobs. The proof has one lemma for the endpoints and one for
the steps of a job. It does not use that jobs end, or that each is tried finitely often.

**ProcessingEnds.** A document at "processing" has a job by the way it got there, and must not lose it. `HasTries` says
that a queued job has a try left: a kill takes one, and there are fewer kills than tries, so that
the queue never gives a job up with its document still at "processing". Every other step of a job either goes on
or settles the document in the same commit. The three mishaps that are switched off each do
leave a document behind (see the observations and the fairness of the model).

**ImplementsRegisters, DeletedForGood.** A job writes the row of its document through `SetDoc`, an UPDATE that matches no
row once it is deleted, and the commit of the reindex request fails as a whole if one of its rows is gone. So a step
writes one row that exists, which settles the document, resumes it or does nothing to it (`OneWritten`), or, at that commit,
several, or it is an upload or the deletion. Types are all that is needed besides: the registers do not
say that work ends, nor that it is needed to be ready again, because two jobs may be at work on one document
(ready, then failed, is a step that two tries can make).

**Promised, Refused, Mirrored, Readable.** The abstract specification speaks of the row only. One process
means that what a call loaded is still what the row holds when the answer comes (`Kept`), that the row has
one name, and that memory is the row between two cycles (`Mirror`); a commit that fails would
leave memory ahead of it, which is what `MayRaise = FALSE` excludes. Then each
step of the service is one of `Grant`, `Refuse`, `Lapse`, `Tick` or leaves the row as it is. A start from the
grace period is the delicate one: it must give back what the row says and not renew it.

**LastPointIsCurrent, RestoresKeep, PointsStay.** The history is a set of points with times, the newest is the one
with the greatest time, and pruning keeps the points with fewer than `MaxHistory` newer ones. The serial invariant
says that times are in the order of commits, that the newest point is the content of the row, and that a request that has
recorded its points has them as the last one or two. For pruning two lemmas are needed that arithmetic does not
give: a set of points of which all are pruned to `MaxHistory` has at most that many (`KeptBound`, by the pigeonhole
principle on the number of newer points), and a point is pruned only if enough newer ones are kept (`KeptEnough`; like the existence of
a newest point, by well-foundedness of strict inclusion between finite sets).

**OtherPointsStay.** When requests overlap the order of times is lost. What is left is that points are told apart by their
moment of creation (`Apart`), that a request rewrites at most a point of a save, and that it does so in
place (`Books`).

**SeenBeforeReplaced.** The guard of `Save` compares versions, the property speaks of contents. `Versions`
joins the two: no tab is ahead of the row, and a tab whose version is the row's has seen its content; so
a version must move with every write of content, also with a restore, which asks for none
(the mutant `RestoreVersion_SameVersion` is this mistake). `OneRequest` says that what a
request loaded is still what the row holds, and is what fails when requests overlap. `ContentOnly` needs
neither: a save or a restore wants no other deletion and no other settings than it loaded, and a commit writes only what
differs from what was loaded (`Flushed`).

**ImplementsDocument, VersionIsContent.** `Workbook` and `DocumentEditor` look at the same row from its two sides, and
`VersionedDocument` is what they have in common: a content takes the next version, nothing in the trash is written,
and the trash touches neither. That the editor assumes no more of its server is one theorem, that the server keeps it the
other. The second needs the serial invariant, and that every request but a save and a restore wants the content
it loaded (`ContentRequests`): a commit that writes no content must leave the version too. From the
abstract specification alone it follows that a version never comes back with another content (`VersionsNameContents`: a
row is at version v with the content that was read, or beyond v). With `Overlap = TRUE` it fails, and TLC shows how: two saves
that loaded version 1 commit different contents as version 2. The editor's theorems say nothing of that case.

**OffForGood, RulesHold, UndoneOnce.** The invariant says of the request under way that it is about the row
as it is, that approving and declining are of a waiting link, and that the rules carry the last take-down
(`TakenIsLast`): the undo reads it from the rules, the property from what was really taken. An undo
commits rules without a last take-down, so a second one changes nothing. Without `Overlap = FALSE` all
three fail (see the observations).

**NothingOverwritten.** A version is only a number: what makes a save safe is that whoever holds version v
has shown what the row held at v. `IInv` says this of the editor's version, of the version every request
carries, and of the version every answer brings (`Knows`, `KnownCall`); an answer that brings a document has that
document as what the row held then. It survives because a row that is written moves past every version
already known (`KnowledgeLasts`), so that a stale promise is empty rather than wrong. The order of
handling and of answers is not used, nor how many requests are out: this is why overlapping
autosaves, which the code allows, lose nothing and only produce refusals.

**SavedIsSaved.** The screen may say "saved" long before, or after, the row moved on, so the invariant speaks of the
versions somebody still believes in: the editor, a request on its way, or an answer on its way (`Believed`). While
nothing changed since the last save was sent (`Unchanged`), either a save of what is on screen is out and was not
taken (`Awaited`), or what is on screen is what the row holds, if anybody believes in its version, and what
every save that it may still take carries (`Confirmed`). A row that moves on has a version nobody believes in
(`NewVersion`); an answer brings only versions that were already believed in; a failed save leaves "saving". A reading
makes the second true if it was alone (`Alone`, `ReadIsCurrent`), which is what `raced` is for.

**SavesGoHome.** Only the timer's own save both ends it and asks for places, and it compares its board with the one
that shows.

**OwnWidgets, WidgetsPlaced.** What shows can come from the copy of a board, from a snapshot, from a version or from an answer,
so the same is said of all of them: whatever widget they show was put on their board, and has a place (`HeldBy`,
`Held`, `Snapshots`, `Versions`, `Owed`). One exception had to be found: refreshing chart data copies the
widgets of the board on show without their places after a reload of the list emptied the copies, so that this one copy
may show widgets without places. It does no harm because leaving the board writes it anew. Everything is said as long
as nothing strayed, and a step that strays needs no proof: this is where the code's known mix-ups are.

**BarrierUp.** Every sign-out that is under way has an epoch at most the current one, one of the current epoch is
under way exactly while the flag is raised, and only its own end lowers it. No other assumption.

**SignedOutForGood, SentAsUser.** What the store shows says nothing of what will arrive. `NobodyOut` says of
everything that could still be accepted (loads, exchanges of the current epoch, the second half of a sign-in)
that it is of nobody who signed out; exchanges of older epochs may be, and are turned away by
the epoch. `SameUser` says the same for "of the user on screen", and `OneAtATime` that only one of them can bring
somebody, which is the hypothesis `MayRush = FALSE` made inductive.

**Resolves, NothingStacked, PlacedStays, TakenBack.** The provers have no induction over an operator, so what a loop
keeps is proved from the least count at which it would be broken (`NoLeast`, from the well-foundedness of the naturals), once
for any loop: `LoopRuns` says that the recursive function exists, `LoopKeeps` that it stays where every turn
stays. A nudge always finds a push, because the one downwards always clears (`ClearanceClears`); it moves the tile that yields,
which is never the moved one, to a place on the grid (`NudgeKeeps`). That is all the nudging guarantees: it
may end, by its guard, with tiles on each other. What makes the outcome free of overlaps is the seating: the search for a
place ends below everything if nowhere else (`FreePosition`, `MaxIs`), every turn seats one tile more off all that
are seated (`SeatKeeps`), and after as many turns as there are tiles none is left (`SeatedKeeps`). Hence the second
seating in the code (`layoutSanitize.ts:445`) is never reached. For the gestures the invariant
adds that a gesture begins with a layout without overlaps, which is the one a cancelled gesture is back at unless a key
was pressed (`Gesture`), and that what is stacked was not placed by hand (`History`), so that no heal moves what a person just placed.

Assumptions on constants: `Batches`, `MaxTries`, `MaxCopies`, `Attempts`, `MaxHistory` positive, `NoFile`
not a file, `None` not a user, an item's stamp, a request of an editor, a board or a place, `Grace` and
the bounds natural numbers, `Never` not a date, at least one process, and that a patch of settings
leaves settings (`PatchesAssumption`); of the grid, that it has a column and a tile, that the least sizes fit it, and that the
tiles a session finds are no wider than it (`SizesAssumption`). TLC evaluates them in every run.

Only model-checked: liveness (`Recovers`, `OutageCutsOff`, `Settles`, `EditsSettle`,
`LoadingEndsUnlessSignedOut`), which is beyond the provers used here. Every invariant and every action property
that a run checks is a theorem, some of them under the hypothesis the table names. That `Workbook`,
`DocumentEditor` and `KnowledgeIngestion` implement their abstract specifications is proved and not part of a run; TLC
found no step that fails to, on the instances of `workbook_serial`, `editor`, `knowledge_core` and `knowledge_delete`.

## 5. Findings

**A tab in which somebody signed out does not load again** (`account_loading`, `LoadingEnds`;
`useAuthStore.ts:177` of the client). The sign-out raises a flag in `sessionStorage` which only a new
sign-in in the tab clears. A page that loads with it (the sign-out through `/logout` loads
`/login`, and so does the menu's if its request failed) starts with `authLoading` TRUE, and `init` returns early on the flag
without lowering it; `app/(auth)/layout.tsx:27` renders nothing while it is TRUE. The form that would clear the flag
is never shown. `try/page.tsx:70` clears it by hand for the sandbox.

### Further observations

Met while modelling; no run is spent on them. Each can be reproduced by stating the property in the module
named and switching on what the text says.

*Server.*

* Every worker of a first start finds no license row and inserts one, with an instance id of its own;
  `licensing/models.py:3` says one row per instance (`licensing/service.py:57`).
* The version of a workbook is compared on a row read without a lock, and the handler awaits a thread before
  it commits: two overlapping saves both pass, although `workbooks/router.py:235` says that two tabs cannot silently
  overwrite each other. With `Overlap = TRUE`, `NoSilentOverwrite` fails.
* A folded upload is a second ready row with the same hash, so the third upload of a file raises in
  `scalar_one_or_none` and fails (`document_ingestion_service.py:207`).
* `_mark_failed` writes through the session whose flush just failed, and a timeout is a cancellation that no
  handler catches: both leave a document at "processing" (`document_ingestion_service.py:931`).
* An undo of a take-down sets its links to active whatever they have become since, those that wait for an
  approval included (`share_links/service.py:302`).
* A restore loses the data ranges of the workbook if they changed without the document: the
  snapshot compares document and title only (`workbooks/router.py:95`).
* A restore changes a workbook that is certified and locked; a save does not
  (`workbooks/router.py:518`).
* A submitted workbook cannot be approved by anybody: the decision loads as owner, and the
  submitter, who is the owner, is turned away (`workbooks/enterprise_router.py:101`). The owner
  can still set the certification through the settings.
* Two jobs of identical files that run at once both store their chunks; a retry accepted while a
  job runs doubles them, and so does a retry after a partial failure
  (`document_ingestion_service.py:207`, `knowledge/router.py:646`).
* Deleting a document deletes the only chunks of the documents that were folded onto it
  (`knowledge/router.py:635`).
* The reindex request commits its statuses after it has queued the jobs; a job may be done
  before, and is put back to "processing" (`knowledge/router.py:747`).
* A storage outage is recorded as a failure and not retried, although the docstring of the task
  says such problems raise (`shared/jobs/tasks.py:604` and `:644`).
* `enqueue_job` answers None when Redis is away; the upload endpoints do not look
  (`shared/jobs/client.py:41`).
* With overlapping requests, `ShareLinks` also violates `OnlyUndoExposes` (a save that loaded a
  waiting link commits its new title after the approval), `OffSticks` (an approval in flight
  commits after the link was turned off) and `UndoIsExact` (the rules are written whole).
* With a second approver required, approver B may change A's link and approve the change: the
  rule compares with the link's creator (`publish_policy.py:118`).
* A license whose first activation failed is activated only by a restart
  (`licensing/service.py:230`).
* A worker that starts while the server is unreachable restores the flag it loaded before its call,
  although another worker may have committed a refusal meanwhile; its next cycle repairs it
  (`licensing/service.py:169`).
* A link that waits for approval a second time gets no reminder, because `reminded_at` is never
  cleared (`share_links/service.py:200`).
* The re-embedding job takes any 200 stale chunks in no order, so chunks whose embedding always
  fails may keep the others out (`shared/jobs/tasks.py:503`).
* Build sessions are kept in memory without a lifetime beside the cached ones, and an old build is
  served again after the cached one expired (`dashboards/build_session.py:132`).
* A request refused for its organization stays counted (`shared/middleware/rate_limiter.py:135`).
* The time of a point is taken before its commit, so the points of overlapping saves may lie in the other
  order, and a save that commits late puts the time of the point it saves over back: the next save may then replace a point
  that is older than the session gap (`workbooks/router.py:89` and `:97`; with `Overlap = TRUE` and a clock of six
  `SavedPointsSurvive` fails). Settings and publishing rules are JSON values written whole
  (`workbooks/governance.py:32`, `feed/service_actions.py:1342`).
* A live link hands out an embed session of an hour, which outlives the link
  (`share_links/service.py:274`).
* A refresh cycle that dies of an unexpected exception never reaches the check of the deadline
  (`licensing/service.py:266`); `license_two` has such cycles, and a later one makes up for them.

*Dashboard studio and grid.*

* A late answer of a load makes its board active again and puts its widgets over those shown since; linking to
  a board that is not loaded leaves it with one widget in the store; `duplicateDashboard` looks up positions
  after it has switched. The undo history is one for all boards and is not cleared on a switch. All these are
  the steps that `strayed` marks.
* "Move to dashboard" says "Moved" and leaves the chart on its source
  (`Canvas/DashboardCanvas.tsx:603`); undo never writes to the server; an undo after a drag is off by one; local
  widgets are lost on a load; removing a widget removes it from the page even if the server refused.
* Distribute may push a wide tile over the right edge, and is saved so; the next drop or key, wherever on the page,
  brings it back and may push others away; Align and the resolution of collisions
  move locked tiles; a key pressed while the mouse holds a tile is saved, then undone by the release or by
  Escape.

*Sheets and notebooks.*

* A save that is slower than the next autosave gets a refusal by the editor's own save: "This sheet was changed
  somewhere else" (`WorkbookEditor.tsx:228`); so does a retry after only the answer was lost, and a save that
  overlaps a change of who sees the document.
* A document that is read again (history, a schedule's run) drops what was typed since the last save; if a
  save is out, the screen may show the older content as saved. The same of two readings: the drawer does not wait for
  the document it made the page read (`WorkbookHistoryDrawer.tsx:56`, `WorkbookEditor.tsx:163`), so two restores in quick
  succession may be answered the other way round. The older version is then shown as saved, and if the
  answer of a share brings the newest version number after it, the next save writes it over the newer one.
* Leaving asks only while something is dirty or being saved, not after an error or a conflict
  (`NotebookEditor.tsx:223`).
* A refresh of a range that was unlinked meanwhile writes its cells back.

*Signing in and out*, all with `MayRush = TRUE`.

* A login whose account request is out when the person signs out leaves them signed in; a login made while the
  sign-out is out is wiped by the sign-out's end.
* A background exchange of the previous provider session can replace the token of a new user, and so can the
  account request of an older init, which a newer one does not cancel.
* Signing in with a second step after a sign-out in the same tab: the first step raises before the flag is
  cleared, so the second sets the token and `init` refuses it.

## 6. What is not modelled

* **Data transformations**: SQL generation and dialects, charts, prep steps, parsing, chunking,
  embeddings, rendering. They are functions of large inputs; unit tests suit them better.
* **Access rights and row security**: conditions on who the caller is, evaluated per request
  with no state of their own; models take the users who pass them.
* **The enterprise edition**: not in the repository.
* **The rest of the client**: the SQL editor, the data source dialogs, the chart designer and the
  properties are forms around single requests and functions of what is typed; collaboration shows
  presence and stores nothing; filters and cross-filtering of a board are functions of its state.
* **Small CRUD modules**: a row per request.
* Of the modelled components: comments, duplication and imports of workbooks, the range refresh;
  retrieval and connectors of the knowledge base; opening, caching and reminding of share links;
  posts of the feed; formulas, imports and the panels of the editors; registration, invitations and password
  resets; mobile layouts.

`PROJECT.json` lists every component with its sources.

## 7. Plan

Done, in this order: `LicenseService` with `LicensePromise`, `Workbook`, `KnowledgeIngestion`,
`ShareLinks`, `DashboardStudio`, `DocumentEditor`, `AuthSession`, `DashboardGrid`, `VersionedDocument`, `DocumentRegisters`; the proofs above.

Next modules, most important first:

1. `EmbedTokens`: the token list of a user as one JSON value, revocation against creation, single-use
   links with Redis and without, sessions that outlive the link they were opened from; composed
   with `ShareLinks` for live links.
2. `DashboardBuild`: the progress of a build in cache and memory, its events, subscribers with bounded
   queues, finalization; abstract specification: a subscriber ends up with the final state.
3. `KnowledgeReindex`: re-embedding of stale chunks beside ingestion, on the chunks of
   `KnowledgeIngestion`.
4. `RateLimiter` over `Cache`: sliding windows, refused requests, the fallback.
5. `FeedPosts`: the approval of posts under the same rules as `ShareLinks`, sharing the module of the
   rules.
6. `Notebooks`: `Workbook` with the notebook's own deviations, composed with `DocumentEditor`, whose
   `server` is today the version check of either.

Abstract specification worth stating: for `ShareLinks` a set of cleared contents from which what is
public is taken.

Theorems worth proving next: that `ShareLinks` shows nothing but what was cleared, as that specification says.
