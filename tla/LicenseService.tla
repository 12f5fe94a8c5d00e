--------------------------- MODULE LicenseService ---------------------------
(***************************************************************************)
(* The license client of a self-hosted server: src/core/licensing.         *)
(*                                                                         *)
(* Every server process (uvicorn --workers N) keeps a LicenseState in      *)
(* memory; all of them share the license_state table.  At startup a        *)
(* process activates or validates the license (bootstrap), then            *)
(* re-validates it on an interval (refresh_once).  Each of these loads the *)
(* row, awaits the license server and applies the answer later, so the     *)
(* processes interleave between the three, and nothing locks the row.      *)
(*                                                                         *)
(* One tick of the clock is one day: many refresh intervals (15 minutes)   *)
(* and far longer than an HTTP call (10 seconds), hence every running      *)
(* process completes a cycle in every tick and no call spans two ticks.    *)
(***************************************************************************)
EXTENDS Naturals, FiniteSets

CONSTANTS
  Workers,       \* the server processes
  Grace,         \* LICENSE_GRACE_PERIOD_DAYS
  Never,         \* a date that is NULL
  Distributed,   \* the image carries the license-required marker file
  Installed,     \* the table already holds the row of an earlier, failed activation
  MayRaise,      \* a cycle may die of an exception the code does not name
  Settings,      \* the settings the operator may deploy
  EndDates,      \* end dates the vendor may set: dates or Never
  MaxTime,       \* bound: last day of the clock
  LastUp         \* bound: last day on which the license server is reachable

ASSUME WorkersAssumption == Workers # {}
ASSUME GraceAssumption == Grace \in Nat
ASSUME NeverAssumption == Never \notin Nat
ASSUME EndDatesAssumption == EndDates \subseteq Nat \cup {Never}
ASSUME SettingsAssumption == Settings \subseteq {"file", "key", "unset"}
ASSUME BoundAssumption == MaxTime \in Nat /\ LastUp \in Nat
ASSUME FlagAssumption ==
  Distributed \in BOOLEAN /\ Installed \in BOOLEAN /\ MayRaise \in BOOLEAN

VARIABLES
  clock,     \* the current day
  setting,   \* how the operator configured the deployment
  vendor,    \* the license server and the license it keeps
  rows,      \* the license_state table; a row is named by the worker inserting it
  pc,        \* where each process is
  mem,       \* each process's in-memory LicenseState
  call,      \* what each process holds across its await
  checked,   \* a cycle ended in this process since the last tick
  grants,    \* history: every grant that was applied, with its day
  verdict,   \* history: the last definite answer the deployment heard
  blind      \* history: the process's last cycle died of an unexpected exception

vars == <<clock, setting, vendor, rows, pc, mem, call, checked, grants,
          verdict, blind>>

history == <<grants, verdict, blind>>

-----------------------------------------------------------------------------
(* Values *)

Date == Nat \cup {Never}

\* Of Settings: AISER_LICENSE_FILE set, AISER_EDITION_LICENSE_KEY set, or neither.
AllSettings == {"file", "key", "unset"}

Row == [there : BOOLEAN, lic : BOOLEAN, valid : BOOLEAN, last : Date, ends : Date]

NoRow == [there |-> FALSE, lic |-> FALSE, valid |-> FALSE,
          last |-> Never, ends |-> Never]

LicenseState == [valid : BOOLEAN, lic : BOOLEAN, last : Date, ends : Date,
                 offline : BOOLEAN]

\* Mutated form: the unset flag is None instead of False.
Blank_NullFlag == [valid |-> FALSE, lic |-> FALSE, last |-> Never, ends |-> Never,
                   offline |-> Never]

Blank == [valid |-> FALSE, lic |-> FALSE, last |-> Never, ends |-> Never,
          offline |-> FALSE]

AnswerKinds == {"none", "granted", "refused", "failed"}

Call == [id : Workers, old : Row, kind : AnswerKinds, ends : Date]

NoCall(w) == [id |-> w, old |-> NoRow, kind |-> "none", ends |-> Never]

Vendor == [up : BOOLEAN, active : BOOLEAN, ends : Date]

Places == {"down", "booting", "idle", "refreshing", "noloop"}

Grant == [at : Nat, ends : Date]

TypeOK ==
  /\ clock \in Nat
  /\ setting \in AllSettings
  /\ vendor \in Vendor
  /\ rows \in [Workers -> Row]
  /\ pc \in [Workers -> Places]
  /\ mem \in [Workers -> LicenseState]
  /\ call \in [Workers -> Call]
  /\ checked \in [Workers -> BOOLEAN]
  /\ grants \subseteq Grant
  /\ verdict \in {"none", "granted", "refused"}
  /\ blind \in [Workers -> BOOLEAN]

-----------------------------------------------------------------------------
(* The state queries of state.py and dependencies.py *)

requires_validation == Distributed \/ setting # "unset"

NotEnded(ends) == ends = Never \/ ends > clock

usable(w) == mem[w].valid /\ NotEnded(mem[w].ends)

\* A process serves requests once its startup is over.
Serving(w) == pc[w] \in {"idle", "refreshing", "noloop"}

require_valid_license(w, reading) ==
  \/ ~requires_validation
  \/ usable(w)
  \/ mem[w].lic /\ reading

WithinGrace(last) == last # Never /\ clock <= last + Grace

-----------------------------------------------------------------------------
(* Writing the row.  A session writes back only the columns that differ    *)
(* from the values it loaded; the other columns keep what is in the table. *)

Column(cur, old, new) == IF new = old THEN cur ELSE new

Commit(id, old, new) ==
  rows' = [rows EXCEPT ![id] =
             [there |-> TRUE,
              lic   |-> Column(@.lic, old.lic, new.lic),
              valid |-> Column(@.valid, old.valid, new.valid),
              last  |-> Column(@.last, old.last, new.last),
              ends  |-> Column(@.ends, old.ends, new.ends)]]

\* _apply_result, and the accepting end of _apply_license_file.
Accept(w, offline) ==
  LET c == call[w] IN
  /\ Commit(c.id, c.old, [there |-> TRUE, lic |-> TRUE, valid |-> TRUE,
                          last |-> clock, ends |-> c.ends])
  /\ mem' = [mem EXCEPT ![w] = [valid |-> TRUE, lic |-> TRUE, last |-> clock,
                                ends |-> c.ends, offline |-> offline]]
  /\ grants' = grants \cup {[at |-> clock, ends |-> c.ends]}
  /\ verdict' = "granted"
  /\ blind' = [blind EXCEPT ![w] = FALSE]

\* Mutated form: the memory of an ended license forgets that there was one.
ForgetValid_Everything(w) ==
  /\ mem' = [mem EXCEPT ![w] = [Blank EXCEPT !.last = clock]]
  /\ verdict' = IF call[w].kind = "refused" THEN "refused" ELSE verdict
  /\ UNCHANGED grants

\* _mark_invalid: memory keeps whom the license was for.
ForgetValid(w) ==
  LET c == call[w] IN
  /\ mem' = [mem EXCEPT ![w] = [valid |-> FALSE, lic |-> c.old.lic,
                                last |-> clock, ends |-> c.old.ends,
                                offline |-> FALSE]]
  /\ verdict' = IF c.kind = "refused" THEN "refused" ELSE verdict
  /\ UNCHANGED grants

\* Mutated form: only memory is flipped, the row still says valid.
Invalidate_MemoryOnly(w) ==
  /\ ForgetValid(w)
  /\ UNCHANGED rows
  /\ blind' = [blind EXCEPT ![w] = FALSE]

\* _mark_invalid and the commit that follows it at each of its callers.
Invalidate(w) ==
  /\ ForgetValid(w)
  /\ Commit(call[w].id, call[w].old, [call[w].old EXCEPT !.valid = FALSE])
  /\ blind' = [blind EXCEPT ![w] = FALSE]

\* Mutated form: the restored state is stamped with the time of the restart.
RestoreFromRow_FreshGrace(w) ==
  LET old == call[w].old IN
  /\ mem' = [mem EXCEPT ![w] = [valid |-> old.valid, lic |-> old.lic,
                                last |-> clock, ends |-> old.ends,
                                offline |-> @.offline]]
  /\ blind' = [blind EXCEPT ![w] = FALSE]
  /\ UNCHANGED <<rows, grants, verdict>>

\* The row stays as it was persisted and memory is restored from it.
RestoreFromRow(w) ==
  LET old == call[w].old IN
  /\ mem' = [mem EXCEPT ![w] = [valid |-> old.valid, lic |-> old.lic,
                                last |-> old.last, ends |-> old.ends,
                                offline |-> @.offline]]
  /\ blind' = [blind EXCEPT ![w] = FALSE]
  /\ UNCHANGED <<rows, grants, verdict>>

-----------------------------------------------------------------------------
(* Startup *)

\* The row a SELECT ... LIMIT 1 finds: any of them, in no stated order.
Found == {id \in Workers : rows[id].there}

Hold(w, id, old, place) ==
  /\ call' = [call EXCEPT ![w] = [id |-> id, old |-> old, kind |-> "none",
                                  ends |-> Never]]
  /\ pc' = [pc EXCEPT ![w] = place]

\* bootstrap up to its first await of the outside: no-op when no license is
\* required, an early return when there is neither a key nor a licensed row.
BootstrapLoad(w) ==
  /\ pc[w] = "down"
  /\ \/ /\ ~requires_validation
        /\ pc' = [pc EXCEPT ![w] = "idle"]
        /\ UNCHANGED call
     \/ /\ requires_validation
        /\ \E id \in (IF Found = {} THEN {w} ELSE Found) :
             LET old == [rows[id] EXCEPT !.there = TRUE] IN
             IF setting = "unset" /\ ~old.lic
               THEN pc' = [pc EXCEPT ![w] = "idle"] /\ UNCHANGED call
               ELSE Hold(w, id, old, "booting")
  /\ UNCHANGED <<clock, setting, vendor, rows, mem, checked, history>>

\* Mutated form: the deadline is anchored on the memory, blank after a restart.
BootstrapInvalidates_MemoryAnchor(w) ==
  \/ call[w].kind = "refused"
  \/ call[w].kind = "failed" /\ mem[w].last # Never /\ clock > mem[w].last + Grace

\* Mutated form: a failure at startup gets no grace.
BootstrapInvalidates_NoGrace(w) == call[w].kind \in {"refused", "failed"}

\* The branch of _handle_bootstrap_failure that gives no grace, and the one of
\* _apply_license_file that refuses the file.
BootstrapInvalidates(w) ==
  \/ call[w].kind = "refused"
  \/ call[w].kind = "failed" /\ ~WithinGrace(call[w].old.last)

\* bootstrap after the answer.
BootstrapFinish(w) ==
  /\ pc[w] = "booting"
  /\ \/ call[w].kind = "granted" /\ Accept(w, setting = "file")
     \/ BootstrapInvalidates(w) /\ Invalidate(w)
     \/ call[w].kind = "failed" /\ ~BootstrapInvalidates(w) /\ RestoreFromRow(w)
  /\ pc' = [pc EXCEPT ![w] = "idle"]
  /\ checked' = [checked EXCEPT ![w] = TRUE]
  /\ call' = [call EXCEPT ![w] = NoCall(w)]
  /\ UNCHANGED <<clock, setting, vendor>>

\* bootstrap dies of an exception it does not name (an answer without a token,
\* a failed commit): the startup hook logs it and this process serves without
\* ever starting the refresh loop.
BootstrapRaise(w) ==
  /\ MayRaise
  /\ pc[w] = "booting"
  /\ \/ UNCHANGED <<mem, grants, verdict>>
     \/ BootstrapInvalidates(w) /\ ForgetValid(w)
  /\ pc' = [pc EXCEPT ![w] = "noloop"]
  /\ call' = [call EXCEPT ![w] = NoCall(w)]
  /\ UNCHANGED <<clock, setting, vendor, rows, checked, blind>>

-----------------------------------------------------------------------------
(* The refresh loop *)

\* refresh_once: the cycles that end before the await.
RefreshSkip(w) ==
  /\ pc[w] = "idle"
  /\ \/ ~requires_validation
     \/ mem[w].offline
     \/ Found = {}
     \/ \E id \in Found : ~rows[id].lic
  /\ checked' = [checked EXCEPT ![w] = TRUE]
  /\ UNCHANGED <<clock, setting, vendor, rows, pc, mem, call, history>>

\* Mutated form: an instance found invalid is not validated again.
RefreshLoad_OnlyValid(w) ==
  /\ pc[w] = "idle" /\ mem[w].valid
  /\ requires_validation /\ ~mem[w].offline
  /\ \E id \in Found : rows[id].lic /\ Hold(w, id, rows[id], "refreshing")
  /\ UNCHANGED <<clock, setting, vendor, rows, mem, checked, history>>

RefreshLoad(w) ==
  /\ pc[w] = "idle"
  /\ requires_validation /\ ~mem[w].offline
  /\ \E id \in Found : rows[id].lic /\ Hold(w, id, rows[id], "refreshing")
  /\ UNCHANGED <<clock, setting, vendor, rows, mem, checked, history>>

\* Mutated form: an unreachable server never ends a license.
RefreshInvalidates_NoDeadline(w) == call[w].kind = "refused"

\* The grace of a running process is counted from its own memory.
RefreshInvalidates(w) ==
  \/ call[w].kind = "refused"
  \/ call[w].kind = "failed" /\ mem[w].last # Never /\ clock > mem[w].last + Grace

\* refresh_once after the answer.
RefreshFinish(w) ==
  /\ pc[w] = "refreshing"
  /\ \/ call[w].kind = "granted" /\ Accept(w, FALSE)
     \/ RefreshInvalidates(w) /\ Invalidate(w)
     \/ /\ call[w].kind = "failed" /\ ~RefreshInvalidates(w)
        /\ blind' = [blind EXCEPT ![w] = FALSE]
        /\ UNCHANGED <<rows, mem, grants, verdict>>
  /\ pc' = [pc EXCEPT ![w] = "idle"]
  /\ checked' = [checked EXCEPT ![w] = TRUE]
  /\ call' = [call EXCEPT ![w] = NoCall(w)]
  /\ UNCHANGED <<clock, setting, vendor>>

\* refresh_loop swallows an exception refresh_once does not name: this cycle is
\* over and the next one comes after the interval.
RefreshRaise(w) ==
  /\ MayRaise
  /\ pc[w] = "refreshing"
  /\ \/ UNCHANGED <<mem, grants, verdict>>
     \/ RefreshInvalidates(w) /\ ForgetValid(w)
  /\ pc' = [pc EXCEPT ![w] = "idle"]
  /\ checked' = [checked EXCEPT ![w] = TRUE]
  /\ blind' = [blind EXCEPT ![w] = TRUE]
  /\ call' = [call EXCEPT ![w] = NoCall(w)]
  /\ UNCHANGED <<clock, setting, vendor, rows>>

-----------------------------------------------------------------------------
(* The license server, the license file and the rest of the world *)

Reply(w, kind, ends) ==
  /\ call' = [call EXCEPT ![w].kind = kind, ![w].ends = ends]
  /\ UNCHANGED <<clock, setting, vendor, rows, pc, mem, checked, history>>

\* activate or validate: an answer that cannot be reached or verified is
\* "failed", a 403 is "refused".  Past its end the server may still grant a
\* license (with the past date) or refuse it.
ServerAnswer(w) ==
  /\ \/ pc[w] = "refreshing"
     \/ pc[w] = "booting" /\ setting # "file"
  /\ call[w].kind = "none"
  /\ \/ ~vendor.up /\ Reply(w, "failed", Never)
     \/ vendor.up /\ vendor.active /\ Reply(w, "granted", vendor.ends)
     \/ /\ vendor.up /\ (~vendor.active \/ ~NotEnded(vendor.ends))
        /\ Reply(w, "refused", Never)

\* verify_license_file: the file is good for this installation or it is not.
FileAnswer(w) ==
  /\ pc[w] = "booting" /\ setting = "file"
  /\ call[w].kind = "none"
  /\ \/ Reply(w, "refused", Never)
     \/ \E ends \in EndDates : Reply(w, "granted", ends)

VendorChange ==
  /\ \/ vendor' = [vendor EXCEPT !.up = FALSE]
     \/ clock <= LastUp /\ vendor' = [vendor EXCEPT !.up = TRUE]
     \/ vendor' = [vendor EXCEPT !.active = ~@]
     \/ \E ends \in EndDates : vendor' = [vendor EXCEPT !.ends = ends]
  /\ UNCHANGED <<clock, setting, rows, pc, mem, call, checked, history>>

\* A process dies: its memory, its transaction and its call are gone.
Crash(w) ==
  /\ pc[w] # "down"
  /\ pc' = [pc EXCEPT ![w] = "down"]
  /\ mem' = [mem EXCEPT ![w] = Blank]
  /\ checked' = [checked EXCEPT ![w] = FALSE]
  /\ blind' = [blind EXCEPT ![w] = FALSE]
  /\ call' = [call EXCEPT ![w] = NoCall(w)]
  /\ UNCHANGED <<clock, setting, vendor, rows, grants, verdict>>

\* The operator redeploys with another environment.
Redeploy ==
  /\ setting' \in Settings
  /\ pc' = [w \in Workers |-> "down"]
  /\ mem' = [w \in Workers |-> Blank]
  /\ checked' = [w \in Workers |-> FALSE]
  /\ blind' = [w \in Workers |-> FALSE]
  /\ call' = [w \in Workers |-> NoCall(w)]
  /\ UNCHANGED <<clock, vendor, rows, grants, verdict>>

\* A day passes: every process with a running loop went through a cycle.
Tick ==
  /\ clock < MaxTime
  /\ vendor.up => clock < LastUp
  /\ \A w \in Workers : \/ pc[w] \in {"down", "noloop"}
                        \/ pc[w] = "idle" /\ checked[w]
  /\ clock' = clock + 1
  /\ checked' = [w \in Workers |-> FALSE]
  /\ UNCHANGED <<setting, vendor, rows, pc, mem, call, history>>

-----------------------------------------------------------------------------
TheWorker == CHOOSE w \in Workers : TRUE

Init ==
  /\ clock = 0
  /\ setting \in Settings
  /\ vendor \in [up : BOOLEAN, active : BOOLEAN, ends : EndDates]
  /\ rows = [w \in Workers |-> [NoRow EXCEPT !.there = Installed /\ w = TheWorker]]
  /\ pc = [w \in Workers |-> "down"]
  /\ mem = [w \in Workers |-> Blank]
  /\ call = [w \in Workers |-> NoCall(w)]
  /\ checked = [w \in Workers |-> FALSE]
  /\ grants = {}
  /\ verdict = "none"
  /\ blind = [w \in Workers |-> FALSE]

Next ==
  \/ \E w \in Workers :
       \/ BootstrapLoad(w) \/ BootstrapFinish(w) \/ BootstrapRaise(w)
       \/ RefreshSkip(w) \/ RefreshLoad(w) \/ RefreshFinish(w)
       \/ RefreshRaise(w)
       \/ ServerAnswer(w) \/ FileAnswer(w)
       \/ Crash(w)
  \/ VendorChange
  \/ Redeploy
  \/ Tick

Spec == Init /\ [][Next]_vars

(***************************************************************************)
(* Fairness: the event loop runs every coroutine that is ready, an HTTP    *)
(* call returns or times out, the supervisor restarts a dead process, the  *)
(* refresh loop sleeps a finite time, and days pass.  Nothing is assumed   *)
(* of the vendor, the operator or crashes.                                 *)
(***************************************************************************)
Fairness ==
  /\ \A w \in Workers :
       /\ WF_vars(BootstrapLoad(w)) /\ WF_vars(BootstrapFinish(w))
       /\ WF_vars(RefreshSkip(w)) /\ WF_vars(RefreshLoad(w))
       /\ WF_vars(RefreshFinish(w))
       /\ WF_vars(ServerAnswer(w)) /\ WF_vars(FileAnswer(w))
  /\ SF_vars(Tick)

FairSpec == Spec /\ Fairness

-----------------------------------------------------------------------------
(* Properties *)

(***************************************************************************)
(* EE writes are let through only on a real and recent grant: somebody was *)
(* granted this license at most a grace period (and the day of the next    *)
(* cycle) ago, and that grant had not ended.  Restarting, being unable to  *)
(* reach the server, and the other processes' writes to the row never      *)
(* stretch it, as long as the table holds one row.  Excepted: a process    *)
(* holding an offline license file, and a process whose last cycle died    *)
(* before it could look at the deadline.                                   *)
(***************************************************************************)
WritesAreEntitled ==
  \A w \in Workers :
    (/\ Serving(w) /\ requires_validation /\ require_valid_license(w, FALSE)
     /\ ~mem[w].offline /\ ~blind[w])
    => \E g \in grants : clock <= g.at + Grace + 1 /\ NotEnded(g.ends)

(***************************************************************************)
(* A refusal is not an outage: after the license server (or the license    *)
(* file) said no, neither memory nor the row is valid until someone says   *)
(* yes again, across restarts, outages and redeployments.  One process.    *)
(***************************************************************************)
RefusalSticks ==
  /\ \A w \in Workers : mem[w].valid => verdict = "granted"
  /\ \A id \in Workers : rows[id].valid => verdict = "granted"

(***************************************************************************)
(* Between two cycles the memory that decides every request and the row    *)
(* that outlives the process agree, so a restart neither gains nor loses   *)
(* anything.  One process, none of whose commits fails.                    *)
(***************************************************************************)
MemoryMirrorsRow ==
  \A w \in Workers :
    (pc[w] = "idle" /\ requires_validation) =>
      /\ mem[w].lic = rows[w].lic
      /\ mem[w].valid = rows[w].valid
      /\ mem[w].valid => mem[w].last = rows[w].last /\ mem[w].ends = rows[w].ends

(***************************************************************************)
(* "An instance whose license has ended stays readable": once any grant    *)
(* was applied, a process that came up never refuses a read, whatever the  *)
(* server, the file, the date or a restart does later.  One process.       *)
(***************************************************************************)
StaysReadable ==
  \A w \in Workers :
    (pc[w] \in {"idle", "refreshing"} /\ grants # {}) => require_valid_license(w, TRUE)

(***************************************************************************)
(* The durable row of a one-process instance implements LicensePromise.    *)
(***************************************************************************)
Promise == INSTANCE LicensePromise
  WITH day <- clock, valid <- rows[TheWorker].valid,
       since <- rows[TheWorker].last, said <- verdict

ImplementsPromise == Promise!Spec

(***************************************************************************)
(* Once the server is reachable, grants the license and keeps doing so, a  *)
(* live process of a licensed instance ends up usable for good, whatever   *)
(* it had concluded during the outage.                                     *)
(***************************************************************************)
Recovers ==
  \A w \in Workers :
    <>[](/\ vendor.up /\ vendor.active /\ vendor.ends = Never
         /\ pc[w] \in {"idle", "refreshing"}
         /\ mem[w].lic /\ ~mem[w].offline /\ requires_validation)
    => <>[]usable(w)

(***************************************************************************)
(* Once the server stays unreachable and no file is configured, every      *)
(* process that does not hold an offline license ends up refusing writes   *)
(* for good: restarting again and again does not renew the grace period.   *)
(* (The last grant comes by LastUp, so that the bounded clock can outlast  *)
(* the grace period.)                                                      *)
(***************************************************************************)
OutageCutsOff ==
  <>[](~vendor.up /\ setting # "file" /\ \A g \in grants : g.at <= LastUp) =>
    <>[](\A w \in Workers : usable(w) => mem[w].offline)
=============================================================================
