------------------------ MODULE LicenseService_proofs ------------------------
(***************************************************************************)
(* Theorems about LicenseService, for any set of worker processes, any     *)
(* grace period and any bounds.                                            *)
(***************************************************************************)
EXTENDS LicenseService, TLAPS

LEMMA TheWorkerType == TheWorker \in Workers
  BY WorkersAssumption DEF TheWorker

(***************************************************************************)
(* A commit writes a row of the right shape and touches no other row.      *)
(***************************************************************************)
LEMMA CommitType ==
  ASSUME rows \in [Workers -> Row], NEW id \in Workers,
         NEW old \in Row, NEW new \in Row, Commit(id, old, new)
  PROVE  rows' \in [Workers -> Row]
  BY DEF Commit, Column, Row, Date

LEMMA AcceptType ==
  ASSUME TypeOK, NEW w \in Workers, NEW offline \in BOOLEAN, Accept(w, offline)
  PROVE  /\ rows' \in [Workers -> Row]
         /\ mem' \in [Workers -> LicenseState]
         /\ grants' \subseteq Grant
         /\ verdict' \in {"none", "granted", "refused"}
         /\ blind' \in [Workers -> BOOLEAN]
<1> DEFINE c == call[w]
           new == [there |-> TRUE, lic |-> TRUE, valid |-> TRUE,
                   last |-> clock, ends |-> c.ends]
<1>1. c.id \in Workers /\ c.old \in Row /\ c.ends \in Date
  BY DEF TypeOK, Call
<1>2. new \in Row
  BY <1>1 DEF TypeOK, Row, Date
<1>3. Commit(c.id, c.old, new)
  BY DEF Accept
<1>4. rows' \in [Workers -> Row]
  <2> HIDE DEF c, new
  <2> QED BY <1>1, <1>2, <1>3, CommitType DEF TypeOK
<1>5. mem' \in [Workers -> LicenseState] /\ grants' \subseteq Grant
  BY <1>1 DEF Accept, TypeOK, LicenseState, Grant, Date
<1>6. QED
  BY <1>4, <1>5 DEF Accept, TypeOK

LEMMA ForgetValidType ==
  ASSUME TypeOK, NEW w \in Workers, ForgetValid(w)
  PROVE  /\ mem' \in [Workers -> LicenseState]
         /\ grants' \subseteq Grant
         /\ verdict' \in {"none", "granted", "refused"}
<1>1. call[w].old \in Row
  BY DEF TypeOK, Call
<1>2. QED
  BY <1>1 DEF ForgetValid, TypeOK, LicenseState, Row, Date

LEMMA InvalidateType ==
  ASSUME TypeOK, NEW w \in Workers, Invalidate(w)
  PROVE  /\ rows' \in [Workers -> Row]
         /\ mem' \in [Workers -> LicenseState]
         /\ grants' \subseteq Grant
         /\ verdict' \in {"none", "granted", "refused"}
         /\ blind' \in [Workers -> BOOLEAN]
<1> DEFINE c == call[w]
           new == [c.old EXCEPT !.valid = FALSE]
<1>1. c.id \in Workers /\ c.old \in Row
  BY DEF TypeOK, Call
<1>2. new \in Row
  BY <1>1 DEF Row
<1>3. Commit(c.id, c.old, new)
  BY DEF Invalidate
<1>4. rows' \in [Workers -> Row]
  <2> HIDE DEF c, new
  <2> QED BY <1>1, <1>2, <1>3, CommitType DEF TypeOK
<1>5. QED
  BY <1>4, ForgetValidType DEF Invalidate, TypeOK

LEMMA HoldType ==
  ASSUME TypeOK, NEW w \in Workers, NEW id \in Workers, NEW old \in Row,
         NEW place \in Places, Hold(w, id, old, place)
  PROVE  call' \in [Workers -> Call] /\ pc' \in [Workers -> Places]
  BY DEF Hold, TypeOK, Call, AnswerKinds, Date

LEMMA NoCallType == \A w \in Workers : NoCall(w) \in Call
  BY DEF NoCall, Call, NoRow, Row, Date, AnswerKinds

LEMMA BlankType == Blank \in LicenseState
  BY DEF Blank, LicenseState, Date

LEMMA TypeInit == Init => TypeOK
<1> SUFFICES ASSUME Init PROVE TypeOK
  OBVIOUS
<1>1. \A w \in Workers : [NoRow EXCEPT !.there = Installed /\ w = TheWorker] \in Row
  BY FlagAssumption DEF NoRow, Row, Date
<1>2. vendor \in Vendor
  BY EndDatesAssumption DEF Init, Vendor, Date
<1>3. QED
  BY <1>1, <1>2, NoCallType, BlankType, SettingsAssumption
     DEF Init, TypeOK, Places, AllSettings

LEMMA TypeStep == TypeOK /\ [Next]_vars => TypeOK'
<1> SUFFICES ASSUME TypeOK, [Next]_vars PROVE TypeOK'
  OBVIOUS
<1>1. ASSUME NEW w \in Workers, BootstrapLoad(w) PROVE TypeOK'
  <2>1. CASE pc' = [pc EXCEPT ![w] = "idle"] /\ UNCHANGED call
    BY <1>1, <2>1 DEF BootstrapLoad, TypeOK, Places, history
  <2>2. ASSUME NEW id \in Workers, Hold(w, id, [rows[id] EXCEPT !.there = TRUE], "booting")
        PROVE  TypeOK'
    <3>1. [rows[id] EXCEPT !.there = TRUE] \in Row
      BY DEF TypeOK, Row
    <3>2. call' \in [Workers -> Call] /\ pc' \in [Workers -> Places]
      BY <2>2, <3>1, HoldType DEF Places
    <3>3. QED
      BY <1>1, <3>2 DEF BootstrapLoad, TypeOK, history
  <2>3. QED
    BY <1>1, <2>1, <2>2 DEF BootstrapLoad, Found
<1>2. ASSUME NEW w \in Workers, BootstrapFinish(w) PROVE TypeOK'
  <2>1. /\ pc' \in [Workers -> Places] /\ checked' \in [Workers -> BOOLEAN]
        /\ call' \in [Workers -> Call]
    BY <1>2, NoCallType DEF BootstrapFinish, TypeOK, Places
  <2>2. CASE Accept(w, setting = "file")
    BY <1>2, <2>1, <2>2, AcceptType DEF BootstrapFinish, TypeOK
  <2>3. CASE Invalidate(w)
    BY <1>2, <2>1, <2>3, InvalidateType DEF BootstrapFinish, TypeOK
  <2>4. CASE RestoreFromRow(w)
    <3>1. call[w].old \in Row
      BY DEF TypeOK, Call
    <3>2. mem' \in [Workers -> LicenseState] /\ blind' \in [Workers -> BOOLEAN]
      BY <2>4, <3>1 DEF RestoreFromRow, TypeOK, LicenseState, Row
    <3>3. QED
      BY <1>2, <2>1, <2>4, <3>2 DEF BootstrapFinish, RestoreFromRow, TypeOK
  <2>5. QED
    BY <1>2, <2>2, <2>3, <2>4 DEF BootstrapFinish
<1>3. ASSUME NEW w \in Workers, BootstrapRaise(w) PROVE TypeOK'
  <2>1. pc' \in [Workers -> Places] /\ call' \in [Workers -> Call]
    BY <1>3, NoCallType DEF BootstrapRaise, TypeOK, Places
  <2>2. QED
    BY <1>3, <2>1, ForgetValidType DEF BootstrapRaise, TypeOK
<1>4. ASSUME NEW w \in Workers, RefreshSkip(w) PROVE TypeOK'
  BY <1>4 DEF RefreshSkip, TypeOK, history
<1>5. ASSUME NEW w \in Workers, RefreshLoad(w) PROVE TypeOK'
  <2>1. PICK id \in Found : Hold(w, id, rows[id], "refreshing")
    BY <1>5 DEF RefreshLoad
  <2>2. call' \in [Workers -> Call] /\ pc' \in [Workers -> Places]
    BY <2>1, HoldType DEF Found, Places, TypeOK
  <2>3. QED
    BY <1>5, <2>2 DEF RefreshLoad, TypeOK, history
<1>6. ASSUME NEW w \in Workers, RefreshFinish(w) PROVE TypeOK'
  <2>1. /\ pc' \in [Workers -> Places] /\ checked' \in [Workers -> BOOLEAN]
        /\ call' \in [Workers -> Call]
    BY <1>6, NoCallType DEF RefreshFinish, TypeOK, Places
  <2>2. CASE Accept(w, FALSE)
    BY <1>6, <2>1, <2>2, AcceptType DEF RefreshFinish, TypeOK
  <2>3. CASE Invalidate(w)
    BY <1>6, <2>1, <2>3, InvalidateType DEF RefreshFinish, TypeOK
  <2>4. CASE blind' = [blind EXCEPT ![w] = FALSE] /\ UNCHANGED <<rows, mem, grants, verdict>>
    BY <1>6, <2>1, <2>4 DEF RefreshFinish, TypeOK
  <2>5. QED
    BY <1>6, <2>2, <2>3, <2>4 DEF RefreshFinish
<1>7. ASSUME NEW w \in Workers, RefreshRaise(w) PROVE TypeOK'
  <2>1. /\ pc' \in [Workers -> Places] /\ checked' \in [Workers -> BOOLEAN]
        /\ call' \in [Workers -> Call] /\ blind' \in [Workers -> BOOLEAN]
    BY <1>7, NoCallType DEF RefreshRaise, TypeOK, Places
  <2>2. QED
    BY <1>7, <2>1, ForgetValidType DEF RefreshRaise, TypeOK
<1>8. ASSUME NEW w \in Workers, NEW kind \in AnswerKinds, NEW ends \in Date,
             Reply(w, kind, ends)
      PROVE  TypeOK'
  <2>1. call' \in [Workers -> Call]
    BY <1>8 DEF Reply, TypeOK, Call
  <2>2. QED
    BY <1>8, <2>1 DEF Reply, TypeOK, history
<1>9. ASSUME NEW w \in Workers, ServerAnswer(w) PROVE TypeOK'
  BY <1>8, <1>9 DEF ServerAnswer, AnswerKinds, Date, TypeOK, Vendor
<1>10. ASSUME NEW w \in Workers, FileAnswer(w) PROVE TypeOK'
  BY <1>8, <1>10, EndDatesAssumption DEF FileAnswer, AnswerKinds, Date
<1>11. ASSUME NEW w \in Workers, Crash(w) PROVE TypeOK'
  BY <1>11, NoCallType, BlankType DEF Crash, TypeOK, Places
<1>12. CASE VendorChange
  <2>1. vendor' \in Vendor
    BY <1>12, EndDatesAssumption DEF VendorChange, TypeOK, Vendor, Date
  <2>2. QED
    BY <1>12, <2>1 DEF VendorChange, TypeOK, history
<1>13. CASE Redeploy
  BY <1>13, NoCallType, BlankType, SettingsAssumption
     DEF Redeploy, TypeOK, Places, AllSettings
<1>14. CASE Tick
  BY <1>14 DEF Tick, TypeOK, history
<1>15. CASE UNCHANGED vars
  BY <1>15 DEF vars, TypeOK
<1>16. QED
  BY <1>1, <1>2, <1>3, <1>4, <1>5, <1>6, <1>7, <1>9, <1>10, <1>11, <1>12,
     <1>13, <1>14, <1>15 DEF Next

(***************************************************************************)
(* Type correctness: every state variable keeps its type.                  *)
(***************************************************************************)
THEOREM TypeCorrect == Spec => []TypeOK
  BY TypeInit, TypeStep, PTL DEF Spec

-----------------------------------------------------------------------------
(***************************************************************************)
(* WritesAreEntitled.  It holds as long as the table can hold one row only *)
(* (there is one process, or the row existed before the processes did);    *)
(* the inductive invariant traces every valid memory back to a grant       *)
(* through the row and through the copies in-flight calls hold of it.      *)
(***************************************************************************)
SingleRow == Installed \/ \A w \in Workers : w = TheWorker

\* A day and an end date that were granted together.
Granted(last, ends) ==
  /\ last # Never
  /\ last <= clock
  /\ [at |-> last, ends |-> ends] \in grants

Pending(w) == pc[w] \in {"booting", "refreshing"}

RowInv ==
  LET r == rows[TheWorker] IN
  /\ \A id \in Workers : rows[id].there => id = TheWorker
  /\ Installed => r.there
  /\ r.lic \/ r.valid \/ r.last # Never => r.there
  /\ r.valid => r.lic
  /\ r.last # Never => Granted(r.last, r.ends)

\* What a call still knows of the row it loaded.
CallInv ==
  LET r == rows[TheWorker] IN
  \A w \in Workers : Pending(w) =>
    LET old == call[w].old IN
    /\ requires_validation
    /\ call[w].id = TheWorker
    /\ old.lic => r.lic
    /\ old.valid => old.lic
    /\ old.last # Never => /\ Granted(old.last, old.ends)
                           /\ r.last # Never /\ old.last <= r.last
    /\ r.ends = old.ends \/ r.last = clock

MemInv ==
  \A w \in Workers :
    /\ pc[w] \in {"down", "booting"} => mem[w] = Blank
    /\ mem[w].valid =>
         /\ pc[w] \in {"idle", "refreshing"}
         /\ requires_validation
         /\ rows[TheWorker].lic
         /\ Granted(mem[w].last, mem[w].ends)
         /\ ~mem[w].offline /\ ~blind[w] =>
              /\ clock <= mem[w].last + Grace + 1
              /\ checked[w] => clock <= mem[w].last + Grace

IInv == TypeOK /\ RowInv /\ CallInv /\ MemInv

LEMMA AcceptRow ==
  ASSUME IInv, NEW w \in Workers, Pending(w), NEW offline \in BOOLEAN,
         Accept(w, offline), clock' = clock
  PROVE  /\ RowInv'
         /\ rows'[TheWorker].lic
         /\ rows'[TheWorker].last = clock
         /\ grants \subseteq grants'
         /\ [at |-> clock, ends |-> call[w].ends] \in grants'
<1> DEFINE c == call[w]
           r == rows[TheWorker]
           s == rows'[TheWorker]
<1>1. /\ c.id = TheWorker /\ c.old \in Row /\ c.ends \in Date
      /\ r \in Row /\ TheWorker \in Workers
  BY TheWorkerType DEF IInv, CallInv, TypeOK, Call
<1>2. /\ s = [there |-> TRUE,
              lic   |-> Column(r.lic, c.old.lic, TRUE),
              valid |-> Column(r.valid, c.old.valid, TRUE),
              last  |-> Column(r.last, c.old.last, clock),
              ends  |-> Column(r.ends, c.old.ends, c.ends)]
      /\ \A id \in Workers : id # TheWorker => rows'[id] = rows[id]
  BY <1>1 DEF Accept, Commit, IInv, TypeOK
<1>3. /\ c.old.lic => r.lic
      /\ c.old.last # Never => /\ Granted(c.old.last, c.old.ends)
                               /\ r.last # Never /\ c.old.last <= r.last
      /\ r.ends = c.old.ends \/ r.last = clock
      /\ r.last # Never => Granted(r.last, r.ends)
  BY DEF IInv, CallInv, RowInv
<1>4. clock \in Nat /\ clock # Never
  BY NeverAssumption DEF IInv, TypeOK
<1>5. /\ grants \subseteq grants'
      /\ [at |-> clock, ends |-> c.ends] \in grants'
  BY DEF Accept
<1>6. s.there /\ s.lic
  BY <1>1, <1>2, <1>3 DEF Column, Row
<1>7. s.last = clock
  BY <1>1, <1>2, <1>3, <1>4 DEF Column, Row, Date, Granted
<1>8. [at |-> clock, ends |-> s.ends] \in grants'
  <2>1. CASE c.ends # c.old.ends
    BY <1>2, <1>5, <2>1 DEF Column
  <2>2. CASE c.ends = c.old.ends /\ r.ends = c.old.ends
    BY <1>2, <1>5, <2>2 DEF Column
  <2>3. CASE c.ends = c.old.ends /\ r.last = clock
    BY <1>2, <1>3, <1>4, <1>5, <2>3 DEF Column, Granted
  <2>4. QED
    BY <1>3, <2>1, <2>2, <2>3
<1>9. RowInv'
  <2>1. \A id \in Workers : rows'[id].there => id = TheWorker
    BY <1>2 DEF IInv, RowInv
  <2>2. (r.last # Never => Granted(r.last, r.ends))'
    BY <1>4, <1>7, <1>8 DEF Granted
  <2>3. QED
    BY <1>6, <2>1, <2>2 DEF RowInv
<1>10. QED
  BY <1>5, <1>6, <1>7, <1>9

(***************************************************************************)
(* Invalidating leaves the columns the invariant relies on as they are.    *)
(***************************************************************************)
LEMMA InvalidateRow ==
  ASSUME IInv, NEW w \in Workers, Pending(w), Invalidate(w), clock' = clock
  PROVE  /\ RowInv'
         /\ rows'[TheWorker].lic = rows[TheWorker].lic
         /\ rows'[TheWorker].last = rows[TheWorker].last
         /\ rows'[TheWorker].ends = rows[TheWorker].ends
         /\ grants' = grants
<1> DEFINE c == call[w]
           r == rows[TheWorker]
           s == rows'[TheWorker]
<1>1. /\ c.id = TheWorker /\ c.old \in Row
      /\ r \in Row /\ TheWorker \in Workers
  BY TheWorkerType DEF IInv, CallInv, TypeOK, Call
<1>2. c.old.valid => r.lic
  BY DEF IInv, CallInv
<1>3. /\ s.there
      /\ s.lic = r.lic /\ s.last = r.last /\ s.ends = r.ends
      /\ s.valid => r.valid
      /\ \A id \in Workers : id # TheWorker => rows'[id] = rows[id]
  BY <1>1 DEF Invalidate, Commit, Column, IInv, TypeOK, Row
<1>4. grants' = grants
  BY DEF Invalidate, ForgetValid
<1>5. RowInv'
  BY <1>1, <1>3, <1>4 DEF IInv, RowInv, Granted
<1>6. QED
  BY <1>3, <1>4, <1>5

LEMMA IInvInit == Init => IInv
<1> SUFFICES ASSUME Init PROVE IInv
  OBVIOUS
<1>1. TheWorker \in Workers
  BY TheWorkerType
<1>2. RowInv
  BY <1>1 DEF Init, RowInv, NoRow
<1>3. CallInv
  BY DEF Init, CallInv, Pending
<1>4. MemInv
  BY DEF Init, MemInv, Blank
<1>5. QED
  BY <1>2, <1>3, <1>4, TypeInit DEF IInv

(***************************************************************************)
(* A process that leaves its call behind with an invalid memory disturbs   *)
(* neither the others nor the row.                                         *)
(***************************************************************************)
LEMMA GiveUp ==
  ASSUME IInv, NEW w \in Workers, Pending(w),
         ~Pending(w)', pc'[w] # "down",
         \A v \in Workers \ {w} : pc'[v] = pc[v] /\ call'[v] = call[v]
                                 /\ mem'[v] = mem[v] /\ blind'[v] = blind[v]
                                 /\ checked'[v] = checked[v],
         ~mem'[w].valid,
         rows'[TheWorker].lic = rows[TheWorker].lic,
         rows'[TheWorker].last = rows[TheWorker].last,
         rows'[TheWorker].ends = rows[TheWorker].ends,
         grants' = grants, clock' = clock, setting' = setting
  PROVE  CallInv' /\ MemInv'
<1>1. CallInv'
  BY DEF IInv, CallInv, Pending, Granted, requires_validation
<1>2. MemInv'
  <2>1. ASSUME NEW v \in Workers \ {w}
        PROVE  /\ pc'[v] \in {"down", "booting"} => mem'[v] = Blank
               /\ mem'[v].valid => (/\ pc[v] \in {"idle", "refreshing"}
                                    /\ requires_validation
                                    /\ rows[TheWorker].lic
                                    /\ Granted(mem[v].last, mem[v].ends)
                                    /\ ~mem[v].offline /\ ~blind[v] =>
                                          /\ clock <= mem[v].last + Grace + 1
                                          /\ checked[v] => clock <= mem[v].last + Grace)'
    BY <2>1 DEF IInv, MemInv, Granted, requires_validation
  <2>2. QED
    BY <2>1 DEF MemInv, Pending
<1>3. QED
  BY <1>1, <1>2

LEMMA IInvStep == SingleRow /\ IInv /\ [Next]_vars => IInv'
<1> SUFFICES ASSUME SingleRow, IInv, [Next]_vars PROVE RowInv' /\ CallInv' /\ MemInv'
  BY TypeStep DEF IInv
<1>0. TheWorker \in Workers /\ clock \in Nat /\ clock # Never
  BY TheWorkerType, NeverAssumption DEF IInv, TypeOK
<1>1. ASSUME NEW w \in Workers, BootstrapLoad(w) PROVE RowInv' /\ CallInv' /\ MemInv'
  <2> USE <1>0, <1>1
  <2>1. RowInv'
    BY DEF BootstrapLoad, history, IInv, RowInv, Granted
  <2>2. CASE pc' = [pc EXCEPT ![w] = "idle"] /\ UNCHANGED call
    <3>1. CallInv'
      BY <2>2 DEF BootstrapLoad, history, IInv, TypeOK, CallInv, Pending, Granted, requires_validation
    <3>2. MemInv'
      BY <2>2 DEF BootstrapLoad, history, IInv, TypeOK, MemInv, Granted, requires_validation, Blank
    <3>3. QED
      BY <2>1, <3>1, <3>2
  <2>3. ASSUME NEW id \in Workers, requires_validation,
               Found # {} => id \in Found, Found = {} => id = w,
               Hold(w, id, [rows[id] EXCEPT !.there = TRUE], "booting")
        PROVE  CallInv' /\ MemInv'
    <3>1. id = TheWorker
      BY <2>3 DEF SingleRow, Found, IInv, RowInv
    <3>2. rows[id] \in Row
      BY DEF IInv, TypeOK
    <3>3. /\ call'[w].id = TheWorker
          /\ call'[w].old = [rows[TheWorker] EXCEPT !.there = TRUE]
          /\ \A v \in Workers \ {w} : call'[v] = call[v] /\ pc'[v] = pc[v]
          /\ pc'[w] = "booting" /\ pc[w] = "down"
      BY <2>3, <3>1 DEF Hold, IInv, TypeOK, BootstrapLoad
    <3>4. /\ call'[w].old.lic = rows[TheWorker].lic
          /\ call'[w].old.valid = rows[TheWorker].valid
          /\ call'[w].old.last = rows[TheWorker].last
          /\ call'[w].old.ends = rows[TheWorker].ends
      BY <3>1, <3>2, <3>3 DEF Row
    <3>5. rows[TheWorker].last # Never => rows[TheWorker].last \in Nat
      BY DEF IInv, TypeOK, Row, Date
    <3>6. CallInv'
      <4>1. UNCHANGED <<clock, setting, rows, grants>>
        BY DEF BootstrapLoad, history
      <4>2. \A v \in Workers \ {w} : Pending(v)' <=> Pending(v)
        BY <3>3 DEF Pending
      <4>3. /\ rows[TheWorker].valid => rows[TheWorker].lic
            /\ rows[TheWorker].last # Never =>
                 Granted(rows[TheWorker].last, rows[TheWorker].ends)
        BY DEF IInv, RowInv
      <4>4. \A last, ends : Granted(last, ends)' <=> Granted(last, ends)
        BY <4>1 DEF Granted
      <4>5. requires_validation'
        BY <2>3, <4>1 DEF requires_validation
      <4>6. rows[TheWorker].last # Never => rows[TheWorker].last <= rows[TheWorker].last
        BY <3>5
      <4> DEFINE Knows(v, old, row) ==
                   LET r == rows[TheWorker] IN
                   /\ requires_validation
                   /\ row = TheWorker
                   /\ old.lic => r.lic
                   /\ old.valid => old.lic
                   /\ old.last # Never => /\ Granted(old.last, old.ends)
                                          /\ r.last # Never /\ old.last <= r.last
                   /\ r.ends = old.ends \/ r.last = clock
      <4>7. \A v \in Workers \ {w} : Pending(v)' => Knows(v, call'[v].old, call'[v].id)
        BY <3>3, <4>2 DEF IInv, CallInv
      <4>8. Knows(w, call'[w].old, call'[w].id)
        BY <2>3, <3>3, <3>4, <4>3, <4>6
      <4>9. QED
        BY <4>1, <4>4, <4>5, <4>7, <4>8 DEF CallInv
    <3>7. MemInv'
      BY <2>3, <3>3 DEF BootstrapLoad, history, IInv, TypeOK, MemInv, Granted, requires_validation
    <3>8. QED
      BY <3>6, <3>7
  <2>4. QED
    BY <2>1, <2>2, <2>3 DEF BootstrapLoad, Found
<1>2. ASSUME NEW w \in Workers, Pending(w), NEW offline \in BOOLEAN, Accept(w, offline),
             pc' = [pc EXCEPT ![w] = "idle"], call' = [call EXCEPT ![w] = NoCall(w)],
             checked' = [checked EXCEPT ![w] = TRUE], UNCHANGED <<clock, setting>>
      PROVE  RowInv' /\ CallInv' /\ MemInv'
  <2>1. /\ RowInv'
        /\ rows'[TheWorker].lic
        /\ rows'[TheWorker].last = clock
        /\ grants \subseteq grants'
        /\ [at |-> clock, ends |-> call[w].ends] \in grants'
    BY <1>2, AcceptRow
  <2>2. CallInv'
    BY <1>0, <1>2, <2>1 DEF IInv, TypeOK, CallInv, Pending, Granted, requires_validation
  <2>3. /\ mem'[w].valid /\ mem'[w].last = clock /\ mem'[w].ends = call[w].ends
        /\ pc'[w] = "idle"
        /\ \A v \in Workers \ {w} : /\ mem'[v] = mem[v] /\ pc'[v] = pc[v]
                                   /\ blind'[v] = blind[v] /\ checked'[v] = checked[v]
    BY <1>2 DEF Accept, IInv, TypeOK
  <2>4. requires_validation
    BY <1>2 DEF IInv, CallInv
  <2>5. MemInv'
    BY <1>0, <1>2, <2>1, <2>3, <2>4, GraceAssumption
       DEF IInv, MemInv, Granted, requires_validation
  <2>6. QED
    BY <2>1, <2>2, <2>5
<1>3. ASSUME NEW w \in Workers, Pending(w), Invalidate(w),
             pc' = [pc EXCEPT ![w] = "idle"], call' = [call EXCEPT ![w] = NoCall(w)],
             checked' = [checked EXCEPT ![w] = TRUE], UNCHANGED <<clock, setting>>
      PROVE  RowInv' /\ CallInv' /\ MemInv'
  <2>1. /\ RowInv'
        /\ rows'[TheWorker].lic = rows[TheWorker].lic
        /\ rows'[TheWorker].last = rows[TheWorker].last
        /\ rows'[TheWorker].ends = rows[TheWorker].ends
        /\ grants' = grants
    BY <1>3, InvalidateRow
  <2>2. /\ ~mem'[w].valid /\ pc'[w] = "idle"
        /\ \A v \in Workers \ {w} : /\ mem'[v] = mem[v] /\ pc'[v] = pc[v]
                                   /\ call'[v] = call[v]
                                   /\ blind'[v] = blind[v] /\ checked'[v] = checked[v]
    BY <1>3 DEF Invalidate, ForgetValid, IInv, TypeOK
  <2>3. CallInv' /\ MemInv'
    BY <1>3, <2>1, <2>2, GiveUp DEF Pending
  <2>4. QED
    BY <2>1, <2>3
<1>4. ASSUME NEW w \in Workers, BootstrapFinish(w) PROVE RowInv' /\ CallInv' /\ MemInv'
  <2>1. Pending(w) /\ (setting = "file") \in BOOLEAN
    BY <1>4 DEF BootstrapFinish, Pending
  <2>2. CASE Accept(w, setting = "file")
    BY <1>2, <1>4, <2>1, <2>2 DEF BootstrapFinish
  <2>3. CASE Invalidate(w)
    BY <1>3, <1>4, <2>1, <2>3 DEF BootstrapFinish
  <2>4. CASE ~BootstrapInvalidates(w) /\ call[w].kind = "failed" /\ RestoreFromRow(w)
    <3> DEFINE old == call[w].old
    <3>1. old.last # Never /\ clock <= old.last + Grace
      BY <2>4 DEF BootstrapInvalidates, WithinGrace
    <3>2. /\ Granted(old.last, old.ends) /\ requires_validation
          /\ old.valid => rows[TheWorker].lic
      BY <2>1, <3>1 DEF IInv, CallInv
    <3>3. old \in Row /\ old.last \in Nat
      BY <3>1 DEF IInv, TypeOK, Call, Row, Date
    <3>4. /\ mem'[w].valid = old.valid /\ mem'[w].last = old.last
          /\ mem'[w].ends = old.ends /\ pc'[w] = "idle"
          /\ \A v \in Workers \ {w} : /\ mem'[v] = mem[v] /\ pc'[v] = pc[v]
                                     /\ call'[v] = call[v]
                                     /\ blind'[v] = blind[v] /\ checked'[v] = checked[v]
      BY <1>4, <2>4 DEF BootstrapFinish, RestoreFromRow, IInv, TypeOK
    <3>5. RowInv' /\ CallInv'
      BY <1>4, <2>4, <3>4 DEF BootstrapFinish, RestoreFromRow, IInv, RowInv, CallInv,
                             Pending, Granted, requires_validation
    <3>6. UNCHANGED <<clock, setting, rows, grants>>
      BY <1>4, <2>4 DEF BootstrapFinish, RestoreFromRow
    <3>7. MemInv'
      <4> HIDE DEF old
      <4> QED BY <1>0, <3>1, <3>2, <3>3, <3>4, <3>6, GraceAssumption
            DEF IInv, MemInv, Granted, requires_validation
    <3>8. QED
      BY <3>5, <3>7
  <2>5. QED
    BY <1>4, <2>2, <2>3, <2>4 DEF BootstrapFinish
<1>5. ASSUME NEW w \in Workers, BootstrapRaise(w) PROVE RowInv' /\ CallInv' /\ MemInv'
  <2>1. RowInv'
    BY <1>5 DEF BootstrapRaise, ForgetValid, IInv, RowInv, Granted
  <2>2. /\ ~mem'[w].valid /\ pc'[w] = "noloop" /\ Pending(w) /\ grants' = grants
        /\ \A v \in Workers \ {w} : /\ mem'[v] = mem[v] /\ pc'[v] = pc[v]
                                   /\ call'[v] = call[v]
    BY <1>5 DEF BootstrapRaise, ForgetValid, IInv, TypeOK, MemInv, Blank, Pending
  <2>3. CallInv' /\ MemInv'
    BY <1>5, <2>2, GiveUp DEF BootstrapRaise, Pending
  <2>4. QED
    BY <2>1, <2>3
<1>6. ASSUME NEW w \in Workers, RefreshSkip(w) PROVE RowInv' /\ CallInv' /\ MemInv'
  <2>1. RowInv' /\ CallInv'
    BY <1>6 DEF RefreshSkip, history, IInv, RowInv, CallInv, Pending, Granted, requires_validation
  <2>2. mem[w].valid => mem[w].offline
    BY <1>0, <1>6 DEF RefreshSkip, IInv, RowInv, MemInv, Found
  <2>3. \A v \in Workers \ {w} : checked'[v] = checked[v]
    BY <1>6 DEF RefreshSkip, IInv, TypeOK
  <2>4. MemInv'
    BY <1>6, <2>2, <2>3 DEF RefreshSkip, history, IInv, MemInv, Granted, requires_validation
  <2>5. QED
    BY <2>1, <2>4
<1>7. ASSUME NEW w \in Workers, RefreshLoad(w) PROVE RowInv' /\ CallInv' /\ MemInv'
  <2>1. PICK id \in Found : rows[id].lic /\ Hold(w, id, rows[id], "refreshing")
    BY <1>7 DEF RefreshLoad
  <2>2. id = TheWorker
    BY <2>1 DEF Found, IInv, RowInv
  <2>3. /\ call'[w].id = TheWorker /\ call'[w].old = rows[TheWorker]
        /\ pc'[w] = "refreshing" /\ pc[w] = "idle"
        /\ \A v \in Workers \ {w} : call'[v] = call[v] /\ pc'[v] = pc[v]
    BY <1>7, <2>1, <2>2 DEF RefreshLoad, Hold, IInv, TypeOK
  <2>4. UNCHANGED <<clock, setting, rows, mem, checked, grants, blind>> /\ requires_validation
    BY <1>7 DEF RefreshLoad, history
  <2>5. rows[TheWorker].last # Never => rows[TheWorker].last \in Nat
    BY <1>0 DEF IInv, TypeOK, Row, Date
  <2>6. RowInv' /\ CallInv'
    BY <2>3, <2>4, <2>5 DEF IInv, RowInv, CallInv, Pending, Granted, requires_validation
  <2>7. MemInv'
    BY <2>3, <2>4 DEF IInv, MemInv, Granted, requires_validation
  <2>8. QED
    BY <2>6, <2>7
<1>8. ASSUME NEW w \in Workers, RefreshFinish(w) PROVE RowInv' /\ CallInv' /\ MemInv'
  <2>1. Pending(w)
    BY <1>8 DEF RefreshFinish, Pending
  <2>2. CASE Accept(w, FALSE)
    BY <1>2, <1>8, <2>1, <2>2 DEF RefreshFinish
  <2>3. CASE Invalidate(w)
    BY <1>3, <1>8, <2>1, <2>3 DEF RefreshFinish
  <2>4. CASE /\ call[w].kind = "failed" /\ ~RefreshInvalidates(w)
             /\ blind' = [blind EXCEPT ![w] = FALSE]
             /\ UNCHANGED <<rows, mem, grants, verdict>>
    <3>1. /\ UNCHANGED <<clock, setting, rows, mem, grants>>
          /\ pc'[w] = "idle" /\ pc[w] = "refreshing"
          /\ \A v \in Workers \ {w} : /\ call'[v] = call[v] /\ pc'[v] = pc[v]
                                     /\ blind'[v] = blind[v] /\ checked'[v] = checked[v]
      BY <1>8, <2>4 DEF RefreshFinish, IInv, TypeOK
    <3>2. RowInv' /\ CallInv'
      BY <3>1 DEF IInv, RowInv, CallInv, Pending, Granted, requires_validation
    <3>3. mem[w].valid => clock <= mem[w].last + Grace
      <4>1. SUFFICES ASSUME mem[w].valid PROVE clock <= mem[w].last + Grace
        OBVIOUS
      <4>2. mem[w].last # Never /\ mem[w].last \in Nat
        BY <4>1 DEF IInv, TypeOK, LicenseState, MemInv, Granted, Date
      <4>3. ~(clock > mem[w].last + Grace)
        BY <2>4, <4>2 DEF RefreshInvalidates
      <4>4. QED
        BY <1>0, <4>2, <4>3, GraceAssumption
    <3>4. \A v \in Workers : mem[v].valid => mem[v].last \in Nat
      BY DEF IInv, TypeOK, LicenseState, MemInv, Granted, Date
    <3>5. MemInv'
      BY <1>0, <3>1, <3>3, <3>4, GraceAssumption DEF IInv, MemInv, Granted, requires_validation
    <3>6. QED
      BY <3>2, <3>5
  <2>5. QED
    BY <1>8, <2>2, <2>3, <2>4 DEF RefreshFinish
<1>9. ASSUME NEW w \in Workers, RefreshRaise(w) PROVE RowInv' /\ CallInv' /\ MemInv'
  <2>1. RowInv'
    BY <1>9 DEF RefreshRaise, ForgetValid, IInv, RowInv, Granted
  <2>2. /\ pc'[w] = "idle" /\ pc[w] = "refreshing" /\ grants' = grants
        /\ blind'[w] /\ UNCHANGED <<clock, setting, rows>>
        /\ \A v \in Workers \ {w} : /\ mem'[v] = mem[v] /\ pc'[v] = pc[v]
                                   /\ call'[v] = call[v]
                                   /\ blind'[v] = blind[v] /\ checked'[v] = checked[v]
    BY <1>9 DEF RefreshRaise, ForgetValid, IInv, TypeOK
  <2>3. CallInv'
    BY <2>2 DEF IInv, CallInv, Pending, Granted, requires_validation
  <2>4. mem'[w].valid => mem'[w] = mem[w]
    BY <1>9 DEF RefreshRaise, ForgetValid, IInv, TypeOK
  <2>5. MemInv'
    BY <2>2, <2>4 DEF IInv, MemInv, Granted, requires_validation
  <2>6. QED
    BY <2>1, <2>3, <2>5
<1>10. ASSUME NEW w \in Workers, NEW kind, NEW ends, Reply(w, kind, ends)
       PROVE  RowInv' /\ CallInv' /\ MemInv'
  <2>1. \A v \in Workers : call'[v].id = call[v].id /\ call'[v].old = call[v].old
    BY <1>10 DEF Reply, IInv, TypeOK, Call
  <2>2. UNCHANGED <<clock, setting, rows, pc, mem, checked, grants, blind>>
    BY <1>10 DEF Reply, history
  <2>3. RowInv' /\ MemInv'
    BY <2>2 DEF IInv, RowInv, MemInv, Granted, requires_validation
  <2>4. CallInv'
    BY <2>1, <2>2 DEF IInv, CallInv, Pending, Granted, requires_validation
  <2>5. QED
    BY <2>3, <2>4
<1>11. ASSUME NEW w \in Workers, Crash(w) PROVE RowInv' /\ CallInv' /\ MemInv'
  <2>1. /\ mem'[w] = Blank /\ pc'[w] = "down"
        /\ \A v \in Workers \ {w} : /\ mem'[v] = mem[v] /\ pc'[v] = pc[v]
                                   /\ call'[v] = call[v]
                                   /\ blind'[v] = blind[v] /\ checked'[v] = checked[v]
    BY <1>11 DEF Crash, IInv, TypeOK
  <2>2. RowInv' /\ CallInv'
    BY <1>11, <2>1 DEF Crash, IInv, RowInv, CallInv, Pending, Granted, requires_validation
  <2>3. MemInv'
    <3>1. UNCHANGED <<clock, setting, rows, grants>> /\ ~Blank.valid
      BY <1>11 DEF Crash, Blank
    <3>2. QED
      BY <2>1, <3>1 DEF IInv, MemInv, Granted, requires_validation
  <2>4. QED
    BY <2>2, <2>3
<1>12. CASE VendorChange
  BY <1>12 DEF VendorChange, history, IInv, RowInv, CallInv, MemInv, Pending, Granted,
              requires_validation
<1>13. CASE Redeploy
  BY <1>13 DEF Redeploy, IInv, RowInv, CallInv, MemInv, Pending, Granted, Blank
<1>14. CASE Tick
  <2>1. /\ clock' = clock + 1
        /\ UNCHANGED <<setting, rows, pc, mem, call, grants, blind>>
        /\ \A w \in Workers : ~Pending(w) /\ (mem[w].valid => checked[w]) /\ ~checked'[w]
    BY <1>14 DEF Tick, history, IInv, MemInv, Pending
  <2>2. \A last, ends : Granted(last, ends) => last \in Nat /\ last <= clock
    BY DEF Granted, IInv, TypeOK, Grant
  <2>3. \A last, ends : Granted(last, ends) => Granted(last, ends)'
    BY <1>0, <2>1, <2>2 DEF Granted
  <2>4. RowInv' /\ CallInv'
    BY <2>1, <2>3 DEF IInv, RowInv, CallInv, Pending
  <2>5. MemInv'
    BY <1>0, <2>1, <2>2, <2>3, GraceAssumption DEF IInv, MemInv, requires_validation
  <2>6. QED
    BY <2>4, <2>5
<1>15. CASE UNCHANGED vars
  BY <1>15 DEF vars, IInv, RowInv, CallInv, MemInv, Pending, Granted, requires_validation
<1>16. QED
  BY <1>1, <1>4, <1>5, <1>6, <1>7, <1>8, <1>9, <1>10, <1>11, <1>12, <1>13, <1>14, <1>15
     DEF Next, ServerAnswer, FileAnswer

LEMMA IInvEntitles == IInv => WritesAreEntitled
<1> SUFFICES ASSUME IInv, NEW w \in Workers, requires_validation, usable(w),
                    ~mem[w].offline, ~blind[w]
             PROVE  \E g \in grants : clock <= g.at + Grace + 1 /\ NotEnded(g.ends)
  BY DEF WritesAreEntitled, require_valid_license
<1> DEFINE g == [at |-> mem[w].last, ends |-> mem[w].ends]
<1>1. g \in grants /\ clock <= g.at + Grace + 1 /\ NotEnded(g.ends)
  BY DEF IInv, MemInv, Granted, usable
<1>2. QED
  BY <1>1

(***************************************************************************)
(* For any number of processes, any grace period and any interleaving of   *)
(* their calls, crashes and failed cycles: a write is let through only on  *)
(* a grant at most a grace period and a day old that has not ended, as     *)
(* long as the table holds a single row.                                   *)
(***************************************************************************)
THEOREM EntitledWrites ==
  ASSUME SingleRow
  PROVE  Spec => []WritesAreEntitled
<1>1. Init => IInv
  BY IInvInit
<1>2. IInv /\ [Next]_vars => IInv'
  BY IInvStep
<1>3. IInv => WritesAreEntitled
  BY IInvEntitles
<1>4. QED
  BY <1>1, <1>2, <1>3, PTL DEF Spec

-----------------------------------------------------------------------------
(***************************************************************************)
(* LicenseService implements LicensePromise, where one process runs on the *)
(* table and none of its commits fails: every step of the process, of the  *)
(* operator and of the license server is a grant, a refusal, a lapse, a    *)
(* day, or nothing. With it what the process remembers: that a refusal     *)
(* stays one, that memory mirrors the row, and that reads go on.           *)
(***************************************************************************)

OneProcess == Workers = {TheWorker} /\ MayRaise = FALSE

TheRow == rows[TheWorker]
TheCall == call[TheWorker]
Memory == mem[TheWorker]
Place == pc[TheWorker]

-----------------------------------------------------------------------------
(* The inductive invariant *)

\* A valid row was granted last, and on the day it says.
RowIsGranted ==
  /\ TheRow.valid => TheRow.lic /\ TheRow.last # Never /\ verdict = "granted"
  /\ grants # {} => TheRow.lic

\* A call holds the row as it still is: nobody else writes it.
HoldsRow ==
  Pending(TheWorker) =>
    /\ requires_validation
    /\ TheCall.id = TheWorker
    /\ TheCall.old.lic = TheRow.lic
    /\ TheCall.old.valid = TheRow.valid
    /\ TheCall.old.last = TheRow.last
    /\ TheCall.old.ends = TheRow.ends

\* Memory is blank, or the row.
Mirrors ==
  /\ Place # "noloop"
  /\ Place \in {"down", "booting"} \/ ~requires_validation => Memory = Blank
  /\ Place \in {"idle", "refreshing"} /\ requires_validation =>
       /\ Memory.lic = TheRow.lic
       /\ Memory.valid = TheRow.valid
       /\ Memory.valid => Memory.last = TheRow.last /\ Memory.ends = TheRow.ends

Kept == TypeOK /\ RowIsGranted /\ HoldsRow /\ Mirrors

-----------------------------------------------------------------------------
(* The two writes of the row *)

LEMMA AcceptOne ==
  ASSUME Kept, Pending(TheWorker), NEW offline \in BOOLEAN, Accept(TheWorker, offline)
  PROVE  /\ TheRow'.valid /\ TheRow'.lic
         /\ TheRow'.last = clock /\ TheRow'.ends = TheCall.ends
         /\ Memory' = [valid |-> TRUE, lic |-> TRUE, last |-> clock, ends |-> TheCall.ends, offline |-> offline]
         /\ verdict' = "granted"
<1> DEFINE c == call[TheWorker]
           r == rows[TheWorker]
<1>1. r \in Row /\ c.old \in Row /\ c.id = TheWorker /\ TheWorker \in Workers
  BY TheWorkerType DEF Kept, HoldsRow, TypeOK, Call, TheCall
<1>2. /\ c.old.lic = r.lic /\ c.old.valid = r.valid
      /\ c.old.last = r.last /\ c.old.ends = r.ends
  BY DEF Kept, HoldsRow, TheCall, TheRow
<1>3. rows'[TheWorker] = [there |-> TRUE,
                          lic   |-> Column(r.lic, c.old.lic, TRUE),
                          valid |-> Column(r.valid, c.old.valid, TRUE),
                          last  |-> Column(r.last, c.old.last, clock),
                          ends  |-> Column(r.ends, c.old.ends, c.ends)]
  BY <1>1 DEF Accept, Commit, Kept, TypeOK
<1>4. Memory' = [valid |-> TRUE, lic |-> TRUE, last |-> clock, ends |-> c.ends, offline |-> offline]
  BY <1>1 DEF Accept, Memory, Kept, TypeOK
<1> QED BY <1>1, <1>2, <1>3, <1>4 DEF Accept, Column, TheRow, TheCall

LEMMA InvalidateOne ==
  ASSUME Kept, Pending(TheWorker), Invalidate(TheWorker)
  PROVE  /\ ~TheRow'.valid /\ TheRow'.lic = TheRow.lic
         /\ TheRow'.last = TheRow.last /\ TheRow'.ends = TheRow.ends
         /\ ~Memory'.valid /\ Memory'.lic = TheRow.lic
         /\ verdict' = IF TheCall.kind = "refused" THEN "refused" ELSE verdict
         /\ grants' = grants
<1> DEFINE c == call[TheWorker]
           r == rows[TheWorker]
<1>1. r \in Row /\ c.old \in Row /\ c.id = TheWorker /\ TheWorker \in Workers
  BY TheWorkerType DEF Kept, HoldsRow, TypeOK, Call, TheCall
<1>2. c.old.lic = r.lic /\ c.old.valid = r.valid
  BY DEF Kept, HoldsRow, TheCall, TheRow
<1>3. rows'[TheWorker] = [there |-> TRUE,
                          lic   |-> Column(r.lic, c.old.lic, [c.old EXCEPT !.valid = FALSE].lic),
                          valid |-> Column(r.valid, c.old.valid, [c.old EXCEPT !.valid = FALSE].valid),
                          last  |-> Column(r.last, c.old.last, [c.old EXCEPT !.valid = FALSE].last),
                          ends  |-> Column(r.ends, c.old.ends, [c.old EXCEPT !.valid = FALSE].ends)]
  BY <1>1 DEF Invalidate, Commit, Kept, TypeOK
<1>4. /\ rows'[TheWorker].lic = r.lic /\ ~rows'[TheWorker].valid
      /\ rows'[TheWorker].last = r.last /\ rows'[TheWorker].ends = r.ends
  <2> DEFINE new == [c.old EXCEPT !.valid = FALSE]
  <2>1. new.lic = c.old.lic /\ new.valid = FALSE /\ new.last = c.old.last /\ new.ends = c.old.ends
    BY <1>1 DEF Row
  <2>2. c.old.valid \in BOOLEAN /\ r.valid \in BOOLEAN
    BY <1>1 DEF Row
  <2> HIDE DEF new, c, r
  <2>3. rows'[TheWorker].lic = r.lic /\ rows'[TheWorker].last = r.last /\ rows'[TheWorker].ends = r.ends
    BY <1>3, <2>1 DEF new, Column
  <2>4. ~rows'[TheWorker].valid
    <3>1. rows'[TheWorker].valid = Column(r.valid, c.old.valid, FALSE)
      BY <1>3, <2>1 DEF new
    <3>2. CASE c.old.valid = FALSE
      BY <1>2, <3>1, <3>2 DEF Column
    <3>3. CASE c.old.valid = TRUE
      BY <3>1, <3>3 DEF Column
    <3> QED BY <2>2, <3>2, <3>3
  <2> QED BY <2>3, <2>4
<1>5. Memory' = [valid |-> FALSE, lic |-> c.old.lic, last |-> clock, ends |-> c.old.ends, offline |-> FALSE]
  BY <1>1 DEF Invalidate, ForgetValid, Memory, Kept, TypeOK
<1> QED BY <1>2, <1>4, <1>5 DEF Invalidate, ForgetValid, TheRow, TheCall

-----------------------------------------------------------------------------
(* A step is one of the abstract specification, and keeps the invariant *)

Maps == [Promise!Next]_(Promise!promiseVars)
Good == RowIsGranted' /\ HoldsRow' /\ Mirrors' /\ Maps

\* A step that writes neither the row nor what was heard maps to nothing.
LEMMA Stutters ==
  ASSUME UNCHANGED <<clock, rows, verdict>>
  PROVE  Maps
BY DEF Maps, Promise!promiseVars

LEMMA GrantMaps ==
  ASSUME TheRow'.valid, TheRow'.last = clock, verdict' = "granted", UNCHANGED clock,
         TheRow'.valid \in BOOLEAN
  PROVE  Maps
BY DEF Maps, Promise!Next, Promise!Grant, TheRow

LEMMA InvalidMaps ==
  ASSUME Kept, TheRow' \in Row, ~TheRow'.valid, TheRow'.last = TheRow.last, UNCHANGED clock,
         \/ verdict' = "refused"
         \/ verdict' = verdict /\ (TheRow.valid => clock > TheRow.last + Grace)
  PROVE  Maps
<1>1. TheRow \in Row /\ TheRow.valid \in BOOLEAN /\ TheRow'.valid = FALSE
  BY TheWorkerType DEF Kept, TypeOK, Row, TheRow
<1>2. CASE verdict' = "refused"
  BY <1>1, <1>2 DEF Maps, Promise!Next, Promise!Refuse, TheRow
<1>3. CASE verdict' = verdict /\ verdict' # "refused" /\ TheRow.valid
  BY <1>1, <1>3 DEF Maps, Promise!Next, Promise!Lapse, TheRow
<1>4. CASE verdict' = verdict /\ verdict' # "refused" /\ ~TheRow.valid
  BY <1>1, <1>4 DEF Maps, Promise!promiseVars, TheRow
<1> QED BY <1>2, <1>3, <1>4

\* The row of a step of the types.
LEMMA RowType == ASSUME Kept, [Next]_vars PROVE TypeOK' /\ TheRow' \in Row
BY TypeStep, TheWorkerType DEF Kept, TypeOK, TheRow

LEMMA FinishGood ==
  ASSUME Kept, [Next]_vars, Pending(TheWorker), UNCHANGED <<clock, setting>>,
         pc' = [pc EXCEPT ![TheWorker] = "idle"],
         \/ \E offline \in BOOLEAN : Accept(TheWorker, offline)
         \/ /\ Invalidate(TheWorker)
            /\ TheCall.kind # "refused" => (TheRow.valid => clock > TheRow.last + Grace)
  PROVE  Good
<1>1. requires_validation /\ requires_validation'
  BY DEF Kept, HoldsRow, requires_validation
<1>2. Place' = "idle" /\ ~Pending(TheWorker)'
  BY TheWorkerType DEF Kept, TypeOK, Place, Pending
<1>3. TheRow' \in Row /\ TypeOK'
  BY RowType
<1>4. HoldsRow'
  BY <1>2 DEF HoldsRow
<1>5. ASSUME NEW offline \in BOOLEAN, Accept(TheWorker, offline) PROVE Good
  <2>1. /\ TheRow'.valid /\ TheRow'.lic
        /\ TheRow'.last = clock /\ TheRow'.ends = TheCall.ends
        /\ Memory' = [valid |-> TRUE, lic |-> TRUE, last |-> clock, ends |-> TheCall.ends, offline |-> offline]
        /\ verdict' = "granted"
    BY <1>5, AcceptOne
  <2>2. clock \in Nat /\ clock # Never /\ TheRow'.valid = TRUE /\ TheRow'.lic = TRUE
    BY <1>3, <2>1, NeverAssumption DEF Kept, TypeOK, Row
  <2>3. RowIsGranted'
    BY <2>1, <2>2 DEF RowIsGranted
  <2>4. Mirrors'
    BY <1>1, <1>2, <2>1, <2>2 DEF Mirrors
  <2>5. Maps
    BY <2>1, <2>2, GrantMaps
  <2> QED BY <1>4, <2>3, <2>4, <2>5 DEF Good
<1>6. ASSUME Invalidate(TheWorker),
             TheCall.kind # "refused" => (TheRow.valid => clock > TheRow.last + Grace)
      PROVE  Good
  <2>1. /\ ~TheRow'.valid /\ TheRow'.lic = TheRow.lic
        /\ TheRow'.last = TheRow.last /\ TheRow'.ends = TheRow.ends
        /\ ~Memory'.valid /\ Memory'.lic = TheRow.lic
        /\ verdict' = IF TheCall.kind = "refused" THEN "refused" ELSE verdict
        /\ grants' = grants
    BY <1>6, InvalidateOne
  <2>2. Memory' \in LicenseState
    BY <1>3, TheWorkerType DEF TypeOK, Memory
  <2>3. RowIsGranted'
    BY <2>1 DEF RowIsGranted, Kept
  <2>4. Memory'.valid = FALSE /\ TheRow'.valid = FALSE
    BY <1>3, <2>1, <2>2 DEF Row, LicenseState
  <2>5. Mirrors'
    BY <1>1, <1>2, <2>1, <2>4 DEF Mirrors
  <2>6. Maps
    BY <1>3, <1>6, <2>1, InvalidMaps
  <2> QED BY <1>4, <2>3, <2>5, <2>6 DEF Good
<1> QED BY <1>5, <1>6

LEMMA KeptStep == ASSUME OneProcess PROVE Kept /\ [Next]_vars => Kept' /\ Maps
<1> SUFFICES ASSUME Kept, [Next]_vars PROVE Good
  BY RowType DEF Kept, Good
<1> DEFINE w == TheWorker
<1>0. TypeOK' /\ w \in Workers
  BY RowType, TheWorkerType
<1>t. /\ rows \in [Workers -> Row] /\ pc \in [Workers -> Places] /\ mem \in [Workers -> LicenseState]
      /\ call \in [Workers -> Call] /\ clock \in Nat /\ w \in Workers
      /\ TheCall.old \in Row /\ TheRow \in Row /\ Memory \in LicenseState
  BY <1>0 DEF Kept, TypeOK, Call, TheCall, TheRow, Memory
\* Steps that leave the row, the memory and the call.
<1>u. ASSUME UNCHANGED <<clock, setting, rows, pc, mem, grants, verdict>>,
             TheCall'.id = TheCall.id /\ TheCall'.old = TheCall.old
      PROVE  Good
  <2>1. RowIsGranted' /\ HoldsRow' /\ Mirrors'
    BY <1>u DEF Kept, RowIsGranted, HoldsRow, Mirrors, requires_validation, Pending, TheRow, TheCall, Memory, Place
  <2> QED BY <1>u, <2>1, Stutters DEF Good
\* Steps that load the row.
<1>l. ASSUME NEW old \in Row, old.lic = TheRow.lic, old.valid = TheRow.valid, old.last = TheRow.last,
             old.ends = TheRow.ends, NEW place \in {"booting", "refreshing"}, Hold(w, w, old, place),
             requires_validation, UNCHANGED <<clock, setting, rows, mem, grants, verdict>>,
             place = "booting" => Place = "down", place = "refreshing" => Place = "idle"
      PROVE  Good
  <2>1. TheCall'.id = w /\ TheCall'.old = old /\ Place' = place
    BY <1>l, <1>t DEF Hold, TheCall, Place
  <2>2. RowIsGranted' /\ HoldsRow'
    BY <1>l, <2>1 DEF Kept, RowIsGranted, HoldsRow, requires_validation, Pending, TheRow
  <2>3. Mirrors'
    BY <1>l, <2>1 DEF Kept, Mirrors, requires_validation, TheRow, Memory
  <2> QED BY <1>l, <2>2, <2>3, Stutters DEF Good
<1>1. CASE BootstrapLoad(w)
  <2>1. UNCHANGED <<clock, setting, rows, mem, grants, verdict>> /\ Place = "down"
    BY <1>1 DEF BootstrapLoad, history, Place
  <2>2. CASE /\ pc' = [pc EXCEPT ![w] = "idle"] /\ UNCHANGED call
             /\ ~requires_validation \/ ~TheRow.lic
    <3>1. Place' = "idle" /\ ~Pending(w)'
      BY <2>2, <1>t DEF Place, Pending
    <3>2. Memory = Blank /\ (~TheRow.lic => ~TheRow.valid)
      BY <2>1 DEF Kept, Mirrors, RowIsGranted
    <3>3. RowIsGranted' /\ HoldsRow'
      BY <2>1, <3>1 DEF Kept, RowIsGranted, HoldsRow, TheRow
    <3>4. (~TheRow.lic => TheRow.lic = FALSE /\ TheRow.valid = FALSE) /\ Blank.lic = FALSE /\ Blank.valid = FALSE
      BY <1>t, <3>2 DEF Row, Blank
    <3>5. Mirrors'
      BY <2>1, <2>2, <3>1, <3>2, <3>4 DEF Mirrors, requires_validation, TheRow, Memory
    <3> QED BY <2>1, <3>3, <3>5, Stutters DEF Good
  <2>3. CASE requires_validation /\ Hold(w, w, [rows[w] EXCEPT !.there = TRUE], "booting")
    <3>1. [rows[w] EXCEPT !.there = TRUE] \in Row
      BY <1>t DEF Row
    <3> DEFINE old == [rows[w] EXCEPT !.there = TRUE]
    <3>2. old.lic = TheRow.lic /\ old.valid = TheRow.valid /\ old.last = TheRow.last /\ old.ends = TheRow.ends
      BY <1>t DEF Row, TheRow
    <3> HIDE DEF old
    <3> QED BY <1>l, <2>1, <2>3, <3>1, <3>2 DEF old
  <2>4. \/ ~requires_validation /\ pc' = [pc EXCEPT ![w] = "idle"] /\ UNCHANGED call
        \/ /\ requires_validation
           /\ \/ ~TheRow.lic /\ pc' = [pc EXCEPT ![w] = "idle"] /\ UNCHANGED call
              \/ Hold(w, w, [rows[w] EXCEPT !.there = TRUE], "booting")
    <3>1. \A id \in (IF Found = {} THEN {w} ELSE Found) : id = w
      BY DEF OneProcess, Found
    <3>2. [rows[w] EXCEPT !.there = TRUE].lic = TheRow.lic
      BY <1>t DEF Row, TheRow
    <3> QED BY <1>1, <3>1, <3>2 DEF BootstrapLoad
  <2> QED BY <2>2, <2>3, <2>4
<1>2. CASE BootstrapFinish(w)
  <2>1. /\ Pending(w) /\ UNCHANGED <<clock, setting>> /\ pc' = [pc EXCEPT ![w] = "idle"]
        /\ (setting = "file") \in BOOLEAN
    BY <1>2 DEF BootstrapFinish, Pending
  <2>2. CASE Accept(w, setting = "file")
    BY <2>1, <2>2, FinishGood
  <2>3. CASE BootstrapInvalidates(w) /\ Invalidate(w)
    <3>1. TheCall.kind # "refused" => (TheRow.valid => clock > TheRow.last + Grace)
      <4> SUFFICES ASSUME TheCall.kind # "refused", TheRow.valid PROVE clock > TheRow.last + Grace
        OBVIOUS
      <4>1. ~WithinGrace(TheRow.last) /\ TheRow.last # Never
        BY <2>1, <2>3 DEF BootstrapInvalidates, Kept, HoldsRow, RowIsGranted, TheCall
      <4>2. TheRow.last \in Nat
        BY <1>t, <4>1 DEF Row, Date
      <4> QED BY <1>t, <4>1, <4>2, GraceAssumption DEF WithinGrace
    <3> QED BY <2>1, <2>3, <3>1, FinishGood
  <2>4. CASE RestoreFromRow(w)
    <3>1. /\ Memory' = [valid |-> TheCall.old.valid, lic |-> TheCall.old.lic, last |-> TheCall.old.last,
                        ends |-> TheCall.old.ends, offline |-> Memory.offline]
          /\ UNCHANGED <<clock, setting, rows, grants, verdict>>
          /\ Place' = "idle" /\ ~Pending(w)'
      BY <1>2, <2>1, <2>4, <1>t DEF RestoreFromRow, Memory, TheCall, Place, Pending
    <3>2. RowIsGranted' /\ HoldsRow'
      BY <3>1 DEF Kept, RowIsGranted, HoldsRow, TheRow
    <3>3. requires_validation' /\ TheRow' = TheRow
          /\ TheCall.old.lic = TheRow.lic /\ TheCall.old.valid = TheRow.valid
          /\ TheCall.old.last = TheRow.last /\ TheCall.old.ends = TheRow.ends
      BY <2>1, <3>1 DEF Kept, HoldsRow, requires_validation, TheRow
    <3>4. Mirrors'
      BY <3>1, <3>3 DEF Mirrors
    <3> QED BY <3>1, <3>2, <3>4, Stutters DEF Good
  <2> QED BY <1>2, <2>2, <2>3, <2>4 DEF BootstrapFinish
<1>3. CASE RefreshSkip(w)
  BY <1>3, <1>u DEF RefreshSkip, history, TheCall
<1>4. CASE RefreshLoad(w)
  <2>1. Hold(w, w, rows[w], "refreshing") /\ requires_validation /\ Place = "idle"
        /\ UNCHANGED <<clock, setting, rows, mem, grants, verdict>>
    BY <1>4 DEF RefreshLoad, history, Place, OneProcess, Found
  <2> QED BY <1>l, <1>t, <2>1 DEF TheRow
<1>5. CASE RefreshFinish(w)
  <2>1. Pending(w) /\ UNCHANGED <<clock, setting>> /\ pc' = [pc EXCEPT ![w] = "idle"] /\ Place = "refreshing"
    BY <1>5 DEF RefreshFinish, Pending, Place
  <2>2. CASE Accept(w, FALSE)
    BY <2>1, <2>2, FinishGood
  <2>3. CASE RefreshInvalidates(w) /\ Invalidate(w)
    <3>1. requires_validation
      BY <2>1 DEF Kept, HoldsRow
    <3>2. TheCall.kind # "refused" => (TheRow.valid => clock > TheRow.last + Grace)
      BY <2>1, <2>3, <3>1 DEF RefreshInvalidates, Kept, Mirrors, TheCall, Memory
    <3> QED BY <2>1, <2>3, <3>2, FinishGood
  <2>4. CASE UNCHANGED <<rows, mem, grants, verdict>>
    <3>1. Place' = "idle" /\ ~Pending(w)'
      BY <2>1, <1>t DEF Place, Pending
    <3>2. RowIsGranted' /\ HoldsRow'
      BY <2>4, <3>1 DEF Kept, RowIsGranted, HoldsRow, TheRow
    <3>3. Mirrors'
      BY <2>1, <2>4, <3>1 DEF Kept, Mirrors, requires_validation, TheRow, Memory
    <3> QED BY <2>1, <2>4, <3>2, <3>3, Stutters DEF Good
  <2> QED BY <1>5, <2>2, <2>3, <2>4 DEF RefreshFinish
<1>6. ASSUME NEW kind, NEW ends, Reply(w, kind, ends) PROVE Good
  <2>1. TheCall'.id = TheCall.id /\ TheCall'.old = TheCall.old
    BY <1>6, <1>t DEF Reply, TheCall, Call
  <2> QED BY <1>6, <2>1, <1>u DEF Reply, history
\* Steps after which nothing is remembered.
<1>7. CASE Crash(w) \/ Redeploy
  <2>1. /\ UNCHANGED <<clock, rows, grants, verdict>>
        /\ Place' = "down" /\ Memory' = Blank /\ ~Pending(w)'
    BY <1>7, <1>t DEF Crash, Redeploy, Place, Memory, Pending
  <2>2. RowIsGranted' /\ HoldsRow' /\ Mirrors'
    BY <2>1 DEF Kept, RowIsGranted, HoldsRow, Mirrors, TheRow
  <2> QED BY <2>1, <2>2, Stutters DEF Good
<1>8. CASE VendorChange \/ UNCHANGED vars
  BY <1>8, <1>u DEF VendorChange, vars, history, TheCall
<1>9. CASE Tick
  <2>1. clock' = clock + 1 /\ UNCHANGED <<setting, rows, pc, mem, call, grants, verdict>>
    BY <1>9 DEF Tick, history
  <2>2. RowIsGranted' /\ HoldsRow' /\ Mirrors'
    BY <2>1 DEF Kept, RowIsGranted, HoldsRow, Mirrors, requires_validation, Pending, TheRow, TheCall, Memory, Place
  <2>3. Maps
    BY <2>1 DEF Maps, Promise!Next, Promise!Tick
  <2> QED BY <2>2, <2>3 DEF Good
<1>10. ~BootstrapRaise(w) /\ ~RefreshRaise(w)
  BY DEF OneProcess, BootstrapRaise, RefreshRaise
<1>11. ServerAnswer(w) \/ FileAnswer(w) => Good
  BY <1>6 DEF ServerAnswer, FileAnswer
<1>12. (\E v \in Workers :
         \/ BootstrapLoad(v) \/ BootstrapFinish(v) \/ BootstrapRaise(v)
         \/ RefreshSkip(v) \/ RefreshLoad(v) \/ RefreshFinish(v) \/ RefreshRaise(v)
         \/ ServerAnswer(v) \/ FileAnswer(v) \/ Crash(v))
       => Good
  BY <1>1, <1>2, <1>3, <1>4, <1>5, <1>7, <1>10, <1>11 DEF OneProcess
<1> QED BY <1>0, <1>7, <1>8, <1>9, <1>12 DEF Next

LEMMA KeptInit == Init => Kept /\ Promise!Init
<1> SUFFICES ASSUME Init PROVE Kept /\ Promise!Init
  OBVIOUS
<1>1. /\ TheWorker \in Workers /\ TypeOK
      /\ TheRow = [NoRow EXCEPT !.there = Installed /\ TheWorker = TheWorker]
      /\ Memory = Blank /\ Place = "down"
  BY TheWorkerType, TypeInit DEF Init, TheRow, Memory, Place
<1>2. ~TheRow.valid /\ TheRow.valid = FALSE /\ TheRow.last = Never
  BY <1>1 DEF NoRow
<1>3. Kept
  BY <1>1, <1>2 DEF Init, Kept, RowIsGranted, HoldsRow, Mirrors, Pending, Place
<1>4. Promise!Init
  BY <1>2 DEF Init, Promise!Init, TheRow
<1> QED BY <1>3, <1>4

-----------------------------------------------------------------------------
(* The theorems *)

\* The row of a one-process instance becomes valid only by a grant, and stops being valid only by a
\* refusal or when the grace since the last grant has run out, whatever restarts, redeployments,
\* outages and changes of the license come in between.
THEOREM Promised == ASSUME OneProcess PROVE Spec => ImplementsPromise
<1>1. Init => Kept /\ Promise!Init
  BY KeptInit
<1>2. Kept /\ [Next]_vars => Kept' /\ [Promise!Next]_(Promise!promiseVars)
  BY KeptStep DEF Maps
<1> QED BY <1>1, <1>2, PTL DEF Spec, ImplementsPromise, Promise!Spec

LEMMA AlwaysKept == ASSUME OneProcess PROVE Spec => []Kept
<1>1. Init => Kept
  BY KeptInit
<1>2. Kept /\ [Next]_vars => Kept'
  BY KeptStep
<1> QED BY <1>1, <1>2, PTL DEF Spec

\* After a refusal neither memory nor the row of a one-process instance is valid until somebody grants.
THEOREM Refused == ASSUME OneProcess PROVE Spec => []RefusalSticks
<1>1. Kept => RefusalSticks
  BY DEF OneProcess, Kept, RowIsGranted, Mirrors, RefusalSticks, TypeOK, Places, Blank, TheRow, Memory, Place
<1> QED BY <1>1, AlwaysKept, PTL

\* Between two cycles the memory of a one-process instance is the row: a restart neither gains nor loses.
THEOREM Mirrored == ASSUME OneProcess PROVE Spec => []MemoryMirrorsRow
<1>1. Kept => MemoryMirrorsRow
  BY DEF OneProcess, Kept, Mirrors, MemoryMirrorsRow, TheRow, Memory, Place
<1> QED BY <1>1, AlwaysKept, PTL

\* Once a grant was applied, a one-process instance that came up serves reads for ever.
THEOREM Readable == ASSUME OneProcess PROVE Spec => []StaysReadable
<1>1. Kept => StaysReadable
  BY DEF OneProcess, Kept, RowIsGranted, Mirrors, StaysReadable, require_valid_license, TheRow, Memory, Place
<1> QED BY <1>1, AlwaysKept, PTL
=============================================================================
