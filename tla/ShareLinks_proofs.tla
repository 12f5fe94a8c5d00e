--------------------------- MODULE ShareLinks_proofs ---------------------------
(***************************************************************************)
(* Theorems of ShareLinks: its types, and that somebody may decide about a   *)
(* waiting link, however requests overlap; and, if they do not, that nothing *)
(* but an Undo gets past the rules, what is off stays off, and an Undo is    *)
(* exact.                                                                    *)
(***************************************************************************)
EXTENDS ShareLinks, TLAPS

Columns == {"by", "access", "title", "status"}
LinkOps == {"save", "off", "on", "approve", "decline"}
RuleOps == {"take_down", "undo", "policy"}

Tables ==
  /\ DOMAIN links = Items /\ DOMAIN cleared = Items /\ DOMAIN req = Users
  /\ \A i \in Items : links[i] = NoLink \/
       (DOMAIN links[i] = Columns /\ links[i].status # "none" /\ links[i].access \in {"organization", "public"})
  /\ DOMAIN rules = {"public", "second", "last"}
  /\ \A i \in rules.last.ids \cap Items : links[i] # NoLink

\* A request and what it loaded, which nobody has changed since.
Holds(r) ==
  /\ r.op \in LinkOps \cup RuleOps
  /\ r.op \in LinkOps => r.item \in Items /\ r.row = links[r.item]
  /\ r.op \in LinkOps \ {"save"} => r.row # NoLink
  /\ r.op = "save" => r.access \in {"organization", "public"}
  /\ r.op \in {"approve", "decline"} => r.row.status = "pending"
  /\ r.op = "take_down" => \A i \in r.ids \cap Items : links[i] # NoLink
  /\ r.op \in RuleOps => DOMAIN r.rules = {"public", "second", "last"} /\ r.rules.last = rules.last

OneRequest ==
  /\ \A u, v \in Users : req[u] # Idle /\ req[v] # Idle => u = v
  /\ \A u \in Users : req[u] # Idle => Holds(req[u])

\* The rules carry the last take-down.
TakenIsLast == rules.last = taken

IInv == Tables /\ OneRequest /\ TakenIsLast

-----------------------------------------------------------------------------
(* What requests write *)

\* A row that nobody changed since is written as the request wants it.
LEMMA WrittenIs ==
  ASSUME NEW i, NEW row, row = links[i], NEW new, DOMAIN new = Columns
  PROVE  /\ DOMAIN Written(row, new, i) = Columns
         /\ \A c \in Columns : Written(row, new, i)[c] = new[c]
BY DEF Written

LEMMA StateIs ==
  ASSUME NEW u, NEW access \in {"organization", "public"}, NEW title
  PROVE  /\ State(u, access, title) \in {"active", "pending", "refused"}
         /\ State(u, access, title) = "active" /\ access = "public" => public_decision(u, title) = "approved"
BY DEF State

\* One link is written; the others, and the rules, stay as they are.
Writes(i, link) == /\ links' = [links EXCEPT ![i] = link]
                   /\ DOMAIN link = Columns /\ link.status # "none"
                   /\ link.access \in {"organization", "public"}
                   /\ UNCHANGED <<rules, taken>>

\* What was cleared stays cleared.
Grows == DOMAIN cleared' = Items /\ \A j \in Items : cleared[j] \subseteq cleared'[j]

\* A request writes one link: what it lets out is cleared, and off is off.
WritesOne(u, state) ==
  \E link :
    /\ Writes(req[u].item, link) /\ link.status \in state /\ Grows
    /\ link.status = "active" /\ link.access = "public" => link.title \in cleared'[req[u].item]

\* Nothing happens to the links.
Nothing == UNCHANGED <<links, rules, cleared, taken>>

LEMMA SetStatusWrites ==
  ASSUME Tables, NEW u \in Users, Holds(req[u]), req[u].op \in LinkOps \ {"save"},
         NEW state, state # "none", SetStatus(u, state), UNCHANGED <<rules, taken>>
  PROVE  \E link : /\ Writes(req[u].item, link) /\ link.status = state
                   /\ link.access = req[u].row.access /\ link.title = req[u].row.title
<1> DEFINE row == req[u].row
           i == req[u].item
           new == [row EXCEPT !.status = state]
           link == Written(row, new, i)
<1>1. i \in Items /\ row = links[i] /\ row # NoLink  BY DEF Holds, LinkOps, RuleOps
<1>2. DOMAIN new = Columns /\ new.status = state /\ new.access = row.access /\ new.title = row.title
  BY <1>1 DEF Tables, Columns
<1> HIDE DEF new
<1>3. DOMAIN link = Columns /\ \A c \in Columns : link[c] = new[c]
  BY <1>1, <1>2, WrittenIs
<1>4. links' = [links EXCEPT ![i] = link]  BY DEF SetStatus, Write, new
<1>5. link.status = state /\ link.access = row.access /\ link.title = row.title
  BY <1>2, <1>3 DEF Columns
<1>6. row.access \in {"organization", "public"}  BY <1>1 DEF Tables
<1> QED BY <1>3, <1>4, <1>5, <1>6 DEF Writes

\* A save writes what the rules made of it, and an approved title is cleared.
LEMMA SaveWrites ==
  ASSUME Tables, NEW u \in Users, Holds(req[u]), Save(u)
  PROVE  Nothing \/ WritesOne(u, {"active", "pending"})
<1> DEFINE r == req[u]
           state == State(u, r.access, r.title)
           first == r.row = NoLink
           new == [by |-> IF first THEN u ELSE r.row.by, access |-> r.access, title |-> r.title, status |-> state]
           link == IF first THEN new ELSE Written(r.row, new, r.item)
<1>1. r.op = "save" /\ UNCHANGED <<rules, taken>> /\ SaveAs(u, state)  BY DEF Save, Ends
<1>2. r.row = links[r.item] /\ r.access \in {"organization", "public"}
  BY <1>1 DEF Holds, LinkOps, RuleOps
<1>3. DOMAIN new = Columns  BY DEF Columns
<1> HIDE DEF new
<1>4. DOMAIN link = Columns /\ \A c \in Columns : link[c] = new[c]
  BY <1>2, <1>3, WrittenIs
<1>5. link.status = state /\ link.access = r.access /\ link.title = r.title
  BY <1>4 DEF Columns, new
<1>6. CASE UNCHANGED <<links, cleared>>
  BY <1>1, <1>6 DEF Nothing
<1>7. CASE /\ state # "refused" /\ Write(r.item, link) /\ ClearByRules(u, r.item, r.access, r.title)
  <2>2. link.status \in {"active", "pending"}  BY <1>2, <1>5, <1>7, StateIs
  <2>1. Writes(r.item, link)  BY <1>1, <1>2, <1>4, <1>5, <1>7, <2>2 DEF Writes, Write
  <2>3. Grows  BY <1>7 DEF ClearByRules, Clear, Grows, Tables
  <2>4. link.status = "active" /\ link.access = "public" => link.title \in cleared'[r.item]
    BY <1>1, <1>2, <1>5, <1>7, StateIs DEF ClearByRules, Clear, Tables, Holds, LinkOps, RuleOps
  <2> QED BY <2>1, <2>2, <2>3, <2>4 DEF WritesOne
<1> QED BY <1>1, <1>6, <1>7 DEF SaveAs, new

\* Turning on goes through the rules again.
LEMMA TurnOnWrites ==
  ASSUME Tables, NEW u \in Users, Holds(req[u]), TurnOn(u)
  PROVE  Nothing \/ WritesOne(u, {"active", "pending"})
<1> DEFINE row == req[u].row
           state == State(u, row.access, row.title)
<1>1. req[u].op = "on" /\ UNCHANGED <<rules, taken>>  BY DEF TurnOn, Ends
<1>2. row.access \in {"organization", "public"}  BY <1>1 DEF Tables, Holds, LinkOps, RuleOps
<1>3. CASE UNCHANGED <<links, cleared>>
  BY <1>1, <1>3 DEF Nothing
<1>4. CASE state # "refused" /\ SetStatus(u, state) /\ ClearByRules(u, req[u].item, row.access, row.title)
  <2>0. state # "none"  BY <1>2, StateIs
  <2>1. PICK link : /\ Writes(req[u].item, link) /\ link.status = state
                    /\ link.access = row.access /\ link.title = row.title
    BY <1>1, <1>4, <2>0, SetStatusWrites DEF LinkOps
  <2>2. link.status \in {"active", "pending"}  BY <1>2, <1>4, <2>1, StateIs
  <2>3. Grows  BY <1>4 DEF ClearByRules, Clear, Grows, Tables
  <2>4. ASSUME link.status = "active", link.access = "public" PROVE link.title \in cleared'[req[u].item]
    <3>1. public_decision(u, row.title) = "approved" /\ row.access = "public"  BY <1>2, <2>1, <2>4, StateIs
    <3>2. Clear(req[u].item, row.title)  BY <1>4, <3>1 DEF ClearByRules
    <3>3. req[u].item \in DOMAIN cleared  BY <1>1 DEF Tables, Holds, LinkOps, RuleOps
    <3> QED BY <2>1, <3>2, <3>3 DEF Clear
  <2> QED BY <2>1, <2>2, <2>3, <2>4 DEF WritesOne
<1> QED BY <1>3, <1>4 DEF TurnOn

\* An approval clears what it lets out.
LEMMA ApproveWrites ==
  ASSUME Tables, NEW u \in Users, Holds(req[u]), Approve(u)
  PROVE  Nothing \/ WritesOne(u, {"active"})
<1>1. req[u].op = "approve" /\ UNCHANGED <<rules, taken>>  BY DEF Approve, Ends
<1>2. CASE UNCHANGED <<links, cleared>>
  BY <1>1, <1>2 DEF Nothing
<1>3. CASE SetStatus(u, "active") /\ Clear(req[u].item, req[u].row.title)
  <2>1. PICK link : /\ Writes(req[u].item, link) /\ link.status = "active"
                    /\ link.title = req[u].row.title
    BY <1>1, <1>3, SetStatusWrites DEF LinkOps
  <2>2. Grows  BY <1>3 DEF Clear, Grows, Tables
  <2>3. link.title \in cleared'[req[u].item]
    BY <1>1, <1>3, <2>1 DEF Clear, Tables, Holds, LinkOps, RuleOps
  <2> QED BY <2>1, <2>2, <2>3 DEF WritesOne
<1> QED BY <1>2, <1>3 DEF Approve

\* A decline and a switch-off.
LEMMA OffWrites ==
  ASSUME Tables, NEW u \in Users, Holds(req[u]), TurnOff(u) \/ Decline(u)
  PROVE  WritesOne(u, {"off"})
<1>1. req[u].op \in {"off", "decline"} /\ UNCHANGED <<rules, taken, cleared>> /\ SetStatus(u, "off")
  BY DEF TurnOff, Decline, Ends
<1>2. PICK link : Writes(req[u].item, link) /\ link.status = "off"
  BY <1>1, SetStatusWrites DEF LinkOps
<1>3. Grows  BY <1>1 DEF Grows, Tables
<1> QED BY <1>2, <1>3 DEF WritesOne

LinkCommit(u) == Save(u) \/ TurnOn(u) \/ Approve(u) \/ TurnOff(u) \/ Decline(u)
Results == {"active", "pending", "off"}

\* The commits of links, taken together.
LEMMA LinkCommits ==
  ASSUME Tables, NEW u \in Users, Holds(req[u]), LinkCommit(u)
  PROVE  /\ Nothing \/ WritesOne(u, Results)
         /\ req' = [req EXCEPT ![u] = Idle] /\ req[u].item \in Items /\ req[u].op \in LinkOps
<1>1. req' = [req EXCEPT ![u] = Idle] /\ req[u].op \in LinkOps
  BY DEF LinkCommit, Save, TurnOn, Approve, TurnOff, Decline, Ends, LinkOps
<1>2. req[u].item \in Items  BY <1>1 DEF Holds
<1>3. ASSUME NEW some \in SUBSET Results, WritesOne(u, some) PROVE WritesOne(u, Results)
  BY <1>3 DEF WritesOne
<1>4. {"active", "pending"} \subseteq Results /\ {"active"} \subseteq Results /\ {"off"} \subseteq Results
  BY DEF Results
<1> QED BY <1>1, <1>2, <1>3, <1>4, SaveWrites, TurnOnWrites, ApproveWrites, OffWrites DEF LinkCommit

-----------------------------------------------------------------------------
(* The invariant *)

LEMMA WritesOneTables ==
  ASSUME IInv, NEW u \in Users, LinkCommit(u), Holds(req[u]), ~Nothing PROVE Tables' /\ TakenIsLast'
<1>1. PICK link : Writes(req[u].item, link) /\ Grows
  BY LinkCommits DEF WritesOne, IInv
<1>2. req[u].item \in Items /\ req' = [req EXCEPT ![u] = Idle]  BY LinkCommits DEF IInv
<1> DEFINE i == req[u].item
<1>3. DOMAIN links' = Items /\ links'[i] = link /\ \A j \in Items \ {i} : links'[j] = links[j]
  BY <1>1, <1>2 DEF Writes, IInv, Tables
<1>4. link # NoLink  BY <1>1 DEF Writes, NoLink
<1>5. rules' = rules /\ taken' = taken  BY <1>1 DEF Writes
<1> QED BY <1>1, <1>2, <1>3, <1>4, <1>5 DEF Writes, Grows, IInv, Tables, TakenIsLast

\* A link after a step that turns those in ids to one status.
TurnedOne(i, ids, state) ==
  /\ links'[i] = NoLink \/
       (DOMAIN links'[i] = Columns /\ links'[i].status # "none" /\ links'[i].access \in {"organization", "public"})
  /\ (links[i] # NoLink) => (links'[i] # NoLink)
  /\ IF i \in ids THEN links'[i].status = state ELSE links'[i] = links[i]

\* Turning a set of links that exist to one status.
LEMMA TurnedTables ==
  ASSUME Tables, NEW ids, \A i \in ids \cap Items : links[i] # NoLink,
         NEW state \in {"active", "off"}, Turned(ids, state)
  PROVE  /\ DOMAIN links' = Items
         /\ \A i \in Items : TurnedOne(i, ids, state)
<1>1. DOMAIN links' = Items  BY DEF Turned
<1>2. ASSUME NEW i \in Items PROVE TurnedOne(i, ids, state)
  <2>1. CASE i \in ids
    <3> DEFINE new == [links[i] EXCEPT !.status = state]
    <3>1. links'[i] = new  BY <2>1 DEF Turned
    <3>2. DOMAIN links[i] = Columns /\ links[i].access \in {"organization", "public"}  BY <2>1 DEF Tables
    <3>3. DOMAIN new = Columns /\ new.status = state /\ new.access = links[i].access  BY <3>2 DEF Columns
    <3>4. new # NoLink  BY <3>3 DEF NoLink
    <3> QED BY <2>1, <3>1, <3>2, <3>3, <3>4 DEF TurnedOne
  <2>2. CASE i \notin ids
    <3>1. links'[i] = links[i]  BY <2>2 DEF Turned
    <3> QED BY <2>2, <3>1 DEF Tables, TurnedOne
  <2> QED BY <2>1, <2>2
<1> QED BY <1>1, <1>2

RulesCommit(u) == TakeDownPublic(u) \/ RestorePublic(u) \/ PutPolicy(u)

LEMMA RulesCommitTables ==
  ASSUME IInv, NEW u \in Users, RulesCommit(u), Holds(req[u]) PROVE Tables' /\ TakenIsLast'
<1> USE DEF IInv
<1>1. /\ req[u].op \in RuleOps /\ req' = [req EXCEPT ![u] = Idle] /\ cleared' = cleared
      /\ DOMAIN req[u].rules = {"public", "second", "last"} /\ req[u].rules.last = rules.last
  BY DEF RulesCommit, TakeDownPublic, RestorePublic, PutPolicy, Ends, RuleOps, Holds
<1>2. DOMAIN req' = Users  BY <1>1 DEF Tables
<1>3. CASE TakeDownPublic(u)
  <2>1. /\ Turned(req[u].ids, "off") /\ taken' = [ids |-> req[u].ids, at |-> clock]
        /\ rules' = [req[u].rules EXCEPT !.last = taken'] /\ req[u].op = "take_down"
    BY <1>3 DEF TakeDownPublic, Ends
  <2>2. \A i \in req[u].ids \cap Items : links[i] # NoLink  BY <2>1 DEF Holds
  <2>3. DOMAIN rules' = {"public", "second", "last"} /\ rules'.last = taken'  BY <1>1, <2>1
  <2> DEFINE ids == req[u].ids
  <2>4. Turned(ids, "off")  BY <2>1
  <2> HIDE DEF ids
  <2>5. DOMAIN links' = Items /\ \A i \in Items : TurnedOne(i, ids, "off")
    BY <2>2, <2>4, TurnedTables DEF ids
  <2>6. \A i \in rules'.last.ids \cap Items : links'[i] # NoLink
    BY <2>1, <2>2, <2>3, <2>5 DEF TurnedOne, ids
  <2> QED BY <1>1, <1>2, <2>3, <2>5, <2>6 DEF Tables, TakenIsLast, TurnedOne
<1>4. CASE RestorePublic(u)
  <2>1. /\ Turned(rules.last.ids, "active") /\ taken' = NoTakeDown
        /\ rules' = [req[u].rules EXCEPT !.last = NoTakeDown]
    BY <1>1, <1>4 DEF RestorePublic
  <2>2. \A i \in rules.last.ids \cap Items : links[i] # NoLink  BY DEF Tables
  <2>3. DOMAIN rules' = {"public", "second", "last"} /\ rules'.last = taken' /\ taken'.ids = {}
    BY <1>1, <2>1 DEF NoTakeDown
  <2>4. DOMAIN links' = Items /\ \A i \in Items : TurnedOne(i, rules.last.ids, "active")
    BY <2>1, <2>2, TurnedTables
  <2> QED BY <1>1, <1>2, <2>3, <2>4 DEF Tables, TakenIsLast, TurnedOne
<1>5. CASE PutPolicy(u)
  <2>1. rules' = req[u].rules /\ links' = links /\ taken' = taken  BY <1>5 DEF PutPolicy
  <2> QED BY <1>1, <1>2, <2>1 DEF Tables, TakenIsLast
<1> QED BY <1>3, <1>4, <1>5 DEF RulesCommit

\* A request that begins holds what it loaded.
LEMMA BeginHolds ==
  ASSUME IInv, NEW u \in Users, Begin(u)
  PROVE  \E r : Begins(u, r) /\ Holds(r)
<1> USE DEF IInv, LinkOps, RuleOps
<1>1. ASSUME NEW i \in Items, NEW access \in {"organization", "public"}, NEW title, BeginSave(u, i, access, title)
      PROVE  \E r : Begins(u, r) /\ Holds(r)
  <2> DEFINE r == [op |-> "save", item |-> i, row |-> links[i], access |-> access, title |-> title]
  <2>1. Holds(r)  BY DEF Holds
  <2> QED BY <1>1, <2>1 DEF BeginSave
<1>2. ASSUME NEW i \in Items, NEW op \in {"off", "on"}, BeginTurn(u, i, op)
      PROVE  \E r : Begins(u, r) /\ Holds(r)
  <2>1. Holds(OnLink(op, i))  BY <1>2 DEF Holds, OnLink, BeginTurn
  <2> QED BY <1>2, <2>1 DEF BeginTurn
<1>3. ASSUME NEW i \in Items, NEW op \in {"approve", "decline"}, BeginDecide(u, i, op)
      PROVE  \E r : Begins(u, r) /\ Holds(r)
  <2>1. links[i] # NoLink  BY <1>3 DEF BeginDecide, NoLink
  <2>2. Holds(OnLink(op, i))  BY <1>3, <2>1 DEF Holds, OnLink, BeginDecide
  <2> QED BY <1>3, <2>2 DEF BeginDecide
<1>4. CASE BeginTakeDown(u)
  <2> DEFINE r == [op |-> "take_down", rules |-> rules, ids |-> ActivePublic]
  <2>1. \A i \in ActivePublic : links[i] # NoLink  BY DEF ActivePublic, NoLink
  <2>2. Holds(r)  BY <2>1 DEF Holds, Tables
  <2> QED BY <1>4, <2>2 DEF BeginTakeDown
<1>5. CASE BeginUndo(u)
  <2>1. Holds([op |-> "undo", rules |-> rules])  BY DEF Holds, Tables
  <2> QED BY <1>5, <2>1 DEF BeginUndo
<1>6. ASSUME NEW public, NEW second, BeginPolicy(u, public, second)
      PROVE  \E r : Begins(u, r) /\ Holds(r)
  <2> DEFINE r == [op |-> "policy", rules |-> [public |-> public, second |-> second, last |-> rules.last]]
  <2>1. Holds(r)  BY DEF Holds
  <2> QED BY <1>6, <2>1 DEF BeginPolicy
<1> QED BY <1>1, <1>2, <1>3, <1>4, <1>5, <1>6 DEF Begin

LEMMA Step == ASSUME IInv, Overlap = FALSE, [Next]_vars PROVE IInv'
<1> USE DEF IInv
<1>1. ASSUME NEW u \in Users, Begin(u) PROVE IInv'
  <2>1. PICK r : Begins(u, r) /\ Holds(r)  BY <1>1, BeginHolds
  <2>2. /\ req' = [req EXCEPT ![u] = r] /\ UNCHANGED <<links, rules, cleared, taken>>
        /\ \A v \in Users : req[v] = Idle
    BY <2>1 DEF Begins
  <2>3. Tables' /\ TakenIsLast'  BY <2>2 DEF Tables, TakenIsLast
  <2>4. Holds(r)'  BY <2>1, <2>2 DEF Holds
  <2>5. \A v \in Users : req'[v] = IF v = u THEN r ELSE Idle  BY <2>2 DEF Tables
  <2>6. OneRequest'
    <3>1. \A v, w \in Users : req'[v] # Idle /\ req'[w] # Idle => v = w  BY <2>5
    <3>2. \A v \in Users : req'[v] # Idle => Holds(req[v])'  BY <2>1, <2>2, <2>5 DEF Holds
    <3> QED BY <3>1, <3>2 DEF OneRequest
  <2> QED BY <2>3, <2>6
<1>2. ASSUME NEW u \in Users, Commit(u) PROVE IInv'
  <2>1. req' = [req EXCEPT ![u] = Idle] /\ req[u] # Idle
    BY <1>2 DEF Commit, Save, TurnOff, TurnOn, Approve, Decline, TakeDownPublic, RestorePublic, PutPolicy, Ends, Idle
  <2>2. Holds(req[u])  BY <2>1 DEF OneRequest
  <2>3. \A v \in Users : req'[v] = Idle  BY <2>1 DEF OneRequest, Tables
  <2>4. OneRequest'  BY <2>3 DEF OneRequest
  <2>5. Tables' /\ TakenIsLast'
    <3>1. CASE Nothing
      BY <2>1, <3>1 DEF Nothing, Tables, TakenIsLast
    <3> QED BY <1>2, <2>2, <3>1, WritesOneTables, RulesCommitTables DEF Commit, LinkCommit, RulesCommit
  <2> QED BY <2>4, <2>5
<1>3. ASSUME UNCHANGED <<links, rules, req, cleared, taken>> PROVE IInv'
  <2>1. Tables' /\ TakenIsLast'  BY <1>3 DEF Tables, TakenIsLast
  <2>2. OneRequest'  BY <1>3 DEF OneRequest, Holds
  <2> QED BY <2>1, <2>2
<1> QED BY <1>1, <1>2, <1>3 DEF Next, Tick, Roles, vars

LEMMA StartsWell == ASSUME Init PROVE IInv
<1>1. Tables  BY DEF Init, Tables, NoTakeDown
<1>2. OneRequest  BY DEF Init, OneRequest
<1>3. TakenIsLast  BY DEF Init, TakenIsLast
<1> QED BY <1>1, <1>2, <1>3 DEF IInv

-----------------------------------------------------------------------------
(* What a step may do to a link *)

\* What changes a link, given that no other request is under way.
LEMMA Changes ==
  ASSUME IInv, [Next]_vars, NEW i \in Items, links'[i] # links[i]
  PROVE  \E u \in Users :
           /\ Holds(req[u]) /\ req'[u] = Idle
           /\ \/ WritesOne(u, Results) /\ i = req[u].item /\ LinkCommit(u)
              \/ TakeDownPublic(u) /\ TurnedOne(i, req[u].ids, "off") /\ cleared' = cleared
              \/ RestorePublic(u) /\ TurnedOne(i, rules.last.ids, "active")
<1> USE DEF IInv
<1>1. PICK u \in Users : Commit(u)
  BY DEF Next, Begin, Begins, BeginSave, BeginTurn, BeginDecide, BeginTakeDown, BeginUndo, BeginPolicy,
         Roles, Tick, vars
<1>2. req' = [req EXCEPT ![u] = Idle] /\ req[u] # Idle
  BY <1>1 DEF Commit, Save, TurnOff, TurnOn, Approve, Decline, TakeDownPublic, RestorePublic, PutPolicy, Ends, Idle
<1>3. Holds(req[u]) /\ req'[u] = Idle  BY <1>2 DEF OneRequest, Tables
<1>4. CASE LinkCommit(u)
  <2>1. WritesOne(u, Results) /\ req[u].item \in Items  BY <1>3, <1>4, LinkCommits DEF Nothing
  <2>2. i = req[u].item  BY <2>1 DEF WritesOne, Writes, Tables
  <2> QED BY <1>3, <1>4, <2>1, <2>2
<1>5. CASE TakeDownPublic(u)
  <2>1. req[u].op = "take_down" /\ Turned(req[u].ids, "off") /\ cleared' = cleared
    BY <1>5 DEF TakeDownPublic, Ends
  <2>2. \A j \in req[u].ids \cap Items : links[j] # NoLink  BY <1>3, <2>1 DEF Holds
  <2> DEFINE ids == req[u].ids
  <2> HIDE DEF ids
  <2>3. TurnedOne(i, ids, "off")  BY <2>1, <2>2, TurnedTables DEF ids
  <2> QED BY <1>3, <1>5, <2>1, <2>3 DEF ids
<1>6. CASE RestorePublic(u)
  <2>1. req[u].op = "undo" /\ Turned(req[u].rules.last.ids, "active")
    BY <1>6 DEF RestorePublic, Ends
  <2>2. req[u].rules.last = rules.last  BY <1>3, <2>1 DEF Holds, RuleOps
  <2>3. \A j \in rules.last.ids \cap Items : links[j] # NoLink  BY DEF Tables
  <2>4. TurnedOne(i, rules.last.ids, "active")  BY <2>1, <2>2, <2>3, TurnedTables
  <2> QED BY <1>3, <1>6, <2>4
<1> QED BY <1>1, <1>4, <1>5, <1>6 DEF Commit, LinkCommit, PutPolicy

\* A decision is on a link that waits.
LEMMA DecidesPending ==
  ASSUME IInv, NEW u \in Users, Holds(req[u]), req[u].op \in {"approve", "decline"}
  PROVE  links[req[u].item].status = "pending"
BY DEF Holds, LinkOps, RuleOps

\* A link that is off comes back only by a save, by being turned on, or by an Undo, if requests do
\* not overlap: a decision never finds it waiting (decide, turn_off, take_down).
THEOREM OffForGood == ASSUME Overlap = FALSE PROVE Spec => OffSticks
<1> DEFINE Sticks == \A i \in Items : links[i].status = "off" /\ links'[i].status # "off" =>
                       \E u \in Users : Commits(u, {"save", "on", "undo"})
<1>1. Init => IInv  BY StartsWell
<1>2. IInv /\ [Next]_vars => IInv'  BY Step
<1>3. IInv /\ [Next]_vars => Sticks
  <2> SUFFICES ASSUME IInv, [Next]_vars, NEW i \in Items, links[i].status = "off", links'[i].status # "off"
               PROVE  \E u \in Users : Commits(u, {"save", "on", "undo"})
    OBVIOUS
  <2>1. PICK u \in Users :
           /\ Holds(req[u]) /\ req'[u] = Idle
           /\ \/ WritesOne(u, Results) /\ i = req[u].item /\ LinkCommit(u)
              \/ TakeDownPublic(u) /\ TurnedOne(i, req[u].ids, "off") /\ cleared' = cleared
              \/ RestorePublic(u) /\ TurnedOne(i, rules.last.ids, "active")
    BY Changes
  <2>2. CASE LinkCommit(u) /\ i = req[u].item
    <3>1. req[u].op \notin {"approve", "decline"}  BY <2>1, <2>2, DecidesPending
    <3>2. ~ TurnOff(u)
      <4> SUFFICES ASSUME TurnOff(u) PROVE FALSE  OBVIOUS
      <4>1. WritesOne(u, {"off"})  BY <2>1, OffWrites DEF IInv
      <4>2. req[u].item \in DOMAIN links  BY <2>2 DEF IInv, Tables
      <4>3. links'[i].status = "off"  BY <2>2, <4>1, <4>2 DEF WritesOne, Writes
      <4> QED BY <4>3
    <3>3. req[u].op \in {"save", "on"}
      BY <2>2, <3>1, <3>2 DEF LinkCommit, Save, TurnOn, Approve, Decline, Ends
    <3> QED BY <2>1, <3>3 DEF Commits
  <2>3. CASE TakeDownPublic(u) /\ TurnedOne(i, req[u].ids, "off")
    BY <2>3 DEF TurnedOne
  <2>4. CASE RestorePublic(u)
    BY <2>1, <2>4 DEF RestorePublic, Ends, Commits
  <2> QED BY <2>1, <2>2, <2>3, <2>4
<1> QED BY <1>1, <1>2, <1>3, PTL DEF Spec, OffSticks

\* No sequence of saves, decisions, switches, rule and role changes gets a title past the rules, if
\* requests do not overlap: only an Undo may (State, ClearByRules, restore).
THEOREM RulesHold == ASSUME Overlap = FALSE PROVE Spec => OnlyUndoExposes
<1> DEFINE Only == \A i \in Items : ~Exposed(i) /\ Exposed(i)' => \E u \in Users : Commits(u, {"undo"})
<1>1. Init => IInv  BY StartsWell
<1>2. IInv /\ [Next]_vars => IInv'  BY Step
<1>3. IInv /\ [Next]_vars => Only
  <2> SUFFICES ASSUME IInv, [Next]_vars, NEW i \in Items, ~Exposed(i), Exposed(i)'
               PROVE  \E u \in Users : Commits(u, {"undo"})
    OBVIOUS
  <2>1. CASE links'[i] = links[i]
    <3>1. i \in ActivePublic  BY <2>1 DEF Exposed, ActivePublic
    <3>2. links[i].title \in cleared[i] /\ links[i].title \notin cleared'[i]
      BY <2>1, <3>1 DEF Exposed
    <3>3. Grows
      <4>1. ASSUME NEW u \in Users, LinkCommit(u) PROVE Grows
        <5>1. req[u] # Idle
          BY <4>1 DEF LinkCommit, Save, TurnOn, Approve, TurnOff, Decline, Ends, Idle
        <5>2. Holds(req[u])  BY <5>1 DEF IInv, OneRequest
        <5>3. Nothing \/ WritesOne(u, Results)  BY <4>1, <5>2, LinkCommits DEF IInv
        <5> QED BY <5>3 DEF Nothing, WritesOne, Grows, IInv, Tables
      <4>2. CASE UNCHANGED cleared
        BY <4>2 DEF Grows, IInv, Tables
      <4> QED BY <4>1, <4>2
          DEF Next, Begin, Begins, BeginSave, BeginTurn, BeginDecide, BeginTakeDown, BeginUndo, BeginPolicy,
              Commit, LinkCommit, TakeDownPublic, RestorePublic, PutPolicy, Roles, Tick, vars
    <3> QED BY <3>2, <3>3 DEF Grows
  <2>2. CASE links'[i] # links[i]
    <3>1. PICK u \in Users :
             /\ Holds(req[u]) /\ req'[u] = Idle
             /\ \/ WritesOne(u, Results) /\ i = req[u].item /\ LinkCommit(u)
                \/ TakeDownPublic(u) /\ TurnedOne(i, req[u].ids, "off") /\ cleared' = cleared
                \/ RestorePublic(u) /\ TurnedOne(i, rules.last.ids, "active")
      BY <2>2, Changes
    <3>2. links'[i].status = "active" /\ links'[i].access = "public" /\ links'[i].title \notin cleared'[i]
      BY DEF Exposed, ActivePublic
    <3>3. CASE WritesOne(u, Results) /\ i = req[u].item
      <4>1. i \in DOMAIN links  BY DEF IInv, Tables
      <4> QED BY <3>2, <3>3, <4>1 DEF WritesOne, Writes
    <3>4. CASE TurnedOne(i, req[u].ids, "off")
      BY <2>2, <3>2, <3>4 DEF TurnedOne
    <3>5. CASE RestorePublic(u)
      BY <3>1, <3>5 DEF RestorePublic, Ends, Commits
    <3> QED BY <3>1, <3>3, <3>4, <3>5
  <2> QED BY <2>1, <2>2
<1> QED BY <1>1, <1>2, <1>3, PTL DEF Spec, OnlyUndoExposes

\* An Undo changes links of the last take-down only, and undoes it once, whatever rules and
\* take-downs came in between, if requests do not overlap (restore_public).
THEOREM UndoneOnce == ASSUME Overlap = FALSE PROVE Spec => UndoIsExact
<1> DEFINE Exact == \A u \in Users : Commits(u, {"undo"}) => \A i \in Items : links'[i] # links[i] => i \in taken.ids
<1>1. Init => IInv  BY StartsWell
<1>2. IInv /\ [Next]_vars => IInv'  BY Step
<1>3. IInv /\ [Next]_vars => Exact
  <2> SUFFICES ASSUME IInv, [Next]_vars, NEW u \in Users, Commits(u, {"undo"}), NEW i \in Items, links'[i] # links[i]
               PROVE  i \in taken.ids
    OBVIOUS
  <2>1. PICK v \in Users :
           /\ Holds(req[v]) /\ req'[v] = Idle
           /\ \/ WritesOne(v, Results) /\ i = req[v].item /\ LinkCommit(v)
              \/ TakeDownPublic(v) /\ TurnedOne(i, req[v].ids, "off") /\ cleared' = cleared
              \/ RestorePublic(v) /\ TurnedOne(i, rules.last.ids, "active")
    BY Changes
  <2>2. req[u] # Idle /\ req[v] # Idle
    BY <2>1 DEF Commits, Idle, LinkCommit, Save, TurnOn, Approve, TurnOff, Decline, TakeDownPublic, RestorePublic, Ends
  <2>3. u = v  BY <2>2 DEF IInv, OneRequest
  <2>4. RestorePublic(v) /\ TurnedOne(i, rules.last.ids, "active")
    BY <2>1, <2>3 DEF Commits, LinkCommit, Save, TurnOn, Approve, TurnOff, Decline, TakeDownPublic, Ends
  <2> QED BY <2>4 DEF TurnedOne, IInv, TakenIsLast
<1> QED BY <1>1, <1>2, <1>3, PTL DEF Spec, UndoIsExact

-----------------------------------------------------------------------------
(* Types, however requests overlap *)

Rows == Link \union {NoLink}

There(i) == i \in Items /\ links[i] # NoLink

\* A request and what it loaded: rows are never taken away, so what was there still is.
Asked(r) ==
  /\ r.op \in LinkOps \cup RuleOps
  /\ r.op \in LinkOps => r.item \in Items /\ r.row \in Rows /\ (r.row # NoLink => There(r.item))
  /\ r.op \in LinkOps \ {"save"} => r.row # NoLink
  /\ r.op = "save" => r.access \in {"organization", "public"} /\ r.title \in Titles
  /\ r.op = "take_down" => r.ids \in SUBSET Items /\ \A i \in r.ids : There(i)
  /\ r.op \in RuleOps => r.rules \in Rules /\ \A i \in r.rules.last.ids : There(i)

Typed ==
  /\ links \in [Items -> Rows] /\ rules \in Rules /\ approvers \subseteq Users /\ clock \in Nat
  /\ cleared \in [Items -> SUBSET Titles] /\ taken \in TakeDown /\ DOMAIN req = Users
  /\ \A i \in rules.last.ids : There(i)
  /\ \A u \in Users : req[u] # Idle => Asked(req[u])

\* The links are typed and none is gone.
Typing == links' \in [Items -> Rows] /\ \A i \in Items : links[i] # NoLink => links'[i] # NoLink

LEMMA NoLinkIsNone == NoLink \notin Link
BY DEF NoLink, Link

LEMMA WriteTyped ==
  ASSUME links \in [Items -> Rows], NEW i \in Items, NEW link \in Link, Write(i, link) PROVE Typing
BY NoLinkIsNone DEF Typing, Write, Rows

LEMMA WrittenTyped ==
  ASSUME NEW row \in Link, NEW new \in Link, NEW i, links[i] \in Link PROVE Written(row, new, i) \in Link
<1> DEFINE w == Written(row, new, i)
<1>1. DOMAIN new = Columns  BY DEF Link, Columns
<1>2. w = [c \in Columns |-> w[c]] /\ \A c \in Columns : w[c] = new[c] \/ w[c] = links[i][c]
  BY <1>1 DEF Written
<1> HIDE DEF w
<1>3. /\ w.by \in Users /\ w.access \in {"organization", "public"}
      /\ w.title \in Titles /\ w.status \in {"active", "pending", "off"}
  <2>1. "by" \in Columns /\ "access" \in Columns /\ "title" \in Columns /\ "status" \in Columns  BY DEF Columns
  <2> QED BY <1>2, <2>1 DEF Link
<1>4. w = [c \in Columns |-> w[c]]  BY <1>2
<1>5. w = [by |-> w.by, access |-> w.access, title |-> w.title, status |-> w.status]
  BY ONLY <1>4 DEF Columns
<1>6. \A a \in Users, b \in {"organization", "public"}, c \in Titles, d \in {"active", "pending", "off"} :
        [by |-> a, access |-> b, title |-> c, status |-> d] \in Link
  BY DEF Link
<1> QED BY <1>3, <1>5, <1>6 DEF w

LEMMA SetStatusTyped ==
  ASSUME Typed, NEW u \in Users, req[u].op \in LinkOps \ {"save"}, Asked(req[u]),
         NEW state \in {"active", "pending", "off"}, SetStatus(u, state)
  PROVE  Typing
<1> DEFINE row == req[u].row
           i == req[u].item
           new == [row EXCEPT !.status = state]
<1>1. row \in Link /\ i \in Items /\ links[i] \in Link  BY DEF Asked, Typed, Rows, There
<1>2. new \in Link  BY <1>1 DEF Link
<1>3. Written(row, new, i) \in Link  BY <1>1, <1>2, WrittenTyped
<1>4. links \in [Items -> Rows]  BY DEF Typed
<1> QED BY <1>1, <1>3, <1>4, WriteTyped DEF SetStatus

LEMMA ClearTyped ==
  ASSUME Typed, NEW i \in Items, NEW title \in Titles, Clear(i, title)
  PROVE  cleared' \in [Items -> SUBSET Titles]
BY DEF Typed, Clear

LEMMA SaveTyped ==
  ASSUME Typed, NEW u \in Users, Asked(req[u]), Save(u)
  PROVE  Typing /\ cleared' \in [Items -> SUBSET Titles]
<1> DEFINE r == req[u]
           state == State(u, r.access, r.title)
           first == r.row = NoLink
           new == [by |-> IF first THEN u ELSE r.row.by, access |-> r.access, title |-> r.title, status |-> state]
           link == IF first THEN new ELSE Written(r.row, new, r.item)
<1>1. r.op = "save" /\ SaveAs(u, state)  BY DEF Save, Ends
<1>2. /\ r.item \in Items /\ r.row \in Rows /\ r.access \in {"organization", "public"} /\ r.title \in Titles
      /\ ~first => There(r.item)
  BY <1>1 DEF Asked, LinkOps
<1>3. CASE UNCHANGED <<links, cleared>>
  BY <1>3 DEF Typing, Typed
<1>4. CASE state # "refused" /\ Write(r.item, link) /\ ClearByRules(u, r.item, r.access, r.title)
  <2>1. state \in {"active", "pending"}  BY <1>2, <1>4, StateIs
  <2>2. (IF first THEN u ELSE r.row.by) \in Users  BY <1>2 DEF Rows, Link
  <2>3. new \in Link  BY <1>2, <2>1, <2>2 DEF Link
  <2>4. CASE first
    <3>1. link \in Link  BY <2>3, <2>4
    <3> QED BY <1>2, <1>4, <3>1, WriteTyped, ClearTyped DEF ClearByRules, Typed
  <2>5. CASE ~first
    <3>1. r.row \in Link /\ links[r.item] \in Link  BY <1>2, <2>5 DEF Rows, There, Typed
    <3>2. link \in Link  BY <2>3, <2>5, <3>1, WrittenTyped
    <3> QED BY <1>2, <1>4, <3>2, WriteTyped, ClearTyped DEF ClearByRules, Typed
  <2> QED BY <2>4, <2>5
<1> QED BY <1>1, <1>3, <1>4 DEF SaveAs

LEMMA TurnedTyped ==
  ASSUME links \in [Items -> Rows], NEW ids, \A i \in ids : There(i),
         NEW state \in {"active", "off"}, Turned(ids, state)
  PROVE  Typing
<1>1. ASSUME NEW i \in Items PROVE links'[i] \in Rows /\ (links[i] # NoLink => links'[i] # NoLink)
  <2>1. CASE i \in ids
    <3>1. links[i] \in Link  BY <2>1 DEF There, Rows
    <3>2. [links[i] EXCEPT !.status = state] \in Link  BY <3>1 DEF Link
    <3> QED BY <2>1, <3>2, NoLinkIsNone DEF Turned, Rows
  <2>2. CASE i \notin ids
    BY <2>2 DEF Turned
  <2> QED BY <2>1, <2>2
<1>2. links' = [i \in Items |-> links'[i]]  BY DEF Turned
<1> QED BY <1>1, <1>2 DEF Typing

LEMMA TypedCommit ==
  ASSUME Typed, NEW u \in Users, Commit(u) PROVE Typed'
<1>1. req[u] # Idle /\ req' = [req EXCEPT ![u] = Idle] /\ UNCHANGED <<approvers, clock>>
  BY DEF Commit, Save, TurnOff, TurnOn, Approve, Decline, TakeDownPublic, RestorePublic, PutPolicy, Ends, Idle
<1>2. Asked(req[u])  BY <1>1 DEF Typed
<1>3. LinkCommit(u) => Typing /\ cleared' \in [Items -> SUBSET Titles] /\ UNCHANGED <<rules, taken>>
  <2>1. CASE Save(u)
    BY <1>2, <2>1, SaveTyped DEF Save
  <2>2. CASE TurnOff(u) \/ Decline(u)
    <3>1. req[u].op \in LinkOps \ {"save"} /\ SetStatus(u, "off") /\ UNCHANGED <<rules, taken, cleared>>
      BY <2>2 DEF TurnOff, Decline, Ends, LinkOps
    <3> QED BY <1>2, <3>1, SetStatusTyped DEF Typed
  <2>3. CASE TurnOn(u) \/ Approve(u)
    <3>1. req[u].op \in LinkOps \ {"save"} /\ UNCHANGED <<rules, taken>>
      BY <2>3 DEF TurnOn, Approve, Ends, LinkOps
    <3> DEFINE row == req[u].row
               i == req[u].item
    <3>2. row \in Link /\ i \in Items  BY <1>2, <3>1 DEF Asked, Rows
    <3>3. row.title \in Titles /\ row.access \in {"organization", "public"}  BY <3>2 DEF Link
    <3>4. CASE UNCHANGED <<links, cleared>>
      BY <3>1, <3>4 DEF Typing, Typed
    <3>5. ASSUME NEW state \in {"active", "pending", "off"}, SetStatus(u, state),
                 Clear(i, row.title) \/ UNCHANGED cleared
          PROVE  Typing /\ cleared' \in [Items -> SUBSET Titles]
      BY <1>2, <3>1, <3>2, <3>3, <3>5, SetStatusTyped, ClearTyped DEF Typed
    <3>6. CASE TurnOn(u) /\ ~UNCHANGED <<links, cleared>>
      <4> DEFINE state == State(u, row.access, row.title)
      <4>1. state # "refused" /\ SetStatus(u, state) /\ (Clear(i, row.title) \/ UNCHANGED cleared)
        BY <3>6 DEF TurnOn, ClearByRules
      <4>2. state \in {"active", "pending", "off"}  BY <3>3, <4>1, StateIs
      <4> HIDE DEF state
      <4> QED BY <3>1, <3>5, <4>1, <4>2
    <3>7. CASE Approve(u) /\ ~UNCHANGED <<links, cleared>>
      BY <3>1, <3>5, <3>7 DEF Approve
    <3> QED BY <2>3, <3>1, <3>4, <3>6, <3>7
  <2> QED BY <2>1, <2>2, <2>3 DEF LinkCommit
<1>4. RulesCommit(u) => /\ Typing /\ cleared' \in [Items -> SUBSET Titles] /\ rules' \in Rules /\ taken' \in TakeDown
                        /\ \A i \in rules'.last.ids : There(i)
  <2>1. CASE TakeDownPublic(u)
    <3>1. /\ req[u].op = "take_down" /\ Turned(req[u].ids, "off") /\ cleared' = cleared
          /\ taken' = [ids |-> req[u].ids, at |-> clock] /\ rules' = [req[u].rules EXCEPT !.last = taken']
      BY <2>1 DEF TakeDownPublic, Ends
    <3>2. /\ req[u].ids \in SUBSET Items /\ req[u].rules \in Rules /\ \A i \in req[u].ids : There(i)
      BY <1>2, <3>1 DEF Asked, RuleOps
    <3>3. taken' \in TakeDown /\ taken'.ids = req[u].ids  BY <3>1, <3>2 DEF TakeDown, Typed
    <3>4. rules' \in Rules /\ rules'.last = taken'  BY <3>1, <3>2, <3>3 DEF Rules
    <3> DEFINE ids == req[u].ids
    <3>5. Turned(ids, "off") /\ \A i \in ids : There(i)  BY <3>1, <3>2
    <3> HIDE DEF ids
    <3>6. Typing  BY <3>5, TurnedTyped DEF Typed
    <3> QED BY <3>1, <3>2, <3>3, <3>4, <3>6 DEF Typed
  <2>2. CASE RestorePublic(u)
    <3>1. /\ req[u].op = "undo" /\ Turned(req[u].rules.last.ids, "active") /\ cleared' = cleared
          /\ taken' = NoTakeDown /\ rules' = [req[u].rules EXCEPT !.last = NoTakeDown]
      BY <2>2 DEF RestorePublic, Ends
    <3>2. req[u].rules \in Rules /\ \A i \in req[u].rules.last.ids : There(i)
      BY <1>2, <3>1 DEF Asked, RuleOps
    <3>3. NoTakeDown \in TakeDown /\ NoTakeDown.ids = {}  BY DEF NoTakeDown, TakeDown
    <3>4. rules' \in Rules /\ rules'.last = NoTakeDown  BY <3>1, <3>2, <3>3 DEF Rules
    <3> DEFINE ids == req[u].rules.last.ids
    <3>5. Turned(ids, "active") /\ \A i \in ids : There(i)  BY <3>1, <3>2
    <3> HIDE DEF ids
    <3>6. Typing  BY <3>5, TurnedTyped DEF Typed
    <3> QED BY <3>1, <3>3, <3>4, <3>6 DEF Typed
  <2>3. CASE PutPolicy(u)
    <3>1. req[u].op = "policy" /\ rules' = req[u].rules /\ UNCHANGED <<links, cleared, taken>>
      BY <2>3 DEF PutPolicy, Ends
    <3>2. req[u].rules \in Rules /\ \A i \in req[u].rules.last.ids : There(i)
      BY <1>2, <3>1 DEF Asked, RuleOps
    <3> QED BY <3>1, <3>2 DEF Typing, Typed
  <2> QED BY <2>1, <2>2, <2>3 DEF RulesCommit
<1>5. /\ Typing /\ cleared' \in [Items -> SUBSET Titles] /\ rules' \in Rules /\ taken' \in TakeDown
      /\ \A i \in rules'.last.ids : There(i)
  BY <1>3, <1>4 DEF Commit, LinkCommit, RulesCommit, Typed
<1>6. \A i : There(i) => There(i)'  BY <1>5 DEF Typing, There
<1>7. \A v \in Users : req'[v] # Idle => req'[v] = req[v]  BY <1>1 DEF Typed
<1>8. ASSUME NEW v \in Users, req'[v] # Idle PROVE Asked(req[v])'
  <2>1. Asked(req[v]) /\ req'[v] = req[v]  BY <1>7, <1>8 DEF Typed
  <2> QED BY <1>6, <2>1 DEF Asked
<1> QED BY <1>1, <1>5, <1>6, <1>8 DEF Typed, Typing

LEMMA TypedBegin ==
  ASSUME Typed, NEW u \in Users, Begin(u) PROVE Typed'
<1>1. \E r : Begins(u, r) /\ Asked(r)
  <2>1. ASSUME NEW i \in Items, NEW access \in {"organization", "public"}, NEW title \in Titles,
               BeginSave(u, i, access, title)
        PROVE  \E r : Begins(u, r) /\ Asked(r)
    <3> DEFINE r == [op |-> "save", item |-> i, row |-> links[i], access |-> access, title |-> title]
    <3>1. Asked(r)  BY DEF Asked, LinkOps, RuleOps, There, Typed
    <3> QED BY <2>1, <3>1 DEF BeginSave
  <2>2. ASSUME NEW i \in Items, NEW op \in LinkOps \ {"save"}, links[i] # NoLink, Begins(u, OnLink(op, i))
        PROVE  \E r : Begins(u, r) /\ Asked(r)
    <3>1. Asked(OnLink(op, i))  BY <2>2 DEF OnLink, Asked, LinkOps, RuleOps, There, Typed
    <3> QED BY <2>2, <3>1
  <2>3. ASSUME NEW i \in Items, NEW op \in {"off", "on"}, BeginTurn(u, i, op)
        PROVE  \E r : Begins(u, r) /\ Asked(r)
    BY <2>2, <2>3 DEF BeginTurn, LinkOps
  <2>4. ASSUME NEW i \in Items, NEW op \in {"approve", "decline"}, BeginDecide(u, i, op)
        PROVE  \E r : Begins(u, r) /\ Asked(r)
    <3>1. links[i] # NoLink  BY <2>4 DEF BeginDecide, NoLink
    <3> QED BY <2>2, <2>4, <3>1 DEF BeginDecide, LinkOps
  <2>5. CASE BeginTakeDown(u)
    <3> DEFINE r == [op |-> "take_down", rules |-> rules, ids |-> ActivePublic]
    <3>1. ActivePublic \in SUBSET Items /\ \A i \in ActivePublic : There(i)
      BY DEF ActivePublic, There, NoLink
    <3>2. Asked(r)  BY <3>1 DEF Asked, LinkOps, RuleOps, Typed
    <3> QED BY <2>5, <3>2 DEF BeginTakeDown
  <2>6. CASE BeginUndo(u)
    <3>1. Asked([op |-> "undo", rules |-> rules])  BY DEF Asked, LinkOps, RuleOps, Typed
    <3> QED BY <2>6, <3>1 DEF BeginUndo
  <2>7. ASSUME NEW public \in {"off", "approval", "members"}, NEW second \in BOOLEAN, BeginPolicy(u, public, second)
        PROVE  \E r : Begins(u, r) /\ Asked(r)
    <3> DEFINE new == [public |-> public, second |-> second, last |-> rules.last]
    <3>1. new \in Rules /\ \A i \in new.last.ids : There(i)  BY DEF Rules, Typed
    <3> HIDE DEF new
    <3>2. Asked([op |-> "policy", rules |-> new])  BY <3>1 DEF Asked, LinkOps, RuleOps
    <3> QED BY <2>7, <3>2 DEF BeginPolicy, new
  <2> QED BY <2>1, <2>3, <2>4, <2>5, <2>6, <2>7 DEF Begin
<1>2. PICK r : Begins(u, r) /\ Asked(r)  BY <1>1
<1>3. req' = [req EXCEPT ![u] = r] /\ UNCHANGED <<links, rules, approvers, clock, cleared, taken>>
  BY <1>2 DEF Begins
<1>4. \A v \in Users : req'[v] # Idle => Asked(req'[v])  BY <1>2, <1>3 DEF Typed
<1>5. \A x : Asked(x) => (Asked(x) /\ \A i : There(i) <=> There(i)')  BY <1>3 DEF There
<1>6. \A v \in Users : req'[v] # Idle => Asked(req[v])'  BY <1>3, <1>4 DEF Asked, There
<1> QED BY <1>3, <1>6 DEF Typed, There

\* Every variable keeps its type, for any users, items and titles, requests interleaved or not.
THEOREM TypeCorrect == Spec => []TypeOK
<1>1. Init => Typed  BY DEF Init, Typed, Rows, Rules, TakeDown, NoTakeDown
<1>2. Typed /\ [Next]_vars => Typed'
  <2> SUFFICES ASSUME Typed, [Next]_vars PROVE Typed'
    OBVIOUS
  <2>1. CASE UNCHANGED <<links, rules, req, cleared, taken>> /\ approvers' \subseteq Users /\ clock' \in Nat
    <3>1. \A u \in Users : req[u] # Idle => Asked(req[u])'  BY <2>1 DEF Typed, Asked, There
    <3> QED BY <2>1, <3>1 DEF Typed, There
  <2>2. ASSUME NEW u \in Users, Roles(u) PROVE Typed'
    BY <2>1, <2>2 DEF Roles, Typed
  <2>3. CASE Tick \/ UNCHANGED vars
    BY <2>1, <2>3 DEF Tick, vars, Typed
  <2> QED BY <2>2, <2>3, TypedBegin, TypedCommit DEF Next
<1>3. Typed => TypeOK
  BY DEF Typed, TypeOK, Rows, Asked, LinkOps, RuleOps
<1> QED BY <1>1, <1>2, <1>3, PTL DEF Spec

\* A waiting link always has somebody who may decide on it, whoever made it and whatever the roles
\* and the rules have become (may_review).
THEOREM NobodyStuck == Spec => []SomebodyCanDecide
<1>1. SomebodyCanDecide
  <2> SUFFICES ASSUME NEW i \in Items, approvers # {} PROVE \E u \in approvers : may_review(u, links[i].by)
    BY DEF SomebodyCanDecide
  <2>1. PICK u \in approvers : TRUE  OBVIOUS
  <2>2. CASE others(u) = {} \/ u # links[i].by
    BY <2>2 DEF may_review
  <2>3. CASE others(u) # {} /\ u = links[i].by
    BY <2>3 DEF may_review, others
  <2> QED BY <2>2, <2>3
<1> QED BY <1>1, PTL
=============================================================================
