----------------------------- MODULE ShareLinks -----------------------------
(***************************************************************************)
(* The share links of one organization and the rules for public ones: who  *)
(* may publish, who approves, taking everything public down, and undoing   *)
(* that.                                                                   *)
(*                                                                         *)
(* A request loads what it works on in one step and commits in another.    *)
(* The commit of a link writes the columns that differ from what was       *)
(* loaded; the rules are one JSON value, written whole. "title" stands for *)
(* all that a link shows.                                                  *)
(***************************************************************************)
EXTENDS Naturals, FiniteSets

CONSTANTS
  Users,       \* members of the organization who may share the items
  Items,       \* charts and dashboards
  Titles,      \* what a link shows
  Personal,    \* the titles that look like personal data
  Window,      \* for how long a take-down can be undone
  MaxClock,    \* bound: last moment of the clock
  Overlap      \* whether the requests of two users may overlap

ASSUME TitlesAssumption == Personal \subseteq Titles

VARIABLES
  links,       \* rows of share_links
  rules,       \* organizations.settings["publishing"]
  approvers,   \* the organization's owners and admins
  req,         \* the request of each user
  clock,
  cleared,     \* history: what the rules or an approver let a link show in public
  taken        \* history: the last take-down that was not undone

vars == <<links, rules, approvers, req, clock, cleared, taken>>

NoLink == [status |-> "none"]
Link == [by: Users, access: {"organization", "public"}, title: Titles,
         status: {"active", "pending", "off"}]
NoTakeDown == [ids |-> {}, at |-> 0]
TakeDown == [ids: SUBSET Items, at: Nat]
Rules == [public: {"off", "approval", "members"}, second: BOOLEAN, last: TakeDown]
Idle == [op |-> "none"]

-----------------------------------------------------------------------------
(* publish_policy *)

others(u) == approvers \ {u}

\* Putting a title in public: "approved", "pending" or "refused".
public_decision(u, title) ==
  CASE rules.public = "off" -> "refused"
    [] u \in approvers -> IF rules.second /\ others(u) # {} THEN "pending" ELSE "approved"
    [] title \in Personal \/ rules.public # "members" -> "pending"
    [] OTHER -> "approved"

may_review(u, requester) ==
  u \in approvers /\ ~(u = requester /\ rules.second /\ others(u) # {})

\* Mutated form: the decision is stored as it is.
State_Raw(u, access, title) ==
  IF access = "organization" THEN "active" ELSE public_decision(u, title)

\* The status of a link with this access and title.
State(u, access, title) ==
  IF access = "organization" THEN "active"
  ELSE CASE public_decision(u, title) = "approved" -> "active"
         [] public_decision(u, title) = "pending" -> "pending"
         [] OTHER -> "refused"

-----------------------------------------------------------------------------
(* Loading *)

Begins(u, r) ==
  /\ req[u] = Idle
  /\ Overlap \/ \A v \in Users : req[v] = Idle
  /\ req' = [req EXCEPT ![u] = r]
  /\ UNCHANGED <<links, rules, approvers, clock, cleared, taken>>

OnLink(op, i) == [op |-> op, item |-> i, row |-> links[i]]

BeginSave(u, i, access, title) ==
  Begins(u, [op |-> "save", item |-> i, row |-> links[i], access |-> access, title |-> title])

\* Off and on are for the link's creator and the approvers.
BeginTurn(u, i, op) ==
  /\ links[i] # NoLink
  /\ links[i].by = u \/ u \in approvers
  /\ Begins(u, OnLink(op, i))

\* Mutated form: a link is decided on whether or not it is waiting.
BeginDecide_AnyLink(u, i, op) ==
  /\ links[i] # NoLink
  /\ may_review(u, links[i].by)
  /\ Begins(u, OnLink(op, i))

BeginDecide(u, i, op) ==
  /\ links[i].status = "pending"
  /\ may_review(u, links[i].by)
  /\ Begins(u, OnLink(op, i))

ActivePublic == {i \in Items : links[i].status = "active" /\ links[i].access = "public"}
Fresh(t) == t # NoTakeDown /\ clock < t.at + Window

BeginTakeDown(u) ==
  u \in approvers /\ Begins(u, [op |-> "take_down", rules |-> rules, ids |-> ActivePublic])

BeginUndo(u) ==
  u \in approvers /\ Fresh(rules.last) /\ Begins(u, [op |-> "undo", rules |-> rules])

BeginPolicy(u, public, second) ==
  /\ u \in approvers
  /\ Begins(u, [op |-> "policy", rules |-> [public |-> public, second |-> second, last |-> rules.last]])

-----------------------------------------------------------------------------
(* Committing *)

Ends(u, op) == req[u].op = op /\ req' = [req EXCEPT ![u] = Idle]

\* The columns of new that differ from what was loaded.
Written(row, new, i) ==
  [c \in DOMAIN new |-> IF new[c] # row[c] THEN new[c] ELSE links[i][c]]

Write(i, link) == links' = [links EXCEPT ![i] = link]
Clear(i, title) == cleared' = [cleared EXCEPT ![i] = @ \union {title}]

\* What the rules let out to the public they cleared.
ClearByRules(u, i, access, title) ==
  IF access = "public" /\ public_decision(u, title) = "approved" THEN Clear(i, title) ELSE UNCHANGED cleared

\* One link per item: the second insert of two fails.
SaveAs(u, state) ==
  LET r == req[u]
      first == r.row = NoLink
      new == [by |-> IF first THEN u ELSE r.row.by, access |-> r.access, title |-> r.title, status |-> state]
  IN IF state = "refused" \/ (first /\ links[r.item] # NoLink)
     THEN UNCHANGED <<links, cleared>>
     ELSE /\ Write(r.item, IF first THEN new ELSE Written(r.row, new, r.item))
          /\ ClearByRules(u, r.item, r.access, r.title)

\* Mutated form: only a new link goes through the rules.
Save_RulesOnce(u) ==
  /\ Ends(u, "save")
  /\ SaveAs(u, IF req[u].row = NoLink THEN State(u, req[u].access, req[u].title) ELSE req[u].row.status)
  /\ UNCHANGED <<rules, approvers, clock, taken>>

Save(u) ==
  /\ Ends(u, "save")
  /\ SaveAs(u, State(u, req[u].access, req[u].title))
  /\ UNCHANGED <<rules, approvers, clock, taken>>

SetStatus(u, state) ==
  Write(req[u].item, Written(req[u].row, [req[u].row EXCEPT !.status = state], req[u].item))

TurnOff(u) ==
  /\ Ends(u, "off")
  /\ SetStatus(u, "off")
  /\ UNCHANGED <<rules, approvers, clock, cleared, taken>>

\* Through the rules again, as it would if new.
TurnOn(u) ==
  /\ Ends(u, "on")
  /\ LET row == req[u].row
         state == State(u, row.access, row.title)
     IN IF state = "refused"
        THEN UNCHANGED <<links, cleared>>
        ELSE SetStatus(u, state) /\ ClearByRules(u, req[u].item, row.access, row.title)
  /\ UNCHANGED <<rules, approvers, clock, taken>>

\* Nothing is approved while sharing outside the organization is off.
Approve(u) ==
  /\ Ends(u, "approve")
  /\ IF rules.public = "off"
     THEN UNCHANGED <<links, cleared>>
     ELSE SetStatus(u, "active") /\ Clear(req[u].item, req[u].row.title)
  /\ UNCHANGED <<rules, approvers, clock, taken>>

Decline(u) ==
  /\ Ends(u, "decline")
  /\ SetStatus(u, "off")
  /\ UNCHANGED <<rules, approvers, clock, cleared, taken>>

Turned(ids, state) ==
  links' = [i \in Items |-> IF i \in ids THEN [links[i] EXCEPT !.status = state] ELSE links[i]]

TakeDownPublic(u) ==
  /\ Ends(u, "take_down")
  /\ Turned(req[u].ids, "off")
  /\ taken' = [ids |-> req[u].ids, at |-> clock]
  /\ rules' = [req[u].rules EXCEPT !.last = taken']
  /\ UNCHANGED <<approvers, clock, cleared>>

\* Mutated form: the take-down is not forgotten.
RestorePublic_Again(u) ==
  /\ Ends(u, "undo")
  /\ Turned(req[u].rules.last.ids, "active")
  /\ taken' = NoTakeDown
  /\ rules' = req[u].rules
  /\ UNCHANGED <<approvers, clock, cleared>>

RestorePublic(u) ==
  /\ Ends(u, "undo")
  /\ Turned(req[u].rules.last.ids, "active")
  /\ taken' = NoTakeDown
  /\ rules' = [req[u].rules EXCEPT !.last = NoTakeDown]
  /\ UNCHANGED <<approvers, clock, cleared>>

PutPolicy(u) ==
  /\ Ends(u, "policy")
  /\ rules' = req[u].rules
  /\ UNCHANGED <<links, approvers, clock, cleared, taken>>

-----------------------------------------------------------------------------
(* Outside this module: the roles of the members, and time *)

Roles(u) ==
  /\ approvers' = IF u \in approvers THEN approvers \ {u} ELSE approvers \union {u}
  /\ UNCHANGED <<links, rules, req, clock, cleared, taken>>

Tick ==
  /\ clock < MaxClock
  /\ clock' = clock + 1
  /\ UNCHANGED <<links, rules, approvers, req, cleared, taken>>

-----------------------------------------------------------------------------
Init ==
  /\ links = [i \in Items |-> NoLink]
  /\ rules = [public |-> "approval", second |-> FALSE, last |-> NoTakeDown]
  /\ approvers \in SUBSET Users
  /\ req = [u \in Users |-> Idle]
  /\ clock = 1
  /\ cleared = [i \in Items |-> {}]
  /\ taken = NoTakeDown

Begin(u) ==
  \/ \E i \in Items :
       \/ \E access \in {"organization", "public"}, title \in Titles : BeginSave(u, i, access, title)
       \/ \E op \in {"off", "on"} : BeginTurn(u, i, op)
       \/ \E op \in {"approve", "decline"} : BeginDecide(u, i, op)
  \/ BeginTakeDown(u) \/ BeginUndo(u)
  \/ \E public \in {"off", "approval", "members"}, second \in BOOLEAN : BeginPolicy(u, public, second)

Commit(u) ==
  \/ Save(u) \/ TurnOff(u) \/ TurnOn(u) \/ Approve(u) \/ Decline(u)
  \/ TakeDownPublic(u) \/ RestorePublic(u) \/ PutPolicy(u)

Next == Tick \/ \E u \in Users : Begin(u) \/ Commit(u) \/ Roles(u)

Spec == Init /\ [][Next]_vars

-----------------------------------------------------------------------------
(* Properties *)

\* Every variable keeps its type.
TypeOK ==
  /\ \A i \in Items : links[i] = NoLink \/ links[i] \in Link
  /\ rules \in Rules
  /\ approvers \subseteq Users
  /\ \A u \in Users : req[u] # Idle => req[u].op \in {"save", "off", "on", "approve", "decline", "take_down", "undo", "policy"}
  /\ clock \in Nat
  /\ cleared \in [Items -> SUBSET Titles]
  /\ taken \in TakeDown

\* A public link shows something that neither the rules nor an approver let out.
Exposed(i) == i \in ActivePublic /\ links[i].title \notin cleared[i]

Commits(u, ops) == req[u].op \in ops /\ req'[u] = Idle

\* "Public links go through the same policy, approval": no sequence of saves, decisions, switches,
\* changes of the rules and of roles gets a title past the rules (save, turn_on, decide). An Undo
\* of a take-down may: it looks at nothing that became of the link since (restore).
OnlyUndoExposes ==
  [][\A i \in Items : ~Exposed(i) /\ Exposed(i)' => \E u \in Users : Commits(u, {"undo"})]_vars

\* A link that was turned off, declined or taken down comes back only by a save, by turning it
\* on, or by an Undo; a decision on it comes too late (decide, turn_off, take_down).
OffSticks ==
  [][\A i \in Items : links[i].status = "off" /\ links'[i].status # "off" =>
       \E u \in Users : Commits(u, {"save", "on", "undo"})]_vars

\* An Undo changes only links of the last take-down, and undoes it once, whatever changes of
\* the rules and other take-downs came in between (restore_public, put_publishing_policy).
UndoIsExact ==
  [][\A u \in Users : Commits(u, {"undo"}) =>
       \A i \in Items : links'[i] # links[i] => i \in taken.ids]_vars

\* A waiting link has somebody who can act on it, as long as there are approvers at all:
\* neither the second-approver rule nor a change of roles leaves it to nobody (may_review).
SomebodyCanDecide ==
  \A i \in Items : links[i].status = "pending" /\ approvers # {} =>
    \E u \in approvers : may_review(u, links[i].by)
=============================================================================
