--------------------------- MODULE AuthSession_proofs ---------------------------
(***************************************************************************)
(* Theorems of AuthSession: its types, the logout barrier, and, where         *)
(* signing in does not overlap a start-up under way, that nobody who signed    *)
(* out comes back and that requests are sent as the user on screen.            *)
(***************************************************************************)
EXTENDS AuthSession, TLAPS

Loads == {t \in tasks : t.kind \in {"exchanging", "me"}}
SignIns == {t \in tasks : t.kind \in {"login", "verify", "loginMe"}}
Current == {t \in tasks : t.kind = "exchange" /\ t.epoch = epoch}

\* Nothing under way is of an epoch that is still to come.
Epochs == \A t \in tasks : t.kind \in {"exchanging", "exchange", "logout"} => t.epoch <= epoch

\* What may bring an account or a token comes one at a time.
OneAtATime ==
  /\ \A s, t \in SignIns : s = t
  /\ \A s, t \in Loads : s = t
  /\ Loads # {} => SignIns = {} /\ Current = {} /\ user = None
  /\ \A s \in SignIns :
       /\ user = None
       /\ s.kind = "verify" <=> second # None
       /\ s.kind # "loginMe" => Current = {}

\* Nothing that may still be accepted is of somebody who signed out.
NobodyOut ==
  /\ user \notin out /\ bearer \notin out
  /\ ~sticky => cookie \notin out /\ provider \notin out
  /\ ~sticky => \A t \in Loads \cup Current : t.who \notin out
  /\ \A t \in SignIns : t.kind = "loginMe" => t.who \notin out

\* Whatever will bring a token brings one of the user on screen, or of who is signing in.
SameUser ==
  /\ user # None => bearer = user
  /\ user # None => \A t \in Current : t.who = user
  /\ \A s \in SignIns : s.kind = "loginMe" =>
       provider \in {None, s.who} /\ \A t \in Current : t.who = s.who

Orderly == OneAtATime /\ NobodyOut /\ SameUser
IInv == TypeOK /\ Epochs /\ BarrierIsUp /\ Orderly

-----------------------------------------------------------------------------
(* Types *)

ExchangingTask == [kind : {"exchanging"}, n : Nat, try : 1..Attempts, epoch : Nat, who : Users]
MeTask == [kind : {"me"}, n : Nat, try : 1..Attempts, who : Someone]
ExchangeTask == [kind : {"exchange"}, epoch : Nat, who : Users]
SignInTask == [kind : {"login", "loginMe", "verify"}, who : Users]
LogoutTask == [kind : {"logout"}, epoch : Nat]
LeaveTask == [kind : {"leave"}]

\* A task is of the shape its kind says.
LEMMA Shapes ==
  ASSUME NEW t \in Task
  PROVE  /\ t.kind = "exchanging" => t \in ExchangingTask
         /\ t.kind = "me" => t \in MeTask
         /\ t.kind = "exchange" => t \in ExchangeTask
         /\ t.kind \in {"login", "loginMe", "verify"} => t \in SignInTask
         /\ t.kind = "logout" => t \in LogoutTask
BY DEF Task, ExchangingTask, MeTask, ExchangeTask, SignInTask, LogoutTask

\* The next request of an init is a task.
LEMMA RequestIsTask ==
  ASSUME NEW n \in Nat, NEW try \in 1..Attempts, NEW b \in Someone,
         provider \in Someone, cookie \in Someone, epoch \in Nat
  PROVE  Request(n, try, b) \in Task
BY DEF Request, Task, Someone

LEMMA InitTyped == ASSUME Init PROVE TypeOK
<1>1. Request(0, 1, None) \in Task
  BY AttemptsAssumption, RequestIsTask DEF Init, Someone
<1> QED BY <1>1 DEF Init, TypeOK, Someone

LEMMA InitEndsTyped ==
  ASSUME user \in Someone, loading \in BOOLEAN,
         NEW n, NEW who \in Someone, NEW b, InitEnds(n, who, b)
  PROVE  user' \in Someone /\ loading' \in BOOLEAN
BY DEF InitEnds, Someone

\* A page that is loaded.
LEMMA LoadTyped ==
  ASSUME TypeOK, NEW b \in Someone, NEW s \in BOOLEAN, Load(b, s)
  PROVE  /\ user' \in Someone /\ loading' \in BOOLEAN /\ epoch' \in Nat /\ inProgress' \in BOOLEAN
         /\ latest' \in Nat /\ cancelled' \subseteq Nat
         /\ cookie' \in Someone /\ provider' \in Someone /\ ee' \in BOOLEAN
         /\ tasks' \subseteq Task
<1>1. cookie' \in Someone
  <2>1. CASE \E t \in tasks : t.kind \in {"login", "verify"} /\ cookie' = t.who
    <3>1. PICK t \in tasks : t.kind \in {"login", "verify"} /\ cookie' = t.who  BY <2>1
    <3>2. t \in SignInTask  BY <3>1, Shapes DEF TypeOK
    <3> QED BY <3>1, <3>2 DEF SignInTask, Someone
  <2> QED BY <2>1 DEF Load, TypeOK, Someone
<1>2. tasks' \subseteq Task
  BY <1>1, AttemptsAssumption DEF Load, TypeOK, Task, Someone
<1> QED BY <1>1, <1>2 DEF Load, TypeOK, Someone

\* The types, a step of Next at a time.
LEMMA TypeStep == ASSUME TypeOK, [Next]_vars PROVE TypeOK'
<1> USE DEF TypeOK
<1>a. ASSUME NEW t \in tasks, InitExchange(t) PROVE TypeOK'
  <2>1. t \in ExchangingTask  BY <1>a, Shapes DEF InitExchange
  <2>2. bearer' \in Someone /\ second' \in Someone
    BY <1>a, <2>1 DEF InitExchange, Exchanged, ExchangingTask, Someone
  <2>3. tasks' \subseteq Task
    BY <1>a, <2>1, <2>2 DEF InitExchange, ExchangingTask, Task, Someone
  <2>4. user' \in Someone /\ loading' \in BOOLEAN
    BY <1>a, InitEndsTyped DEF InitExchange, Someone
  <2> QED BY <1>a, <2>2, <2>3, <2>4 DEF InitExchange, browser
<1>b. ASSUME NEW t \in tasks, InitMe(t) PROVE TypeOK'
  <2>1. t \in MeTask  BY <1>b, Shapes DEF InitMe
  <2>2. Welcome(t.who) \in Someone  BY <2>1 DEF MeTask, Welcome, Someone
  <2>3. user' \in Someone /\ loading' \in BOOLEAN
    BY <1>b, <2>2, InitEndsTyped DEF InitMe
  <2> QED BY <1>b, <2>2, <2>3 DEF InitMe, browser
<1>c. ASSUME NEW t \in tasks, InitMeFails(t) PROVE TypeOK'
  <2>1. t \in MeTask  BY <1>c, Shapes DEF InitMeFails
  <2>2. tasks' \subseteq Task
    <3>1. CASE MayRetry(t)
      <4>1. t.n \in Nat /\ t.try + 1 \in 1..Attempts
        BY <2>1, <3>1, AttemptsAssumption DEF MeTask, MayRetry
      <4>2. Request(t.n, t.try + 1, bearer) \in Task  BY <4>1, RequestIsTask
      <4> QED BY <1>c, <3>1, <4>2 DEF InitMeFails
    <3> QED BY <1>c, <3>1 DEF InitMeFails
  <2>3. user' \in Someone /\ loading' \in BOOLEAN
    BY <1>c, InitEndsTyped DEF InitMeFails, Someone
  <2> QED BY <1>c, <2>2, <2>3 DEF InitMeFails, tab, browser
<1>d. ASSUME NEW t \in tasks, ExchangeAnswer(t) PROVE TypeOK'
  <2>1. t \in ExchangeTask  BY <1>d, Shapes DEF ExchangeAnswer
  <2>2. bearer' \in Someone  BY <1>d, <2>1 DEF ExchangeAnswer, Exchanged, ExchangeTask, Someone
  <2> QED BY <1>d, <2>2 DEF ExchangeAnswer, browser
<1>e. ASSUME NEW t \in tasks, LoginAnswer(t) PROVE TypeOK'
  <2>1. t \in SignInTask  BY <1>e, Shapes DEF LoginAnswer
  <2>2. t.who \in Users  BY <2>1 DEF SignInTask
  <2>3. [kind |-> "loginMe", who |-> t.who] \in Task  BY <2>2 DEF Task
  <2> QED BY <1>e, <2>2, <2>3 DEF LoginAnswer, browser, tab, Someone
<1>f. ASSUME NEW t \in tasks, LoginMe(t) PROVE TypeOK'
  <2>1. t \in SignInTask  BY <1>f, Shapes DEF LoginMe
  <2>2. t.who \in Users  BY <2>1 DEF SignInTask
  <2> QED BY <1>f, <2>2 DEF LoginMe, browser, Someone
<1>g. ASSUME NEW t \in tasks, VerifyAnswer(t) PROVE TypeOK'
  <2>1. t \in SignInTask  BY <1>g, Shapes DEF VerifyAnswer
  <2>2. t.who \in Users  BY <2>1 DEF SignInTask
  <2>3. latest + 1 \in Nat  OBVIOUS
  <2>4. Request(latest + 1, 1, t.who) \in Task
    BY <2>2, <2>3, AttemptsAssumption, RequestIsTask DEF Someone
  <2> QED BY <1>g, <2>2, <2>3, <2>4 DEF VerifyAnswer, StartInit, Someone
<1>h. ASSUME NEW t \in tasks, LogoutAnswer(t) PROVE TypeOK'
  <2>1. [kind |-> "leave"] \in Task  BY DEF Task
  <2> QED BY <1>h, <2>1 DEF LogoutAnswer, EndLogout, browser, Someone
<1>i. ASSUME NEW t \in tasks, Leave(t) PROVE TypeOK'
  BY <1>i, LoadTyped DEF Leave, tab
<1>j. ASSUME NEW u \in Users, Login(u) PROVE TypeOK'
  <2>1. [kind |-> "login", who |-> u] \in Task  BY DEF Task
  <2> QED BY <1>j, <2>1 DEF Login, tab, browser
<1>k. CASE VerifyTwoFactor
  <2>1. second \in Users  BY <1>k DEF VerifyTwoFactor, Someone
  <2>2. [kind |-> "verify", who |-> second] \in Task  BY <2>1 DEF Task
  <2> QED BY <1>k, <2>2 DEF VerifyTwoFactor, tab, browser
<1>l. CASE BackToPassword
  BY <1>l DEF BackToPassword, page, browser, Someone
<1>m. CASE Logout
  <2>1. [kind |-> "logout", epoch |-> epoch + 1] \in Task  BY DEF Task
  <2>2. tasks' \subseteq Task  BY <1>m, <2>1 DEF Logout
  <2>3. out' \subseteq Users /\ cancelled' \subseteq Nat  BY <1>m DEF Logout, Someone
  <2>4. /\ epoch' = epoch + 1 /\ inProgress' = TRUE /\ sticky' = TRUE /\ loading' = FALSE
        /\ user' = None /\ bearer' = None /\ second' = None
    BY <1>m, Zenon DEF Logout
  <2>5. UNCHANGED <<cookie, provider, ee, latest>>  BY <1>m DEF Logout, browser
  <2>6. epoch' \in Nat  BY <2>4
  <2>7. None \in Someone  BY DEF Someone
  <2>8. user' \in Someone /\ bearer' \in Someone /\ second' \in Someone  BY <2>4, <2>7
  <2>9. loading' \in BOOLEAN /\ inProgress' \in BOOLEAN /\ sticky' \in BOOLEAN  BY <2>4, Zenon
  <2>10. cookie' \in Someone /\ provider' \in Someone /\ ee' \in BOOLEAN /\ latest' \in Nat  BY <2>5, Zenon
  <2> QED BY <2>2, <2>3, <2>6, <2>8, <2>9, <2>10, Zenon
<1>n. CASE FetchApi
  <2>1. provider \in Users  BY <1>n DEF FetchApi, Someone
  <2>2. [kind |-> "exchange", epoch |-> epoch, who |-> provider] \in Task  BY <2>1 DEF Task
  <2> QED BY <1>n, <2>2 DEF FetchApi, tab, browser
<1>o. CASE Reload
  BY <1>o, LoadTyped DEF Reload, tab
<1>p. CASE NewTab
  BY <1>p, LoadTyped DEF NewTab, Someone
<1>q. CASE UNCHANGED vars
  BY <1>q DEF vars, page, tab, browser
<1> QED BY <1>a, <1>b, <1>c, <1>d, <1>e, <1>f, <1>g, <1>h, <1>i, <1>j, <1>k, <1>l, <1>m, <1>n,
           <1>o, <1>p, <1>q DEF Next, Answer, Person

\* Every variable keeps its type, and every request its shape: whoever signs in and out, and
\* whatever answers when.
THEOREM TypeCorrect == Spec => []TypeOK
<1>1. Init => TypeOK  BY InitTyped
<1>2. TypeOK /\ [Next]_vars => TypeOK'  BY TypeStep
<1> QED BY <1>1, <1>2, PTL DEF Spec

-----------------------------------------------------------------------------
(* The barrier *)

\* Any step but a sign-out, the answer of one and a page load leaves what the barrier is about alone.
Untouched ==
  /\ epoch' = epoch /\ inProgress' = inProgress
  /\ \A t \in tasks' \ tasks : t.kind # "logout" /\ (t.kind \in {"exchanging", "exchange"} => t.epoch = epoch)
  /\ \A t \in tasks \ tasks' : t.kind # "logout"

LEMMA UntouchedSteps ==
  ASSUME TypeOK, [Next]_vars
  PROVE  \/ Untouched \/ Logout \/ (\E t \in tasks : LogoutAnswer(t))
         \/ (\E b, s : Load(b, s))
<1>a. ASSUME NEW t \in tasks, InitExchange(t) PROVE Untouched
  BY <1>a DEF InitExchange, Untouched
<1>b. ASSUME NEW t \in tasks, InitMe(t) PROVE Untouched
  BY <1>b DEF InitMe, Untouched
<1>c. ASSUME NEW t \in tasks, InitMeFails(t) PROVE Untouched
  BY <1>c DEF InitMeFails, Untouched, Request
<1>d. ASSUME NEW t \in tasks, ExchangeAnswer(t) PROVE Untouched
  BY <1>d DEF ExchangeAnswer, Untouched
<1>e. ASSUME NEW t \in tasks, LoginAnswer(t) PROVE Untouched
  BY <1>e DEF LoginAnswer, Untouched
<1>f. ASSUME NEW t \in tasks, LoginMe(t) PROVE Untouched
  BY <1>f DEF LoginMe, Untouched
<1>g. ASSUME NEW t \in tasks, VerifyAnswer(t) PROVE Untouched
  BY <1>g DEF VerifyAnswer, StartInit, Request, Untouched
<1>h. ASSUME NEW u \in Users, Login(u) PROVE Untouched
  BY <1>h DEF Login, Untouched
<1>i. CASE VerifyTwoFactor \/ FetchApi
  BY <1>i DEF VerifyTwoFactor, FetchApi, Untouched
<1>j. CASE BackToPassword \/ UNCHANGED vars
  BY <1>j DEF BackToPassword, vars, page, Untouched
<1> QED BY <1>a, <1>b, <1>c, <1>d, <1>e, <1>f, <1>g, <1>h, <1>i, <1>j
       DEF Next, Answer, Person, Leave, Reload, NewTab

Barrier == TypeOK /\ Epochs /\ BarrierIsUp

LEMMA BarrierStep == ASSUME Barrier, [Next]_vars PROVE Barrier'
<1> USE DEF Barrier
<1>1. TypeOK'  BY TypeStep
<1>2. CASE Untouched
  <2>1. Epochs'
    <3> SUFFICES ASSUME NEW t \in tasks', t.kind \in {"exchanging", "exchange", "logout"} PROVE t.epoch <= epoch'
      BY DEF Epochs
    <3> QED BY <1>2, <1>1 DEF Untouched, Epochs, TypeOK
  <2>2. (\E t \in tasks' : t.kind = "logout" /\ t.epoch = epoch') <=> (\E t \in tasks : t.kind = "logout" /\ t.epoch = epoch)
    BY <1>2 DEF Untouched
  <2>3. BarrierIsUp'  BY <1>2, <2>2, Zenon DEF Untouched, BarrierIsUp
  <2> QED BY <1>1, <2>1, <2>3
<1>3. CASE Logout
  <2> DEFINE out1 == [kind |-> "logout", epoch |-> epoch + 1]
  <2>1. epoch' = epoch + 1 /\ inProgress' = TRUE /\ tasks' = tasks \cup {out1}
    BY <1>3, Zenon DEF Logout
  <2>2. Epochs'
    <3> SUFFICES ASSUME NEW t \in tasks', t.kind \in {"exchanging", "exchange", "logout"} PROVE t.epoch <= epoch'
      BY DEF Epochs
    <3>1. CASE t \in tasks
      <4>1. t.epoch <= epoch  BY <3>1 DEF Epochs
      <4>2. t.epoch \in Nat
        BY <3>1, Shapes DEF TypeOK, ExchangingTask, ExchangeTask, LogoutTask
      <4> QED BY <4>1, <4>2, <2>1 DEF TypeOK
    <3>2. CASE t = out1
      BY <3>2, <2>1 DEF TypeOK
    <3> QED BY <3>1, <3>2, <2>1
  <2>3. BarrierIsUp'
    <3>1. \E t \in tasks' : t.kind = "logout" /\ t.epoch = epoch'
      <4>1. out1 \in tasks' /\ out1.kind = "logout" /\ out1.epoch = epoch'  BY <2>1
      <4> QED BY <4>1
    <3> QED BY <2>1, <3>1, Zenon DEF BarrierIsUp
  <2> QED BY <1>1, <2>2, <2>3
<1>4. ASSUME NEW t \in tasks, LogoutAnswer(t) PROVE Barrier'
  <2>1. /\ t.kind = "logout" /\ epoch' = epoch /\ inProgress' = (inProgress /\ t.epoch # epoch)
        /\ tasks' \in {tasks \ {t}, (tasks \ {t}) \cup {[kind |-> "leave"]}}
    BY <1>4 DEF LogoutAnswer, EndLogout
  <2>2. Epochs'  BY <2>1 DEF Epochs
  <2>3. ASSUME NEW u \in tasks, u.kind = "logout", u.epoch = t.epoch PROVE u = t
    <3>1. t \in LogoutTask /\ u \in LogoutTask  BY <2>1, <2>3, Shapes DEF TypeOK
    <3> QED BY <3>1, <2>1, <2>3 DEF LogoutTask
  <2>4. \A u : u \in tasks' /\ u.kind = "logout" <=> u \in tasks /\ u # t /\ u.kind = "logout"
    BY <2>1
  <2>5. (\E u \in tasks' : u.kind = "logout" /\ u.epoch = epoch')
          <=> (\E u \in tasks : u.kind = "logout" /\ u.epoch = epoch) /\ t.epoch # epoch
    BY <2>1, <2>3, <2>4
  <2>6. BarrierIsUp'  BY <2>1, <2>5, Zenon DEF BarrierIsUp
  <2> QED BY <1>1, <2>2, <2>6
<1>5. ASSUME NEW b, NEW s, Load(b, s) PROVE Barrier'
  <2>1. epoch' = 0 /\ inProgress' = FALSE  BY <1>5 DEF Load
  <2>2. \A t \in tasks' : t.kind \in {"exchanging", "me"} /\ (t.kind = "exchanging" => t.epoch = 0)
    BY <1>5 DEF Load
  <2> QED BY <1>1, <2>1, <2>2 DEF Epochs, BarrierIsUp
<1> QED BY <1>2, <1>3, <1>4, <1>5, UntouchedSteps

\* The barrier is up exactly while the last sign-out is under way: however sign-outs overlap, and
\* whether or not signing in waits for anything.
THEOREM BarrierUp == Spec => []BarrierIsUp
<1>1. Init => Barrier
  <2> SUFFICES ASSUME Init PROVE Barrier  OBVIOUS
  <2>1. TypeOK  BY InitTyped
  <2>2. Epochs /\ BarrierIsUp  BY DEF Init, Request, Epochs, BarrierIsUp
  <2> QED BY <2>1, <2>2 DEF Barrier
<1>2. Barrier /\ [Next]_vars => Barrier'  BY BarrierStep
<1>3. Barrier => BarrierIsUp  BY DEF Barrier
<1> QED BY <1>1, <1>2, <1>3, PTL DEF Spec

-----------------------------------------------------------------------------
(* Who comes back *)

\* While a start-up is under way nothing else is, and nobody is on screen.
LEMMA StartAlone ==
  ASSUME OneAtATime, NEW t \in tasks, t.kind \in {"exchanging", "me"}
  PROVE  Loads = {t} /\ SignIns = {} /\ Current = {} /\ user = None
BY DEF OneAtATime, Loads

\* While somebody signs in no start-up is under way.
LEMMA SignInAlone ==
  ASSUME OneAtATime, NEW t \in tasks, t.kind \in {"login", "verify", "loginMe"}
  PROVE  SignIns = {t} /\ Loads = {} /\ user = None /\ (t.kind # "loginMe" => Current = {})
BY DEF OneAtATime, SignIns

\* An init whose result nobody is in ends with nobody on screen, if nobody was.
LEMMA EndsWith ==
  ASSUME user = None, NEW n, NEW who, NEW b, InitEnds(n, who, b)
  PROVE  user' \in {who, None}
BY DEF InitEnds

\* The steps of a start-up.
LEMMA StartSteps ==
  ASSUME IInv, NEW t \in tasks, InitExchange(t) \/ InitMe(t) \/ InitMeFails(t)
  PROVE  Orderly'
<1> USE DEF IInv, Orderly
<1>1. t.kind \in {"exchanging", "me"}  BY DEF InitExchange, InitMe, InitMeFails
<1>2. Loads = {t} /\ SignIns = {} /\ Current = {} /\ user = None  BY <1>1, StartAlone
<1>3. None \notin out  BY NoneAssumption DEF TypeOK
<1>4. out' = out /\ sticky' = sticky /\ cookie' = cookie /\ provider' = provider /\ epoch' = epoch
  BY DEF InitExchange, InitMe, InitMeFails, browser, tab
<1>5. ASSUME SignIns' = {}, Current' = {}, user' \in {None, bearer'}, user' \notin out, bearer' \notin out,
             NEW r, Loads' \subseteq {r}, Loads' # {} => user' = None,
             ~sticky /\ Loads' # {} => r.who \notin out
      PROVE  Orderly'
  BY <1>3, <1>4, <1>5 DEF OneAtATime, NobodyOut, SameUser
<1>6. CASE InitExchange(t)
  <2> DEFINE r == [kind |-> "me", n |-> t.n, try |-> t.try, who |-> IF bearer' # None THEN bearer' ELSE cookie]
  <2>1. /\ tasks' = IF canAcceptAuthSession THEN (tasks \ {t}) \cup {r} ELSE tasks \ {t}
        /\ canAcceptAuthSession => user' = user
        /\ ~canAcceptAuthSession => InitEnds(t.n, None, bearer)
        /\ bearer' \in {bearer, Exchanged(t)}
    BY <1>6 DEF InitExchange
  <2>2. SignIns' = {} /\ Current' = {} /\ Loads' \subseteq {r}
    BY <2>1, <1>2, <1>4 DEF SignIns, Current, Loads
  <2>3. Loads' # {} => canAcceptAuthSession  BY <2>1, <1>2 DEF Loads
  <2>4. user' = None  BY <2>1, <1>2, EndsWith
  <2>5. canAcceptAuthSession => t.who \notin out  BY <1>2 DEF NobodyOut, canAcceptAuthSession
  <2>6. bearer' \notin out  BY <2>1, <2>5 DEF Exchanged, NobodyOut
  <2>7. ~sticky => r.who \notin out  BY <2>6 DEF NobodyOut
  <2> QED BY <1>3, <1>5, <2>2, <2>4, <2>6, <2>7
<1>7. CASE InitMe(t)
  <2>1. /\ tasks' = tasks \ {t}
        /\ bearer' = IF Welcome(t.who) # None THEN Welcome(t.who) ELSE bearer
        /\ InitEnds(t.n, Welcome(t.who), bearer')
    BY <1>7 DEF InitMe
  <2>2. SignIns' = {} /\ Current' = {} /\ Loads' = {}
    BY <2>1, <1>2, <1>4 DEF SignIns, Current, Loads
  <2>3. user' \in {Welcome(t.who), None}  BY <2>1, <1>2, EndsWith
  <2>4. Welcome(t.who) \notin out  BY <1>2, <1>3 DEF NobodyOut, Welcome, canAcceptAuthSession
  <2>5. bearer' \notin out /\ user' \in {None, bearer'} /\ user' \notin out
    BY <2>1, <2>3, <2>4, <1>3 DEF NobodyOut
  <2> QED BY <1>5, <2>2, <2>5
<1>8. CASE InitMeFails(t)
  <2> DEFINE r == Request(t.n, t.try + 1, bearer)
  <2>1. /\ tasks' = IF MayRetry(t) THEN (tasks \ {t}) \cup {r} ELSE tasks \ {t}
        /\ MayRetry(t) => user' = user
        /\ ~MayRetry(t) => InitEnds(t.n, None, bearer)
        /\ bearer' = bearer
    BY <1>8 DEF InitMeFails, tab
  <2>2. r.kind \in {"exchanging", "me"} /\ (~sticky => r.who \notin out)
    BY DEF Request, NobodyOut
  <2>3. SignIns' = {} /\ Current' = {} /\ Loads' \subseteq {r}
    BY <2>1, <2>2, <1>2, <1>4 DEF SignIns, Current, Loads
  <2>4. user' = None  BY <2>1, <1>2, EndsWith
  <2>5. bearer' \notin out  BY <2>1 DEF NobodyOut
  <2> QED BY <1>3, <1>5, <2>2, <2>3, <2>4, <2>5
<1> QED BY <1>6, <1>7, <1>8

\* The steps of signing in.
LEMMA SignInSteps ==
  ASSUME IInv, NEW t \in tasks, LoginAnswer(t) \/ LoginMe(t) \/ VerifyAnswer(t)
  PROVE  Orderly'
<1> USE DEF IInv, Orderly
<1>1. t.kind \in {"login", "verify", "loginMe"}  BY DEF LoginAnswer, LoginMe, VerifyAnswer
<1>2. SignIns = {t} /\ Loads = {} /\ user = None /\ (t.kind # "loginMe" => Current = {})
  BY <1>1, SignInAlone
<1>3. None \notin out  BY NoneAssumption DEF TypeOK
<1>4. t.who \in Users /\ t.who # None
  BY <1>1, Shapes, NoneAssumption DEF TypeOK, SignInTask
<1>5. epoch' = epoch  BY DEF LoginAnswer, LoginMe, VerifyAnswer
<1>6. CASE LoginAnswer(t)
  <2>1. t.kind = "login" /\ Current = {} /\ user' = None /\ second = None
    BY <1>6, <1>2 DEF LoginAnswer, OneAtATime
  <2> DEFINE r == [kind |-> "loginMe", who |-> t.who]
  <2>2. CASE tasks' = (tasks \ {t}) \cup {r} /\ UNCHANGED second /\ cookie' = t.who /\ bearer' = t.who
               /\ provider' \in {None, t.who} /\ out' = out \ {t.who}
    <3>1. SignIns' = {r} /\ Loads' = {} /\ Current' = {}
      BY <2>1, <2>2, <1>2, <1>5 DEF SignIns, Loads, Current
    <3> QED BY <3>1, <2>1, <2>2, <1>3 DEF OneAtATime, NobodyOut, SameUser
  <2>3. CASE tasks' = tasks \ {t} /\ UNCHANGED <<cookie, provider, bearer, sticky, out>>
    <3>1. SignIns' = {} /\ Loads' = {} /\ Current' = {}
      BY <2>1, <2>3, <1>2, <1>5 DEF SignIns, Loads, Current
    <3> QED BY <3>1, <2>1, <2>3, <1>3 DEF OneAtATime, NobodyOut, SameUser
  <2> QED BY <2>2, <2>3, <1>6 DEF LoginAnswer, browser, tab
<1>7. CASE LoginMe(t)
  <2>1. /\ tasks' = tasks \ {t}
        /\ \/ user' = t.who /\ bearer' = t.who
           \/ user' = None /\ bearer' = bearer
        /\ UNCHANGED <<cookie, provider, sticky, out>> /\ t.kind = "loginMe"
    BY <1>7, Zenon DEF LoginMe, browser
  <2>2. SignIns' = {} /\ Loads' = {} /\ Current' = Current
    BY <2>1, <1>2, <1>5 DEF SignIns, Loads, Current
  <2>3. t.who \notin out /\ \A e \in Current : e.who = t.who
    BY <2>1, <1>2 DEF NobodyOut, SameUser
  <2> QED BY <2>1, <2>2, <2>3, <1>2, <1>3 DEF OneAtATime, NobodyOut, SameUser
<1>8. CASE VerifyAnswer(t)
  <2> DEFINE r == Request(latest + 1, 1, t.who)
  <2>1. t.kind = "verify" /\ Current = {} /\ UNCHANGED <<user, sticky, provider>>
    BY <1>8, <1>2 DEF VerifyAnswer
  <2>2. r.kind = "me" /\ r.who = t.who  BY <1>4 DEF Request
  <2>3. CASE /\ cookie' = t.who /\ bearer' = t.who /\ out' = out \ {t.who}
             /\ tasks' \in {tasks \ {t}, (tasks \ {t}) \cup {r}}
    <3>1. SignIns' = {} /\ Loads' \subseteq {r} /\ Current' = {}
      BY <2>1, <2>2, <2>3, <1>2, <1>5 DEF SignIns, Loads, Current
    <3> QED BY <3>1, <2>1, <2>2, <2>3, <1>2, <1>3 DEF OneAtATime, NobodyOut, SameUser
  <2>4. CASE tasks' = tasks \ {t} /\ UNCHANGED <<cookie, bearer, out>>
    <3>1. SignIns' = {} /\ Loads' = {} /\ Current' = {}
      BY <2>1, <2>4, <1>2, <1>5 DEF SignIns, Loads, Current
    <3> QED BY <3>1, <2>1, <2>4, <1>2, <1>3 DEF OneAtATime, NobodyOut, SameUser
  <2> QED BY <2>3, <2>4, <1>8 DEF VerifyAnswer, StartInit
<1> QED BY <1>6, <1>7, <1>8

\* What the person does, without overlapping a start-up.
LEMMA PersonSteps ==
  ASSUME IInv, MayRush = FALSE,
         (\E u \in Users : Login(u)) \/ VerifyTwoFactor \/ BackToPassword \/ Logout \/ FetchApi
  PROVE  Orderly'
<1> USE DEF IInv, Orderly
<1>1. None \notin out  BY NoneAssumption DEF TypeOK
<1>2. FormShows => Loads = {} /\ Current = {} /\ user = None
  BY DEF FormShows, Inits, Loads, Current
<1>3. ASSUME NEW u \in Users, Login(u) PROVE Orderly'
  <2> DEFINE r == [kind |-> "login", who |-> u]
  <2>1. /\ FormShows /\ second = None /\ tasks' = tasks \cup {r}
        /\ UNCHANGED <<user, bearer, sticky, second, cookie, provider, out, epoch>>
    BY <1>3 DEF Login, tab, browser
  <2>2. SignIns = {}  BY <1>3, <2>1 DEF Login, InFlight, SignIns, OneAtATime
  <2>3. SignIns' = {r} /\ Loads' = {} /\ Current' = {}
    BY <2>1, <2>2, <1>2 DEF SignIns, Loads, Current
  <2> QED BY <2>1, <2>3, <1>2 DEF OneAtATime, NobodyOut, SameUser
<1>4. CASE VerifyTwoFactor
  <2> DEFINE r == [kind |-> "verify", who |-> second]
  <2>1. /\ FormShows /\ second # None /\ tasks' = tasks \cup {r}
        /\ UNCHANGED <<user, bearer, sticky, second, cookie, provider, out, epoch>>
    BY <1>4 DEF VerifyTwoFactor, tab, browser
  <2>2. SignIns = {}  BY <1>4, <2>1 DEF VerifyTwoFactor, InFlight, SignIns, OneAtATime
  <2>3. SignIns' = {r} /\ Loads' = {} /\ Current' = {}
    BY <2>1, <2>2, <1>2 DEF SignIns, Loads, Current
  <2> QED BY <2>1, <2>3, <1>2 DEF OneAtATime, NobodyOut, SameUser
<1>5. CASE BackToPassword
  <2>1. /\ FormShows /\ second # None /\ second' = None
        /\ UNCHANGED <<user, bearer, sticky, tasks, cookie, provider, out, epoch>>
    BY <1>5 DEF BackToPassword, page, browser
  <2>2. SignIns = {}  BY <1>5, <2>1 DEF BackToPassword, InFlight, SignIns, OneAtATime
  <2>3. SignIns' = {} /\ Loads' = {} /\ Current' = {}
    BY <2>1, <2>2, <1>2 DEF SignIns, Loads, Current
  <2> QED BY <2>1, <2>3, <1>2 DEF OneAtATime, NobodyOut, SameUser
<1>6. CASE Logout
  <2> DEFINE r == [kind |-> "logout", epoch |-> epoch + 1]
  <2>1. /\ tasks' = tasks \cup {r} /\ epoch' = epoch + 1 /\ sticky' = TRUE
        /\ user' = None /\ bearer' = None
    BY <1>6, Zenon DEF Logout
  <2>2. SignIns = {}  BY <1>6 DEF Logout, InFlight, SignIns
  <2>3. None \notin out'  BY <1>6, <1>1 DEF Logout
  <2>4. SignIns' = {} /\ Loads' = Loads  BY <2>1, <2>2 DEF SignIns, Loads
  <2>5. Current' = {}
    <3> SUFFICES ASSUME NEW t \in tasks, t.kind = "exchange" PROVE t.epoch # epoch + 1
      BY <2>1 DEF Current
    <3>1. t.epoch \in Nat  BY Shapes DEF TypeOK, ExchangeTask
    <3>2. t.epoch <= epoch  BY DEF Epochs
    <3> QED BY <3>1, <3>2 DEF TypeOK
  <2> QED BY <2>1, <2>3, <2>4, <2>5 DEF OneAtATime, NobodyOut, SameUser
<1>7. CASE FetchApi
  <2> DEFINE r == [kind |-> "exchange", epoch |-> epoch, who |-> provider]
  <2>1. /\ ~sticky /\ bearer = None /\ provider # None /\ tasks' = tasks \cup {r}
        /\ Inits = {} /\ ~InFlight("login") /\ ~InFlight("verify")
        /\ UNCHANGED <<user, bearer, sticky, second, cookie, provider, out, epoch>>
    BY <1>7 DEF FetchApi, canAcceptAuthSession, tab, browser
  <2>2. Loads = {} /\ Current = {} /\ user = None
    BY <2>1 DEF Inits, Loads, Current, SameUser
  <2>3. SignIns' = SignIns /\ Loads' = {} /\ Current' = {r}
    BY <2>1, <2>2 DEF SignIns, Loads, Current
  <2>4. \A s \in SignIns : s.kind = "loginMe"  BY <2>1 DEF InFlight, SignIns
  <2>5. OneAtATime'  BY <2>1, <2>2, <2>3, <2>4 DEF OneAtATime
  <2>6. NobodyOut'  BY <2>1, <2>3 DEF NobodyOut
  <2>7. SameUser'  BY <2>1, <2>2, <2>3, <2>4 DEF SameUser
  <2> QED BY <2>5, <2>6, <2>7
<1> QED BY <1>3, <1>4, <1>5, <1>6, <1>7

\* Answers of exchanges in the background, and of sign-outs.
LEMMA OtherAnswers ==
  ASSUME IInv, NEW t \in tasks, ExchangeAnswer(t) \/ LogoutAnswer(t)
  PROVE  Orderly'
<1> USE DEF IInv, Orderly
<1>1. None \notin out  BY NoneAssumption DEF TypeOK
<1>2. CASE ExchangeAnswer(t)
  <2>1. /\ t.kind = "exchange" /\ tasks' = tasks \ {t} /\ bearer' \in {bearer, Exchanged(t)}
        /\ UNCHANGED <<user, sticky, second, cookie, provider, out, epoch>>
    BY <1>2 DEF ExchangeAnswer, browser
  <2>2. SignIns' = SignIns /\ Loads' = Loads /\ Current' = Current \ {t}
    BY <2>1 DEF SignIns, Loads, Current
  <2>3. bearer' # bearer => ~sticky /\ t \in Current /\ bearer' = t.who
    BY <2>1 DEF Exchanged, canAcceptAuthSession, isStaleLogoutEpoch, Current
  <2>4. OneAtATime'  BY <2>1, <2>2 DEF OneAtATime
  <2>5. NobodyOut'  BY <2>1, <2>2, <2>3 DEF NobodyOut
  <2>6. SameUser'  BY <2>1, <2>2, <2>3 DEF SameUser
  <2> QED BY <2>4, <2>5, <2>6
<1>3. CASE LogoutAnswer(t)
  <2>1. /\ t.kind = "logout" /\ tasks' \in {tasks \ {t}, (tasks \ {t}) \cup {[kind |-> "leave"]}}
        /\ user' = None /\ bearer' = None /\ UNCHANGED <<sticky, second, out, epoch>>
        /\ cookie' \in {None, cookie} /\ provider' \in {None, provider}
    BY <1>3 DEF LogoutAnswer, browser
  <2>2. SignIns' = SignIns /\ Loads' = Loads /\ Current' = Current
    BY <2>1 DEF SignIns, Loads, Current
  <2>3. OneAtATime'  BY <2>1, <2>2 DEF OneAtATime
  <2>4. NobodyOut'  BY <2>1, <2>2, <1>1 DEF NobodyOut
  <2>5. SameUser'  BY <2>1, <2>2 DEF SameUser
  <2> QED BY <2>3, <2>4, <2>5
<1> QED BY <1>2, <1>3

\* A page load: one init at most is under way after it.
LEMMA LoadSteps ==
  ASSUME IInv, Reload \/ NewTab \/ (\E t \in tasks : Leave(t))
  PROVE  Orderly'
<1> USE DEF IInv, Orderly
<1>1. None \notin out  BY NoneAssumption DEF TypeOK
<1>2. ASSUME NEW b, NEW s \in BOOLEAN, Load(b, s), bearer' = b, sticky' = s,
             b \notin out', ~s => cookie' \notin out' /\ provider' \notin out', None \notin out'
      PROVE  Orderly'
  <2>1. /\ user' = None
        /\ \A r \in tasks' : /\ ~s /\ tasks' = {r} /\ r.kind \in {"exchanging", "me"}
                            /\ r.who \in {provider', b, cookie'}
    BY <1>2 DEF Load
  <2>2. SignIns' = {} /\ Current' = {} /\ Loads' = tasks'
    BY <2>1 DEF SignIns, Current, Loads
  <2>3. OneAtATime'  BY <2>1, <2>2 DEF OneAtATime
  <2>4. NobodyOut'  BY <1>2, <2>1, <2>2 DEF NobodyOut
  <2>5. SameUser'  BY <2>1, <2>2 DEF SameUser
  <2> QED BY <2>3, <2>4, <2>5
<1>3. CASE Reload \/ (\E t \in tasks : Leave(t))
  <2>1. Load(bearer, sticky) /\ out' = out \ ({cookie'} \ {cookie}) /\ bearer' = bearer /\ sticky' = sticky
    BY <1>3 DEF Reload, Leave, tab
  <2>2. provider' = provider  BY <2>1 DEF Load
  <2> QED BY <1>1, <1>2, <2>1, <2>2 DEF NobodyOut, TypeOK
<1>4. CASE NewTab
  BY <1>2, <1>4 DEF NewTab
<1> QED BY <1>3, <1>4

LEMMA OrderlyStep == ASSUME IInv, MayRush = FALSE, [Next]_vars PROVE IInv'
<1>1. Barrier'  BY BarrierStep DEF IInv, Barrier
<1>2. Orderly'
  <2>1. CASE UNCHANGED vars
    BY <2>1 DEF IInv, Orderly, OneAtATime, NobodyOut, SameUser, SignIns, Loads, Current, vars, page, tab, browser
  <2> QED BY <2>1, StartSteps, SignInSteps, PersonSteps, OtherAnswers, LoadSteps DEF Next, Answer, Person
<1> QED BY <1>1, <1>2 DEF IInv, Barrier

LEMMA OrderlyInit == ASSUME Init PROVE IInv
<1>1. TypeOK  BY InitTyped
<1>2. Epochs /\ BarrierIsUp  BY DEF Init, Request, Epochs, BarrierIsUp
<1>3. SignIns = {} /\ Current = {} /\ Loads = {Request(0, 1, None)}
  BY DEF Init, Request, SignIns, Current, Loads
<1>4. Orderly  BY <1>3 DEF Init, Orderly, OneAtATime, NobodyOut, SameUser
<1> QED BY <1>1, <1>2, <1>4 DEF IInv

\* Whoever signed out in this tab stays out until they give their password again, whatever was under
\* way and however it answers, if signing in and out wait for a start-up under way.
THEOREM SignedOutForGood == ASSUME MayRush = FALSE PROVE Spec => []LoggedOutStaysOut
<1>1. Init => IInv  BY OrderlyInit
<1>2. IInv /\ [Next]_vars => IInv'  BY OrderlyStep
<1>3. IInv => LoggedOutStaysOut
  BY NoneAssumption DEF IInv, Orderly, NobodyOut, LoggedOutStaysOut
<1> QED BY <1>1, <1>2, <1>3, PTL DEF Spec

\* Requests are sent as the user on screen: no exchange or account request that answers late gives
\* them somebody else's token, under the same hypothesis.
THEOREM SentAsUser == ASSUME MayRush = FALSE PROVE Spec => []TokenIsOfUser
<1>1. Init => IInv  BY OrderlyInit
<1>2. IInv /\ [Next]_vars => IInv'  BY OrderlyStep
<1>3. IInv => TokenIsOfUser  BY DEF IInv, Orderly, SameUser, TokenIsOfUser
<1> QED BY <1>1, <1>2, <1>3, PTL DEF Spec
=============================================================================
