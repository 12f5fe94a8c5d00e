----------------------------- MODULE AuthSession -----------------------------
(***************************************************************************)
(* Who is signed in, in one tab of a browser: signing in, with or without a  *)
(* second step, signing out, reloading, and everything that was under way    *)
(* when one of them happened. The logout barrier (logoutBarrier.ts) decides   *)
(* which late answers may still sign somebody in.                             *)
(*                                                                           *)
(* A token is the user it is of.                                              *)
(***************************************************************************)
EXTENDS Integers, FiniteSets

CONSTANTS Users, None,
          Attempts,   \* maxAttempts of fetchMeWithRetry
          MayRush,    \* TRUE: signing in overlaps an init or an exchange that is under way
          MaxOps,     \* bound: what the person does
          MaxFaults   \* bound: answers that fail

ASSUME NoneAssumption == None \notin Users
ASSUME AttemptsAssumption == Attempts \in Nat \ {0}

VARIABLES
  user, loading,      \* the store: user, authLoading
  epoch, inProgress,  \* logoutBarrier: logoutEpoch, logoutInProgress
  latest, cancelled,  \* cancelActiveInit: the init it cancels, those it cancelled
  tasks,              \* what is under way in this page
  bearer, sticky, second,   \* sessionStorage: the token, the logout flag, the second step
  cookie, provider,   \* of the browser: auth_token, and the provider's own session (EE)
  ee,                 \* edition
  ops, faults,
  out                 \* history: who signed out in this tab, and has not signed in since

page == <<user, loading, epoch, inProgress, latest, cancelled, tasks>>
tab == <<bearer, sticky, second>>
browser == <<cookie, provider>>
vars == <<page, tab, browser, ee, ops, faults, out>>

Someone == Users \cup {None}
Act == ops < MaxOps /\ ops' = ops + 1
InFlight(kind) == \E t \in tasks : t.kind = kind
\* What may still bring an account or a token. The exchange for a request that a sign-out has
\* overtaken may not, and signing in does not wait for it.
Inits == {t \in tasks : t.kind \in {"exchanging", "me"} \/ (t.kind = "exchange" /\ t.epoch = epoch)}

canAcceptAuthSession == ~inProgress /\ ~sticky
isStaleLogoutEpoch(at) == at # epoch

-----------------------------------------------------------------------------
(* init: fetchMeWithRetry and what is made of it *)

\* The init n goes on to its next request, given what the barrier and the token are by then: to the
\* exchange of the provider's session if there is no token, else to /auth/me.
Request(n, try, b) ==
  IF b = None /\ provider # None
  THEN [kind |-> "exchanging", n |-> n, try |-> try, epoch |-> epoch, who |-> provider]
  ELSE [kind |-> "me", n |-> n, try |-> try, who |-> IF b # None THEN b ELSE cookie]

\* Mutated form: a tab without anybody is not told that it has loaded.
InitEnds_OnlyUsers(n, who, b) ==
  IF n \notin cancelled /\ canAcceptAuthSession /\ who # None
  THEN loading' = FALSE /\ user' = who
  ELSE UNCHANGED <<user, loading>>

\* The result of an init that was not cancelled, unless somebody signed out.
InitEnds(n, who, b) ==
  IF n \notin cancelled /\ canAcceptAuthSession
  THEN /\ loading' = FALSE
       /\ user' = IF who # None THEN who ELSE IF b # None THEN user ELSE None
  ELSE UNCHANGED <<user, loading>>

\* A new init, in a page that has the tasks ts; b is the token by then.
StartInit(ts, n, b) ==
  /\ latest' = n
  /\ tasks' = IF canAcceptAuthSession THEN ts \cup {Request(n, 1, b)} ELSE ts

\* Mutated form: the exchange only asks whether somebody is signing out now.
Exchanged_NoEpoch(t) == IF canAcceptAuthSession THEN t.who ELSE bearer

\* The token after the answer of an exchange: one that a sign-out overtook is dropped.
Exchanged(t) == IF canAcceptAuthSession /\ ~isStaleLogoutEpoch(t.epoch) THEN t.who ELSE bearer

InitExchange(t) ==
  /\ t.kind = "exchanging"
  /\ \/ bearer' = Exchanged(t) /\ UNCHANGED <<second, faults>>
     \/ second' = (IF Exchanged(t) = t.who THEN t.who ELSE second) /\ UNCHANGED <<bearer, faults>>
     \/ faults < MaxFaults /\ faults' = faults + 1 /\ UNCHANGED <<bearer, second>>
  /\ IF canAcceptAuthSession
     THEN /\ tasks' = (tasks \ {t}) \cup
               {[kind |-> "me", n |-> t.n, try |-> t.try, who |-> IF bearer' # None THEN bearer' ELSE cookie]}
          /\ UNCHANGED <<user, loading>>
     ELSE tasks' = tasks \ {t} /\ InitEnds(t.n, None, bearer)
  /\ UNCHANGED <<epoch, inProgress, latest, cancelled, sticky, browser, ee, ops, out>>

\* Mutated form: the answer is used whatever happened meanwhile.
Welcome_Always(who) == who

\* Whom an answer of /auth/me signs in.
Welcome(who) == IF canAcceptAuthSession THEN who ELSE None

InitMe(t) ==
  /\ t.kind = "me"
  /\ tasks' = tasks \ {t}
  /\ bearer' = IF Welcome(t.who) # None THEN Welcome(t.who) ELSE bearer
  /\ InitEnds(t.n, Welcome(t.who), bearer')
  /\ UNCHANGED <<epoch, inProgress, latest, cancelled, sticky, second, browser, ee, ops, faults, out>>

\* Mutated form: one try too many.
MayRetry_OneMore(t) == t.try <= Attempts /\ canAcceptAuthSession

\* A timeout or a server error is tried again, a few times.
MayRetry(t) == t.try < Attempts /\ canAcceptAuthSession

InitMeFails(t) ==
  /\ t.kind = "me" /\ faults < MaxFaults /\ faults' = faults + 1
  /\ IF MayRetry(t)
     THEN tasks' = (tasks \ {t}) \cup {Request(t.n, t.try + 1, bearer)} /\ UNCHANGED <<user, loading>>
     ELSE tasks' = tasks \ {t} /\ InitEnds(t.n, None, bearer)
  /\ UNCHANGED <<epoch, inProgress, latest, cancelled, tab, browser, ee, ops, out>>

Init ==
  /\ ee \in BOOLEAN
  /\ user = None /\ loading = TRUE /\ epoch = 0 /\ inProgress = FALSE
  /\ bearer = None /\ sticky = FALSE /\ second = None
  /\ cookie \in Someone /\ provider = (IF ee THEN cookie ELSE None)
  /\ latest = 0 /\ cancelled = {} /\ tasks = {Request(0, 1, None)}
  /\ ops = 0 /\ faults = 0 /\ out = {}

-----------------------------------------------------------------------------
(* Any other request: without a token it exchanges the provider's session first *)

FetchApi ==
  /\ Act
  /\ canAcceptAuthSession /\ bearer = None /\ provider # None
  /\ ~InFlight("exchange")
  /\ MayRush \/ (Inits = {} /\ ~InFlight("login") /\ ~InFlight("verify"))
  /\ tasks' = tasks \cup {[kind |-> "exchange", epoch |-> epoch, who |-> provider]}
  /\ UNCHANGED <<user, loading, epoch, inProgress, latest, cancelled, tab, browser, ee, faults, out>>

ExchangeAnswer(t) ==
  /\ t.kind = "exchange"
  /\ bearer' \in {bearer, Exchanged(t)}
  /\ tasks' = tasks \ {t}
  /\ UNCHANGED <<user, loading, epoch, inProgress, latest, cancelled, sticky, second, browser, ee, ops, faults, out>>

-----------------------------------------------------------------------------
(* Signing in: the form is there once the page has loaded and shows nobody *)

FormShows == ~loading /\ user = None /\ ~InFlight("leave") /\ (MayRush \/ Inits = {})

Login(u) ==
  /\ Act
  /\ FormShows /\ second = None
  /\ ~InFlight("login") /\ ~InFlight("loginMe")
  /\ tasks' = tasks \cup {[kind |-> "login", who |-> u]}
  /\ UNCHANGED <<user, loading, epoch, inProgress, latest, cancelled, tab, browser, ee, faults, out>>

\* The server sets the cookie with its answer. A wrong password changes nothing.
LoginAnswer(t) ==
  /\ t.kind = "login"
  /\ \/ /\ cookie' = t.who /\ bearer' = t.who /\ provider' = (IF ee THEN t.who ELSE None)
        /\ sticky' = FALSE /\ out' = out \ {t.who}
        /\ tasks' = (tasks \ {t}) \cup {[kind |-> "loginMe", who |-> t.who]}
        /\ UNCHANGED second
     \/ /\ second' = t.who
        /\ tasks' = tasks \ {t} /\ UNCHANGED <<browser, bearer, sticky, out>>
     \/ tasks' = tasks \ {t} /\ UNCHANGED <<browser, tab, out>>
  /\ UNCHANGED <<user, loading, epoch, inProgress, latest, cancelled, ee, ops, faults>>

\* The account is asked for with the token there is by then; without an answer nobody is signed in.
LoginMe(t) ==
  /\ t.kind = "loginMe"
  /\ \/ user' = t.who /\ bearer' = t.who /\ UNCHANGED faults
     \/ faults < MaxFaults /\ faults' = faults + 1 /\ user' = None /\ UNCHANGED bearer
  /\ tasks' = tasks \ {t}
  /\ UNCHANGED <<loading, epoch, inProgress, latest, cancelled, sticky, second, browser, ee, ops, out>>

VerifyTwoFactor ==
  /\ Act
  /\ FormShows /\ second # None /\ ~InFlight("verify")
  /\ tasks' = tasks \cup {[kind |-> "verify", who |-> second]}
  /\ UNCHANGED <<user, loading, epoch, inProgress, latest, cancelled, tab, browser, ee, faults, out>>

\* The code is right, and an init is to do the rest; or it is wrong, or too late.
VerifyAnswer(t) ==
  /\ t.kind = "verify"
  /\ \/ /\ cookie' = t.who /\ bearer' = t.who /\ second' = None /\ out' = out \ {t.who}
        /\ StartInit(tasks \ {t}, latest + 1, t.who)
     \/ second' \in {second, None} /\ tasks' = tasks \ {t} /\ UNCHANGED <<cookie, bearer, out, latest>>
  /\ UNCHANGED <<user, loading, epoch, inProgress, cancelled, sticky, provider, ee, ops, faults>>

BackToPassword ==
  /\ Act
  /\ FormShows /\ second # None /\ ~InFlight("verify") /\ second' = None
  /\ UNCHANGED <<page, bearer, sticky, browser, ee, faults, out>>

-----------------------------------------------------------------------------
(* Signing out *)

\* From the menu, or by the page /logout, which anybody may open. The latest init is
\* cancelled.
Logout ==
  /\ Act
  /\ {user, bearer, cookie, provider} # {None}
  /\ MayRush \/ ~(InFlight("login") \/ InFlight("loginMe") \/ InFlight("verify"))
  /\ epoch' = epoch + 1 /\ inProgress' = TRUE /\ sticky' = TRUE
  /\ cancelled' = cancelled \cup {latest}
  /\ bearer' = None /\ second' = None /\ user' = None /\ loading' = FALSE
  /\ tasks' = tasks \cup {[kind |-> "logout", epoch |-> epoch + 1]}
  /\ out' = out \cup ({user, bearer, cookie, provider} \ {None})
  /\ UNCHANGED <<latest, browser, ee, faults>>

\* Mutated form: any logout that ends lifts the barrier.
EndLogout_Any(at) == inProgress' = FALSE

EndLogout(at) == inProgress' = (inProgress /\ at # epoch)

\* Whether or not the server heard of it. The menu stays in the page, unless the request failed; the
\* page /logout leaves for /login by loading it, unless the person went elsewhere meanwhile.
LogoutAnswer(t) ==
  /\ t.kind = "logout"
  /\ \/ cookie' = None /\ provider' = None /\ UNCHANGED faults
     \/ faults < MaxFaults /\ faults' = faults + 1 /\ UNCHANGED browser
  /\ bearer' = None /\ user' = None /\ loading' = FALSE
  /\ EndLogout(t.epoch)
  /\ tasks' \in {tasks \ {t}, (tasks \ {t}) \cup {[kind |-> "leave"]}}
  /\ UNCHANGED <<epoch, latest, cancelled, sticky, second, ee, ops, out>>

-----------------------------------------------------------------------------
(* The page is loaded anew; a new tab has a sessionStorage of its own *)

\* The page starts anew, with the token b and the logout flag s of its tab. A request that was out may
\* have reached the server all the same.
Load(b, s) ==
  /\ user' = None /\ loading' = TRUE /\ epoch' = 0 /\ inProgress' = FALSE
  /\ latest' = 0 /\ cancelled' = {}
  /\ \/ UNCHANGED cookie
     \/ InFlight("logout") /\ cookie' = None
     \/ \E t \in tasks : t.kind \in {"login", "verify"} /\ cookie' = t.who
  /\ tasks' = IF s THEN {} ELSE
       {IF b = None /\ provider # None
        THEN [kind |-> "exchanging", n |-> 0, try |-> 1, epoch |-> 0, who |-> provider]
        ELSE [kind |-> "me", n |-> 0, try |-> 1, who |-> IF b # None THEN b ELSE cookie']}
  /\ UNCHANGED <<provider, ee, faults>>

Reload ==
  /\ Act
  /\ Load(bearer, sticky)
  /\ out' = out \ ({cookie'} \ {cookie})
  /\ UNCHANGED tab

Leave(t) ==
  /\ t.kind = "leave"
  /\ Load(bearer, sticky)
  /\ out' = out \ ({cookie'} \ {cookie})
  /\ UNCHANGED <<tab, ops>>

NewTab ==
  /\ Act
  /\ bearer' = None /\ sticky' = FALSE /\ second' = None /\ out' = {}
  /\ Load(None, FALSE)

-----------------------------------------------------------------------------
Answer(t) ==
  \/ InitExchange(t) \/ InitMe(t) \/ InitMeFails(t) \/ ExchangeAnswer(t)
  \/ LoginAnswer(t) \/ LoginMe(t) \/ VerifyAnswer(t) \/ LogoutAnswer(t) \/ Leave(t)

Person ==
  \/ \E u \in Users : Login(u)
  \/ VerifyTwoFactor \/ BackToPassword \/ Logout \/ FetchApi \/ Reload \/ NewTab

Next == Person \/ \E t \in tasks : Answer(t)

\* Every request is answered, or fails: fetch has a timeout.
Spec == Init /\ [][Next]_vars /\ WF_vars(\E t \in tasks : Answer(t))

-----------------------------------------------------------------------------
(* Properties *)

Task ==
  [kind : {"exchanging"}, n : Nat, try : 1..Attempts, epoch : Nat, who : Users]
  \cup [kind : {"me"}, n : Nat, try : 1..Attempts, who : Someone]
  \cup [kind : {"exchange"}, epoch : Nat, who : Users]
  \cup [kind : {"login", "loginMe", "verify"}, who : Users]
  \cup [kind : {"logout"}, epoch : Nat] \cup [kind : {"leave"}]

TypeOK ==
  /\ user \in Someone /\ bearer \in Someone /\ second \in Someone
  /\ cookie \in Someone /\ provider \in Someone
  /\ loading \in BOOLEAN /\ inProgress \in BOOLEAN /\ sticky \in BOOLEAN /\ ee \in BOOLEAN
  /\ epoch \in Nat /\ latest \in Nat /\ cancelled \subseteq Nat /\ tasks \subseteq Task
  /\ out \subseteq Users

\* Whoever signed out in this tab is not signed in again, and no token of theirs is used, until they
\* give their password again: no exchange, init or account request that was under way undoes it.
LoggedOutStaysOut == {user, bearer} \cap out = {}

\* The requests are sent as the user on screen.
TokenIsOfUser == user # None /\ bearer # None => bearer = user

\* The barrier is up exactly while the last sign-out is under way, however sign-outs overlap.
BarrierIsUp == inProgress <=> \E t \in tasks : t.kind = "logout" /\ t.epoch = epoch

\* A page stops loading, whatever fails, unless somebody signed out in its tab.
LoadingEndsUnlessSignedOut == loading ~> (~loading \/ sticky)

\* A page stops loading: without it neither the sign-in form nor the app is rendered.
LoadingEnds == loading ~> ~loading
=============================================================================
