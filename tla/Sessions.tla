------------------------------- MODULE Sessions -----------------------------
(***************************************************************************)
(* Who is signed in, as the tabs of one browser share it in localStorage   *)
(* (src/frontend/src/services/auth.ts), what a refused request does to it  *)
(* (services/api.ts), and the pages and route guards that read it.  The    *)
(* token and the user are written and removed together; a session is known *)
(* by its number, and a refused request loads its tab anew.                *)
(***************************************************************************)
EXTENDS Naturals, Sequences, FiniteSets

CONSTANTS
  Tab,
  MaxSession, \* bound: sign-ins
  MaxSent     \* bound: requests of a tab on their way

VARIABLES
  role,    \* the role of each session there was
  session,  \* the session in localStorage, 0 if none
  expired, \* the sessions whose token is no longer good
  at,      \* the page of each tab
  flag,    \* session_expired in sessionStorage, which each tab has of its own
  says,    \* the login page of the tab says "Session expired"
  requests,   \* the requests on their way: their tab and the session they were sent with
  refused  \* the last request answered to the tab since it left a login page was refused (history)

sessionVars == <<role, session, expired, at, flag, says, requests, refused>>

Role       == {"CLIENT", "ADMIN", "AGGREGATOR"}
LoginPages == {"login", "adminLogin"}
Accounts   == {"signup", "setPassword", "forgotPassword", "resetPassword"}
Portals    == {"client", "admin", "aggregator"}

SessionInit ==
  /\ role = <<>> /\ session = 0 /\ expired = {}
  /\ at = [t \in Tab |-> "login"]
  /\ flag = [t \in Tab |-> FALSE] /\ says = [t \in Tab |-> FALSE]
  /\ requests = {} /\ refused = [t \in Tab |-> FALSE]

-----------------------------------------------------------------------------
(* The route guards: the page shown to session s that asks for page p.     *)

ProtectedRoute(s) == IF s.is = "NONE" THEN "login" ELSE "client"

AdminRoute(s) == CASE s.is = "NONE"  -> "adminLogin"
                   [] s.is = "ADMIN" -> "admin"
                   [] OTHER          -> "login"

AggregatorRoute(s) == CASE s.is = "NONE"       -> "adminLogin"
                        [] s.is = "AGGREGATOR" -> "aggregator"
                        [] s.is = "ADMIN"      -> "admin"
                        [] OTHER               -> "login"

Shown(p, s) == CASE p = "client"     -> ProtectedRoute(s)
                 [] p = "admin"      -> AdminRoute(s)
                 [] p = "aggregator" -> AggregatorRoute(s)
                 [] OTHER            -> p

User(n, r) == [is |-> IF n = 0 THEN "NONE" ELSE r[n]]
user == User(session, role)

\* Tab t turns to page p with the flag f: a login page takes the flag and says so.
clearSessionExpired(t, p, f) == f /\ p \notin LoginPages

Turn(t, p, f, r) ==
  /\ at' = [at EXCEPT ![t] = p]
  /\ says' = [says EXCEPT ![t] = p \in LoginPages /\ f]
  /\ flag' = [flag EXCEPT ![t] = clearSessionExpired(t, p, f)]
  /\ refused' = [refused EXCEPT ![t] = r]

-----------------------------------------------------------------------------
\* The visitor follows a link of the page.
open(t) ==
  /\ \E p \in Portals \cup LoginPages \cup {"signup", "forgotPassword", "public"} :
       LET q == Shown(p, user)
       IN  q # at[t] /\ Turn(t, q, flag[t], FALSE)
  /\ UNCHANGED <<role, session, expired, requests>>

\* A link of an e-mail loads the tab anew.
openMail(t) ==
  /\ \E p \in {"setPassword", "resetPassword", "login"} :
       Turn(t, p, flag[t], FALSE)
  /\ requests' = {q \in requests : q.tab # t}
  /\ UNCHANGED <<role, session, expired>>

Dashboard(r) == CASE r = "ADMIN"      -> "admin"
                  [] r = "AGGREGATOR" -> "aggregator"
                  [] OTHER            -> "client"

\* Where a sign-in on page p by a user of role r leads; nowhere if the page refuses.
AllToAdmin(p, r) == IF p = "adminLogin" /\ r # "CLIENT" THEN "admin" ELSE Dashboard(r)
Target(p, r) == CASE p = "signup"                       -> "client"
                  [] p = "adminLogin" /\ r = "CLIENT"   -> "adminLogin"
                  [] OTHER                              -> Dashboard(r)

\* The login form, or set-password, which signs in, or signup, which signs a client in.
signIn(t) ==
  /\ at[t] \in LoginPages \cup {"signup", "setPassword"} /\ Len(role) < MaxSession
  /\ \E r \in Role :
       LET p == Target(at[t], r)
           n == Len(role) + 1
       IN  /\ at[t] = "signup" => r = "CLIENT"
           /\ role' = Append(role, r)
           /\ IF p \in LoginPages
                THEN /\ session' = 0
                     /\ UNCHANGED <<at, says, flag, refused>>
                ELSE /\ session' = n
                     /\ Turn(t, Shown(p, User(n, role')), flag[t], FALSE)
  /\ UNCHANGED <<expired, requests>>

\* A new password signs nobody in.
resetPassword(t) ==
  /\ at[t] = "resetPassword"
  /\ Turn(t, "login", flag[t], FALSE)
  /\ UNCHANGED <<role, session, expired, requests>>

logout(t) ==
  /\ at[t] \in Portals \cup {"public"}
  /\ session' = 0
  /\ Turn(t, IF at[t] \in {"admin", "aggregator"} THEN "adminLogin" ELSE "login", flag[t], FALSE)
  /\ UNCHANGED <<role, expired, requests>>

-----------------------------------------------------------------------------
(* Requests.                                                               *)

\* A page asks with the token there is now, whoever had the page opened.
request(t) ==
  /\ at[t] \in Portals
  /\ Cardinality({q \in requests : q.tab = t}) < MaxSent
  /\ requests' = requests \cup {[tab |-> t, as |-> session]}
  /\ UNCHANGED <<role, session, expired, at, flag, says, refused>>

expire ==
  /\ \E n \in 1..Len(role) \ expired : expired' = expired \cup {n}
  /\ UNCHANGED <<role, session, at, flag, says, requests, refused>>

accepted(q) ==
  /\ q \in requests /\ q.as # 0
  /\ requests' = requests \ {q}
  /\ UNCHANGED <<role, session, expired, at, flag, says, refused>>

LoginUrl(t) == IF at[t] \in {"admin", "adminLogin"} THEN "adminLogin" ELSE "login"

unauthorized(q) ==
  /\ q \in requests /\ q.as \in expired \cup {0}
  /\ requests' = {p \in requests : p.tab # q.tab}
  /\ session' = 0
  /\ Turn(q.tab, LoginUrl(q.tab), TRUE, TRUE)
  /\ UNCHANGED <<role, expired>>

SessionNext ==
  \/ \E t \in Tab : \/ open(t) \/ openMail(t) \/ signIn(t) \/ resetPassword(t) \/ logout(t)
                    \/ request(t)
  \/ expire
  \/ \E q \in requests : accepted(q) \/ unauthorized(q)

-----------------------------------------------------------------------------
(* Properties.                                                             *)

\* A tab says that the session expired on the login page that a refused request of its
\* own led to, once, and never on a later login page or in another tab.
SaidOnce == \A t \in Tab : says[t] => refused[t]

\* Whoever signs in is let in: no guard sends the page that the sign-in opens back to a
\* login page, or to the portal of others.
SignInLetsIn ==
  session' \notin {0, session} =>
    \E t \in Tab : at'[t] = Dashboard(role'[session']) /\ at[t] \notin Portals

=============================================================================
