-------------------------------- MODULE Login --------------------------------
(***************************************************************************)
(* Logging in to the console and out of it (console/server.js, auth.js,    *)
(* auth-oauth.js): signed cookies, the tables users and web_sessions, and  *)
(* the gate in front of every other route.                                 *)
(*                                                                         *)
(* A visit is one request, or for a login with GitHub the two that belong  *)
(* together.  A handler runs up to its next query in one step.  Browsers   *)
(* send the cookies they have at that moment, and take up those of a       *)
(* response when it arrives.                                               *)
(***************************************************************************)
EXTENDS Integers, FiniteSets

CONSTANTS
  Browser, Visit,
  Account, Allowed,        \* GitHub's accounts; LIBERTA_ALLOWED_GITHUB_USERS
  None,
  StableSecret,            \* whether LIBERTA_CONSOLE_SECRET is set
  SESSION_TTL, OAUTH_STATE_TTL, windowMs,
  max,                     \* attempts to log in per window
  MaxTime, MaxRestarts     \* bounds

(* What a signed cookie carries; id stands for the sid, wsid or state,     *)
(* which are random and which nobody else has.                             *)
CookieType == [kind : {"password", "oauth", "state"}, id : Visit, exp : Nat, secret : Nat]

ASSUME LoginAssumption ==
  /\ Allowed \subseteq Account
  /\ None \notin Visit \cup Account \cup CookieType
  /\ StableSecret \in BOOLEAN
  /\ {SESSION_TTL, OAUTH_STATE_TTL, windowMs, max, MaxTime, MaxRestarts} \subseteq Nat

VARIABLES
  jar,             \* the cookies of each browser
  visit,
  users,           \* the accounts that have a row
  sessions,        \* the rows of web_sessions
  hits,            \* the attempts the limiter has on its list
  secret,          \* SESSION_SECRET: the boot it was made in
  boots,
  now,
  revoked,         \* history: sessions a logout has deleted
  logins,          \* history: the logins that were granted: when, and under what secret
  compared         \* history: the attempts at which this boot has looked at a password

database == <<users, sessions>>
server   == <<hits, secret, boots, compared>>
past     == <<revoked, logins>>
vars     == <<jar, visit, database, server, now, past>>

NoVisit ==
  [pc |-> "idle", kind |-> "none", account |-> None,
   home |-> None,          \* the browser in which it began
   browser |-> None,       \* the browser it has come from last
   session |-> None,       \* the session cookie sent, and then the one to be set
   clears |-> FALSE,       \* whether the response clears the session cookie
   outcome |-> "none",
   entitled |-> FALSE,     \* history: whether the cookie sent was worth admission
   disturbed |-> FALSE]    \* history: whether something came between

Init ==
  /\ jar = [b \in Browser |-> [session |-> None, state |-> None]]
  /\ visit = [v \in Visit |-> NoVisit]
  /\ users = {} /\ sessions = {}
  /\ hits = {} /\ secret = 0 /\ boots = 0 /\ now = 0
  /\ revoked = {} /\ logins = {} /\ compared = {}

-----------------------------------------------------------------------------
(* auth.js *)

(* makeSignedPayloadCookie *)
Cookie(kind, id, ttl) == [kind |-> kind, id |-> id, exp |-> now + ttl, secret |-> secret]

verifySignedPayloadCookie(cookie) ==
  cookie # None /\ cookie.secret = secret /\ now <= cookie.exp

(* Any payload but one with a wsid will do.                                *)
verifySessionCookie(cookie) ==
  verifySignedPayloadCookie(cookie) /\ cookie.kind # "oauth"

verifyOAuthSessionCookiePayload(cookie) ==
  verifySignedPayloadCookie(cookie) /\ cookie.kind = "oauth"

(* Mutant: a window is too short. *)
RecentLax == {hit \in hits : now - hit.time < windowMs - 1}

(* What the limiter keeps of its list, of which only the length matters.   *)
Recent == {hit \in hits : now - hit.time < windowMs}

-----------------------------------------------------------------------------
(* Visits *)

Goes(v, pc) == visit' = [visit EXCEPT ![v].pc = pc]

(* The response is on its way. *)
Responds(v, outcome) == visit' = [visit EXCEPT ![v].pc = "response", ![v].outcome = outcome, ![v].session = None]

Grants(v, outcome, cookie) ==
  visit' = [visit EXCEPT ![v].pc = "response", ![v].outcome = outcome, ![v].session = cookie]

Grant(v) == [visit |-> v, at |-> now, secret |-> secret]

Sends(v, b, kind, pc) ==
  [NoVisit EXCEPT !.pc = pc, !.kind = kind, !.home = b, !.browser = b, !.session = jar[b].session]

(* Who is at GitHub and needs the state cookie on his return, and who has  *)
(* found no row of an account and is about to insert it.                   *)
Away(b) == {v \in Visit : visit[v].browser = b /\ visit[v].pc = "github"}
Inserting(account) == {v \in Visit : visit[v].account = account /\ visit[v].pc = "insert"}

Disturb(f, S) == [v \in Visit |-> IF v \in S THEN [f[v] EXCEPT !.disturbed = TRUE] ELSE f[v]]

-----------------------------------------------------------------------------
(* Login with GitHub *)

(* GET /auth/github *)
Begin(v, b) ==
  /\ visit[v].pc = "idle"
  /\ visit' = Disturb([visit EXCEPT ![v] = Sends(v, b, "oauth", "github")], Away(b))
  /\ jar' = [jar EXCEPT ![b].state = Cookie("state", v, OAUTH_STATE_TTL)]
  /\ UNCHANGED <<database, server, now, past>>

(* Mutant: any state will do. *)
AnyState(b, v) == verifySignedPayloadCookie(jar[b].state)

GoodState(b, v) == verifySignedPayloadCookie(jar[b].state) /\ jar[b].state.id = v

(* GET /auth/github/callback: GitHub has sent the user back, and the link  *)
(* may have been opened in another browser.                                *)
Callback(v, b, account) ==
  /\ visit[v].pc = "github"
  /\ visit' = [visit EXCEPT ![v] =
       [@ EXCEPT !.browser = b, !.account = account, !.session = None,
                 !.pc = IF GoodState(b, v) THEN "exchange" ELSE "response",
                 !.outcome = IF GoodState(b, v) THEN "none" ELSE "bad_state",
                 !.disturbed = visit[v].disturbed \/ visit[v].home # b]]
  /\ UNCHANGED <<jar, database, server, now, past>>

(* handleCallback; GitHub may fail. *)
Exchange(v) ==
  /\ visit[v].pc = "exchange"
  /\ \/ visit' = [visit EXCEPT ![v].pc = "response", ![v].outcome = "exchange_failed", ![v].disturbed = TRUE]
     \/ visit[v].account \notin Allowed /\ Responds(v, "not_allowlisted")
     \/ visit[v].account \in Allowed /\ Goes(v, "find")
  /\ UNCHANGED <<jar, database, server, now, past>>

(* Mutant: every login is a first login. *)
NeverFound(v) == FALSE

Found(v) == visit[v].account \in users

FindUser(v) ==
  /\ visit[v].pc = "find"
  /\ Goes(v, IF Found(v) THEN "update" ELSE "insert")
  /\ UNCHANGED <<jar, database, server, now, past>>

(* A table of users that has the account refuses a second row. *)
InsertUser(v) ==
  /\ visit[v].pc = "insert"
  /\ IF visit[v].account \in users
     THEN Responds(v, "exchange_failed") /\ UNCHANGED users
     ELSE /\ visit' = Disturb([visit EXCEPT ![v].pc = "open"], Inserting(visit[v].account) \ {v})
          /\ users' = users \cup {visit[v].account}
  /\ UNCHANGED <<jar, sessions, server, now, past>>

UpdateUser(v) ==
  /\ visit[v].pc = "update"
  /\ Goes(v, "open")
  /\ UNCHANGED <<jar, database, server, now, past>>

OpenSession(v) ==
  /\ visit[v].pc = "open"
  /\ sessions' = sessions \cup {[id |-> v, user |-> visit[v].account, expires_at |-> now + SESSION_TTL]}
  /\ Grants(v, "home", Cookie("oauth", v, SESSION_TTL))
  /\ logins' = logins \cup {Grant(v)}
  /\ UNCHANGED <<jar, users, server, now, revoked>>

(* A query fails, and the handler's catch answers. *)
QueryFails(v) ==
  /\ \/ /\ visit[v].pc \in {"find", "insert", "update", "open"}
        /\ visit' = [visit EXCEPT ![v].pc = "response", ![v].outcome = "exchange_failed", ![v].disturbed = TRUE]
     \/ visit[v].pc \in {"row", "user"} /\ Responds(v, "refused")
     \/ visit[v].pc = "delete" /\ Responds(v, "out")
  /\ UNCHANGED <<jar, database, server, now, past>>

-----------------------------------------------------------------------------
(* Login with the password, and logout *)

(* POST /login *)
LogIn(v, b, right) ==
  LET open    == Cardinality(Recent) < max
      granted == open /\ right
      hit     == [visit |-> v, time |-> now]
  IN
  /\ visit[v].pc = "idle"
  /\ hits' = Recent \cup {hit}
  /\ compared' = IF open THEN compared \cup {hit} ELSE compared
  /\ visit' = [visit EXCEPT ![v] =
       [Sends(v, b, "password", "response") EXCEPT
          !.session = IF granted THEN Cookie("password", v, SESSION_TTL) ELSE None,
          !.outcome = IF ~open THEN "slow_down" ELSE IF right THEN "home" ELSE "wrong"]]
  /\ logins' = IF granted THEN logins \cup {Grant(v)} ELSE logins
  /\ UNCHANGED <<jar, database, secret, boots, now, revoked>>

(* POST /logout *)
LogOut(v, b) ==
  /\ visit[v].pc = "idle"
  /\ visit' = [visit EXCEPT ![v] =
       IF verifyOAuthSessionCookiePayload(jar[b].session)
       THEN [Sends(v, b, "logout", "delete") EXCEPT !.clears = TRUE]
       ELSE [Sends(v, b, "logout", "response") EXCEPT !.clears = TRUE, !.session = None, !.outcome = "out"]]
  /\ UNCHANGED <<jar, database, server, now, past>>

(* Mutant: clearing the cookie is enough. *)
KeepRow(id) == sessions

WithoutRow(id) == {row \in sessions : row.id # id}

DeleteRow(v) ==
  /\ visit[v].pc = "delete"
  /\ sessions' = WithoutRow(visit[v].session.id)
  /\ revoked' = revoked \cup {visit[v].session.id}
  /\ Responds(v, "out")
  /\ UNCHANGED <<jar, users, server, now, logins>>

-----------------------------------------------------------------------------
(* The gate: resolvePrincipal *)

(* The browser has logged in, and the login is not over: whatever its      *)
(* cookie and the tables say.                                              *)
Entitled(b) ==
  \E login \in logins :
    /\ jar[b].session # None /\ jar[b].session.id = login.visit /\ visit[login.visit].home = b
    /\ login.secret = secret /\ now - login.at <= SESSION_TTL
    /\ visit[login.visit].kind = "oauth" => login.visit \notin revoked /\ visit[login.visit].account \in Allowed

Ask(v, b) ==
  LET cookie == jar[b].session IN
  /\ visit[v].pc = "idle"
  /\ visit' = [visit EXCEPT ![v] =
       IF verifyOAuthSessionCookiePayload(cookie)
       THEN [Sends(v, b, "page", "row") EXCEPT !.entitled = Entitled(b)]
       ELSE [Sends(v, b, "page", "response") EXCEPT
               !.entitled = Entitled(b), !.session = None,
               !.outcome = IF verifySessionCookie(cookie) THEN "admitted" ELSE "refused"]]
  /\ UNCHANGED <<jar, database, server, now, past>>

FindRow(v) ==
  /\ visit[v].pc = "row"
  /\ IF \E row \in sessions : row.id = visit[v].session.id /\ row.expires_at >= now
     THEN Goes(v, "user") ELSE Responds(v, "refused")
  /\ UNCHANGED <<jar, database, server, now, past>>

(* The user's row is only looked at for its name. *)
FindPrincipal(v) ==
  /\ visit[v].pc = "user"
  /\ Responds(v, "admitted")
  /\ UNCHANGED <<jar, database, server, now, past>>

-----------------------------------------------------------------------------
(* The world *)

(* A callback's response clears the state cookie, whoever's it is by now;  *)
(* the browser takes both cookies at once.                                 *)
Receive(v) ==
  LET b == visit[v].browser
      state == IF visit[v].kind = "oauth" THEN None ELSE jar[b].state
      session == IF visit[v].session # None THEN visit[v].session
                 ELSE IF visit[v].clears THEN None ELSE jar[b].session
  IN
  /\ visit[v].pc = "response"
  /\ jar' = [jar EXCEPT ![b] = [session |-> session, state |-> state]]
  /\ visit' = Disturb([visit EXCEPT ![v].pc = "done"], IF visit[v].kind = "oauth" THEN Away(b) ELSE {})
  /\ UNCHANGED <<database, server, now, past>>

(* A flow that takes its time may find its state cookie expired. *)
Tick ==
  /\ now < MaxTime
  /\ now' = now + 1
  /\ visit' = Disturb(visit, {v \in Visit : visit[v].pc = "github"})
  /\ UNCHANGED <<jar, database, server, past>>

(* Whoever was waiting for an answer gets none. *)
Restart ==
  /\ boots < MaxRestarts
  /\ boots' = boots + 1
  /\ secret' = IF StableSecret THEN secret ELSE boots'
  /\ hits' = {} /\ compared' = {}
  /\ visit' = [v \in Visit |->
       IF visit[v].pc \in {"idle", "response", "done"} THEN visit[v]
       ELSE IF visit[v].pc = "github" THEN [visit[v] EXCEPT !.disturbed = TRUE]
       ELSE [visit[v] EXCEPT !.pc = "done", !.outcome = "lost", !.disturbed = TRUE]]
  /\ UNCHANGED <<jar, database, now, past>>

Next ==
  \/ \E v \in Visit :
       \/ \E b \in Browser :
            \/ Begin(v, b) \/ LogOut(v, b) \/ Ask(v, b)
            \/ \E account \in Account : Callback(v, b, account)
            \/ \E right \in BOOLEAN : LogIn(v, b, right)
       \/ Exchange(v) \/ FindUser(v) \/ InsertUser(v) \/ UpdateUser(v) \/ OpenSession(v)
       \/ DeleteRow(v) \/ FindRow(v) \/ FindPrincipal(v) \/ QueryFails(v) \/ Receive(v)
  \/ Tick \/ Restart

Spec == Init /\ [][Next]_vars

-----------------------------------------------------------------------------
Phase   == {"idle", "github", "exchange", "find", "insert", "update", "open", "delete", "row",
            "user", "response", "done"}
Kind    == {"none", "oauth", "password", "logout", "page"}
Outcome == {"none", "bad_state", "exchange_failed", "not_allowlisted", "home", "refused", "out",
            "slow_down", "wrong", "admitted", "lost"}

VisitType ==
  [pc : Phase, kind : Kind, account : Account \cup {None},
   home : Browser \cup {None}, browser : Browser \cup {None},
   session : CookieType \cup {None}, clears : BOOLEAN, outcome : Outcome,
   entitled : BOOLEAN, disturbed : BOOLEAN]

TypeOK ==
  /\ jar \in [Browser -> [session : CookieType \cup {None}, state : CookieType \cup {None}]]
  /\ visit \in [Visit -> VisitType]
  /\ \A v \in Visit : visit[v].pc = "idle" \/ {visit[v].home, visit[v].browser} \subseteq Browser
  /\ users \subseteq Account
  /\ sessions \subseteq [id : Visit, user : Account, expires_at : Nat]
  /\ secret \in 0..boots /\ boots \in Nat /\ now \in Nat
  /\ revoked \subseteq Visit /\ logins \subseteq [visit : Visit, at : Nat, secret : Nat]

(* Every session is that of an allowed account, whose row is there before  *)
(* it, and its cookie is in the browser in which the login began, whichever *)
(* browser the redirect was opened in (the callback, handleCallback).      *)
SessionsComeHome ==
  /\ TypeOK
  /\ \A row \in sessions : row.user \in users \cap Allowed
  /\ \A b \in Browser :
       LET cookie == jar[b].session
       IN  cookie # None => visit[cookie.id].home = b /\ visit[cookie.id].outcome = "home"

(* The gate lets nobody in but who has logged in, in this browser, and     *)
(* whose login was not over when he asked: by a logout that deleted it, in *)
(* whatever tab and even if the answer to it is still on its way, by its   *)
(* age, or by a restart with a new secret (resolvePrincipal, POST          *)
(* /logout).                                                               *)
AdmittedWereEntitled ==
  \A v \in Visit : visit[v].outcome = "admitted" => visit[v].entitled

(* A login of an allowed account succeeds unless GitHub or a query fails,  *)
(* the server restarts, the user takes too long or ends up in another      *)
(* browser, another login in that browser takes its state cookie away, or  *)
(* another first login of the account has created its row between the look *)
(* for it and the insert: of two first logins at once, one succeeds.       *)
UndisturbedLoginSucceeds ==
  \A v \in Visit :
    /\ visit[v].kind = "oauth" /\ visit[v].pc \in {"response", "done"}
    /\ visit[v].account \in Allowed /\ ~visit[v].disturbed
    => visit[v].outcome = "home"

(* Between restarts a password is compared at most max times in any window,*)
(* wherever it ends (createLoginRateLimiter).                              *)
RateHeld ==
  /\ hits \cup compared \subseteq [visit : Visit, time : 0..now]
  /\ \A t \in 0..now :
       Cardinality({hit \in compared : hit.time <= t /\ t - hit.time < windowMs}) <= max

=============================================================================
