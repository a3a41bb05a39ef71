---------------------------- MODULE Login_proofs ----------------------------
(***************************************************************************)
(* Proofs about logging in to the console, for any number of browsers,     *)
(* visits and accounts, and whatever fails or restarts when.               *)
(***************************************************************************)
EXTENDS Login, FiniteSetTheorems, TLAPS

Logging == {"github", "exchange", "find", "insert", "update", "open"}
Gating  == {"row", "user", "delete"}

(* Which handler a visit is in, and what it has established there.         *)
HandlersFit ==
  \A v \in Visit :
    /\ visit[v].pc = "idle" => visit[v].kind = "none"
    /\ visit[v].pc \in Logging => visit[v].kind = "oauth"
    /\ visit[v].pc \in Gating => visit[v].kind # "oauth"
    /\ visit[v].pc \in Logging \ {"github"} =>
         /\ visit[v].account \in Account /\ visit[v].browser = visit[v].home
         /\ visit[v].session = None
    /\ visit[v].pc \in {"find", "insert", "update", "open"} => visit[v].account \in Allowed
    /\ visit[v].pc \in {"update", "open"} => visit[v].account \in users

(* A cookie is in the browser its login began in, and that login is over:  *)
(* nobody can be handed the cookie of another.                             *)
Granted(cookie, b) ==
  /\ visit[cookie.id].pc = "done" /\ visit[cookie.id].outcome = "home" /\ visit[cookie.id].home = b
  /\ cookie.kind = visit[cookie.id].kind
  /\ cookie.kind = "oauth" => visit[cookie.id].account \in Allowed

JarsKept ==
  \A b \in Browser :
    /\ jar[b].session # None => Granted(jar[b].session, b)
    /\ jar[b].state # None =>
         visit[jar[b].state.id].home = b /\ visit[jar[b].state.id].kind = "oauth"

AnswersKept ==
  \A v \in Visit :
    /\ visit[v].pc = "response" /\ visit[v].session # None =>
         /\ visit[v].session.id = v /\ visit[v].outcome = "home" /\ visit[v].browser = visit[v].home
         /\ visit[v].session.kind = visit[v].kind
         /\ visit[v].session.kind = "oauth" => visit[v].account \in Allowed
    /\ visit[v].pc \in Gating =>
         /\ visit[v].session # None /\ visit[v].session.kind = "oauth"
         /\ visit[visit[v].session.id].pc = "done"

(* A cookie expires when its login does, ...                               *)
Recorded(cookie) ==
  \E login \in logins :
    login.visit = cookie.id /\ login.secret = cookie.secret /\ cookie.exp = login.at + SESSION_TTL

LoginsKept ==
  /\ \A b \in Browser : jar[b].session # None => Recorded(jar[b].session)
  /\ \A v \in Visit : visit[v].pc = "response" /\ visit[v].session # None => Recorded(visit[v].session)

(* ... a row that a logout has deleted does not come back, ...             *)
RowsGone ==
  /\ \A row \in sessions : row.user \in users \cap Allowed /\ row.id \notin revoked
  /\ \A v \in revoked : visit[v].pc = "done"

(* ... and only a cookie without a row comes to the gate without           *)
(* entitlement.                                                            *)
GateKept ==
  /\ \A v \in Visit :
       /\ visit[v].pc = "row" /\ ~visit[v].entitled => visit[v].session.id \in revoked
       /\ visit[v].pc = "user" => visit[v].entitled
  /\ AdmittedWereEntitled

(* What a login that nothing has come between can rely on: its state       *)
(* cookie while it is away, ...                                            *)
StillGood(v) ==
  LET cookie == jar[visit[v].home].state IN
  cookie # None /\ cookie.secret = secret /\ now <= cookie.exp /\ cookie.id = v

AwayUndisturbed ==
  \A v \in Visit : ~visit[v].disturbed /\ visit[v].pc = "github" =>
    visit[v].browser = visit[v].home /\ StillGood(v)

(* ... and a row that is still to be created.                              *)
AloneUndisturbed ==
  \A v \in Visit : ~visit[v].disturbed /\ visit[v].pc = "insert" => visit[v].account \notin users

IInv ==
  /\ TypeOK
  /\ HandlersFit
  /\ JarsKept /\ AnswersKept /\ LoginsKept
  /\ RowsGone /\ GateKept
  /\ AwayUndisturbed /\ AloneUndisturbed /\ UndisturbedLoginSucceeds

-----------------------------------------------------------------------------
(* Two visits that differ at most in what has come between them.           *)
Alike(x, y) ==
  /\ x.pc = y.pc /\ x.kind = y.kind /\ x.account = y.account /\ x.home = y.home
  /\ x.browser = y.browser /\ x.session = y.session /\ x.clears = y.clears
  /\ x.outcome = y.outcome /\ x.entitled = y.entitled
  /\ y.disturbed => x.disturbed

(* A step of v leaves the visits of others as they are but for that.       *)
Alone(v) ==
  /\ visit' \in [Visit -> VisitType]
  /\ \A w \in Visit : w # v => Alike(visit'[w], visit[w])

(* v goes on to pc, ...                                                    *)
Becomes(v, pc, account, browser, session, outcome) ==
  /\ visit'[v].pc = pc /\ visit'[v].account = account /\ visit'[v].browser = browser
  /\ visit'[v].session = session /\ visit'[v].outcome = outcome
  /\ visit'[v].kind = visit[v].kind /\ visit'[v].home = visit[v].home
  /\ visit'[v].entitled = visit[v].entitled
  /\ visit[v].disturbed => visit'[v].disturbed

(* ... or begins, with what the browser b has sent.                        *)
Starts(v, b, kind, pc, session, outcome) ==
  /\ visit'[v].pc = pc /\ visit'[v].kind = kind /\ visit'[v].account = None
  /\ visit'[v].home = b /\ visit'[v].browser = b
  /\ visit'[v].session = session /\ visit'[v].outcome = outcome

(* The browser b takes up cookies.                                         *)
Takes(b, session, state) ==
  /\ jar' \in [Browser -> [session : CookieType \cup {None}, state : CookieType \cup {None}]]
  /\ jar'[b].session = session /\ jar'[b].state = state
  /\ \A a \in Browser : a # b => jar'[a] = jar[a]

GoesOn(v, pc) == Becomes(v, pc, visit[v].account, visit[v].browser, visit[v].session, visit[v].outcome)
Answers(v, outcome, session) ==
  Becomes(v, "response", visit[v].account, visit[v].browser, session, outcome)

(* The strings that occur.                                                *)
LEMMA Known ==
  /\ {"idle", "github", "exchange", "find", "insert", "update", "open", "delete", "row", "user",
      "response", "done"} \subseteq Phase
  /\ {"none", "oauth", "password", "logout", "page"} \subseteq Kind
  /\ {"none", "bad_state", "exchange_failed", "not_allowlisted", "home", "refused", "out",
      "slow_down", "wrong", "admitted", "lost"} \subseteq Outcome
  BY DEF Phase, Kind, Outcome

(* A new cookie.                                                           *)
LEMMA CookieShape ==
  ASSUME TypeOK, NEW v \in Visit, NEW kind \in {"password", "oauth", "state"}, NEW ttl \in Nat,
         NEW cookie, cookie = Cookie(kind, v, ttl)
  PROVE  /\ cookie \in CookieType /\ cookie # None
         /\ cookie.kind = kind /\ cookie.id = v /\ cookie.exp = now + ttl /\ cookie.secret = secret
<1>1. secret \in Nat /\ now + ttl \in Nat
  BY DEF TypeOK
<1>2. cookie \in CookieType
  BY <1>1 DEF Cookie, CookieType
<1>3. QED
  BY <1>2, LoginAssumption DEF Cookie

(* The cookie of a login of this moment.                                   *)
Fresh(cookie, v) == cookie.id = v /\ cookie.exp = now + SESSION_TTL /\ cookie.secret = secret

(* What a response does to the visit, ...                                  *)
LEMMA Answered ==
  ASSUME TypeOK, NEW v \in Visit, NEW outcome \in Outcome, NEW session \in CookieType \cup {None},
         visit' = [visit EXCEPT ![v].pc = "response", ![v].outcome = outcome, ![v].session = session]
  PROVE  Alone(v) /\ Answers(v, outcome, session)
<1>1. visit[v] \in VisitType
  BY DEF TypeOK
<1>2. PICK x : x = [visit[v] EXCEPT !.pc = "response", !.outcome = outcome, !.session = session]
  OBVIOUS
<1>3. x \in VisitType
  BY <1>1, <1>2, Known DEF VisitType
<1>4. visit' = [visit EXCEPT ![v] = x]
  BY <1>2 DEF TypeOK
<1>5. visit' \in [Visit -> VisitType] /\ visit'[v] = x /\ \A w \in Visit : w # v => visit'[w] = visit[w]
  BY <1>3, <1>4, ZenonT(40) DEF TypeOK
<1>6. Alone(v)
  BY <1>5 DEF Alone, Alike
<1>7. Answers(v, outcome, session)
  BY <1>1, <1>2, <1>5 DEF Answers, Becomes, VisitType
<1>8. QED
  BY <1>6, <1>7

(* ... what going on does, ...                                             *)
LEMMA WentOn ==
  ASSUME TypeOK, NEW v \in Visit, NEW pc \in Phase, visit' = [visit EXCEPT ![v].pc = pc]
  PROVE  Alone(v) /\ GoesOn(v, pc)
<1>1. visit[v] \in VisitType
  BY DEF TypeOK
<1>2. PICK x : x = [visit[v] EXCEPT !.pc = pc]
  OBVIOUS
<1>3. x \in VisitType
  BY <1>1, <1>2 DEF VisitType
<1>4. visit' = [visit EXCEPT ![v] = x]
  BY <1>2 DEF TypeOK
<1>5. visit' \in [Visit -> VisitType] /\ visit'[v] = x /\ \A w \in Visit : w # v => visit'[w] = visit[w]
  BY <1>3, <1>4, ZenonT(40) DEF TypeOK
<1>6. Alone(v)
  BY <1>5 DEF Alone, Alike
<1>7. GoesOn(v, pc)
  BY <1>1, <1>2, <1>5 DEF GoesOn, Becomes, VisitType
<1>8. QED
  BY <1>6, <1>7

(* ... what a failure does, ...                                            *)
LEMMA Spoilt ==
  ASSUME TypeOK, NEW v \in Visit, NEW outcome \in Outcome,
         visit' = [visit EXCEPT ![v].pc = "response", ![v].outcome = outcome, ![v].disturbed = TRUE]
  PROVE  Alone(v) /\ Answers(v, outcome, visit[v].session) /\ visit'[v].disturbed
<1>1. visit[v] \in VisitType
  BY DEF TypeOK
<1>2. PICK x : x = [visit[v] EXCEPT !.pc = "response", !.outcome = outcome, !.disturbed = TRUE]
  OBVIOUS
<1>3. x \in VisitType
  BY <1>1, <1>2, Known DEF VisitType
<1>4. visit' = [visit EXCEPT ![v] = x]
  BY <1>2 DEF TypeOK
<1>5. visit' \in [Visit -> VisitType] /\ visit'[v] = x /\ \A w \in Visit : w # v => visit'[w] = visit[w]
  BY <1>3, <1>4, ZenonT(40) DEF TypeOK
<1>6. Alone(v)
  BY <1>5 DEF Alone, Alike
<1>7. Answers(v, outcome, visit[v].session) /\ visit'[v].disturbed
  BY <1>1, <1>2, <1>5 DEF Answers, Becomes, VisitType
<1>8. QED
  BY <1>6, <1>7

(* ... and what a request begins with.                                     *)
LEMMA SendsShape ==
  ASSUME TypeOK, NEW v \in Visit, NEW b \in Browser, NEW kind \in Kind, NEW pc \in Phase,
         NEW r, r = Sends(v, b, kind, pc)
  PROVE  /\ r \in VisitType
         /\ r.pc = pc /\ r.kind = kind /\ r.account = None /\ r.home = b /\ r.browser = b
         /\ r.session = jar[b].session /\ r.outcome = "none"
<1>1. r = [pc |-> pc, kind |-> kind, account |-> None, home |-> b, browser |-> b,
           session |-> jar[b].session, clears |-> FALSE, outcome |-> "none",
           entitled |-> FALSE, disturbed |-> FALSE]
  BY DEF Sends, NoVisit
<1>2. jar[b].session \in CookieType \cup {None}
  BY DEF TypeOK
<1>3. r \in VisitType
  BY <1>1, <1>2, Known DEF VisitType
<1>4. QED
  BY <1>1, <1>3

(* Disturbing the visits of S changes nothing else about anyone.           *)
LEMMA DisturbShape ==
  ASSUME NEW f \in [Visit -> VisitType], NEW S, NEW g, g = Disturb(f, S)
  PROVE  /\ g \in [Visit -> VisitType]
         /\ \A w \in Visit : Alike(g[w], f[w]) /\ (w \in S => g[w].disturbed)
<1>1. g \in [Visit -> VisitType]
  BY Known, ZenonT(40) DEF VisitType, Disturb
<1>2. \A w \in Visit : Alike(g[w], f[w])
  BY Known DEF VisitType, Disturb, Alike
<1>3. \A w \in Visit : w \in S => g[w].disturbed
  BY Known DEF VisitType, Disturb
<1>4. QED
  BY <1>1, <1>2, <1>3

(* What FindUser does to the visits, the jars and the tables.              *)
LEMMA FindUserEffect ==
  ASSUME TypeOK, NEW v \in Visit, FindUser(v)
  PROVE  /\ visit[v].pc = "find" /\ Alone(v)
         /\ GoesOn(v, IF Found(v) THEN "update" ELSE "insert")
         /\ UNCHANGED <<jar, users, sessions, hits, secret, boots, compared, now, revoked, logins>>
  BY Known, Answered, WentOn, Spoilt DEF FindUser, Goes, database, server, past

(* What UpdateUser does to the visits, the jars and the tables.            *)
LEMMA UpdateUserEffect ==
  ASSUME TypeOK, NEW v \in Visit, UpdateUser(v)
  PROVE  /\ visit[v].pc = "update" /\ Alone(v)
         /\ GoesOn(v, "open")
         /\ UNCHANGED <<jar, users, sessions, hits, secret, boots, compared, now, revoked, logins>>
  BY Known, Answered, WentOn, Spoilt DEF UpdateUser, Goes, database, server, past

(* What FindRow does to the visits, the jars and the tables.               *)
LEMMA FindRowEffect ==
  ASSUME TypeOK, NEW v \in Visit, FindRow(v)
  PROVE  /\ visit[v].pc = "row" /\ Alone(v)
         /\ \/ /\ \E row \in sessions : row.id = visit[v].session.id
               /\ GoesOn(v, "user")
            \/ Answers(v, "refused", None)
         /\ UNCHANGED <<jar, users, sessions, hits, secret, boots, compared, now, revoked, logins>>
  BY Known, Answered, WentOn, Spoilt DEF FindRow, Goes, Responds, database, server, past

(* What FindPrincipal does to the visits, the jars and the tables.         *)
LEMMA FindPrincipalEffect ==
  ASSUME TypeOK, NEW v \in Visit, FindPrincipal(v)
  PROVE  /\ visit[v].pc = "user" /\ Alone(v)
         /\ Answers(v, "admitted", None)
         /\ UNCHANGED <<jar, users, sessions, hits, secret, boots, compared, now, revoked, logins>>
  BY Known, Answered, WentOn, Spoilt DEF FindPrincipal, Responds, database, server, past

(* What InsertUser does to the visits, the jars and the tables.            *)
LEMMA InsertUserEffect ==
  ASSUME TypeOK, NEW v \in Visit, InsertUser(v)
  PROVE  /\ visit[v].pc = "insert" /\ Alone(v)
         /\ \/ /\ visit[v].account \in users /\ Answers(v, "exchange_failed", None) /\ UNCHANGED users
            \/ /\ GoesOn(v, "open") /\ users' = users \cup {visit[v].account}
               /\ \A w \in Visit \ {v} :
                    visit[w].account = visit[v].account /\ visit[w].pc = "insert" => visit'[w].disturbed
         /\ UNCHANGED <<jar, sessions, hits, secret, boots, compared, now, revoked, logins>>
<1>0. /\ visit[v].pc = "insert"
      /\ UNCHANGED <<jar, sessions, hits, secret, boots, compared, now, revoked, logins>>
  BY DEF InsertUser, server, past
<1>1. CASE visit[v].account \in users
  BY <1>0, <1>1, Answered, Known DEF InsertUser, Responds
<1>2. CASE visit[v].account \notin users
  <2>1. PICK f : f = [visit EXCEPT ![v].pc = "open"]
    OBVIOUS
  <2>2. /\ f \in [Visit -> VisitType] /\ \A w \in Visit : w # v => f[w] = visit[w]
        /\ f[v].pc = "open" /\ f[v].account = visit[v].account /\ f[v].browser = visit[v].browser
        /\ f[v].session = visit[v].session /\ f[v].outcome = visit[v].outcome
        /\ f[v].kind = visit[v].kind /\ f[v].home = visit[v].home
        /\ f[v].entitled = visit[v].entitled /\ f[v].disturbed = visit[v].disturbed
    BY <2>1, Known DEF TypeOK, VisitType
  <2>3. PICK S : S = Inserting(visit[v].account) \ {v}
    OBVIOUS
  <2>4. visit' = Disturb(f, S) /\ users' = users \cup {visit[v].account}
    BY <1>2, <2>1, <2>3 DEF InsertUser
  <2>5. /\ visit' \in [Visit -> VisitType]
        /\ \A w \in Visit : Alike(visit'[w], f[w]) /\ (w \in S => visit'[w].disturbed)
    BY <2>2, <2>4, DisturbShape
  <2>6. Alone(v)
    BY <2>2, <2>5 DEF Alone
  <2>7. GoesOn(v, "open")
    BY <2>2, <2>5 DEF GoesOn, Becomes, Alike
  <2>8. \A w \in Visit \ {v} :
          visit[w].account = visit[v].account /\ visit[w].pc = "insert" => visit'[w].disturbed
    BY <2>3, <2>5 DEF Inserting
  <2>9. QED
    BY <1>0, <2>4, <2>6, <2>7, <2>8
<1>3. QED
  BY <1>1, <1>2

(* What QueryFails does to the visits, the jars and the tables.            *)
LEMMA QueryFailsEffect ==
  ASSUME TypeOK, NEW v \in Visit, QueryFails(v)
  PROVE  /\ visit[v].pc \in {"find", "insert", "update", "open", "row", "user", "delete"} /\ Alone(v)
         /\ \/ /\ visit[v].pc \in {"find", "insert", "update", "open"}
               /\ Answers(v, "exchange_failed", visit[v].session) /\ visit'[v].disturbed
            \/ visit[v].pc \in Gating /\ \E outcome \in {"refused", "out"} : Answers(v, outcome, None)
         /\ UNCHANGED <<jar, users, sessions, hits, secret, boots, compared, now, revoked, logins>>
<1>0. UNCHANGED <<jar, users, sessions, hits, secret, boots, compared, now, revoked, logins>>
  BY DEF QueryFails, database, server, past
<1>1. CASE /\ visit[v].pc \in {"find", "insert", "update", "open"}
           /\ visit' = [visit EXCEPT ![v].pc = "response", ![v].outcome = "exchange_failed", ![v].disturbed = TRUE]
  <2>1. Alone(v) /\ Answers(v, "exchange_failed", visit[v].session) /\ visit'[v].disturbed
    BY <1>1, Spoilt, Known
  <2>2. QED
    BY <1>0, <1>1, <2>1
<1>2. ASSUME visit[v].pc \in Gating, NEW outcome \in {"refused", "out"}, Responds(v, outcome)
      PROVE  Alone(v) /\ Answers(v, outcome, None)
  BY <1>2, Answered, Known DEF Responds
<1>3. QED
  BY <1>1, <1>2 DEF QueryFails, Gating, database, server, past

(* What DeleteRow does to the visits, the jars and the tables.             *)
LEMMA DeleteRowEffect ==
  ASSUME TypeOK, NEW v \in Visit, DeleteRow(v)
  PROVE  /\ visit[v].pc = "delete" /\ Alone(v)
         /\ Answers(v, "out", None)
         /\ sessions' = WithoutRow(visit[v].session.id) /\ revoked' = revoked \cup {visit[v].session.id}
         /\ UNCHANGED <<jar, users, hits, secret, boots, compared, now, logins>>
  BY Known, Answered, WentOn, Spoilt DEF DeleteRow, Responds, database, server, past

(* What OpenSession does to the visits, the jars and the tables.           *)
LEMMA OpenSessionEffect ==
  ASSUME TypeOK, NEW v \in Visit, OpenSession(v)
  PROVE  /\ visit[v].pc = "open" /\ Alone(v)
         /\ \E cookie \in CookieType :
                 /\ cookie # None /\ cookie.kind = "oauth" /\ Fresh(cookie, v)
                 /\ Answers(v, "home", cookie)
         /\ sessions' = sessions \cup {[id |-> v, user |-> visit[v].account, expires_at |-> now + SESSION_TTL]}
         /\ logins' = logins \cup {Grant(v)}
         /\ UNCHANGED <<jar, users, hits, secret, boots, compared, now, revoked>>
<1>1. PICK cookie : cookie = Cookie("oauth", v, SESSION_TTL)
  OBVIOUS
<1>2. cookie \in CookieType /\ cookie # None /\ cookie.kind = "oauth" /\ Fresh(cookie, v)
  BY <1>1, CookieShape, LoginAssumption DEF Fresh
<1>3. visit' = [visit EXCEPT ![v].pc = "response", ![v].outcome = "home", ![v].session = cookie]
  BY <1>1 DEF OpenSession, Grants
<1>4. Alone(v) /\ Answers(v, "home", cookie)
  BY <1>2, <1>3, Answered, Known
<1>5. QED
  BY <1>2, <1>4 DEF OpenSession, database, server, past

(* What Callback does to the visits, the jars and the tables.              *)
LEMMA CallbackEffect ==
  ASSUME TypeOK, NEW v \in Visit, NEW b \in Browser, NEW account \in Account, Callback(v, b, account)
  PROVE  /\ visit[v].pc = "github" /\ Alone(v)
         /\ \/ GoodState(b, v) /\ Becomes(v, "exchange", account, b, None, "none")
            \/ ~GoodState(b, v) /\ Becomes(v, "response", account, b, None, "bad_state")
         /\ visit[v].home # b => visit'[v].disturbed
         /\ UNCHANGED <<jar, users, sessions, hits, secret, boots, compared, now, revoked, logins>>
<1>1. visit[v] \in VisitType
  BY DEF TypeOK
<1>2. PICK pc \in Phase : pc = IF GoodState(b, v) THEN "exchange" ELSE "response"
  BY Known
<1>3. PICK outcome \in Outcome : outcome = IF GoodState(b, v) THEN "none" ELSE "bad_state"
  BY Known
<1>4. PICK d \in BOOLEAN : d = (visit[v].disturbed \/ visit[v].home # b)
  OBVIOUS
<1>5. PICK x : x = [visit[v] EXCEPT !.browser = b, !.account = account, !.session = None, !.pc = pc,
                                    !.outcome = outcome, !.disturbed = d]
  OBVIOUS
<1>6. x \in VisitType
  BY <1>1, <1>5 DEF VisitType
<1>7. visit' = [visit EXCEPT ![v] = x]
  BY <1>2, <1>3, <1>4, <1>5 DEF Callback
<1>8. visit' \in [Visit -> VisitType] /\ visit'[v] = x /\ \A w \in Visit : w # v => visit'[w] = visit[w]
  BY <1>6, <1>7 DEF TypeOK
<1>9. Alone(v)
  BY <1>8 DEF Alone, Alike
<1>10. Becomes(v, pc, account, b, None, outcome) /\ visit'[v].disturbed = d
  BY <1>1, <1>4, <1>5, <1>8 DEF Becomes, VisitType
<1>11. QED
  BY <1>2, <1>3, <1>4, <1>9, <1>10 DEF Callback, database, server, past

(* What Exchange does to the visits, the jars and the tables.              *)
LEMMA ExchangeEffect ==
  ASSUME TypeOK, NEW v \in Visit, Exchange(v)
  PROVE  /\ visit[v].pc = "exchange" /\ Alone(v)
         /\ \/ Answers(v, "exchange_failed", visit[v].session) /\ visit'[v].disturbed
            \/ visit[v].account \notin Allowed /\ Answers(v, "not_allowlisted", None)
            \/ visit[v].account \in Allowed /\ GoesOn(v, "find")
         /\ UNCHANGED <<jar, users, sessions, hits, secret, boots, compared, now, revoked, logins>>
<1>0. /\ visit[v].pc = "exchange"
      /\ UNCHANGED <<jar, users, sessions, hits, secret, boots, compared, now, revoked, logins>>
  BY DEF Exchange, database, server, past
<1>1. CASE visit' = [visit EXCEPT ![v].pc = "response", ![v].outcome = "exchange_failed", ![v].disturbed = TRUE]
  <2>1. Alone(v) /\ Answers(v, "exchange_failed", visit[v].session) /\ visit'[v].disturbed
    BY <1>1, Spoilt, Known
  <2>2. QED
    BY <1>0, <2>1
<1>2. CASE visit[v].account \notin Allowed /\ Responds(v, "not_allowlisted")
  BY <1>0, <1>2, Answered, Known DEF Responds
<1>3. CASE visit[v].account \in Allowed /\ Goes(v, "find")
  BY <1>0, <1>3, WentOn, Known DEF Goes
<1>4. QED
  BY <1>1, <1>2, <1>3 DEF Exchange

(* What Begin does to the visits, the jars and the tables.                 *)
LEMMA BeginEffect ==
  ASSUME TypeOK, NEW v \in Visit, NEW b \in Browser, Begin(v, b)
  PROVE  /\ visit[v].pc = "idle" /\ Alone(v)
         /\ Starts(v, b, "oauth", "github", jar[b].session, "none")
         /\ \A w \in Away(b) : visit'[w].disturbed
         /\ \E cookie \in CookieType :
                 /\ cookie # None /\ cookie.secret = secret /\ now <= cookie.exp /\ cookie.id = v
                 /\ Takes(b, jar[b].session, cookie)
         /\ UNCHANGED <<users, sessions, hits, secret, boots, compared, now, revoked, logins>>
<1>1. PICK r : r = Sends(v, b, "oauth", "github")
  OBVIOUS
<1>2. /\ r \in VisitType
      /\ r.pc = "github" /\ r.kind = "oauth" /\ r.account = None /\ r.home = b /\ r.browser = b
      /\ r.session = jar[b].session /\ r.outcome = "none"
  BY <1>1, SendsShape, Known
<1>3. PICK f : f = [visit EXCEPT ![v] = r]
  OBVIOUS
<1>4. f \in [Visit -> VisitType] /\ f[v] = r /\ \A w \in Visit : w # v => f[w] = visit[w]
  BY <1>2, <1>3 DEF TypeOK
<1>5. visit' = Disturb(f, Away(b))
  BY <1>1, <1>3 DEF Begin
<1>6. /\ visit' \in [Visit -> VisitType]
      /\ \A w \in Visit : Alike(visit'[w], f[w]) /\ (w \in Away(b) => visit'[w].disturbed)
  BY <1>4, <1>5, DisturbShape
<1>7. Alone(v)
  BY <1>4, <1>6 DEF Alone
<1>8. Starts(v, b, "oauth", "github", jar[b].session, "none")
  BY <1>2, <1>4, <1>6 DEF Starts, Alike
<1>9. \A w \in Away(b) : visit'[w].disturbed
  BY <1>6 DEF Away
<1>10. PICK cookie : cookie = Cookie("state", v, OAUTH_STATE_TTL)
  OBVIOUS
<1>11. /\ cookie \in CookieType /\ cookie # None /\ cookie.secret = secret /\ cookie.id = v
       /\ now <= cookie.exp
  BY <1>10, CookieShape, LoginAssumption DEF TypeOK
<1>12. jar' = [jar EXCEPT ![b].state = cookie]
  BY <1>10 DEF Begin
<1>13. Takes(b, jar[b].session, cookie)
  BY <1>11, <1>12 DEF Takes, TypeOK
<1>14. QED
  BY <1>7, <1>8, <1>9, <1>11, <1>13 DEF Begin, database, server, past

(* What LogIn does to the visits, the jars and the tables.                 *)
LEMMA LogInEffect ==
  ASSUME TypeOK, NEW v \in Visit, NEW b \in Browser, NEW right \in BOOLEAN, LogIn(v, b, right)
  PROVE  /\ visit[v].pc = "idle" /\ Alone(v)
         /\ \/ /\ \E outcome \in {"slow_down", "wrong"} : Starts(v, b, "password", "response", None, outcome)
               /\ UNCHANGED logins
            \/ \E cookie \in CookieType :
                 /\ cookie # None /\ cookie.kind = "password" /\ Fresh(cookie, v)
                 /\ Starts(v, b, "password", "response", cookie, "home")
                 /\ logins' = logins \cup {Grant(v)}
         /\ UNCHANGED <<jar, users, sessions, secret, boots, now, revoked>>
<1>1. PICK r : r = Sends(v, b, "password", "response")
  OBVIOUS
<1>2. /\ r \in VisitType
      /\ r.pc = "response" /\ r.kind = "password" /\ r.account = None /\ r.home = b /\ r.browser = b
      /\ r.session = jar[b].session /\ r.outcome = "none"
  BY <1>1, SendsShape, Known

<1>3. PICK cookie : cookie = Cookie("password", v, SESSION_TTL)
  OBVIOUS
<1>4. cookie \in CookieType /\ cookie # None /\ cookie.kind = "password" /\ Fresh(cookie, v)
  BY <1>3, CookieShape, LoginAssumption DEF Fresh
<1>5. PICK open \in BOOLEAN : open <=> Cardinality(Recent) < max
  BY Zenon
<1>6. PICK session \in CookieType \cup {None} : session = IF open /\ right THEN cookie ELSE None
  BY <1>4
<1>7. PICK outcome \in Outcome :
        outcome = IF ~open THEN "slow_down" ELSE IF right THEN "home" ELSE "wrong"
  BY Known
<1>8. PICK x : x = [r EXCEPT !.session = session, !.outcome = outcome]
  OBVIOUS
<1>9. /\ x \in VisitType /\ x.session = session /\ x.outcome = outcome
      /\ x.pc = r.pc /\ x.kind = r.kind /\ x.account = r.account /\ x.home = r.home
      /\ x.browser = r.browser
  BY <1>2, <1>8 DEF VisitType
<1>10. visit' = [visit EXCEPT ![v] = x]
  BY <1>1, <1>3, <1>5, <1>6, <1>7, <1>8 DEF LogIn
<1>11. visit' \in [Visit -> VisitType] /\ visit'[v] = x /\ \A w \in Visit : w # v => visit'[w] = visit[w]
  BY <1>9, <1>10 DEF TypeOK
<1>12. Alone(v)
  BY <1>11 DEF Alone, Alike
<1>13. Starts(v, b, "password", "response", session, outcome)
  BY <1>2, <1>9, <1>11 DEF Starts
<1>14. logins' = IF open /\ right THEN logins \cup {Grant(v)} ELSE logins
  BY <1>5 DEF LogIn
<1>15. visit[v].pc = "idle" /\ UNCHANGED <<jar, users, sessions, secret, boots, now, revoked>>
  BY DEF LogIn, database
<1>16. CASE open /\ right
  <2>1. Starts(v, b, "password", "response", cookie, "home") /\ logins' = logins \cup {Grant(v)}
    BY <1>6, <1>7, <1>13, <1>14, <1>16
  <2>2. QED
    BY <1>4, <1>12, <1>15, <2>1
<1>17. CASE ~(open /\ right)
  <2>1. outcome \in {"slow_down", "wrong"} /\ Starts(v, b, "password", "response", None, outcome)
    BY <1>6, <1>7, <1>13, <1>17
  <2>2. QED
    BY <1>12, <1>14, <1>15, <1>17, <2>1
<1>18. QED
  BY <1>16, <1>17

(* What LogOut does to the visits, the jars and the tables.                *)
LEMMA LogOutEffect ==
  ASSUME TypeOK, NEW v \in Visit, NEW b \in Browser, LogOut(v, b)
  PROVE  /\ visit[v].pc = "idle" /\ Alone(v)
         /\ \/ /\ verifyOAuthSessionCookiePayload(jar[b].session)
               /\ Starts(v, b, "logout", "delete", jar[b].session, "none")
            \/ Starts(v, b, "logout", "response", None, "out")
         /\ UNCHANGED <<jar, users, sessions, hits, secret, boots, compared, now, revoked, logins>>
<1>1. CASE verifyOAuthSessionCookiePayload(jar[b].session)
  <2>1. PICK r : r = Sends(v, b, "logout", "delete")
    OBVIOUS
  <2>2. /\ r \in VisitType
        /\ r.pc = "delete" /\ r.kind = "logout" /\ r.account = None /\ r.home = b /\ r.browser = b
        /\ r.session = jar[b].session /\ r.outcome = "none"
    BY <2>1, SendsShape, Known
  <2> USE <1>1, <2>1, <2>2, Known DEF LogOut, TypeOK, VisitType
  <2>3. Alone(v)
    BY DEF Alone, Alike
  <2>4. QED
    BY <2>3 DEF Starts, database, server, past
<1>2. CASE ~verifyOAuthSessionCookiePayload(jar[b].session)
  <2>1. PICK r : r = Sends(v, b, "logout", "response")
    OBVIOUS
  <2>2. /\ r \in VisitType
        /\ r.pc = "response" /\ r.kind = "logout" /\ r.account = None /\ r.home = b /\ r.browser = b
        /\ r.session = jar[b].session /\ r.outcome = "none"
    BY <2>1, SendsShape, Known
  <2> USE <1>2, <2>1, <2>2, Known DEF LogOut, TypeOK, VisitType
  <2>3. Alone(v)
    BY ZenonT(40) DEF Alone, Alike
  <2>4. QED
    BY <2>3 DEF Starts, database, server, past
<1>3. QED
  BY <1>1, <1>2

(* What Ask does to the visits, the jars and the tables.                   *)
LEMMA AskEffect ==
  ASSUME TypeOK, NEW v \in Visit, NEW b \in Browser, Ask(v, b)
  PROVE  /\ visit[v].pc = "idle" /\ Alone(v)
         /\ \/ /\ verifyOAuthSessionCookiePayload(jar[b].session)
               /\ Starts(v, b, "page", "row", jar[b].session, "none")
            \/ Starts(v, b, "page", "response", None, "refused")
            \/ /\ verifySessionCookie(jar[b].session)
               /\ Starts(v, b, "page", "response", None, "admitted")
         /\ visit'[v].entitled = Entitled(b)
         /\ UNCHANGED <<jar, users, sessions, hits, secret, boots, compared, now, revoked, logins>>
<1>1. PICK e \in BOOLEAN : e = Entitled(b)
  BY DEF Entitled
<1>2. CASE verifyOAuthSessionCookiePayload(jar[b].session)
  <2>1. PICK r : r = Sends(v, b, "page", "row")
    OBVIOUS
  <2>2. /\ r \in VisitType
        /\ r.pc = "row" /\ r.kind = "page" /\ r.account = None /\ r.home = b /\ r.browser = b
        /\ r.session = jar[b].session /\ r.outcome = "none"
    BY <2>1, SendsShape, Known
  <2>3. visit' = [visit EXCEPT ![v] = [r EXCEPT !.entitled = e]]
    BY <1>1, <1>2, <2>1 DEF Ask
  <2> USE <2>2, <2>3, Known DEF TypeOK, VisitType
  <2>4. Alone(v)
    BY DEF Alone, Alike
  <2>5. QED
    BY <1>1, <1>2, <2>4 DEF Starts, Ask, database, server, past
<1>3. CASE ~verifyOAuthSessionCookiePayload(jar[b].session)
  <2>1. PICK r : r = Sends(v, b, "page", "response")
    OBVIOUS
  <2>2. /\ r \in VisitType
        /\ r.pc = "response" /\ r.kind = "page" /\ r.account = None /\ r.home = b /\ r.browser = b
        /\ r.session = jar[b].session /\ r.outcome = "none"
    BY <2>1, SendsShape, Known
  <2>3. PICK outcome \in {"admitted", "refused"} :
          outcome = IF verifySessionCookie(jar[b].session) THEN "admitted" ELSE "refused"
    OBVIOUS
  <2>4. visit' = [visit EXCEPT ![v] = [r EXCEPT !.entitled = e, !.session = None, !.outcome = outcome]]
    BY <1>1, <1>3, <2>1, <2>3 DEF Ask
  <2>5. [r EXCEPT !.entitled = e, !.session = None, !.outcome = outcome] \in VisitType
    BY <2>2, Known DEF VisitType
  <2>6. visit' \in [Visit -> VisitType] /\ \A w \in Visit : w # v => visit'[w] = visit[w]
    BY <2>4, <2>5 DEF TypeOK
  <2>7. Alone(v)
    BY <2>6 DEF Alone, Alike
  <2>8. visit'[v].entitled = e /\ Starts(v, b, "page", "response", None, outcome)
    BY <2>2, <2>4 DEF Starts, TypeOK, VisitType
  <2>9. QED
    BY <1>1, <2>3, <2>7, <2>8 DEF Ask, database, server, past
<1>4. QED
  BY <1>2, <1>3

(* What Receive does to the visits, the jars and the tables.               *)
LEMMA ReceiveEffect ==
  ASSUME TypeOK, NEW v \in Visit, Receive(v)
  PROVE  /\ visit[v].pc = "response" /\ Alone(v)
         /\ GoesOn(v, "done")
         /\ visit[v].kind = "oauth" => \A w \in Away(visit[v].browser) : visit'[w].disturbed
         /\ \E session \in {visit[v].session, None, jar[visit[v].browser].session},
               state \in {None, jar[visit[v].browser].state} :
              /\ session = None \/ session = visit[v].session \/ visit[v].session = None
              /\ visit[v].kind # "oauth" => state = jar[visit[v].browser].state
              /\ Takes(visit[v].browser, session, state)
         /\ UNCHANGED <<users, sessions, hits, secret, boots, compared, now, revoked, logins>>
<1>1. PICK f : f = [visit EXCEPT ![v].pc = "done"]
  OBVIOUS
<1>2. /\ f \in [Visit -> VisitType] /\ \A w \in Visit : w # v => f[w] = visit[w]
      /\ f[v].pc = "done" /\ f[v].account = visit[v].account /\ f[v].browser = visit[v].browser
      /\ f[v].session = visit[v].session /\ f[v].outcome = visit[v].outcome
      /\ f[v].kind = visit[v].kind /\ f[v].home = visit[v].home
      /\ f[v].entitled = visit[v].entitled /\ f[v].disturbed = visit[v].disturbed
  BY <1>1, Known DEF TypeOK, VisitType
<1>3. PICK S : S = IF visit[v].kind = "oauth" THEN Away(visit[v].browser) ELSE {}
  OBVIOUS
<1>4. visit' = Disturb(f, S)
  BY <1>1, <1>3 DEF Receive
<1>5. /\ visit' \in [Visit -> VisitType]
      /\ \A w \in Visit : Alike(visit'[w], f[w]) /\ (w \in S => visit'[w].disturbed)
  BY <1>2, <1>4, DisturbShape
<1>6. Alone(v)
  BY <1>2, <1>5 DEF Alone
<1>7. GoesOn(v, "done")
  BY <1>2, <1>5 DEF GoesOn, Becomes, Alike
<1>8. visit[v].kind = "oauth" => \A w \in Away(visit[v].browser) : visit'[w].disturbed
  BY <1>3, <1>5 DEF Away
<1>9. PICK session, state :
        /\ session = IF visit[v].session # None THEN visit[v].session
                     ELSE IF visit[v].clears THEN None ELSE jar[visit[v].browser].session
        /\ state = IF visit[v].kind = "oauth" THEN None ELSE jar[visit[v].browser].state
  OBVIOUS
<1>10. jar' = [jar EXCEPT ![visit[v].browser] = [session |-> session, state |-> state]]
  BY <1>9 DEF Receive
<1>11. visit[v].pc = "response" /\ visit[v].browser \in Browser
  BY DEF Receive, TypeOK
<1>12. {session, state} \subseteq CookieType \cup {None}
  BY <1>9, <1>11 DEF TypeOK, VisitType
<1>13. Takes(visit[v].browser, session, state)
  BY <1>10, <1>11, <1>12 DEF Takes, TypeOK
<1>14. QED
  BY <1>6, <1>7, <1>8, <1>9, <1>11, <1>13 DEF Receive, database, server, past

(* What Tick does to the visits, the jars and the tables.                  *)
LEMMA TickEffect ==
  ASSUME TypeOK, Tick
  PROVE  /\ visit' \in [Visit -> VisitType] /\ \A w \in Visit : Alike(visit'[w], visit[w])
         /\ \A w \in Visit : visit[w].pc = "github" => visit'[w].disturbed
         /\ now' = now + 1
         /\ UNCHANGED <<jar, users, sessions, hits, secret, boots, compared, revoked, logins>>
<1>1. PICK S : S = {v \in Visit : visit[v].pc = "github"}
  OBVIOUS
<1>2. visit' = Disturb(visit, S)
  BY <1>1 DEF Tick
<1>3. QED
  BY <1>1, <1>2, DisturbShape DEF TypeOK, Tick, database, server, past

(* What Restart does to the visits, the jars and the tables.               *)
LEMMA RestartEffect ==
  ASSUME TypeOK, Restart
  PROVE  /\ visit' \in [Visit -> VisitType]
         /\ \A w \in Visit :
                 /\ visit[w].pc \in {"idle", "response", "done"} => Alike(visit'[w], visit[w])
                 /\ visit[w].pc = "github" => Alike(visit'[w], visit[w]) /\ visit'[w].disturbed
                 /\ visit[w].pc \notin {"idle", "response", "done", "github"} =>
                      Becomes(w, "done", visit[w].account, visit[w].browser, visit[w].session, "lost")
                      /\ visit'[w].disturbed
         /\ secret' \in {secret, boots'} /\ boots' = boots + 1
         /\ UNCHANGED <<jar, users, sessions, now, revoked, logins>>
<1> USE Known DEF TypeOK, Restart, VisitType
<1>1. visit' \in [Visit -> VisitType]
  <2>1. ASSUME NEW w \in Visit
        PROVE  /\ [visit[w] EXCEPT !.disturbed = TRUE] \in VisitType
               /\ [visit[w] EXCEPT !.pc = "done", !.outcome = "lost", !.disturbed = TRUE] \in VisitType
    OBVIOUS
  <2>2. QED
    BY <2>1 DEF TypeOK, Restart
<1>2. ASSUME NEW w \in Visit, visit[w].pc \in {"idle", "response", "done"}
      PROVE  Alike(visit'[w], visit[w])
  BY <1>2 DEF Alike
<1>3. ASSUME NEW w \in Visit, visit[w].pc = "github"
      PROVE  Alike(visit'[w], visit[w]) /\ visit'[w].disturbed
  BY <1>3 DEF Alike
<1>4. ASSUME NEW w \in Visit, visit[w].pc \notin {"idle", "response", "done", "github"}
      PROVE  Becomes(w, "done", visit[w].account, visit[w].browser, visit[w].session, "lost")
             /\ visit'[w].disturbed
  BY <1>4 DEF Becomes
<1>5. QED
  BY <1>1, <1>2, <1>3, <1>4 DEF database, past

(* Whose cookies there are.                                                *)
LEMMA Ids ==
  ASSUME TypeOK
  PROVE  /\ \A b \in Browser : /\ jar[b].session \in CookieType \cup {None}
                               /\ jar[b].state \in CookieType \cup {None}
         /\ \A v \in Visit : visit[v] \in VisitType /\ visit[v].session \in CookieType \cup {None}
         /\ \A cookie \in CookieType : cookie.id \in Visit /\ cookie # None
         /\ \A row \in sessions : row.id \in Visit /\ row.user \in Account
         /\ revoked \subseteq Visit /\ logins \subseteq [visit : Visit, at : Nat, secret : Nat]
         /\ \A v \in Visit : visit[v].pc = "idle" \/ {visit[v].home, visit[v].browser} \subseteq Browser
<1>1. \A cookie \in CookieType : cookie.id \in Visit /\ cookie # None
  BY LoginAssumption DEF CookieType
<1>2. \A x \in VisitType : x.session \in CookieType \cup {None}
  BY DEF VisitType
<1>3. QED
  BY <1>1, <1>2 DEF TypeOK

(* A login that is granted now, and the cookie that goes with it.          *)
LEMMA GrantShape ==
  ASSUME TypeOK, NEW v \in Visit
  PROVE  /\ Grant(v) \in [visit : Visit, at : Nat, secret : Nat]
         /\ Grant(v).visit = v /\ Grant(v).at = now /\ Grant(v).secret = secret
  BY DEF Grant, TypeOK

(* A step on the visits and the jars alone keeps the types of the rest.    *)
LEMMA TypeKept ==
  ASSUME TypeOK, visit' \in [Visit -> VisitType],
         \A v \in Visit : visit'[v].pc = "idle" \/ {visit'[v].home, visit'[v].browser} \subseteq Browser,
         jar' \in [Browser -> [session : CookieType \cup {None}, state : CookieType \cup {None}]],
         UNCHANGED <<users, sessions, hits, secret, boots, compared, now, revoked, logins>>
  PROVE  TypeOK'
  BY DEF TypeOK

(* Every step keeps the types, ...                                         *)
LEMMA TypeStep ==
  ASSUME TypeOK, HandlersFit, AnswersKept, [Next]_vars
  PROVE  TypeOK'
<1> USE Ids DEF Takes, Alone, Alike, Becomes, Starts, GoesOn, Answers, TypeOK
<1>1. ASSUME NEW v \in Visit, NEW b \in Browser, Begin(v, b) PROVE TypeOK'
  BY <1>1, BeginEffect, SMTT(30) DEF VisitType
<1>2. ASSUME NEW v \in Visit, NEW b \in Browser, NEW account \in Account, Callback(v, b, account)
      PROVE  TypeOK'
  BY <1>2, CallbackEffect
<1>3. ASSUME NEW v \in Visit, Exchange(v) PROVE TypeOK'
  BY <1>3, ExchangeEffect, SMTT(30)
<1>4. ASSUME NEW v \in Visit, FindUser(v) PROVE TypeOK'
  BY <1>4, FindUserEffect
<1>5. ASSUME NEW v \in Visit, InsertUser(v) PROVE TypeOK'
  BY <1>5, InsertUserEffect DEF HandlersFit, Logging
<1>6. ASSUME NEW v \in Visit, UpdateUser(v) PROVE TypeOK'
  BY <1>6, UpdateUserEffect
<1>7. ASSUME NEW v \in Visit, OpenSession(v) PROVE TypeOK'
  <2>1. visit[v].account \in Account /\ now + SESSION_TTL \in Nat
    BY <1>7, OpenSessionEffect, LoginAssumption DEF HandlersFit, Logging
  <2>2. sessions' \subseteq [id : Visit, user : Account, expires_at : Nat]
    BY <1>7, <2>1, OpenSessionEffect
  <2>3. logins' \subseteq [visit : Visit, at : Nat, secret : Nat]
    BY <1>7, GrantShape, OpenSessionEffect
  <2>4. visit' \in [Visit -> VisitType] /\ UNCHANGED <<jar, users, secret, boots, now, revoked>>
    BY <1>7, OpenSessionEffect
  <2>5. \A w \in Visit : visit'[w].pc = "idle" \/ {visit'[w].home, visit'[w].browser} \subseteq Browser
    BY <1>7, OpenSessionEffect
  <2>6. QED
    BY ONLY TypeOK, <2>2, <2>3, <2>4, <2>5 DEF TypeOK
<1>8. ASSUME NEW v \in Visit, QueryFails(v) PROVE TypeOK'
  BY <1>8, QueryFailsEffect
<1>9. ASSUME NEW v \in Visit, NEW b \in Browser, NEW right \in BOOLEAN, LogIn(v, b, right)
      PROVE  TypeOK'
  <2>1. logins' \subseteq [visit : Visit, at : Nat, secret : Nat]
    BY <1>9, GrantShape, LogInEffect
  <2>2. visit' \in [Visit -> VisitType] /\ UNCHANGED <<jar, users, sessions, secret, boots, now, revoked>>
    BY <1>9, LogInEffect
  <2>3. \A w \in Visit : visit'[w].pc = "idle" \/ {visit'[w].home, visit'[w].browser} \subseteq Browser
    BY <1>9, LogInEffect
  <2>4. QED
    BY ONLY TypeOK, <2>1, <2>2, <2>3 DEF TypeOK
<1>10. ASSUME NEW v \in Visit, NEW b \in Browser, LogOut(v, b) PROVE TypeOK'
  BY <1>10, LogOutEffect
<1>11. ASSUME NEW v \in Visit, DeleteRow(v) PROVE TypeOK'
  BY <1>11, DeleteRowEffect DEF AnswersKept, Gating, WithoutRow
<1>12. ASSUME NEW v \in Visit, NEW b \in Browser, Ask(v, b) PROVE TypeOK'
  BY <1>12, AskEffect, SMTT(30)
<1>13. ASSUME NEW v \in Visit, FindRow(v) PROVE TypeOK'
  BY <1>13, FindRowEffect
<1>14. ASSUME NEW v \in Visit, FindPrincipal(v) PROVE TypeOK'
  BY <1>14, FindPrincipalEffect
<1>15. ASSUME NEW v \in Visit, Receive(v) PROVE TypeOK'
  <2>1. visit' \in [Visit -> VisitType] /\ visit[v].browser \in Browser
    BY <1>15, ReceiveEffect
  <2>2. jar' \in [Browser -> [session : CookieType \cup {None}, state : CookieType \cup {None}]]
    BY <1>15, ReceiveEffect
  <2>3. UNCHANGED <<users, sessions, hits, secret, boots, compared, now, revoked, logins>>
    BY <1>15, ReceiveEffect
  <2>4. \A w \in Visit : visit'[w].pc = "idle" \/ {visit'[w].home, visit'[w].browser} \subseteq Browser
    BY <1>15, ReceiveEffect
  <2>5. QED
    BY ONLY <2>1, <2>2, <2>3, <2>4, TypeKept, TypeOK
<1>16. ASSUME Tick PROVE TypeOK'
  BY <1>16, TickEffect
<1>17. ASSUME Restart PROVE TypeOK'
  BY <1>17, RestartEffect
<1>18. CASE UNCHANGED vars
  BY <1>18 DEF vars, database, server, past
<1>19. QED
  BY <1>1, <1>2, <1>3, <1>4, <1>5, <1>6, <1>7, <1>8, <1>9, <1>10, <1>11, <1>12, <1>13,
     <1>14, <1>15, <1>16, <1>17, <1>18 DEF Next

(* ... every visit where its handler has brought it, ...                  *)
LEMMA HandlersStep ==
  ASSUME IInv, [Next]_vars
  PROVE  HandlersFit'
<1> USE Ids
   DEF Takes, Alone, Alike, Becomes, Starts, GoesOn, Answers, IInv, HandlersFit, Logging,
       Gating
<1>1. ASSUME NEW v \in Visit, NEW b \in Browser, Begin(v, b) PROVE HandlersFit'
  BY <1>1, BeginEffect
<1>2. ASSUME NEW v \in Visit, NEW b \in Browser, NEW account \in Account, Callback(v, b, account)
      PROVE  HandlersFit'
  BY <1>2, CallbackEffect DEF GoodState, JarsKept, verifySignedPayloadCookie
<1>3. ASSUME NEW v \in Visit, Exchange(v) PROVE HandlersFit'
  BY <1>3, ExchangeEffect
<1>4. ASSUME NEW v \in Visit, FindUser(v) PROVE HandlersFit'
  BY <1>4, FindUserEffect DEF Found
<1>5. ASSUME NEW v \in Visit, InsertUser(v) PROVE HandlersFit'
  BY <1>5, InsertUserEffect
<1>6. ASSUME NEW v \in Visit, UpdateUser(v) PROVE HandlersFit'
  BY <1>6, UpdateUserEffect
<1>7. ASSUME NEW v \in Visit, OpenSession(v) PROVE HandlersFit'
  BY <1>7, OpenSessionEffect
<1>8. ASSUME NEW v \in Visit, QueryFails(v) PROVE HandlersFit'
  BY <1>8, QueryFailsEffect
<1>9. ASSUME NEW v \in Visit, NEW b \in Browser, NEW right \in BOOLEAN, LogIn(v, b, right)
      PROVE  HandlersFit'
  BY <1>9, LogInEffect
<1>10. ASSUME NEW v \in Visit, NEW b \in Browser, LogOut(v, b) PROVE HandlersFit'
  BY <1>10, LogOutEffect
<1>11. ASSUME NEW v \in Visit, DeleteRow(v) PROVE HandlersFit'
  BY <1>11, DeleteRowEffect
<1>12. ASSUME NEW v \in Visit, NEW b \in Browser, Ask(v, b) PROVE HandlersFit'
  BY <1>12, AskEffect
<1>13. ASSUME NEW v \in Visit, FindRow(v) PROVE HandlersFit'
  BY <1>13, FindRowEffect
<1>14. ASSUME NEW v \in Visit, FindPrincipal(v) PROVE HandlersFit'
  BY <1>14, FindPrincipalEffect
<1>15. ASSUME NEW v \in Visit, Receive(v) PROVE HandlersFit'
  BY <1>15, ReceiveEffect
<1>16. ASSUME Tick PROVE HandlersFit'
  BY <1>16, TickEffect
<1>17. ASSUME Restart PROVE HandlersFit'
  BY <1>17, RestartEffect
<1>18. CASE UNCHANGED vars
  BY <1>18 DEF vars, database, server, past
<1>19. QED
  BY <1>1, <1>2, <1>3, <1>4, <1>5, <1>6, <1>7, <1>8, <1>9, <1>10, <1>11, <1>12, <1>13,
     <1>14, <1>15, <1>16, <1>17, <1>18 DEF Next

(* ... every cookie where it belongs, ...                                  *)
LEMMA JarStep ==
  ASSUME TypeOK, HandlersFit, JarsKept, AnswersKept, [Next]_vars
  PROVE  JarsKept'
<1> USE Ids
   DEF Takes, Alone, Alike, Becomes, Starts, GoesOn, Answers, HandlersFit, JarsKept,
       AnswersKept, Granted, Logging, Gating
<1>1. ASSUME NEW v \in Visit, NEW b \in Browser, Begin(v, b) PROVE JarsKept'
  BY <1>1, BeginEffect
<1>2. ASSUME NEW v \in Visit, NEW b \in Browser, NEW account \in Account, Callback(v, b, account)
      PROVE  JarsKept'
  BY <1>2, CallbackEffect
<1>3. ASSUME NEW v \in Visit, Exchange(v) PROVE JarsKept'
  BY <1>3, ExchangeEffect
<1>4. ASSUME NEW v \in Visit, FindUser(v) PROVE JarsKept'
  BY <1>4, FindUserEffect
<1>5. ASSUME NEW v \in Visit, InsertUser(v) PROVE JarsKept'
  BY <1>5, InsertUserEffect
<1>6. ASSUME NEW v \in Visit, UpdateUser(v) PROVE JarsKept'
  BY <1>6, UpdateUserEffect
<1>7. ASSUME NEW v \in Visit, OpenSession(v) PROVE JarsKept'
  BY <1>7, OpenSessionEffect
<1>8. ASSUME NEW v \in Visit, QueryFails(v) PROVE JarsKept'
  BY <1>8, QueryFailsEffect
<1>9. ASSUME NEW v \in Visit, NEW b \in Browser, NEW right \in BOOLEAN, LogIn(v, b, right)
      PROVE  JarsKept'
  BY <1>9, LogInEffect
<1>10. ASSUME NEW v \in Visit, NEW b \in Browser, LogOut(v, b) PROVE JarsKept'
  BY <1>10, LogOutEffect
<1>11. ASSUME NEW v \in Visit, DeleteRow(v) PROVE JarsKept'
  BY <1>11, DeleteRowEffect
<1>12. ASSUME NEW v \in Visit, NEW b \in Browser, Ask(v, b) PROVE JarsKept'
  BY <1>12, AskEffect
<1>13. ASSUME NEW v \in Visit, FindRow(v) PROVE JarsKept'
  BY <1>13, FindRowEffect
<1>14. ASSUME NEW v \in Visit, FindPrincipal(v) PROVE JarsKept'
  BY <1>14, FindPrincipalEffect
<1>15. ASSUME NEW v \in Visit, Receive(v) PROVE JarsKept'
  BY <1>15, ReceiveEffect, SMTT(30)
<1>16. ASSUME Tick PROVE JarsKept'
  BY <1>16, TickEffect
<1>17. ASSUME Restart PROVE JarsKept'
  BY <1>17, RestartEffect
<1>18. CASE UNCHANGED vars
  BY <1>18 DEF vars, database, server, past
<1> HIDE DEF JarsKept
<1>19. QED
  BY <1>1, <1>2, <1>3, <1>4, <1>5, <1>6, <1>7, <1>8, <1>9, <1>10, <1>11, <1>12, <1>13,
     <1>14, <1>15, <1>16, <1>17, <1>18 DEF Next

(* ... on its way there, too, ...                                          *)
LEMMA AnswerStep ==
  ASSUME TypeOK, HandlersFit, JarsKept, AnswersKept, [Next]_vars
  PROVE  AnswersKept'
<1> USE Ids
   DEF Takes, Alone, Alike, Becomes, Starts, GoesOn, Answers, HandlersFit, JarsKept,
       AnswersKept, Logging, Gating
<1>1. ASSUME NEW v \in Visit, NEW b \in Browser, Begin(v, b) PROVE AnswersKept'
  BY <1>1, BeginEffect
<1>2. ASSUME NEW v \in Visit, NEW b \in Browser, NEW account \in Account, Callback(v, b, account)
      PROVE  AnswersKept'
  BY <1>2, CallbackEffect
<1>3. ASSUME NEW v \in Visit, Exchange(v) PROVE AnswersKept'
  BY <1>3, ExchangeEffect
<1>4. ASSUME NEW v \in Visit, FindUser(v) PROVE AnswersKept'
  BY <1>4, FindUserEffect
<1>5. ASSUME NEW v \in Visit, InsertUser(v) PROVE AnswersKept'
  BY <1>5, InsertUserEffect
<1>6. ASSUME NEW v \in Visit, UpdateUser(v) PROVE AnswersKept'
  BY <1>6, UpdateUserEffect
<1>7. ASSUME NEW v \in Visit, OpenSession(v) PROVE AnswersKept'
  BY <1>7, OpenSessionEffect DEF Fresh
<1>8. ASSUME NEW v \in Visit, QueryFails(v) PROVE AnswersKept'
  BY <1>8, QueryFailsEffect
<1>9. ASSUME NEW v \in Visit, NEW b \in Browser, NEW right \in BOOLEAN, LogIn(v, b, right)
      PROVE  AnswersKept'
  BY <1>9, LogInEffect DEF Fresh
<1>10. ASSUME NEW v \in Visit, NEW b \in Browser, LogOut(v, b) PROVE AnswersKept'
  BY <1>10, LogOutEffect
     DEF Granted, verifyOAuthSessionCookiePayload, verifySessionCookie,
         verifySignedPayloadCookie
<1>11. ASSUME NEW v \in Visit, DeleteRow(v) PROVE AnswersKept'
  BY <1>11, DeleteRowEffect
<1>12. ASSUME NEW v \in Visit, NEW b \in Browser, Ask(v, b) PROVE AnswersKept'
  BY <1>12, AskEffect
     DEF Granted, verifyOAuthSessionCookiePayload, verifySessionCookie,
         verifySignedPayloadCookie
<1>13. ASSUME NEW v \in Visit, FindRow(v) PROVE AnswersKept'
  BY <1>13, FindRowEffect
<1>14. ASSUME NEW v \in Visit, FindPrincipal(v) PROVE AnswersKept'
  BY <1>14, FindPrincipalEffect
<1>15. ASSUME NEW v \in Visit, Receive(v) PROVE AnswersKept'
  BY <1>15, ReceiveEffect
<1>16. ASSUME Tick PROVE AnswersKept'
  BY <1>16, TickEffect
<1>17. ASSUME Restart PROVE AnswersKept'
  BY <1>17, RestartEffect
<1>18. CASE UNCHANGED vars
  BY <1>18 DEF vars, database, server, past
<1> HIDE DEF AnswersKept
<1>19. QED
  BY <1>1, <1>2, <1>3, <1>4, <1>5, <1>6, <1>7, <1>8, <1>9, <1>10, <1>11, <1>12, <1>13,
     <1>14, <1>15, <1>16, <1>17, <1>18 DEF Next

(* ... the login each cookie comes from on record, ...                     *)
LEMMA LoginsStep ==
  ASSUME TypeOK, HandlersFit, LoginsKept, [Next]_vars
  PROVE  LoginsKept'
<1> USE Ids
   DEF Takes, Alone, Alike, Becomes, Starts, GoesOn, Answers, HandlersFit, LoginsKept, Recorded,
       Logging, Gating
<1>1. ASSUME NEW v \in Visit, NEW b \in Browser, Begin(v, b) PROVE LoginsKept'
  <2>1. \A a \in Browser : jar'[a].session = jar[a].session
    BY <1>1, BeginEffect
  <2>2. Alone(v) /\ logins' = logins /\ visit'[v].pc = "github"
    BY <1>1, BeginEffect
  <2>3. QED
    BY <2>1, <2>2
<1>2. ASSUME NEW v \in Visit, NEW b \in Browser, NEW account \in Account, Callback(v, b, account)
      PROVE  LoginsKept'
  BY <1>2, CallbackEffect
<1>3. ASSUME NEW v \in Visit, Exchange(v) PROVE LoginsKept'
  BY <1>3, ExchangeEffect
<1>4. ASSUME NEW v \in Visit, FindUser(v) PROVE LoginsKept'
  BY <1>4, FindUserEffect
<1>5. ASSUME NEW v \in Visit, InsertUser(v) PROVE LoginsKept'
  BY <1>5, InsertUserEffect
<1>6. ASSUME NEW v \in Visit, UpdateUser(v) PROVE LoginsKept'
  BY <1>6, UpdateUserEffect
<1>7. ASSUME NEW v \in Visit, OpenSession(v) PROVE LoginsKept'
  <2>1. PICK cookie : Fresh(cookie, v) /\ Answers(v, "home", cookie)
    BY <1>7, OpenSessionEffect
  <2>2. Alone(v) /\ jar' = jar /\ logins' = logins \cup {Grant(v)} /\ visit'[v].session = cookie
    BY <1>7, <2>1, OpenSessionEffect
  <2>3. \E login \in logins' :
          /\ login.visit = cookie.id /\ login.secret = cookie.secret
          /\ cookie.exp = login.at + SESSION_TTL
    BY <2>1, <2>2, GrantShape DEF Fresh
  <2>4. \A b \in Browser : jar'[b].session # None => Recorded(jar[b].session)'
    BY <2>2
  <2>5. \A w \in Visit \ {v} :
          visit'[w].pc = "response" /\ visit'[w].session # None => Recorded(visit[w].session)'
    BY <2>2
  <2>6. Recorded(visit[v].session)'
    BY <2>2, <2>3
  <2>7. QED
    BY ONLY <2>4, <2>5, <2>6 DEF LoginsKept
<1>8. ASSUME NEW v \in Visit, QueryFails(v) PROVE LoginsKept'
  BY <1>8, QueryFailsEffect
<1>9. ASSUME NEW v \in Visit, NEW b \in Browser, NEW right \in BOOLEAN, LogIn(v, b, right)
      PROVE  LoginsKept'
  <2>1. Alone(v) /\ jar' = jar /\ logins \subseteq logins'
    BY <1>9, LogInEffect
  <2>2. ASSUME visit'[v].session # None
        PROVE  \E login \in logins' :
                 /\ login.visit = visit'[v].session.id /\ login.secret = visit'[v].session.secret
                 /\ visit'[v].session.exp = login.at + SESSION_TTL
    <3>1. PICK cookie : /\ Fresh(cookie, v) /\ Starts(v, b, "password", "response", cookie, "home")
                        /\ logins' = logins \cup {Grant(v)}
      BY <1>9, <2>2, LogInEffect
    <3>2. visit'[v].session = cookie /\ Grant(v) \in logins'
      BY <3>1
    <3>3. QED
      BY <3>1, <3>2, GrantShape DEF Fresh
  <2>3. QED
    BY <2>1, <2>2
<1>10. ASSUME NEW v \in Visit, NEW b \in Browser, LogOut(v, b) PROVE LoginsKept'
  BY <1>10, LogOutEffect
<1>11. ASSUME NEW v \in Visit, DeleteRow(v) PROVE LoginsKept'
  BY <1>11, DeleteRowEffect
<1>12. ASSUME NEW v \in Visit, NEW b \in Browser, Ask(v, b) PROVE LoginsKept'
  BY <1>12, AskEffect
<1>13. ASSUME NEW v \in Visit, FindRow(v) PROVE LoginsKept'
  BY <1>13, FindRowEffect
<1>14. ASSUME NEW v \in Visit, FindPrincipal(v) PROVE LoginsKept'
  BY <1>14, FindPrincipalEffect
<1>15. ASSUME NEW v \in Visit, Receive(v) PROVE LoginsKept'
  BY <1>15, ReceiveEffect, SMTT(30)
<1>16. ASSUME Tick PROVE LoginsKept'
  BY <1>16, TickEffect
<1>17. ASSUME Restart PROVE LoginsKept'
  BY <1>17, RestartEffect
<1>18. CASE UNCHANGED vars
  BY <1>18 DEF vars, database, server, past
<1> HIDE DEF LoginsKept
<1>19. QED
  BY <1>1, <1>2, <1>3, <1>4, <1>5, <1>6, <1>7, <1>8, <1>9, <1>10, <1>11, <1>12, <1>13,
     <1>14, <1>15, <1>16, <1>17, <1>18 DEF Next

(* ... no row of a session that is over, ...                               *)
LEMMA RowStep ==
  ASSUME TypeOK, HandlersFit, AnswersKept, RowsGone, [Next]_vars
  PROVE  RowsGone'
<1> USE Ids
   DEF Takes, Alone, Alike, Becomes, Starts, GoesOn, Answers, HandlersFit, AnswersKept,
       RowsGone, Gating, Logging
<1>1. ASSUME NEW v \in Visit, NEW b \in Browser, Begin(v, b) PROVE RowsGone'
  BY <1>1, BeginEffect
<1>2. ASSUME NEW v \in Visit, NEW b \in Browser, NEW account \in Account, Callback(v, b, account)
      PROVE  RowsGone'
  BY <1>2, CallbackEffect
<1>3. ASSUME NEW v \in Visit, Exchange(v) PROVE RowsGone'
  BY <1>3, ExchangeEffect
<1>4. ASSUME NEW v \in Visit, FindUser(v) PROVE RowsGone'
  BY <1>4, FindUserEffect
<1>5. ASSUME NEW v \in Visit, InsertUser(v) PROVE RowsGone'
  BY <1>5, InsertUserEffect
<1>6. ASSUME NEW v \in Visit, UpdateUser(v) PROVE RowsGone'
  BY <1>6, UpdateUserEffect
<1>7. ASSUME NEW v \in Visit, OpenSession(v) PROVE RowsGone'
  BY <1>7, OpenSessionEffect
<1>8. ASSUME NEW v \in Visit, QueryFails(v) PROVE RowsGone'
  BY <1>8, QueryFailsEffect
<1>9. ASSUME NEW v \in Visit, NEW b \in Browser, NEW right \in BOOLEAN, LogIn(v, b, right)
      PROVE  RowsGone'
  BY <1>9, LogInEffect
<1>10. ASSUME NEW v \in Visit, NEW b \in Browser, LogOut(v, b) PROVE RowsGone'
  BY <1>10, LogOutEffect
<1>11. ASSUME NEW v \in Visit, DeleteRow(v) PROVE RowsGone'
  BY <1>11, DeleteRowEffect DEF WithoutRow
<1>12. ASSUME NEW v \in Visit, NEW b \in Browser, Ask(v, b) PROVE RowsGone'
  BY <1>12, AskEffect
<1>13. ASSUME NEW v \in Visit, FindRow(v) PROVE RowsGone'
  BY <1>13, FindRowEffect
<1>14. ASSUME NEW v \in Visit, FindPrincipal(v) PROVE RowsGone'
  BY <1>14, FindPrincipalEffect
<1>15. ASSUME NEW v \in Visit, Receive(v) PROVE RowsGone'
  BY <1>15, ReceiveEffect
<1>16. ASSUME Tick PROVE RowsGone'
  BY <1>16, TickEffect
<1>17. ASSUME Restart PROVE RowsGone'
  BY <1>17, RestartEffect
<1>18. CASE UNCHANGED vars
  BY <1>18 DEF vars, database, server, past
<1> HIDE DEF RowsGone
<1>19. QED
  BY <1>1, <1>2, <1>3, <1>4, <1>5, <1>6, <1>7, <1>8, <1>9, <1>10, <1>11, <1>12, <1>13,
     <1>14, <1>15, <1>16, <1>17, <1>18 DEF Next

(* ... the gate shut to it, ...                                            *)
LEMMA GateStep ==
  ASSUME TypeOK, HandlersFit, JarsKept, AnswersKept, LoginsKept, RowsGone, GateKept, [Next]_vars
  PROVE  GateKept'
<1> USE Ids
   DEF Takes, Alone, Alike, Becomes, Starts, GoesOn, Answers, GateKept,
       AdmittedWereEntitled
<1>1. ASSUME NEW v \in Visit, NEW b \in Browser, Begin(v, b) PROVE GateKept'
  BY <1>1, BeginEffect, SMTT(30)
<1>2. ASSUME NEW v \in Visit, NEW b \in Browser, NEW account \in Account, Callback(v, b, account)
      PROVE  GateKept'
  BY <1>2, CallbackEffect, SMTT(30)
<1>3. ASSUME NEW v \in Visit, Exchange(v) PROVE GateKept'
  BY <1>3, ExchangeEffect
<1>4. ASSUME NEW v \in Visit, FindUser(v) PROVE GateKept'
  BY <1>4, FindUserEffect
<1>5. ASSUME NEW v \in Visit, InsertUser(v) PROVE GateKept'
  BY <1>5, InsertUserEffect
<1>6. ASSUME NEW v \in Visit, UpdateUser(v) PROVE GateKept'
  BY <1>6, UpdateUserEffect
<1>7. ASSUME NEW v \in Visit, OpenSession(v) PROVE GateKept'
  BY <1>7, OpenSessionEffect
<1>8. ASSUME NEW v \in Visit, QueryFails(v) PROVE GateKept'
  BY <1>8, QueryFailsEffect
<1>9. ASSUME NEW v \in Visit, NEW b \in Browser, NEW right \in BOOLEAN, LogIn(v, b, right)
      PROVE  GateKept'
  BY <1>9, LogInEffect
<1>10. ASSUME NEW v \in Visit, NEW b \in Browser, LogOut(v, b) PROVE GateKept'
  BY <1>10, LogOutEffect, SMTT(30)
<1>11. ASSUME NEW v \in Visit, DeleteRow(v) PROVE GateKept'
  BY <1>11, DeleteRowEffect
<1>12. ASSUME NEW v \in Visit, NEW b \in Browser, Ask(v, b) PROVE GateKept'
  <2>1. PICK e \in BOOLEAN : e = Entitled(b) /\ visit'[v].entitled = e
    BY <1>12, AskEffect DEF Entitled
  <2>2. ASSUME verifySignedPayloadCookie(jar[b].session),
               visit[jar[b].session.id].kind = "oauth" => jar[b].session.id \notin revoked
        PROVE  e
    <3>1. /\ jar[b].session # None /\ Granted(jar[b].session, b) /\ Recorded(jar[b].session)
          /\ jar[b].session.secret = secret /\ now <= jar[b].session.exp
      BY <2>2 DEF verifySignedPayloadCookie, JarsKept, LoginsKept
    <3>2. PICK login \in logins :
            /\ login.visit = jar[b].session.id /\ login.secret = secret
            /\ jar[b].session.exp = login.at + SESSION_TTL
      BY <3>1 DEF Recorded
    <3>3. now - login.at <= SESSION_TTL
      BY <3>1, <3>2, LoginAssumption DEF TypeOK
    <3>4. Entitled(b)
      BY <2>2, <3>1, <3>2, <3>3 DEF Entitled, Granted
    <3>5. QED
      BY <2>1, <3>4
  <2>3. /\ verifySessionCookie(jar[b].session) => e
        /\ verifyOAuthSessionCookiePayload(jar[b].session) /\ ~e => jar[b].session.id \in revoked
    BY <2>2
       DEF verifySessionCookie, verifyOAuthSessionCookiePayload, verifySignedPayloadCookie, JarsKept, Granted
  <2>4. QED
    BY <1>12, <2>1, <2>3, AskEffect, SMTT(30)
<1>13. ASSUME NEW v \in Visit, FindRow(v) PROVE GateKept'
  BY <1>13, FindRowEffect DEF RowsGone
<1>14. ASSUME NEW v \in Visit, FindPrincipal(v) PROVE GateKept'
  BY <1>14, FindPrincipalEffect
<1>15. ASSUME NEW v \in Visit, Receive(v) PROVE GateKept'
  BY <1>15, ReceiveEffect
<1>16. ASSUME Tick PROVE GateKept'
  BY <1>16, TickEffect
<1>17. ASSUME Restart PROVE GateKept'
  BY <1>17, RestartEffect
<1>18. CASE UNCHANGED vars
  BY <1>18 DEF vars, database, server, past
<1> HIDE DEF GateKept
<1>19. QED
  BY <1>1, <1>2, <1>3, <1>4, <1>5, <1>6, <1>7, <1>8, <1>9, <1>10, <1>11, <1>12, <1>13,
     <1>14, <1>15, <1>16, <1>17, <1>18 DEF Next

(* ... the state cookie of a login that nothing has come between, ...      *)
LEMMA AwayStep ==
  ASSUME TypeOK, HandlersFit, JarsKept, AwayUndisturbed, [Next]_vars
  PROVE  AwayUndisturbed'
<1> USE Ids DEF Takes, Alone, Alike, Becomes, Starts, GoesOn, Answers, AwayUndisturbed, StillGood
<1>1. ASSUME NEW v \in Visit, NEW b \in Browser, Begin(v, b) PROVE AwayUndisturbed'
  BY <1>1, BeginEffect, SMTT(30) DEF Away
<1>2. ASSUME NEW v \in Visit, NEW b \in Browser, NEW account \in Account, Callback(v, b, account)
      PROVE  AwayUndisturbed'
  BY <1>2, CallbackEffect
<1>3. ASSUME NEW v \in Visit, Exchange(v) PROVE AwayUndisturbed'
  BY <1>3, ExchangeEffect
<1>4. ASSUME NEW v \in Visit, FindUser(v) PROVE AwayUndisturbed'
  BY <1>4, FindUserEffect
<1>5. ASSUME NEW v \in Visit, InsertUser(v) PROVE AwayUndisturbed'
  BY <1>5, InsertUserEffect
<1>6. ASSUME NEW v \in Visit, UpdateUser(v) PROVE AwayUndisturbed'
  BY <1>6, UpdateUserEffect
<1>7. ASSUME NEW v \in Visit, OpenSession(v) PROVE AwayUndisturbed'
  BY <1>7, OpenSessionEffect
<1>8. ASSUME NEW v \in Visit, QueryFails(v) PROVE AwayUndisturbed'
  BY <1>8, QueryFailsEffect
<1>9. ASSUME NEW v \in Visit, NEW b \in Browser, NEW right \in BOOLEAN, LogIn(v, b, right)
      PROVE  AwayUndisturbed'
  BY <1>9, LogInEffect
<1>10. ASSUME NEW v \in Visit, NEW b \in Browser, LogOut(v, b) PROVE AwayUndisturbed'
  BY <1>10, LogOutEffect
<1>11. ASSUME NEW v \in Visit, DeleteRow(v) PROVE AwayUndisturbed'
  BY <1>11, DeleteRowEffect
<1>12. ASSUME NEW v \in Visit, NEW b \in Browser, Ask(v, b) PROVE AwayUndisturbed'
  BY <1>12, AskEffect
<1>13. ASSUME NEW v \in Visit, FindRow(v) PROVE AwayUndisturbed'
  BY <1>13, FindRowEffect
<1>14. ASSUME NEW v \in Visit, FindPrincipal(v) PROVE AwayUndisturbed'
  BY <1>14, FindPrincipalEffect
<1>15. ASSUME NEW v \in Visit, Receive(v) PROVE AwayUndisturbed'
  BY <1>15, ReceiveEffect, SMTT(30) DEF Away
<1>16. ASSUME Tick PROVE AwayUndisturbed'
  BY <1>16, TickEffect
<1>17. ASSUME Restart PROVE AwayUndisturbed'
  BY <1>17, RestartEffect
<1>18. CASE UNCHANGED vars
  BY <1>18 DEF vars, database, server, past
<1> HIDE DEF AwayUndisturbed
<1>19. QED
  BY <1>1, <1>2, <1>3, <1>4, <1>5, <1>6, <1>7, <1>8, <1>9, <1>10, <1>11, <1>12, <1>13,
     <1>14, <1>15, <1>16, <1>17, <1>18 DEF Next

(* ... its being alone with its account, ...                               *)
LEMMA AloneStep ==
  ASSUME TypeOK, HandlersFit, AloneUndisturbed, [Next]_vars
  PROVE  AloneUndisturbed'
<1> USE Ids DEF Takes, Alone, Alike, Becomes, Starts, GoesOn, Answers, AloneUndisturbed
<1>1. ASSUME NEW v \in Visit, NEW b \in Browser, Begin(v, b) PROVE AloneUndisturbed'
  BY <1>1, BeginEffect
<1>2. ASSUME NEW v \in Visit, NEW b \in Browser, NEW account \in Account, Callback(v, b, account)
      PROVE  AloneUndisturbed'
  BY <1>2, CallbackEffect
<1>3. ASSUME NEW v \in Visit, Exchange(v) PROVE AloneUndisturbed'
  BY <1>3, ExchangeEffect
<1>4. ASSUME NEW v \in Visit, FindUser(v) PROVE AloneUndisturbed'
  BY <1>4, FindUserEffect DEF Found
<1>5. ASSUME NEW v \in Visit, InsertUser(v) PROVE AloneUndisturbed'
  BY <1>5, InsertUserEffect
<1>6. ASSUME NEW v \in Visit, UpdateUser(v) PROVE AloneUndisturbed'
  BY <1>6, UpdateUserEffect
<1>7. ASSUME NEW v \in Visit, OpenSession(v) PROVE AloneUndisturbed'
  BY <1>7, OpenSessionEffect
<1>8. ASSUME NEW v \in Visit, QueryFails(v) PROVE AloneUndisturbed'
  BY <1>8, QueryFailsEffect
<1>9. ASSUME NEW v \in Visit, NEW b \in Browser, NEW right \in BOOLEAN, LogIn(v, b, right)
      PROVE  AloneUndisturbed'
  BY <1>9, LogInEffect
<1>10. ASSUME NEW v \in Visit, NEW b \in Browser, LogOut(v, b) PROVE AloneUndisturbed'
  BY <1>10, LogOutEffect
<1>11. ASSUME NEW v \in Visit, DeleteRow(v) PROVE AloneUndisturbed'
  BY <1>11, DeleteRowEffect
<1>12. ASSUME NEW v \in Visit, NEW b \in Browser, Ask(v, b) PROVE AloneUndisturbed'
  BY <1>12, AskEffect
<1>13. ASSUME NEW v \in Visit, FindRow(v) PROVE AloneUndisturbed'
  BY <1>13, FindRowEffect
<1>14. ASSUME NEW v \in Visit, FindPrincipal(v) PROVE AloneUndisturbed'
  BY <1>14, FindPrincipalEffect
<1>15. ASSUME NEW v \in Visit, Receive(v) PROVE AloneUndisturbed'
  BY <1>15, ReceiveEffect
<1>16. ASSUME Tick PROVE AloneUndisturbed'
  BY <1>16, TickEffect
<1>17. ASSUME Restart PROVE AloneUndisturbed'
  BY <1>17, RestartEffect
<1>18. CASE UNCHANGED vars
  BY <1>18 DEF vars, database, server, past
<1> HIDE DEF AloneUndisturbed
<1>19. QED
  BY <1>1, <1>2, <1>3, <1>4, <1>5, <1>6, <1>7, <1>8, <1>9, <1>10, <1>11, <1>12, <1>13,
     <1>14, <1>15, <1>16, <1>17, <1>18 DEF Next

(* ... and its success.                                                    *)
LEMMA SuccessStep ==
  ASSUME TypeOK, HandlersFit, AwayUndisturbed, AloneUndisturbed, UndisturbedLoginSucceeds, [Next]_vars
  PROVE  UndisturbedLoginSucceeds'
<1> USE Ids DEF Takes, Alone, Alike, Becomes, Starts, GoesOn, Answers, UndisturbedLoginSucceeds
<1>1. ASSUME NEW v \in Visit, NEW b \in Browser, Begin(v, b) PROVE UndisturbedLoginSucceeds'
  BY <1>1, BeginEffect
<1>2. ASSUME NEW v \in Visit, NEW b \in Browser, NEW account \in Account, Callback(v, b, account)
      PROVE  UndisturbedLoginSucceeds'
  BY <1>2, CallbackEffect DEF GoodState, verifySignedPayloadCookie, AwayUndisturbed, StillGood
<1>3. ASSUME NEW v \in Visit, Exchange(v) PROVE UndisturbedLoginSucceeds'
  BY <1>3, ExchangeEffect DEF HandlersFit, Logging
<1>4. ASSUME NEW v \in Visit, FindUser(v) PROVE UndisturbedLoginSucceeds'
  BY <1>4, FindUserEffect
<1>5. ASSUME NEW v \in Visit, InsertUser(v) PROVE UndisturbedLoginSucceeds'
  BY <1>5, InsertUserEffect DEF AloneUndisturbed
<1>6. ASSUME NEW v \in Visit, UpdateUser(v) PROVE UndisturbedLoginSucceeds'
  BY <1>6, UpdateUserEffect
<1>7. ASSUME NEW v \in Visit, OpenSession(v) PROVE UndisturbedLoginSucceeds'
  BY <1>7, OpenSessionEffect
<1>8. ASSUME NEW v \in Visit, QueryFails(v) PROVE UndisturbedLoginSucceeds'
  BY <1>8, QueryFailsEffect DEF HandlersFit, Logging, Gating
<1>9. ASSUME NEW v \in Visit, NEW b \in Browser, NEW right \in BOOLEAN, LogIn(v, b, right)
      PROVE  UndisturbedLoginSucceeds'
  BY <1>9, LogInEffect
<1>10. ASSUME NEW v \in Visit, NEW b \in Browser, LogOut(v, b) PROVE UndisturbedLoginSucceeds'
  BY <1>10, LogOutEffect
<1>11. ASSUME NEW v \in Visit, DeleteRow(v) PROVE UndisturbedLoginSucceeds'
  BY <1>11, DeleteRowEffect DEF HandlersFit, Gating
<1>12. ASSUME NEW v \in Visit, NEW b \in Browser, Ask(v, b) PROVE UndisturbedLoginSucceeds'
  BY <1>12, AskEffect
<1>13. ASSUME NEW v \in Visit, FindRow(v) PROVE UndisturbedLoginSucceeds'
  BY <1>13, FindRowEffect DEF HandlersFit, Gating
<1>14. ASSUME NEW v \in Visit, FindPrincipal(v) PROVE UndisturbedLoginSucceeds'
  BY <1>14, FindPrincipalEffect DEF HandlersFit, Gating
<1>15. ASSUME NEW v \in Visit, Receive(v) PROVE UndisturbedLoginSucceeds'
  BY <1>15, ReceiveEffect
<1>16. ASSUME Tick PROVE UndisturbedLoginSucceeds'
  BY <1>16, TickEffect
<1>17. ASSUME Restart PROVE UndisturbedLoginSucceeds'
  BY <1>17, RestartEffect DEF HandlersFit, Logging
<1>18. CASE UNCHANGED vars
  BY <1>18 DEF vars, database, server, past
<1> HIDE DEF UndisturbedLoginSucceeds
<1>19. QED
  BY <1>1, <1>2, <1>3, <1>4, <1>5, <1>6, <1>7, <1>8, <1>9, <1>10, <1>11, <1>12, <1>13,
     <1>14, <1>15, <1>16, <1>17, <1>18 DEF Next

(* It holds before anyone has come.                                        *)
LEMMA InitIInv ==
  ASSUME Init
  PROVE  IInv
<1>1. NoVisit \in VisitType
  BY Known DEF NoVisit, VisitType
<1>2. \A v \in Visit : visit[v] = NoVisit
  BY DEF Init
<1>3. \A v \in Visit : /\ visit[v].pc = "idle" /\ visit[v].kind = "none" /\ visit[v].outcome = "none"
                       /\ visit[v].session = None
  BY <1>2 DEF NoVisit
<1>4. TypeOK
  BY <1>1, <1>3 DEF Init, TypeOK
<1>5. \A b \in Browser : jar[b].session = None /\ jar[b].state = None
  BY DEF Init
<1>6. HandlersFit /\ JarsKept /\ AnswersKept /\ LoginsKept
  BY <1>3, <1>5 DEF HandlersFit, JarsKept, AnswersKept, LoginsKept, Logging, Gating
<1>7. RowsGone /\ GateKept
  BY <1>3 DEF Init, RowsGone, GateKept, AdmittedWereEntitled
<1>8. AwayUndisturbed /\ AloneUndisturbed /\ UndisturbedLoginSucceeds
  BY <1>3 DEF AwayUndisturbed, AloneUndisturbed, UndisturbedLoginSucceeds
<1>9. QED
  BY <1>4, <1>6, <1>7, <1>8 DEF IInv

-----------------------------------------------------------------------------
(* What holds of the login whatever happens, for any number of visits at   *)
(* once: the inductive invariant, ...                                      *)
THEOREM Invariance == Spec => []IInv
<1>1. IInv /\ [Next]_vars => IInv'
  BY TypeStep, HandlersStep, JarStep, AnswerStep, LoginsStep, RowStep, GateStep, AwayStep, AloneStep,
     SuccessStep
     DEF IInv
<1>2. QED
  BY <1>1, InitIInv, PTL DEF Spec

(* ... the types, ...                                                      *)
THEOREM TypeCorrect == Spec => []TypeOK
<1>1. IInv => TypeOK
  BY DEF IInv
<1>2. QED
  BY <1>1, Invariance, PTL

(* ... and so every session row is that of an allowed account that has a   *)
(* row of its own, and its cookie is only ever in the browser in which     *)
(* that login began (the callback, handleCallback): nobody is logged in as *)
(* somebody else by a link he opened.                                      *)
THEOREM SessionsTheorem == Spec => []SessionsComeHome
<1>1. IInv => SessionsComeHome
  BY DEF IInv, RowsGone, JarsKept, Granted, SessionsComeHome
<1>2. QED
  BY <1>1, Invariance, PTL

(* A gate that lets a visitor in lets in one who has logged in, in that    *)
(* browser, and whose login was not over when he asked: by a logout,       *)
(* however its answer and his request cross, by its age, or by a restart   *)
(* with a new secret (resolvePrincipal, POST /logout).                     *)
THEOREM AdmissionTheorem == Spec => []AdmittedWereEntitled
<1>1. IInv => AdmittedWereEntitled
  BY DEF IInv, GateKept
<1>2. QED
  BY <1>1, Invariance, PTL

(* A login of an allowed account that ends without one of the              *)
(* disturbances the history names ends at home (handleCallback).           *)
THEOREM SuccessTheorem == Spec => []UndisturbedLoginSucceeds
<1>1. IInv => UndisturbedLoginSucceeds
  BY DEF IInv
<1>2. QED
  BY <1>1, Invariance, PTL

-----------------------------------------------------------------------------
(* The attempts at which a password was compared in the window that ends   *)
(* at t.                                                                   *)
Window(t) == {hit \in compared : hit.time <= t /\ t - hit.time < windowMs}

(* The limiter still has every recent attempt that was let through.        *)
Limited ==
  /\ RateHeld
  /\ IsFiniteSet(hits) /\ IsFiniteSet(compared)
  /\ \A hit \in compared : now - hit.time < windowMs => hit \in hits

(* One more attempt adds to the window that ends now, and to no other.     *)
LEMMA LogInLimited ==
  ASSUME TypeOK, Limited, NEW v \in Visit, NEW b \in Browser, NEW right \in BOOLEAN, LogIn(v, b, right)
  PROVE  Limited'
<1> DEFINE hit == [visit |-> v, time |-> now]
<1> USE DEF Limited
<1>1. now \in Nat /\ windowMs \in Nat /\ max \in Nat
  BY LoginAssumption DEF TypeOK
<1>2. /\ hits' = Recent \cup {hit} /\ now' = now
      /\ compared' = IF Cardinality(Recent) < max THEN compared \cup {hit} ELSE compared
  BY DEF LogIn
<1>3. hit \in [visit : Visit, time : 0..now] /\ hit.time = now
  BY <1>1
<1>4. Recent \subseteq hits /\ hits \cup compared \subseteq [visit : Visit, time : 0..now]
  BY DEF Recent, RateHeld
<1> HIDE DEF hit
<1>5. IsFiniteSet(Recent) /\ IsFiniteSet(hits') /\ IsFiniteSet(compared')
  BY <1>2, <1>4, FS_Subset, FS_AddElement
<1>6. (hits \cup compared)' \subseteq [visit : Visit, time : 0..now]
  BY <1>2, <1>3, <1>4
<1>7. \A a \in compared' : now - a.time < windowMs => a \in hits'
  BY <1>1, <1>2, <1>3, <1>4 DEF Recent
<1>8. ASSUME NEW t \in 0..now PROVE Cardinality(Window(t)') <= max
  <2>1. Cardinality(Window(t)) <= max
    BY DEF RateHeld, Window
  <2>2. CASE Window(t)' \subseteq Window(t)
    <3>1. IsFiniteSet(Window(t))
      BY FS_Subset DEF Window
    <3>2. Cardinality(Window(t)') \in Nat /\ Cardinality(Window(t)) \in Nat
          /\ Cardinality(Window(t)') <= Cardinality(Window(t))
      BY <2>2, <3>1, FS_Subset, FS_CardinalityType
    <3>3. QED
      BY <1>1, <2>1, <3>2
  <2>3. CASE ~(Window(t)' \subseteq Window(t))
    <3>1. Cardinality(Recent) < max /\ compared' = compared \cup {hit} /\ t = now
      BY <1>1, <1>2, <1>3, <2>3 DEF Window
    <3>2. Window(t)' \subseteq Recent \cup {hit}
      BY <1>1, <1>2, <1>4, <3>1 DEF Window, Recent
    <3>3. /\ IsFiniteSet(Recent \cup {hit})
          /\ Cardinality(Recent) \in Nat
          /\ Cardinality(Recent \cup {hit}) \in {Cardinality(Recent), Cardinality(Recent) + 1}
      BY <1>5, FS_AddElement, FS_CardinalityType
    <3>4. Cardinality(Window(t)') \in Nat /\ Cardinality(Window(t)') <= Cardinality(Recent \cup {hit})
      BY <3>2, <3>3, FS_Subset, FS_CardinalityType
    <3>5. QED
      BY <1>1, <3>1, <3>3, <3>4
  <2>4. QED
    BY <2>2, <2>3
<1>9. RateHeld'
  BY <1>2, <1>6, <1>8 DEF RateHeld, Window
<1>10. QED
  BY <1>2, <1>5, <1>7, <1>9

(* In the next millisecond the window has nothing new in it.               *)
LEMMA TickLimited ==
  ASSUME TypeOK, Limited, Tick
  PROVE  Limited'
<1> USE DEF Limited
<1>1. now \in Nat /\ windowMs \in Nat /\ max \in Nat
  BY LoginAssumption DEF TypeOK
<1>2. now' = now + 1 /\ hits' = hits /\ compared' = compared
  BY DEF Tick, server
<1>3. hits \cup compared \subseteq [visit : Visit, time : 0..now]
  BY DEF RateHeld
<1>4. \A a \in compared : a.time \in 0..now
  BY <1>3
<1>5. [visit : Visit, time : 0..now] \subseteq [visit : Visit, time : 0..(now + 1)]
  BY <1>1
<1>6. ASSUME NEW t \in 0..(now + 1) PROVE Cardinality(Window(t)) <= max
  <2>1. CASE t \in 0..now
    BY <2>1 DEF RateHeld, Window
  <2>2. CASE t = now + 1
    <3>1. Window(t) \subseteq Window(now)
      BY <1>1, <1>4, <2>2 DEF Window
    <3>2. IsFiniteSet(Window(now)) /\ Cardinality(Window(now)) <= max
      BY <1>1, FS_Subset DEF Window, RateHeld
    <3>3. Cardinality(Window(t)) \in Nat /\ Cardinality(Window(now)) \in Nat
          /\ Cardinality(Window(t)) <= Cardinality(Window(now))
      BY <3>1, <3>2, FS_Subset, FS_CardinalityType
    <3>4. QED
      BY <1>1, <3>2, <3>3
  <2>3. QED
    BY <1>1, <2>1, <2>2
<1>7. RateHeld'
  BY <1>2, <1>3, <1>5, <1>6 DEF RateHeld, Window
<1>8. \A a \in compared : (now + 1) - a.time < windowMs => a \in hits
  BY <1>1, <1>4
<1>9. QED
  BY <1>2, <1>7, <1>8

(* The limiter's list is touched by attempts, time and a restart.          *)
LEMMA LimiterStep ==
  ASSUME TypeOK, Limited, [Next]_vars
  PROVE  Limited'
<1>1. ASSUME NEW v \in Visit, NEW b \in Browser, NEW right \in BOOLEAN, LogIn(v, b, right)
      PROVE  Limited'
  BY <1>1, LogInLimited
<1>2. CASE Tick
  BY <1>2, TickLimited
<1>3. CASE Restart
  <2>1. hits' = {} /\ compared' = {} /\ now' = now
    BY <1>3 DEF Restart
  <2>2. \A t \in 0..now : {hit \in {} : hit.time <= t /\ t - hit.time < windowMs} = {}
    OBVIOUS
  <2>3. Cardinality({}) = 0 /\ IsFiniteSet({}) /\ max \in Nat
    BY FS_EmptySet, LoginAssumption
  <2>4. QED
    BY <2>1, <2>2, <2>3 DEF Limited, RateHeld
<1>4. CASE UNCHANGED <<hits, compared, now>>
  BY <1>4, SMTT(40) DEF Limited, RateHeld
<1>5. ASSUME NEW v \in Visit,
             \/ \E b \in Browser : Begin(v, b) \/ LogOut(v, b) \/ Ask(v, b)
             \/ \E b \in Browser, account \in Account : Callback(v, b, account)
             \/ Exchange(v) \/ FindUser(v) \/ InsertUser(v) \/ UpdateUser(v) \/ OpenSession(v)
             \/ DeleteRow(v) \/ FindRow(v) \/ FindPrincipal(v) \/ QueryFails(v) \/ Receive(v)
      PROVE  UNCHANGED <<hits, compared, now>>
  BY <1>5, Zenon DEF Begin, LogOut, Ask, Callback, Exchange, FindUser, InsertUser, UpdateUser, OpenSession,
              DeleteRow, FindRow, FindPrincipal, QueryFails, Receive, server
<1>6. CASE UNCHANGED vars
  BY <1>4, <1>6 DEF vars, server
<1>7. QED
  BY <1>1, <1>2, <1>3, <1>4, <1>5, <1>6 DEF Next

(* In no window, wherever it ends, is a password compared more than max    *)
(* times, for any number of attempts.                                      *)
THEOREM RateTheorem == Spec => []RateHeld
<1>1. Init => Limited
  <2> SUFFICES ASSUME Init PROVE Limited
    OBVIOUS
  <2>1. hits = {} /\ compared = {}
    BY DEF Init
  <2>2. \A t \in 0..now : {hit \in {} : hit.time <= t /\ t - hit.time < windowMs} = {}
    OBVIOUS
  <2>3. Cardinality({}) = 0 /\ IsFiniteSet({}) /\ max \in Nat
    BY FS_EmptySet, LoginAssumption
  <2>4. QED
    BY <2>1, <2>2, <2>3 DEF Limited, RateHeld
<1>2. TypeOK /\ Limited /\ [Next]_vars => Limited'
  BY LimiterStep
<1>3. Limited => RateHeld
  BY DEF Limited
<1>4. QED
  BY <1>1, <1>2, <1>3, TypeCorrect, PTL DEF Spec

=============================================================================
