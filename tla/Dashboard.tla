------------------------------ MODULE Dashboard ------------------------------
(***************************************************************************)
(* The runs view of the console's page (console/public/dashboard.js): the  *)
(* selected session's heading, its skills and its chat, kept up to date by *)
(* polls that may overlap each other and the operator's clicks.            *)
(*                                                                         *)
(* An activation is one run of an asynchronous function: a tick, or what a *)
(* click starts.  It is suspended in one request at a time, which the      *)
(* server answers in one step and whose answer the page takes up in        *)
(* another; between two awaits the page's code is not interrupted.  What   *)
(* the operator types is part of the click that sends or saves it.         *)
(***************************************************************************)
EXTENDS Integers, Sequences

CONSTANTS
  Session, Skill, None,
  Unloaded,        \* a thread that says that it could not be loaded
  Activations,     \* bound: the activations under way at once
  MaxClicks,       \* bound: what the operator clicks on
  MaxTyped,        \* bound: the texts the operator types
  MaxEvents        \* bound: requests that fail, and what others do to a session

(* A thread, and the answer of GET /api/sessions/:id/inbox.                *)
Messages == [of : Session \cup {None}, sent : Seq(Nat), replies : Nat]

(* Each skill's text as a run has it, and the list of them, whose run's.   *)
Texts == [Skill -> Nat]
Lists == [of : Session, texts : Texts]

ASSUME DashboardAssumption ==
  /\ None \notin Session \cup Skill \cup Lists /\ Unloaded \notin Messages
  /\ {Activations, MaxClicks, MaxTyped, MaxEvents} \subseteq Nat

VARIABLES
  (* the page *)
  selected,        \* selectedSessionId
  heading,         \* whose detail is shown, and which version of it
  tab,             \* activeDetailTab
  thread,          \* what the chat thread shows
  last,            \* lastRenderedChatJson
  list,            \* runSkillsCache, and whose it is
  editor,          \* the run-skill editor: skill, text, and the run it was opened from
  draft,           \* the text in the chat form; 0 is no text
  acts,            \* the activations
  (* the server *)
  active,          \* active_session_id
  detail,          \* the version of each session's detail
  inbox,           \* each session's messages, and how many have a reply
  override,        \* each session's text for each skill; 0 is the library's
  (* history and bounds *)
  typed,           \* the texts typed so far
  strayed,         \* the operator has gone from one session to another
  failed,          \* a request has failed
  clicks, events

panes  == <<heading, tab, thread, last, list, editor, draft>>
server == <<active, detail, inbox, override>>
past   == <<typed, strayed, failed, clicks, events>>
vars   == <<selected, panes, acts, server, past>>

Activation == 1..Activations

Idle == [job |-> "none", at |-> "idle", about |-> None, name |-> None,
         body |-> None, status |-> "waiting", answer |-> None]

(* An activation that does job and has asked for at of session about. *)
Asking(job, at, about) == [Idle EXCEPT !.job = job, !.at = at, !.about = about]

NoEditor   == [name |-> None, home |-> None, text |-> 0]
NoMessages == [of |-> None, sent |-> <<>>, replies |-> 0]

(* JSON.stringify: every empty inbox looks the same. *)
Json(messages) == IF messages.sent = <<>> THEN NoMessages ELSE messages

Init ==
  /\ selected = None /\ heading = None /\ tab = "board"
  /\ thread = NoMessages /\ last = None /\ list = None
  /\ editor = NoEditor /\ draft = 0
  /\ acts = [a \in Activation |-> Idle]
  /\ active \in Session \cup {None}
  /\ detail = [s \in Session |-> 0]
  /\ inbox = [s \in Session |-> [NoMessages EXCEPT !.of = s]]
  /\ override = [s \in Session |-> [k \in Skill |-> [home |-> s, text |-> 0]]]
  /\ typed = 0 /\ strayed = FALSE /\ failed = FALSE
  /\ clicks = 0 /\ events = 0

-----------------------------------------------------------------------------
(* Activations *)

(* They are alike: a new one has the first free name. *)
Free(a) == acts[a] = Idle /\ \A b \in 1..(a - 1) : acts[b] # Idle

Becomes(a, act) == acts' = [acts EXCEPT ![a] = act]

(* What a tick asks for after at: what the open tab needs at that time. *)
Onward(at, s) ==
  IF s = None THEN Idle
  ELSE IF at = "sessions" THEN Asking("tick", "detail", s)
  ELSE IF at = "detail" /\ tab = "skills" THEN Asking("tick", "skills", s)
  ELSE IF at \in {"detail", "skills"} /\ tab = "chat" THEN Asking("tick", "chat", s)
  ELSE Idle

Rest(a, at) == Becomes(a, IF acts[a].job = "tick" THEN Onward(at, selected) ELSE Idle)

(* Once a session is selected the list of sessions decides nothing, and    *)
(* the request for it is left out.                                         *)
tick(a) ==
  /\ Free(a)
  /\ Becomes(a, IF selected = None THEN Asking("tick", "sessions", None) ELSE Onward("sessions", selected))
  /\ UNCHANGED <<selected, panes, server, past>>

-----------------------------------------------------------------------------
(* The operator *)

Click ==
  /\ clicks < MaxClicks
  /\ clicks' = clicks + 1
  /\ UNCHANGED <<server, failed, events>>

(* The thread is emptied at once, before the new session's is asked for. *)
Turn(s) ==
  /\ selected' = s
  /\ IF s = selected THEN UNCHANGED <<last, thread>>
     ELSE last' = None /\ thread' = NoMessages

(* A click on a row of the table, or on a star of the mind map. *)
selectSession(a, s) ==
  /\ Click /\ Free(a)
  /\ Turn(s)
  /\ strayed' = (strayed \/ selected \notin {None, s})
  /\ Becomes(a, Asking("select", "detail", s))
  /\ UNCHANGED <<heading, tab, list, editor, draft, typed>>

OpenTab(a, t) ==
  /\ Click /\ Free(a)
  /\ tab' = t
  /\ Becomes(a, IF t = "board" \/ selected = None THEN Idle ELSE Asking("tab", t, selected))
  /\ UNCHANGED <<selected, heading, thread, last, list, editor, draft, typed, strayed>>

Opened(cache, k) == [name |-> k, home |-> cache.of, text |-> cache.texts[k]]

openRunSkillEditor(k) ==
  /\ Click
  /\ tab = "skills" /\ list # None
  /\ editor' = Opened(list, k)
  /\ UNCHANGED <<selected, heading, tab, thread, last, list, draft, acts, typed, strayed>>

CloseEditor ==
  /\ Click
  /\ tab = "skills" /\ editor.name # None
  /\ editor' = NoEditor
  /\ UNCHANGED <<selected, heading, tab, thread, last, list, draft, acts, typed, strayed>>

(* PUT /api/sessions/:id/skills/:name; the editor does not know whose text *)
(* it has.                                                                 *)
Save(a) ==
  /\ Click /\ Free(a)
  /\ tab = "skills" /\ editor.name # None /\ selected # None
  /\ \/ UNCHANGED <<typed, editor>>
     \/ typed < MaxTyped /\ typed' = typed + 1 /\ editor' = [editor EXCEPT !.text = typed']
  /\ Becomes(a, [Asking("save", "write", selected) EXCEPT !.name = editor.name, !.body = editor'])
  /\ UNCHANGED <<selected, heading, tab, thread, last, list, draft, strayed>>

(* DELETE /api/sessions/:id/skills/:name *)
Revert(a) ==
  /\ Click /\ Free(a)
  /\ tab = "skills" /\ editor.name # None /\ selected # None
  /\ Becomes(a, [Asking("revert", "write", selected) EXCEPT !.name = editor.name])
  /\ UNCHANGED <<selected, panes, typed, strayed>>

(* Mutant: the button is disabled by nothing. *)
NeverSending == FALSE

(* The button is disabled until the thread has been read again. *)
Sending == \E a \in Activation : acts[a].job = "send"

Send(a) ==
  /\ Click /\ Free(a)
  /\ tab = "chat" /\ selected # None /\ ~Sending
  /\ \/ draft # 0 /\ UNCHANGED <<typed, draft>>
     \/ draft = 0 /\ typed < MaxTyped /\ typed' = typed + 1 /\ draft' = typed'
  /\ Becomes(a, [Asking("send", "write", selected) EXCEPT !.body = draft'])
  /\ UNCHANGED <<selected, heading, tab, thread, last, list, editor, strayed>>

-----------------------------------------------------------------------------
(* The server *)

Waits(a)  == acts[a].at # "idle" /\ acts[a].status = "waiting"
Answer(a, status, answer) == acts' = [acts EXCEPT ![a].status = status, ![a].answer = answer]

Content(act) ==
  CASE act.at = "sessions" -> active
    [] act.at = "detail"   -> detail[act.about]
    [] act.at = "skills"   -> [k \in Skill |-> override[act.about][k].text]
    [] act.at = "chat"     -> inbox[act.about]

Read(a) ==
  /\ Waits(a) /\ acts[a].at # "write"
  /\ Answer(a, "ok", Content(acts[a]))
  /\ UNCHANGED <<selected, panes, server, past>>

Put(s, k, text)  == override' = [override EXCEPT ![s][k] = text] /\ UNCHANGED inbox
Post(s, message) == inbox' = [inbox EXCEPT ![s].sent = Append(@, message)] /\ UNCHANGED override

Stored(act) ==
  /\ act.at = "write"
  /\ \/ act.job = "save"   /\ Put(act.about, act.name, [home |-> act.body.home, text |-> act.body.text])
     \/ act.job = "revert" /\ Put(act.about, act.name, [home |-> act.about, text |-> 0])
     \/ act.job = "send"   /\ Post(act.about, act.body)

Write(a) ==
  /\ Waits(a) /\ Stored(acts[a])
  /\ Answer(a, "ok", None)
  /\ UNCHANGED <<selected, panes, active, detail, past>>

Event ==
  /\ events < MaxEvents
  /\ events' = events + 1
  /\ UNCHANGED <<selected, panes, active, typed, strayed, clicks>>

(* A write may have been done although its answer is lost. *)
Fail(a) ==
  /\ Event /\ Waits(a)
  /\ failed' = TRUE
  /\ Stored(acts[a]) \/ UNCHANGED <<override, inbox>>
  /\ Answer(a, "failed", None)
  /\ UNCHANGED detail

(* The controller goes on with a session, or answers a message. *)
Progress(s) ==
  /\ Event
  /\ detail' = [detail EXCEPT ![s] = @ + 1]
  /\ UNCHANGED <<acts, inbox, override, failed>>

Reply(s) ==
  /\ Event
  /\ inbox[s].replies < Len(inbox[s].sent)
  /\ inbox' = [inbox EXCEPT ![s].replies = @ + 1]
  /\ UNCHANGED <<acts, detail, override, failed>>

-----------------------------------------------------------------------------
(* Answers *)

Answered(a, at) == acts[a].at = at /\ acts[a].status # "waiting"
Ok(a) == acts[a].status = "ok"

(* Mutant: the page follows the active session. *)
Follow(a) == IF Ok(a) /\ acts[a].answer # None THEN acts[a].answer ELSE selected

(* renderSessions: the first answer that names an active session selects   *)
(* it.  (It also asks for its detail, as the tick does in the same step.)  *)
Default(a) == IF selected = None /\ Ok(a) THEN acts[a].answer ELSE selected

TakeSessions(a) ==
  /\ Answered(a, "sessions")
  /\ Turn(Default(a))
  /\ Becomes(a, Onward("sessions", selected'))
  /\ UNCHANGED <<heading, tab, list, editor, draft, server, past>>

(* renderDetail *)
TakeDetail(a) ==
  /\ Answered(a, "detail")
  /\ heading' = IF Ok(a) THEN [of |-> acts[a].about, version |-> acts[a].answer] ELSE heading
  /\ Rest(a, "detail")
  /\ UNCHANGED <<selected, tab, thread, last, list, editor, draft, server, past>>

(* refreshRunSkills; after a save the editor is opened again on what the   *)
(* cache has, whether or not it could be refreshed.                        *)
TakeSkills(a) ==
  /\ Answered(a, "skills")
  /\ list' = IF Ok(a) THEN [of |-> acts[a].about, texts |-> acts[a].answer] ELSE list
  /\ editor' = IF acts[a].name # None THEN Opened(list', acts[a].name) ELSE editor
  /\ Rest(a, "skills")
  /\ UNCHANGED <<selected, heading, tab, thread, last, draft, server, past>>

(* Mutant: what was rendered before an error is remembered. *)
RenderedOver(a) ==
  IF ~Ok(a) THEN UNCHANGED last /\ thread' = Unloaded
  ELSE IF Json(acts[a].answer) = last THEN UNCHANGED <<last, thread>>
  ELSE last' = Json(acts[a].answer) /\ thread' = acts[a].answer

Rendered(a) ==
  IF ~Ok(a) THEN last' = None /\ thread' = Unloaded
  ELSE IF Json(acts[a].answer) = last THEN UNCHANGED <<last, thread>>
  ELSE last' = Json(acts[a].answer) /\ thread' = acts[a].answer

(* Mutant: a late answer is shown like any other. *)
AnyWanted(a) == TRUE

Wanted(a) == acts[a].about = selected

(* refreshChat *)
TakeChat(a) ==
  /\ Answered(a, "chat")
  /\ IF Wanted(a) THEN Rendered(a) ELSE UNCHANGED <<last, thread>>
  /\ Rest(a, "chat")
  /\ UNCHANGED <<selected, heading, tab, list, editor, draft, server, past>>

(* What is read after a write is that of the session which is now          *)
(* selected, and the editor's skill is the one which it now has open.      *)
After(act) ==
  IF act.status = "failed" THEN Idle
  ELSE IF act.job = "send" THEN Asking("send", "chat", selected)
  ELSE [Asking(act.job, "skills", selected) EXCEPT !.name = editor.name]

TakeWritten(a) ==
  /\ Answered(a, "write")
  /\ draft' = IF acts[a].job = "send" /\ Ok(a) THEN 0 ELSE draft
  /\ Becomes(a, After(acts[a]))
  /\ UNCHANGED <<selected, heading, tab, thread, last, list, editor, server, past>>

Take(a) == TakeSessions(a) \/ TakeDetail(a) \/ TakeSkills(a) \/ TakeChat(a) \/ TakeWritten(a)

Next ==
  \/ \E a \in Activation :
       \/ tick(a) \/ Read(a) \/ Write(a) \/ Fail(a) \/ Take(a)
       \/ \E s \in Session : selectSession(a, s)
       \/ \E t \in {"board", "skills", "chat"} : OpenTab(a, t)
       \/ Save(a) \/ Revert(a) \/ Send(a)
  \/ \E k \in Skill : openRunSkillEditor(k)
  \/ \E s \in Session : Progress(s) \/ Reply(s)
  \/ CloseEditor

Spec == Init /\ [][Next]_vars

(* The browser's timer fires, the server answers every request or the      *)
(* request fails, and the page takes up every answer.                      *)
Fairness ==
  /\ \A a \in Activation : WF_vars(Read(a) \/ Write(a)) /\ WF_vars(Take(a))
  /\ WF_vars(\E a \in Activation : tick(a))

FairSpec == Spec /\ Fairness

-----------------------------------------------------------------------------
Editor == [name : Skill \cup {None}, home : Session \cup {None}, text : Nat]

(* What is asked for of a session, and what is answered.                   *)
AnswerType(at) ==
  CASE at = "sessions" -> Session \cup {None}
    [] at = "detail"   -> Nat
    [] at = "skills"   -> Texts
    [] at = "chat"     -> Messages
    [] at \in {"idle", "write"} -> {None}

ActTypeOK(act) ==
  /\ DOMAIN act = {"job", "at", "about", "name", "body", "status", "answer"}
  /\ act.at \in {"idle", "sessions", "detail", "skills", "chat", "write"}
  /\ act.status \in {"waiting", "ok", "failed"}
  /\ act.about \in (IF act.at \in {"idle", "sessions"} THEN {None} ELSE Session)
  /\ act.name \in Skill \cup {None}
  /\ act.at = "write" => act.job \in {"save", "revert", "send"}
  /\ act.at = "write" /\ act.job # "send" => act.name \in Skill
  /\ act.at = "write" /\ act.job = "save" => act.body \in Editor
  /\ act.at = "write" /\ act.job = "send" => act.body \in 1..typed
  /\ act.status = "ok" => act.answer \in AnswerType(act.at)

TypeOK ==
  /\ selected \in Session \cup {None}
  /\ tab \in {"board", "skills", "chat"}
  /\ heading = None \/ heading \in [of : Session, version : Nat]
  /\ thread \in Messages \cup {Unloaded}
  /\ list \in Lists \cup {None}
  /\ editor \in Editor
  /\ typed \in Nat /\ draft \in 0..typed /\ {strayed, failed} \subseteq BOOLEAN
  /\ active \in Session \cup {None}
  /\ detail \in [Session -> Nat]
  /\ inbox \in [Session -> Messages]
  /\ override \in [Session -> [Skill -> [home : Session \cup {None}, text : Nat]]]
  /\ DOMAIN acts = Activation /\ \A a \in Activation : ActTypeOK(acts[a])

(* What the page remembers to have rendered is what the thread shows, and  *)
(* the thread shows messages of no session but the selected one, however   *)
(* late an answer comes and whatever fails in between (selectSession,      *)
(* refreshChat).                                                           *)
ThreadIsSelected ==
  /\ TypeOK
  /\ last # None => thread # Unloaded /\ Json(thread) = last
  /\ thread \notin {Unloaded, NoMessages} => thread.of = selected

(* As long as no request fails, a message is stored once and in one inbox, *)
(* however often the operator clicks (the chat form's submit handler).     *)
SentOnce ==
  LET Sent(s) == inbox[s].sent
  IN  ~failed => \A s, t \in Session : \A i \in DOMAIN Sent(s), j \in DOMAIN Sent(t) :
                   Sent(s)[i] = Sent(t)[j] => s = t /\ i = j

(* A run is given the text of another run's skill only if the operator has *)
(* gone from one run to another: no poll does so behind the operator's     *)
(* back (renderSessions, the save handler of the run-skill editor).        *)
OwnTexts == (\E s \in Session, k \in Skill : override[s][k].home # s) => strayed

UpToDate ==
  selected # None =>
    /\ heading = [of |-> selected, version |-> detail[selected]]
    /\ tab = "chat" => thread = inbox[selected]
    /\ tab = "skills" => list = [of |-> selected, texts |-> [k \in Skill |-> override[selected][k].text]]

(* Once the operator and the sessions come to rest, the open tab shows what *)
(* the server has of the selected session, and goes on to: no late answer, *)
(* failed request or overlapping poll leaves it behind for good (tick).    *)
Settles == <>[]UpToDate

=============================================================================
