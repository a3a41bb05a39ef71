-------------------------- MODULE Dashboard_proofs --------------------------
(***************************************************************************)
(* Proofs about Dashboard: the thread is of the selected session, a text   *)
(* is stored once, and a run gets another's text only if the operator has  *)
(* gone from one to the other.                                             *)
(*                                                                         *)
(* The page's variables say nothing of the requests that are on their way, *)
(* and it is these that could bring a wrong answer or a second copy.  So   *)
(* the inductive invariant says of every activation how what it remembers  *)
(* from before its await agrees with the page after it (Fits), and of the  *)
(* one that is sending, that its text is the draft and in no inbox yet.    *)
(***************************************************************************)
EXTENDS Dashboard, TLAPS

(* An activation that has asked for something of a session.                *)
Asked(act) == act.at \notin {"idle", "sessions"}

(* An activation that is sending a message, until its answer is taken up.  *)
Posting(act) == act.job = "send" /\ act.at = "write"

(* How an activation agrees with the page that it was started on: there    *)
(* is a session to ask about; an answer is of the session asked about; a   *)
(* message on its way is still the draft; and as long as the operator has  *)
(* not strayed, it is about the selected session, and a text on its way    *)
(* was opened from there.                                                  *)
Fits(act) ==
  /\ Asked(act) => selected # None
  /\ act.name # None => list # None
  /\ act.status = "failed" => failed
  /\ act.at = "chat" /\ act.status = "ok" => act.answer.of = act.about
  /\ Posting(act) => act.body = draft
  /\ ~strayed /\ Asked(act) => act.about = selected
  /\ ~strayed /\ act.at = "write" /\ act.job = "save" => act.body.home = selected

(* Every activation agrees with the page.                                  *)
ActsFit == \A a \in Activation : Fits(acts[a])

(* The thread and what was last rendered agree, the thread is of the       *)
(* selected session, and an inbox says whose it is.                        *)
ThreadFits ==
  /\ last # None => thread # Unloaded /\ Json(thread) = last
  /\ thread \notin {Unloaded, NoMessages} => thread.of = selected
  /\ \A s \in Session : inbox[s].of = s

(* The editor is opened from the list, which is then never taken away.     *)
EditorFits == editor.name # None => list # None

(* Until the operator strays, the list and the editor are of the selected  *)
(* session, and every text of a run is its own.                            *)
OwnFits ==
  ~strayed =>
    /\ \A s \in Session, k \in Skill : override[s][k].home = s
    /\ list # None => list.of = selected
    /\ editor.name # None => editor.home = selected

(* One message is on its way at a time: the button is disabled.            *)
OneSends == \A a, b \in Activation : acts[a].job = "send" /\ acts[b].job = "send" => a = b

(* What has been sent was typed before.                                    *)
SentTyped == \A s \in Session : \A i \in DOMAIN inbox[s].sent : inbox[s].sent[i] \in 1..typed

(* A text that is in no inbox.                                             *)
Fresh(m) == \A s \in Session : \A i \in DOMAIN inbox[s].sent : inbox[s].sent[i] # m

(* No text is stored twice.                                                *)
Once ==
  \A s, t \in Session : \A i \in DOMAIN inbox[s].sent, j \in DOMAIN inbox[t].sent :
    inbox[s].sent[i] = inbox[t].sent[j] => s = t /\ i = j

(* As long as no request fails, no text is stored twice, a draft is left   *)
(* only while it is being sent, and one that waits for the server is in    *)
(* no inbox: this is what makes SentOnce inductive.                        *)
SendFits ==
  ~failed =>
    /\ Once
    /\ draft # 0 => \E a \in Activation : Posting(acts[a])
    /\ \A a \in Activation : Posting(acts[a]) /\ acts[a].status = "waiting" => Fresh(draft)

(* The inductive invariant.                                                *)
IInv ==
  /\ TypeOK /\ ActsFit /\ ThreadFits /\ EditorFits /\ OwnFits
  /\ OneSends /\ SentTyped /\ SendFits
-----------------------------------------------------------------------------
(* What TypeOK says of the activations.                                    *)
ActsOK == DOMAIN acts = Activation /\ \A a \in Activation : ActTypeOK(acts[a])

(* The fields of an activation.                                            *)
Fields == {"job", "at", "about", "name", "body", "status", "answer"}

(* What an activation that is not under way has in its fields.             *)
LEMMA IdleIs ==
  /\ DOMAIN Idle = Fields
  /\ Idle.job = "none" /\ Idle.at = "idle" /\ Idle.about = None /\ Idle.name = None
  /\ Idle.body = None /\ Idle.status = "waiting" /\ Idle.answer = None
BY DEF Idle, Fields

(* What a request that has just been made has in its fields.               *)
LEMMA AskingIs ==
  ASSUME NEW j, NEW t, NEW s, NEW act, act = Asking(j, t, s)
  PROVE  /\ DOMAIN act = Fields
         /\ act.job = j /\ act.at = t /\ act.about = s /\ act.name = None
         /\ act.body = None /\ act.status = "waiting" /\ act.answer = None
BY DEF Asking, Idle, Fields

(* What an activation is after a step that leaves it nothing to write: it  *)
(* has come to its end, or it has just asked for something to read of      *)
(* session s (tick, the tabs, a click on a row).                           *)
Quiet(act, s) ==
  \/ act = Idle
  \/ act = Asking("tick", "sessions", None)
  \/ /\ s # None
     /\ \E j \in {"tick", "select", "tab"}, t \in {"detail", "skills", "chat"} : act = Asking(j, t, s)

(* What a tick asks for next is a reading of the selected session, or      *)
(* nothing (tick).                                                         *)
LEMMA OnwardQuiet ==
  ASSUME NEW t, NEW s PROVE Quiet(Onward(t, s), s)
BY DEF Onward, Quiet

(* What such an activation has in its fields: no skill, no answer yet,     *)
(* and a job that writes nothing.                                          *)
LEMMA QuietIs ==
  ASSUME NEW s, NEW act, Quiet(act, s)
  PROVE  /\ DOMAIN act = Fields
         /\ act.at \in {"idle", "sessions", "detail", "skills", "chat"}
         /\ act.at \in {"idle", "sessions"} => act.about = None
         /\ act.at \notin {"idle", "sessions"} => act.about = s /\ s # None
         /\ act.name = None /\ act.status = "waiting" /\ act.job \notin {"send", "save", "revert"}
<1>1. CASE act = Idle
  BY <1>1, IdleIs
<1>2. CASE act = Asking("tick", "sessions", None)
  BY <1>2, AskingIs
<1>3. CASE s # None /\ \E j \in {"tick", "select", "tab"}, t \in {"detail", "skills", "chat"} :
                         act = Asking(j, t, s)
  <2> PICK j \in {"tick", "select", "tab"}, t \in {"detail", "skills", "chat"} : act = Asking(j, t, s)
    BY <1>3
  <2> QED BY <1>3, AskingIs
<1> QED BY <1>1, <1>2, <1>3 DEF Quiet

(* An activation that is replaced is replaced alone.                       *)
LEMMA BecomesIs ==
  ASSUME NEW a \in Activation, NEW act, DOMAIN acts = Activation, Becomes(a, act)
  PROVE  /\ DOMAIN acts' = Activation /\ acts'[a] = act
         /\ \A b \in Activation : b # a => acts'[b] = acts[b]
BY DEF Becomes

(* What may happen to the page while an activation waits: texts are        *)
(* typed, a session is selected and then never none, the list is never     *)
(* taken away, a failure is not forgotten, and without straying the        *)
(* selected session stays the same once there is one.                      *)
Drift ==
  /\ typed \in Nat /\ typed' \in Nat /\ typed <= typed'
  /\ selected # None => selected' # None
  /\ list # None => list' # None
  /\ failed => failed'
  /\ ~strayed' => ~strayed /\ (selected' = selected \/ selected = None)

(* An activation that a step does not touch still fits the page after it,  *)
(* however the page has drifted (the closures which an await keeps).       *)
LEMMA ActKept ==
  ASSUME NEW b \in Activation, ActTypeOK(acts[b]), Fits(acts[b]), acts'[b] = acts[b], Drift,
         Posting(acts[b]) => draft' = draft
  PROVE  ActTypeOK(acts[b])' /\ Fits(acts[b])'
<1> PICK act : act = acts[b]
  OBVIOUS
<1>1. ActTypeOK(act)'
  <2>1. act.at = "write" /\ act.job = "send" => act.body \in 1..typed'
    BY DEF ActTypeOK, Drift
  <2> QED BY <2>1 DEF ActTypeOK, AnswerType
<1>2. Fits(act)'
  <2>1. Asked(act) => selected' # None
    BY DEF Fits, Drift
  <2>2. act.name # None => list' # None
    BY DEF Fits, Drift
  <2>3. act.status = "failed" => failed'
    BY DEF Fits, Drift
  <2>4. Posting(act) => act.body = draft'
    BY DEF Fits
  <2>5. ~strayed' /\ Asked(act) => act.about = selected'
    BY DEF Fits, Drift
  <2>6. ~strayed' /\ act.at = "write" /\ act.job = "save" => act.body.home = selected'
    BY DEF Fits, Drift, Asked
  <2> QED BY <2>1, <2>2, <2>3, <2>4, <2>5, <2>6 DEF Fits, Asked, Posting
<1> QED BY <1>1, <1>2

(* A step that replaces one activation keeps them all in order if the new  *)
(* one fits and no other is a send whose draft it changes.                 *)
LEMMA ActsStep ==
  ASSUME IInv, NEW a \in Activation, NEW act, Becomes(a, act), Drift,
         draft' = draft \/ \A b \in Activation \ {a} : acts[b].job # "send",
         ActTypeOK(act)', Fits(act)'
  PROVE  ActsOK' /\ ActsFit'
<1>1. DOMAIN acts = Activation /\ \A b \in Activation : ActTypeOK(acts[b]) /\ Fits(acts[b])
  BY DEF IInv, TypeOK, ActsFit
<1>2. DOMAIN acts' = Activation /\ acts'[a] = act /\ \A b \in Activation : b # a => acts'[b] = acts[b]
  BY <1>1, BecomesIs
<1>3. ASSUME NEW b \in Activation PROVE ActTypeOK(acts[b])' /\ Fits(acts[b])'
  <2>1. CASE b = a
    BY <2>1, <1>2
  <2>2. CASE b # a
    BY <2>2, <1>1, <1>2, ActKept DEF Posting
  <2> QED BY <2>1, <2>2
<1> QED BY <1>2, <1>3 DEF ActsOK, ActsFit
(* A step that takes an activation which is not writing to one which does  *)
(* not send, and leaves the inboxes alone, keeps what is known of the      *)
(* message on its way (the chat form's submit handler).                    *)
LEMMA FreeSends ==
  ASSUME IInv, NEW a \in Activation, NEW act, Becomes(a, act), act.job # "send",
         acts[a].at # "write", UNCHANGED <<draft, failed, inbox>>
  PROVE  OneSends' /\ SendFits'
<1>1. DOMAIN acts = Activation
  BY DEF IInv, TypeOK
<1>2. DOMAIN acts' = Activation /\ acts'[a] = act /\ \A b \in Activation : b # a => acts'[b] = acts[b]
  BY <1>1, BecomesIs
<1>3. OneSends'
  BY <1>2 DEF IInv, OneSends
<1>5. ASSUME ~failed' PROVE Once'
  BY <1>5 DEF IInv, SendFits, Once
<1>6. ASSUME ~failed', draft' # 0 PROVE \E b \in Activation : Posting(acts[b])'
  <2> PICK b \in Activation : Posting(acts[b])
    BY <1>6 DEF IInv, SendFits
  <2> QED BY <1>2 DEF Posting
<1>7. ASSUME ~failed', NEW b \in Activation, Posting(acts[b])', acts'[b].status = "waiting"
      PROVE  Fresh(draft)'
  <2>1. b # a /\ acts'[b] = acts[b]
    BY <1>2, <1>7 DEF Posting
  <2>2. Fresh(draft)
    BY <1>7, <2>1 DEF IInv, SendFits, Posting
  <2> QED BY <2>2 DEF Fresh
<1> QED BY <1>3, <1>5, <1>6, <1>7 DEF SendFits

(* What has been sent was typed, also when more is typed.                  *)
LEMMA SentGrows ==
  ASSUME IInv, Drift, UNCHANGED inbox PROVE SentTyped'
BY DEF IInv, SentTyped, Drift

(* A step to a quiet activation keeps all that is known of the             *)
(* activations and of the messages; this covers the ticks, the clicks      *)
(* that only read, and the answers that are read (tick, selectSession,     *)
(* refreshChat, refreshRunSkills).                                         *)
LEMMA QuietActs ==
  ASSUME IInv, NEW a \in Activation, NEW act, Becomes(a, act), Quiet(act, selected'), Drift,
         selected' \in Session \cup {None}, acts[a].at # "write",
         UNCHANGED <<draft, failed, inbox, typed>>
  PROVE  ActsOK' /\ ActsFit' /\ OneSends' /\ SentTyped' /\ SendFits'
<1>1. /\ DOMAIN act = Fields
      /\ act.at \in {"idle", "sessions", "detail", "skills", "chat"}
      /\ act.at \in {"idle", "sessions"} => act.about = None
      /\ act.at \notin {"idle", "sessions"} => act.about = selected' /\ selected' # None
      /\ act.name = None /\ act.status = "waiting" /\ act.job \notin {"send", "save", "revert"}
  BY QuietIs
<1>2. ActTypeOK(act)'
  BY <1>1 DEF ActTypeOK, Fields
<1>3. Fits(act)'
  BY <1>1 DEF Fits, Asked, Posting
<1>4. ActsOK' /\ ActsFit'
  BY <1>2, <1>3, ActsStep
<1> QED BY <1>1, <1>4, FreeSends, SentGrows

(* The invariant holds when the page has been loaded.                      *)
LEMMA Initially == Init => IInv
<1> SUFFICES ASSUME Init PROVE IInv
  OBVIOUS
<1>1. \A a \in Activation : acts[a] = Idle
  BY DEF Init
<1>2. ActTypeOK(Idle) /\ Fits(Idle)
  BY IdleIs DEF ActTypeOK, AnswerType, Fits, Fields, Asked, Posting
<1>3. ActsOK /\ ActsFit
  BY <1>1, <1>2 DEF ActsOK, ActsFit, Init
<1>4. NoMessages \in Messages /\ \A s \in Session : [NoMessages EXCEPT !.of = s] \in Messages
  <2>1. <<>> \in Seq(Nat)
    OBVIOUS
  <2> QED BY <2>1 DEF NoMessages, Messages
<1>5. inbox \in [Session -> Messages]
  BY <1>4 DEF Init
<1>6. \A s \in Session : inbox[s].of = s /\ inbox[s].sent = <<>>
  BY DEF Init, NoMessages
<1>7. NoEditor \in Editor /\ NoEditor.name = None
  BY DEF NoEditor, Editor
<1>8. override \in [Session -> [Skill -> [home : Session \cup {None}, text : Nat]]]
  BY DEF Init
<1>9. \A s \in Session, k \in Skill : override[s][k].home = s
  BY DEF Init
<1>10. detail \in [Session -> Nat]
  BY DEF Init
<1>11. TypeOK
  <2>1. {strayed, failed} \subseteq BOOLEAN
    BY DEF Init
  <2> QED BY <2>1, <1>3, <1>4, <1>5, <1>7, <1>8, <1>10 DEF TypeOK, Init, ActsOK
<1>12. ThreadFits
  BY <1>6 DEF ThreadFits, Init
<1>13. EditorFits /\ OwnFits
  BY <1>7, <1>9 DEF EditorFits, OwnFits, Init
<1>14. OneSends
  BY <1>1, IdleIs DEF OneSends
<1>15. SentTyped
  BY <1>6 DEF SentTyped
<1>16. Once
  BY <1>6 DEF Once
<1>17. SendFits
  BY <1>1, <1>16, IdleIs DEF SendFits, Init, Posting
<1> QED BY <1>3, <1>11, <1>12, <1>13, <1>14, <1>15, <1>17 DEF IInv
(* Whatever session is turned to, the thread shows messages of no other    *)
(* (selectSession empties it before the new one's are asked for).          *)
LEMMA TurnFits ==
  ASSUME IInv, NEW s \in Session \cup {None}, Turn(s), UNCHANGED inbox
  PROVE  selected' = s /\ thread' \in Messages \cup {Unloaded} /\ ThreadFits'
<1>1. NoMessages \in Messages
  <2>1. <<>> \in Seq(Nat)
    OBVIOUS
  <2> QED BY <2>1 DEF NoMessages, Messages
<1>2. CASE s = selected
  BY <1>2 DEF Turn, IInv, TypeOK, ThreadFits
<1>3. CASE s # selected
  BY <1>1, <1>3 DEF Turn, IInv, ThreadFits
<1> QED BY <1>2, <1>3

(* As long as the operator does not stray, the list and the editor stay    *)
(* those of the selected session, also when the first session is           *)
(* selected: until then there is no list.                                  *)
LEMMA OwnKept ==
  ASSUME IInv, Drift, UNCHANGED <<list, editor, override>>
  PROVE  OwnFits' /\ EditorFits'
<1>1. EditorFits'
  BY DEF IInv, EditorFits
<1>2. list # None => list.of \in Session /\ None \notin Session
  BY DashboardAssumption DEF IInv, TypeOK, Lists
<1>3. ASSUME ~strayed'
      PROVE  /\ \A s \in Session, k \in Skill : override'[s][k].home = s
             /\ list' # None => list'.of = selected'
             /\ editor'.name # None => editor'.home = selected'
  <2>1. ~strayed /\ (selected' = selected \/ selected = None)
    BY <1>3 DEF Drift
  <2>2. /\ \A s \in Session, k \in Skill : override[s][k].home = s
        /\ list # None => list.of = selected
        /\ editor.name # None => editor.home = selected
    BY <2>1 DEF IInv, OwnFits
  <2>3. list # None => selected' = selected
    BY <1>2, <2>1, <2>2
  <2>4. editor.name # None => selected' = selected
    BY <2>3 DEF IInv, EditorFits
  <2> QED BY <2>2, <2>3, <2>4
<1> QED BY <1>1, <1>3 DEF OwnFits

(* The thread stays right while neither it nor the selected session        *)
(* changes.                                                                *)
LEMMA ThreadKept ==
  ASSUME IInv, UNCHANGED <<selected, thread, last>>, \A s \in Session : inbox'[s].of = inbox[s].of
  PROVE  ThreadFits'
BY DEF IInv, ThreadFits

(* A tick keeps the invariant (tick).                                      *)
LEMMA TickStep ==
  ASSUME IInv, NEW a \in Activation, tick(a) PROVE IInv'
<1> PICK act : act = IF selected = None THEN Asking("tick", "sessions", None) ELSE Onward("sessions", selected)
  OBVIOUS
<1>1. Becomes(a, act) /\ UNCHANGED <<selected, panes, server, past>>
  BY DEF tick
<1>2. Quiet(act, selected')
  BY <1>1, OnwardQuiet DEF Quiet
<1>3. acts[a].at # "write"
  BY IdleIs DEF tick, Free
<1>4. Drift /\ UNCHANGED <<draft, failed, inbox, typed>> /\ selected' \in Session \cup {None}
  BY <1>1 DEF Drift, IInv, TypeOK, panes, server, past
<1>5. ActsOK' /\ ActsFit' /\ OneSends' /\ SentTyped' /\ SendFits'
  BY <1>1, <1>2, <1>3, <1>4, QuietActs
<1>6. ThreadFits' /\ OwnFits' /\ EditorFits'
  BY <1>1, <1>4, ThreadKept, OwnKept DEF panes, server
<1>7. TypeOK'
  BY <1>1, <1>5 DEF IInv, TypeOK, ActsOK, panes, server, past
<1> QED BY <1>5, <1>6, <1>7 DEF IInv

(* A click on a session keeps the invariant (selectSession).               *)
LEMMA SelectStep ==
  ASSUME IInv, NEW a \in Activation, NEW s \in Session, selectSession(a, s) PROVE IInv'
<1> PICK act : act = Asking("select", "detail", s)
  OBVIOUS
<1>1. /\ Becomes(a, act) /\ Turn(s) /\ strayed' = (strayed \/ selected \notin {None, s})
      /\ UNCHANGED <<server, failed, events, heading, tab, list, editor, draft, typed>>
  BY DEF selectSession, Click
<1>2. selected' = s /\ thread' \in Messages \cup {Unloaded} /\ ThreadFits'
  BY <1>1, TurnFits DEF server
<1>3. s # None /\ Quiet(act, selected')
  BY <1>2, DashboardAssumption DEF Quiet
<1>4. acts[a].at # "write"
  BY IdleIs DEF selectSession, Free
<1>5. Drift /\ UNCHANGED <<draft, failed, inbox, typed>> /\ selected' \in Session \cup {None}
  <2>1. ~strayed' => ~strayed /\ (selected' = selected \/ selected = None)
    BY <1>1, <1>2
  <2> QED BY <1>1, <1>2, <1>3, <2>1 DEF Drift, IInv, TypeOK, server
<1>6. ActsOK' /\ ActsFit' /\ OneSends' /\ SentTyped' /\ SendFits'
  BY <1>1, <1>3, <1>4, <1>5, QuietActs
<1>7. OwnFits' /\ EditorFits'
  BY <1>1, <1>5, OwnKept DEF server
<1>8. TypeOK'
  BY <1>1, <1>2, <1>5, <1>6 DEF IInv, TypeOK, ActsOK, server
<1> QED BY <1>2, <1>6, <1>7, <1>8 DEF IInv

(* A click on a tab keeps the invariant (the tab handlers).                *)
LEMMA OpenTabStep ==
  ASSUME IInv, NEW a \in Activation, NEW t \in {"board", "skills", "chat"}, OpenTab(a, t) PROVE IInv'
<1> PICK act : act = IF t = "board" \/ selected = None THEN Idle ELSE Asking("tab", t, selected)
  OBVIOUS
<1>1. /\ Becomes(a, act) /\ tab' = t
      /\ UNCHANGED <<server, failed, events, selected, heading, thread, last, list, editor, draft, typed, strayed>>
  BY DEF OpenTab, Click
<1>2. Quiet(act, selected')
  BY <1>1 DEF Quiet
<1>3. acts[a].at # "write"
  BY IdleIs DEF OpenTab, Free
<1>4. Drift /\ selected' \in Session \cup {None} /\ inbox' = inbox
  BY <1>1 DEF Drift, IInv, TypeOK, server
<1>5. ActsOK' /\ ActsFit' /\ OneSends' /\ SentTyped' /\ SendFits'
  BY <1>1, <1>2, <1>3, <1>4, QuietActs
<1>6. ThreadFits' /\ OwnFits' /\ EditorFits'
  BY <1>1, <1>4, ThreadKept, OwnKept DEF server
<1>7. TypeOK'
  BY <1>1, <1>5 DEF IInv, TypeOK, ActsOK, server
<1> QED BY <1>5, <1>6, <1>7 DEF IInv
(* The answer of the list of sessions keeps the invariant: it selects a    *)
(* session only when there is none (renderSessions).                       *)
LEMMA TakeSessionsStep ==
  ASSUME IInv, NEW a \in Activation, TakeSessions(a) PROVE IInv'
<1> PICK act : act = Onward("sessions", selected')
  OBVIOUS
<1> PICK s : s = Default(a)
  OBVIOUS
<1>1. /\ acts[a].at = "sessions" /\ Turn(s) /\ Becomes(a, act)
      /\ UNCHANGED <<heading, tab, list, editor, draft, server, past>>
  BY DEF TakeSessions, Answered
<1>2. ActTypeOK(acts[a])
  BY DEF IInv, TypeOK
<1>3. Ok(a) => acts[a].answer \in Session \cup {None}
  BY <1>1, <1>2 DEF ActTypeOK, AnswerType, Ok
<1>4. s \in Session \cup {None} /\ (selected # None => s = selected)
  BY <1>3 DEF Default, IInv, TypeOK
<1>5. selected' = s /\ thread' \in Messages \cup {Unloaded} /\ ThreadFits'
  BY <1>1, <1>4, TurnFits DEF server
<1>6. Drift /\ UNCHANGED <<draft, failed, inbox, typed>>
  BY <1>1, <1>4, <1>5 DEF Drift, IInv, TypeOK, server, past
<1>7. ActsOK' /\ ActsFit' /\ OneSends' /\ SentTyped' /\ SendFits'
  BY <1>1, <1>4, <1>5, <1>6, OnwardQuiet, QuietActs
<1>8. OwnFits' /\ EditorFits'
  BY <1>1, <1>6, OwnKept DEF server
<1>9. TypeOK'
  BY <1>1, <1>4, <1>5, <1>7 DEF IInv, TypeOK, ActsOK, server, past
<1> QED BY <1>5, <1>7, <1>8, <1>9 DEF IInv

(* An activation that has taken its answer up goes on to a reading, or     *)
(* ends.                                                                   *)
LEMMA RestQuiet ==
  ASSUME NEW a \in Activation, NEW t, Rest(a, t)
  PROVE  \E act : Becomes(a, act) /\ Quiet(act, selected)
BY OnwardQuiet DEF Rest, Quiet

(* So taking an answer up keeps all that is known of the activations and   *)
(* of the messages.                                                        *)
LEMMA RestActs ==
  ASSUME IInv, NEW a \in Activation, NEW t, Rest(a, t), acts[a].at # "write", Drift,
         UNCHANGED <<selected, draft, failed, inbox, typed>>
  PROVE  ActsOK' /\ ActsFit' /\ OneSends' /\ SentTyped' /\ SendFits'
<1>1. PICK act : Becomes(a, act) /\ Quiet(act, selected)
  BY RestQuiet
<1>2. selected' \in Session \cup {None}
  BY DEF IInv, TypeOK
<1> QED BY <1>1, <1>2, QuietActs

(* The answer with the detail keeps the invariant (renderDetail).          *)
LEMMA TakeDetailStep ==
  ASSUME IInv, NEW a \in Activation, TakeDetail(a) PROVE IInv'
<1>1. /\ acts[a].at = "detail" /\ Rest(a, "detail")
      /\ heading' = IF Ok(a) THEN [of |-> acts[a].about, version |-> acts[a].answer] ELSE heading
      /\ UNCHANGED <<selected, tab, thread, last, list, editor, draft, server, past>>
  BY DEF TakeDetail, Answered
<1>2. ActTypeOK(acts[a])
  BY DEF IInv, TypeOK
<1>3. heading' = None \/ heading' \in [of : Session, version : Nat]
  BY <1>1, <1>2 DEF ActTypeOK, AnswerType, Ok, IInv, TypeOK
<1>4. Drift /\ UNCHANGED <<selected, draft, failed, inbox, typed>>
  BY <1>1 DEF Drift, IInv, TypeOK, server, past
<1>5. ActsOK' /\ ActsFit' /\ OneSends' /\ SentTyped' /\ SendFits'
  BY <1>1, <1>4, RestActs
<1>6. ThreadFits' /\ OwnFits' /\ EditorFits'
  BY <1>1, <1>4, ThreadKept, OwnKept DEF server
<1>7. TypeOK'
  BY <1>1, <1>3, <1>5 DEF IInv, TypeOK, ActsOK, server, past
<1> QED BY <1>5, <1>6, <1>7 DEF IInv

(* The editor that is opened from a list has the list's run for its own    *)
(* (openRunSkillEditor).                                                   *)
LEMMA OpenedIs ==
  ASSUME NEW cache \in Lists, NEW k \in Skill
  PROVE  /\ Opened(cache, k) \in Editor /\ Opened(cache, k).home = cache.of
BY DEF Opened, Lists, Texts, Editor

(* The answer with the skills keeps the invariant: without straying it is  *)
(* of the selected session, and the editor opened again on the list is of  *)
(* the list's run (refreshRunSkills and the handlers of save and revert).  *)
LEMMA TakeSkillsStep ==
  ASSUME IInv, NEW a \in Activation, TakeSkills(a) PROVE IInv'
<1>1. /\ acts[a].at = "skills" /\ Rest(a, "skills")
      /\ list' = IF Ok(a) THEN [of |-> acts[a].about, texts |-> acts[a].answer] ELSE list
      /\ editor' = IF acts[a].name # None THEN Opened(list', acts[a].name) ELSE editor
      /\ UNCHANGED <<selected, heading, tab, thread, last, draft, server, past>>
  BY DEF TakeSkills, Answered
<1>2. ActTypeOK(acts[a]) /\ Fits(acts[a])
  BY DEF IInv, TypeOK, ActsFit
<1>3. Ok(a) => acts[a].about \in Session /\ acts[a].answer \in Texts
  BY <1>1, <1>2 DEF ActTypeOK, AnswerType, Ok
<1>4. Ok(a) => list' \in Lists /\ list'.of = acts[a].about
  BY <1>1, <1>3 DEF Lists
<1>5. list' \in Lists \cup {None} /\ (list # None => list' \in Lists)
  BY <1>1, <1>4 DEF IInv, TypeOK
<1>6. acts[a].name # None => list' \in Lists /\ acts[a].name \in Skill
  BY <1>2, <1>5 DEF Fits, ActTypeOK
<1>7. acts[a].name # None => editor' \in Editor /\ editor'.home = list'.of
  BY <1>1, <1>6, OpenedIs
<1>8. editor' \in Editor
  BY <1>1, <1>7 DEF IInv, TypeOK
<1>9. list # None => list' # None
  BY <1>5, DashboardAssumption
<1>10. Drift /\ UNCHANGED <<selected, draft, failed, inbox, typed>>
  BY <1>1, <1>9 DEF Drift, IInv, TypeOK, server, past
<1>11. ActsOK' /\ ActsFit' /\ OneSends' /\ SentTyped' /\ SendFits'
  BY <1>1, <1>10, RestActs
<1>12. ThreadFits'
  BY <1>1, ThreadKept DEF server
<1>13. EditorFits'
  BY <1>1, <1>6, <1>9, DashboardAssumption DEF IInv, EditorFits
<1>14. OwnFits'
  <2> SUFFICES ASSUME ~strayed'
               PROVE  /\ \A s \in Session, k \in Skill : override'[s][k].home = s
                      /\ list' # None => list'.of = selected'
                      /\ editor'.name # None => editor'.home = selected'
    BY DEF OwnFits
  <2>1. ~strayed
    BY <1>1 DEF past
  <2>2. acts[a].about = selected
    BY <1>1, <1>2, <2>1 DEF Fits, Asked
  <2>3. list' # None => list'.of = selected
    BY <1>1, <1>4, <2>1, <2>2 DEF IInv, OwnFits
  <2>4. editor'.name # None => editor'.home = selected
    <3>1. CASE acts[a].name # None
      BY <1>6, <1>7, <2>3, <3>1, DashboardAssumption
    <3>2. CASE acts[a].name = None
      BY <1>1, <2>1, <3>2 DEF IInv, OwnFits
    <3> QED BY <3>1, <3>2
  <2>5. \A s \in Session, k \in Skill : override'[s][k].home = s
    BY <1>1, <2>1 DEF IInv, OwnFits, server
  <2> QED BY <1>1, <2>3, <2>4, <2>5
<1>15. TypeOK'
  BY <1>1, <1>5, <1>8, <1>11 DEF IInv, TypeOK, ActsOK, server, past
<1> QED BY <1>11, <1>12, <1>13, <1>14, <1>15 DEF IInv

(* The answer with the inbox keeps the invariant: it is shown only if it   *)
(* is of the selected session, and what is remembered is what is shown     *)
(* (refreshChat).                                                          *)
LEMMA TakeChatStep ==
  ASSUME IInv, NEW a \in Activation, TakeChat(a) PROVE IInv'
<1>1. /\ acts[a].at = "chat" /\ Rest(a, "chat")
      /\ IF Wanted(a) THEN Rendered(a) ELSE UNCHANGED <<last, thread>>
      /\ UNCHANGED <<selected, heading, tab, list, editor, draft, server, past>>
  BY DEF TakeChat, Answered
<1>2. ActTypeOK(acts[a]) /\ Fits(acts[a])
  BY DEF IInv, TypeOK, ActsFit
<1>3. Ok(a) => acts[a].answer \in Messages /\ acts[a].answer.of = acts[a].about
  BY <1>1, <1>2 DEF ActTypeOK, AnswerType, Fits, Ok
<1>4. thread' \in Messages \cup {Unloaded} /\ ThreadFits'
  <2>1. CASE Wanted(a) /\ ~Ok(a)
    BY <1>1, <2>1 DEF Rendered, IInv, ThreadFits, server
  <2>2. CASE Wanted(a) /\ Ok(a) /\ Json(acts[a].answer) # last
    <3>1. thread' = acts[a].answer /\ last' = Json(acts[a].answer) /\ acts[a].answer.of = selected
      BY <1>1, <1>3, <2>2 DEF Rendered, Wanted
    <3>2. thread' # Unloaded
      BY <1>3, <2>2, <3>1, DashboardAssumption
    <3> QED BY <1>1, <1>3, <2>2, <3>1, <3>2 DEF IInv, ThreadFits, server, Json
  <2>3. CASE UNCHANGED <<last, thread>>
    BY <1>1, <2>3, ThreadKept DEF IInv, TypeOK, server
  <2> QED BY <1>1, <2>1, <2>2, <2>3 DEF Rendered
<1>5. Drift /\ UNCHANGED <<selected, draft, failed, inbox, typed>>
  BY <1>1 DEF Drift, IInv, TypeOK, server, past
<1>6. ActsOK' /\ ActsFit' /\ OneSends' /\ SentTyped' /\ SendFits'
  BY <1>1, <1>5, RestActs
<1>7. OwnFits' /\ EditorFits'
  BY <1>1, <1>5, OwnKept DEF server
<1>8. TypeOK'
  BY <1>1, <1>4, <1>6 DEF IInv, TypeOK, ActsOK, server, past
<1> QED BY <1>4, <1>6, <1>7, <1>8 DEF IInv
(* A step that touches neither the activations nor what has been sent      *)
(* keeps all that is known of them.                                        *)
LEMMA SameActs ==
  ASSUME IInv, Drift, UNCHANGED <<acts, draft, failed, typed>>,
         \A s \in Session : inbox'[s].sent = inbox[s].sent
  PROVE  ActsOK' /\ ActsFit' /\ OneSends' /\ SentTyped' /\ SendFits'
<1>1. ASSUME NEW b \in Activation PROVE ActTypeOK(acts[b])' /\ Fits(acts[b])'
  <2>1. ActTypeOK(acts[b]) /\ Fits(acts[b])
    BY DEF IInv, TypeOK, ActsFit
  <2> QED BY <2>1, ActKept
<1>2. ActsOK' /\ ActsFit'
  BY <1>1 DEF ActsOK, ActsFit, IInv, TypeOK
<1>3. OneSends'
  BY DEF IInv, OneSends
<1>4. SentTyped'
  BY DEF IInv, SentTyped
<1>5. ASSUME ~failed' PROVE Once'
  BY <1>5 DEF IInv, SendFits, Once
<1>6. Fresh(draft) => Fresh(draft)'
  BY DEF Fresh
<1>7. SendFits'
  BY <1>5, <1>6 DEF IInv, SendFits, Posting
<1> QED BY <1>2, <1>3, <1>4, <1>7

(* Opening the editor keeps the invariant (openRunSkillEditor).            *)
LEMMA OpenEditorStep ==
  ASSUME IInv, NEW k \in Skill, openRunSkillEditor(k) PROVE IInv'
<1>1. /\ list # None /\ editor' = Opened(list, k)
      /\ UNCHANGED <<server, failed, events, selected, heading, tab, thread, last, list, draft, acts, typed, strayed>>
  BY DEF openRunSkillEditor, Click
<1>2. list \in Lists /\ editor' \in Editor /\ editor'.home = list.of
  <2>1. list \in Lists
    BY <1>1 DEF IInv, TypeOK
  <2> QED BY <1>1, <2>1, OpenedIs
<1>3. Drift
  BY <1>1 DEF Drift, IInv, TypeOK
<1>4. ActsOK' /\ ActsFit' /\ OneSends' /\ SentTyped' /\ SendFits'
  BY <1>1, <1>3, SameActs DEF server
<1>5. ThreadFits'
  BY <1>1, ThreadKept DEF server
<1>6. EditorFits' /\ OwnFits'
  BY <1>1, <1>2 DEF EditorFits, OwnFits, IInv, server
<1>7. TypeOK'
  BY <1>1, <1>2, <1>4 DEF IInv, TypeOK, ActsOK, server
<1> QED BY <1>4, <1>5, <1>6, <1>7 DEF IInv

(* Closing the editor keeps the invariant.                                 *)
LEMMA CloseEditorStep ==
  ASSUME IInv, CloseEditor PROVE IInv'
<1>1. /\ editor' = NoEditor
      /\ UNCHANGED <<server, failed, events, selected, heading, tab, thread, last, list, draft, acts, typed, strayed>>
  BY DEF CloseEditor, Click
<1>2. editor' \in Editor /\ editor'.name = None
  BY <1>1 DEF NoEditor, Editor
<1>3. Drift
  BY <1>1 DEF Drift, IInv, TypeOK
<1>4. ActsOK' /\ ActsFit' /\ OneSends' /\ SentTyped' /\ SendFits'
  BY <1>1, <1>3, SameActs DEF server
<1>5. ThreadFits'
  BY <1>1, ThreadKept DEF server
<1>6. EditorFits' /\ OwnFits'
  BY <1>1, <1>2 DEF EditorFits, OwnFits, IInv, server
<1>7. TypeOK'
  BY <1>1, <1>2, <1>4 DEF IInv, TypeOK, ActsOK, server
<1> QED BY <1>4, <1>5, <1>6, <1>7 DEF IInv

(* A save keeps the invariant: without straying, the text that is on its   *)
(* way was opened from the run it goes to (the save handler).              *)
LEMMA SaveStep ==
  ASSUME IInv, NEW a \in Activation, Save(a) PROVE IInv'
<1> PICK act : act = [Asking("save", "write", selected) EXCEPT !.name = editor.name, !.body = editor']
  OBVIOUS
<1>1. /\ Becomes(a, act) /\ Free(a) /\ editor.name # None /\ selected # None
      /\ UNCHANGED <<server, failed, events, selected, heading, tab, thread, last, list, draft, strayed>>
  BY DEF Save, Click
<1>2. /\ DOMAIN act = Fields
      /\ act.job = "save" /\ act.at = "write" /\ act.about = selected /\ act.name = editor.name
      /\ act.body = editor' /\ act.status = "waiting"
  <2> PICK e : e = editor'
    OBVIOUS
  <2>1. act = [Asking("save", "write", selected) EXCEPT !.name = editor.name, !.body = e]
    OBVIOUS
  <2> QED BY <2>1 DEF Asking, Idle, Fields
<1>3. editor' \in Editor /\ editor'.name = editor.name /\ editor'.home = editor.home /\ typed' \in Nat /\ typed <= typed'
  <2>1. CASE UNCHANGED <<typed, editor>>
    BY <2>1 DEF IInv, TypeOK
  <2>2. CASE typed' = typed + 1 /\ editor' = [editor EXCEPT !.text = typed']
    <3> PICK t : t = typed'
      OBVIOUS
    <3>1. editor' = [editor EXCEPT !.text = t] /\ t = typed + 1 /\ typed \in Nat /\ editor \in Editor
      BY <2>2 DEF IInv, TypeOK
    <3>2. t \in Nat /\ typed <= t
      BY <3>1
    <3>3. editor' \in Editor /\ editor'.name = editor.name /\ editor'.home = editor.home
      BY <3>1, <3>2 DEF Editor
    <3> QED BY <3>2, <3>3
  <2> QED BY <2>1, <2>2 DEF Save
<1>4. acts[a].at # "write" /\ acts[a].job # "send"
  BY <1>1, IdleIs DEF Free
<1>5. Drift
  BY <1>1, <1>3 DEF Drift, IInv, TypeOK
<1>6. ActTypeOK(act)'
  <2>1. act.about \in Session /\ act.name \in Skill /\ act.body \in Editor
    BY <1>1, <1>2, <1>3 DEF IInv, TypeOK, Editor
  <2> QED BY <1>2, <2>1 DEF ActTypeOK, Fields
<1>7. Fits(act)'
  <2>1. ~strayed => act.body.home = selected
    BY <1>1, <1>2, <1>3 DEF IInv, OwnFits
  <2> QED BY <1>1, <1>2, <2>1 DEF Fits, Asked, Posting, IInv, EditorFits
<1>8. ActsOK' /\ ActsFit'
  BY <1>1, <1>5, <1>6, <1>7, ActsStep
<1>9. OneSends' /\ SendFits'
  BY <1>1, <1>2, <1>4, FreeSends DEF server
<1>10. SentTyped'
  BY <1>1, <1>5, SentGrows DEF server
<1>11. ThreadFits'
  BY <1>1, ThreadKept DEF server
<1>12. EditorFits' /\ OwnFits'
  BY <1>1, <1>3 DEF EditorFits, OwnFits, IInv, server
<1>13. TypeOK'
  <2>1. draft' \in 0..typed'
    BY <1>1, <1>3 DEF IInv, TypeOK
  <2> QED BY <1>1, <1>3, <1>8, <2>1 DEF IInv, TypeOK, ActsOK, server
<1> QED BY <1>8, <1>9, <1>10, <1>11, <1>12, <1>13 DEF IInv

(* A revert keeps the invariant (the revert handler).                      *)
LEMMA RevertStep ==
  ASSUME IInv, NEW a \in Activation, Revert(a) PROVE IInv'
<1> PICK act : act = [Asking("revert", "write", selected) EXCEPT !.name = editor.name]
  OBVIOUS
<1>1. /\ Becomes(a, act) /\ Free(a) /\ editor.name # None /\ selected # None
      /\ UNCHANGED <<server, failed, events, selected, panes, typed, strayed>>
  BY DEF Revert, Click
<1>2. /\ DOMAIN act = Fields
      /\ act.job = "revert" /\ act.at = "write" /\ act.about = selected /\ act.name = editor.name
      /\ act.status = "waiting"
  BY DEF Asking, Idle, Fields
<1>3. acts[a].at # "write"
  BY <1>1, IdleIs DEF Free
<1>4. Drift
  BY <1>1 DEF Drift, IInv, TypeOK, panes
<1>5. ActTypeOK(act)'
  <2>1. act.about \in Session /\ act.name \in Skill
    BY <1>1, <1>2 DEF IInv, TypeOK, Editor
  <2> QED BY <1>2, <2>1 DEF ActTypeOK, Fields
<1>6. Fits(act)'
  BY <1>1, <1>2 DEF Fits, Asked, Posting, IInv, EditorFits, panes
<1>7. ActsOK' /\ ActsFit'
  BY <1>1, <1>4, <1>5, <1>6, ActsStep DEF panes
<1>8. OneSends' /\ SentTyped' /\ SendFits'
  BY <1>1, <1>2, <1>3, <1>4, FreeSends, SentGrows DEF server, panes
<1>9. ThreadFits' /\ OwnFits' /\ EditorFits'
  BY <1>1, <1>4, ThreadKept, OwnKept DEF server, panes
<1>10. TypeOK'
  BY <1>1, <1>7 DEF IInv, TypeOK, ActsOK, server, panes
<1> QED BY <1>7, <1>8, <1>9, <1>10 DEF IInv
(* A send keeps the invariant: the button is disabled while one is on its  *)
(* way, so the draft is empty unless a request has failed, and a new text  *)
(* is in no inbox (the chat form's submit handler).                        *)
LEMMA SendStep ==
  ASSUME IInv, NEW a \in Activation, Send(a) PROVE IInv'
<1> PICK d : d = draft'
  OBVIOUS
<1> PICK act : act = [Asking("send", "write", selected) EXCEPT !.body = d]
  OBVIOUS
<1>1. /\ Becomes(a, act) /\ Free(a) /\ selected # None /\ ~Sending
      /\ UNCHANGED <<server, failed, events, selected, heading, tab, thread, last, list, editor, strayed>>
  BY DEF Send, Click
<1>2. /\ DOMAIN act = Fields
      /\ act.job = "send" /\ act.at = "write" /\ act.about = selected /\ act.name = None
      /\ act.body = d /\ act.status = "waiting"
  BY DEF Asking, Idle, Fields
<1>3. /\ typed' \in Nat /\ typed <= typed' /\ d \in 1..typed'
      /\ draft = 0 => d = typed + 1
  BY DEF Send, IInv, TypeOK
<1>4. \A b \in Activation : acts[b].job # "send"
  BY <1>1 DEF Sending
<1>5. Drift
  BY <1>1, <1>3 DEF Drift, IInv, TypeOK
<1>6. ActTypeOK(act)'
  <2>1. act.about \in Session
    BY <1>1, <1>2 DEF IInv, TypeOK
  <2> QED BY <1>2, <1>3, <2>1 DEF ActTypeOK, Fields
<1>7. Fits(act)'
  BY <1>1, <1>2 DEF Fits, Asked, Posting
<1>8. ActsOK' /\ ActsFit'
  BY <1>1, <1>4, <1>5, <1>6, <1>7, ActsStep
<1>9. acts'[a] = act /\ \A b \in Activation : b # a => acts'[b] = acts[b]
  BY <1>1, BecomesIs DEF IInv, TypeOK
<1>10. OneSends'
  BY <1>4, <1>9 DEF OneSends
<1>11. SentTyped'
  BY <1>1, <1>5, SentGrows DEF server
<1>12. SendFits'
  <2>1. ASSUME ~failed PROVE Once'
    BY <1>1, <2>1 DEF IInv, SendFits, Once, server
  <2>2. ASSUME ~failed PROVE Fresh(draft)'
    <3>1. draft = 0
      BY <1>4, <2>2 DEF IInv, SendFits, Posting
    <3>2. d = typed + 1 /\ typed \in Nat
      BY <1>3, <3>1 DEF IInv, TypeOK
    <3> QED BY <1>1, <3>2 DEF IInv, SentTyped, Fresh, server
  <2>3. Posting(acts[a])'
    BY <1>2, <1>9 DEF Posting
  <2> QED BY <1>1, <2>1, <2>2, <2>3 DEF SendFits
<1>13. ThreadFits'
  BY <1>1, ThreadKept DEF server
<1>14. EditorFits' /\ OwnFits'
  BY <1>1, <1>5, OwnKept DEF server
<1>15. TypeOK'
  <2>1. draft' \in 0..typed'
    BY <1>3
  <2> QED BY <1>1, <1>3, <1>8, <2>1 DEF IInv, TypeOK, ActsOK, server
<1> QED BY <1>8, <1>10, <1>11, <1>12, <1>13, <1>14, <1>15 DEF IInv

(* An answer changes the status and the answer of one activation, and      *)
(* nothing else of any.                                                    *)
LEMMA AnswerIs ==
  ASSUME IInv, NEW a \in Activation, NEW st, NEW ans, Answer(a, st, ans)
  PROVE  /\ DOMAIN acts' = Activation /\ acts'[a].status = st /\ acts'[a].answer = ans
         /\ \A b \in Activation : b # a => acts'[b] = acts[b]
         /\ \A b \in Activation : /\ DOMAIN acts'[b] = Fields
                                  /\ acts'[b].job = acts[b].job /\ acts'[b].at = acts[b].at
                                  /\ acts'[b].about = acts[b].about /\ acts'[b].name = acts[b].name
                                  /\ acts'[b].body = acts[b].body
<1>1. DOMAIN acts = Activation /\ \A b \in Activation : DOMAIN acts[b] = Fields
  BY DEF IInv, TypeOK, ActTypeOK, Fields
<1>2. PICK r : r = [acts[a] EXCEPT !.status = st, !.answer = ans]
  OBVIOUS
<1>3. /\ DOMAIN r = Fields /\ r.status = st /\ r.answer = ans
      /\ r.job = acts[a].job /\ r.at = acts[a].at /\ r.about = acts[a].about
      /\ r.name = acts[a].name /\ r.body = acts[a].body
  BY <1>1, <1>2 DEF Fields
<1>4. acts' = [acts EXCEPT ![a] = r]
  BY <1>1, <1>2 DEF Answer
<1>5. DOMAIN acts' = Activation /\ acts'[a] = r /\ \A b \in Activation : b # a => acts'[b] = acts[b]
  BY <1>1, <1>4
<1> QED BY <1>1, <1>3, <1>5

(* An answer of the right kind keeps the activations in order.             *)
LEMMA AnswerActs ==
  ASSUME IInv, NEW a \in Activation, NEW st \in {"ok", "failed"}, NEW ans, Answer(a, st, ans),
         UNCHANGED <<selected, list, strayed, draft, typed>>, failed => failed',
         st = "failed" => failed', st = "ok" => ans \in AnswerType(acts[a].at),
         st = "ok" /\ acts[a].at = "chat" => ans.of = acts[a].about
  PROVE  ActsOK' /\ ActsFit' /\ OneSends'
<1>1. Drift
  BY DEF Drift, IInv, TypeOK
<1>2. /\ DOMAIN acts' = Activation /\ acts'[a].status = st /\ acts'[a].answer = ans
      /\ \A b \in Activation : b # a => acts'[b] = acts[b]
      /\ \A b \in Activation : /\ DOMAIN acts'[b] = Fields
                               /\ acts'[b].job = acts[b].job /\ acts'[b].at = acts[b].at
                               /\ acts'[b].about = acts[b].about /\ acts'[b].name = acts[b].name
                               /\ acts'[b].body = acts[b].body
  BY AnswerIs
<1>3. \A b \in Activation : ActTypeOK(acts[b]) /\ Fits(acts[b])
  BY DEF IInv, TypeOK, ActsFit
<1>4. PICK act : act = acts'[a]
  OBVIOUS
<1>5. ActTypeOK(act)'
  <2>1. /\ DOMAIN act = Fields /\ act.status = st /\ act.answer = ans
        /\ act.job = acts[a].job /\ act.at = acts[a].at /\ act.about = acts[a].about
        /\ act.name = acts[a].name /\ act.body = acts[a].body
    BY <1>2, <1>4
  <2>2. ActTypeOK(acts[a])
    BY <1>3
  <2> QED BY <2>1, <2>2 DEF ActTypeOK, Fields
<1>6. Fits(act)'
  <2>1. /\ act.status = st /\ act.answer = ans
        /\ act.job = acts[a].job /\ act.at = acts[a].at /\ act.about = acts[a].about
        /\ act.name = acts[a].name /\ act.body = acts[a].body
    BY <1>2, <1>4
  <2>2. Fits(acts[a])
    BY <1>3
  <2> QED BY <2>1, <2>2 DEF Fits, Asked, Posting
<1>7. ASSUME NEW b \in Activation PROVE ActTypeOK(acts[b])' /\ Fits(acts[b])'
  <2>1. CASE b = a
    BY <1>4, <1>5, <1>6, <2>1
  <2>2. CASE b # a
    BY <1>1, <1>2, <1>3, <2>2, ActKept
  <2> QED BY <2>1, <2>2
<1>8. OneSends'
  BY <1>2 DEF IInv, OneSends
<1> QED BY <1>2, <1>7, <1>8 DEF ActsOK, ActsFit

(* An answer that stores nothing keeps what is known of the messages.      *)
LEMMA AnswerSends ==
  ASSUME IInv, NEW a \in Activation, NEW ans, Answer(a, "ok", ans),
         UNCHANGED <<draft, failed, inbox>>
  PROVE  SendFits'
<1>1. /\ acts'[a].status = "ok"
      /\ \A b \in Activation : b # a => acts'[b] = acts[b]
      /\ \A b \in Activation : acts'[b].job = acts[b].job /\ acts'[b].at = acts[b].at
  BY AnswerIs
<1>2. ASSUME ~failed PROVE Once'
  BY <1>2 DEF IInv, SendFits, Once
<1>3. \A b \in Activation : Posting(acts[b])' <=> Posting(acts[b])
  BY <1>1 DEF Posting
<1>4. ASSUME ~failed, NEW b \in Activation, Posting(acts[b])', acts'[b].status = "waiting"
      PROVE  Fresh(draft)'
  <2>1. Posting(acts[b]) /\ acts[b].status = "waiting"
    BY <1>1, <1>3, <1>4
  <2> QED BY <1>4, <2>1 DEF IInv, SendFits, Fresh
<1> QED BY <1>2, <1>3, <1>4 DEF IInv, SendFits

(* The server's answer to a reading keeps the invariant: it is of the      *)
(* session that was asked about.                                           *)
LEMMA ReadStep ==
  ASSUME IInv, NEW a \in Activation, Read(a) PROVE IInv'
<1> PICK ans : ans = Content(acts[a])
  OBVIOUS
<1>1. /\ acts[a].at \notin {"idle", "write"} /\ Answer(a, "ok", ans)
      /\ UNCHANGED <<selected, panes, server, past>>
  BY DEF Read, Waits
<1>2. ActTypeOK(acts[a])
  BY DEF IInv, TypeOK
<1>3. ans \in AnswerType(acts[a].at) /\ (acts[a].at = "chat" => ans.of = acts[a].about)
  <2>1. CASE acts[a].at = "sessions"
    BY <2>1 DEF Content, AnswerType, IInv, TypeOK
  <2>2. CASE acts[a].at = "detail"
    BY <1>2, <2>2 DEF Content, AnswerType, IInv, TypeOK, ActTypeOK
  <2>3. CASE acts[a].at = "skills"
    <3>1. acts[a].about \in Session
      BY <1>2, <2>3 DEF ActTypeOK
    <3>2. ans = [k \in Skill |-> override[acts[a].about][k].text]
      BY <2>3 DEF Content
    <3>3. ans \in Texts
      BY <3>1, <3>2 DEF IInv, TypeOK, Texts
    <3> QED BY <2>3, <3>3 DEF AnswerType
  <2>4. CASE acts[a].at = "chat"
    <3>1. acts[a].about \in Session
      BY <1>2, <2>4 DEF ActTypeOK
    <3>2. ans = inbox[acts[a].about]
      BY <2>4 DEF Content
    <3>3. ans \in Messages /\ ans.of = acts[a].about
      BY <3>1, <3>2 DEF IInv, TypeOK, ThreadFits
    <3> QED BY <2>4, <3>3 DEF AnswerType
  <2> QED BY <1>1, <1>2, <2>1, <2>2, <2>3, <2>4 DEF ActTypeOK
<1>4. ActsOK' /\ ActsFit' /\ OneSends'
  BY <1>1, <1>3, AnswerActs DEF panes, past
<1>5. Drift
  BY <1>1 DEF Drift, IInv, TypeOK, panes, past
<1>6. SentTyped'
  BY <1>1, <1>5, SentGrows DEF server
<1>7. SendFits'
  BY <1>1, AnswerSends DEF panes, server, past
<1>8. ThreadFits' /\ OwnFits' /\ EditorFits'
  BY <1>1, <1>5, ThreadKept, OwnKept DEF panes, server
<1>9. TypeOK'
  BY <1>1, <1>4 DEF IInv, TypeOK, ActsOK, panes, server, past
<1> QED BY <1>4, <1>6, <1>7, <1>8, <1>9 DEF IInv
(* A run's text for a skill, and the run in which the operator opened it.  *)
GivenText == [home : Session \cup {None}, text : Nat]

(* A text that is stored replaces one skill's of one run (PUT and DELETE   *)
(* /api/sessions/:id/skills/:name).                                        *)
LEMMA PutIs ==
  ASSUME IInv, NEW s \in Session, NEW k \in Skill, NEW text \in GivenText, Put(s, k, text)
  PROVE  /\ override' \in [Session -> [Skill -> GivenText]] /\ inbox' = inbox
         /\ override'[s][k] = text
         /\ \A t \in Session, l \in Skill : ~(t = s /\ l = k) => override'[t][l] = override[t][l]
<1>1. override \in [Session -> [Skill -> GivenText]]
  BY DEF IInv, TypeOK, GivenText
<1>2. PICK r : r = [override[s] EXCEPT ![k] = text]
  OBVIOUS
<1>3. r \in [Skill -> GivenText] /\ r[k] = text /\ \A l \in Skill : l # k => r[l] = override[s][l]
  BY <1>1, <1>2
<1>4. override' = [override EXCEPT ![s] = r] /\ inbox' = inbox
  BY <1>2 DEF Put
<1> QED BY <1>1, <1>3, <1>4

(* A message that is stored is added to the end of one inbox (POST         *)
(* /api/sessions/:id/inbox).                                               *)
LEMMA PostIs ==
  ASSUME IInv, NEW s \in Session, NEW m \in Nat, Post(s, m)
  PROVE  /\ inbox' \in [Session -> Messages] /\ override' = override
         /\ inbox'[s].of = inbox[s].of /\ inbox'[s].sent = Append(inbox[s].sent, m)
         /\ \A t \in Session : t # s => inbox'[t] = inbox[t]
<1>1. inbox \in [Session -> Messages]
  BY DEF IInv, TypeOK
<1>2. PICK r : r = [inbox[s] EXCEPT !.sent = Append(@, m)]
  OBVIOUS
<1>3. PICK q : q = Append(inbox[s].sent, m)
  OBVIOUS
<1>4. q \in Seq(Nat)
  BY <1>1, <1>3 DEF Messages
<1>5. r \in Messages /\ r.of = inbox[s].of /\ r.sent = q
  BY <1>1, <1>2, <1>3, <1>4 DEF Messages
<1>6. inbox' = [inbox EXCEPT ![s] = r] /\ override' = override
  BY <1>2 DEF Post
<1> QED BY <1>1, <1>3, <1>5, <1>6

(* What a write stores: without straying a run's own text, and a message   *)
(* only if the activation is a send, whose text is the draft.              *)
LEMMA StoredIs ==
  ASSUME IInv, NEW a \in Activation, Stored(acts[a]),
         UNCHANGED <<selected, list, editor, strayed, typed, draft>>
  PROVE  /\ inbox' \in [Session -> Messages]
         /\ override' \in [Session -> [Skill -> GivenText]]
         /\ \A s \in Session : inbox'[s].of = inbox[s].of
         /\ OwnFits' /\ SentTyped'
         /\ ~Posting(acts[a]) => inbox' = inbox
         /\ Posting(acts[a]) => /\ acts[a].about \in Session /\ Post(acts[a].about, draft)
                                /\ draft \in Nat
<1>1. acts[a].at = "write" /\ ActTypeOK(acts[a]) /\ Fits(acts[a])
  BY DEF IInv, TypeOK, ActsFit, Stored
<1>2. acts[a].about \in Session /\ typed \in Nat
  BY <1>1 DEF ActTypeOK, IInv, TypeOK
<1>3. inbox \in [Session -> Messages] /\ override \in [Session -> [Skill -> GivenText]]
  BY DEF IInv, TypeOK, GivenText
<1>4. ASSUME NEW text \in GivenText, acts[a].name \in Skill, Put(acts[a].about, acts[a].name, text),
             ~strayed => text.home = acts[a].about
      PROVE  /\ inbox' = inbox /\ override' \in [Session -> [Skill -> GivenText]]
             /\ OwnFits' /\ SentTyped'
  <2>1. /\ override' \in [Session -> [Skill -> GivenText]] /\ inbox' = inbox
        /\ override'[acts[a].about][acts[a].name] = text
        /\ \A t \in Session, l \in Skill :
             ~(t = acts[a].about /\ l = acts[a].name) => override'[t][l] = override[t][l]
    BY <1>2, <1>4, PutIs
  <2>2. OwnFits'
    <3>1. ASSUME ~strayed, NEW t \in Session, NEW l \in Skill PROVE override'[t][l].home = t
      BY <1>4, <2>1, <3>1 DEF IInv, OwnFits
    <3> QED BY <3>1 DEF IInv, OwnFits
  <2>3. SentTyped'
    BY <2>1 DEF IInv, SentTyped
  <2> QED BY <2>1, <2>2, <2>3
<1>5. CASE acts[a].job = "save"
  <2> PICK text : text = [home |-> acts[a].body.home, text |-> acts[a].body.text]
    OBVIOUS
  <2>1. Put(acts[a].about, acts[a].name, text)
    BY <1>5 DEF Stored
  <2>2. acts[a].body \in Editor /\ acts[a].name \in Skill
    BY <1>1, <1>5 DEF ActTypeOK
  <2>3. text \in GivenText /\ text.home = acts[a].body.home
    BY <2>2 DEF Editor, GivenText
  <2>4. ~strayed => text.home = acts[a].about
    BY <1>1, <1>5, <2>3 DEF Fits, Asked
  <2> QED BY <1>3, <1>4, <1>5, <2>1, <2>2, <2>3, <2>4 DEF Posting
<1>6. CASE acts[a].job = "revert"
  <2> PICK text : text = [home |-> acts[a].about, text |-> 0]
    OBVIOUS
  <2>1. Put(acts[a].about, acts[a].name, text)
    BY <1>6 DEF Stored
  <2>2. acts[a].name \in Skill
    BY <1>1, <1>6 DEF ActTypeOK
  <2>3. text \in GivenText /\ text.home = acts[a].about
    BY <1>2 DEF GivenText
  <2> QED BY <1>3, <1>4, <1>6, <2>1, <2>2, <2>3 DEF Posting
<1>7. CASE acts[a].job = "send"
  <2>1. acts[a].body = draft /\ draft \in 1..typed
    BY <1>1, <1>7 DEF Fits, Posting, ActTypeOK
  <2>2. Post(acts[a].about, draft) /\ draft \in Nat
    BY <1>2, <1>7, <2>1 DEF Stored
  <2>3. /\ inbox' \in [Session -> Messages] /\ override' = override
        /\ inbox'[acts[a].about].of = inbox[acts[a].about].of
        /\ inbox'[acts[a].about].sent = Append(inbox[acts[a].about].sent, draft)
        /\ \A t \in Session : t # acts[a].about => inbox'[t] = inbox[t]
    BY <1>2, <2>2, PostIs
  <2>4. OwnFits'
    BY <2>3 DEF IInv, OwnFits
  <2>5. SentTyped'
    <3>1. ASSUME NEW s \in Session, NEW i \in DOMAIN inbox'[s].sent PROVE inbox'[s].sent[i] \in 1..typed
      <4>1. CASE s = acts[a].about
        <5>1. inbox[s].sent \in Seq(Nat)
          BY <1>3 DEF Messages
        <5>2. inbox'[s].sent = Append(inbox[s].sent, draft)
          BY <2>3, <4>1
        <5>3. i \in DOMAIN inbox[s].sent \/ inbox'[s].sent[i] = draft
          BY <3>1, <5>1, <5>2
        <5>4. i \in DOMAIN inbox[s].sent => inbox'[s].sent[i] = inbox[s].sent[i]
          BY <5>1, <5>2
        <5> QED BY <2>1, <5>3, <5>4 DEF IInv, SentTyped
      <4>2. CASE s # acts[a].about
        BY <2>3, <3>1, <4>2 DEF IInv, SentTyped
      <4> QED BY <4>1, <4>2
    <3> QED BY <3>1 DEF SentTyped
  <2> QED BY <1>1, <1>2, <1>3, <1>7, <2>2, <2>3, <2>4, <2>5 DEF Posting
<1> QED BY <1>5, <1>6, <1>7 DEF Stored

(* Adding a text that is in no inbox leaves every text in one place.       *)
LEMMA PostOnce ==
  ASSUME IInv, NEW s \in Session, NEW m \in Nat, Post(s, m), Once, Fresh(m)
  PROVE  Once'
<1>1. /\ inbox'[s].sent = Append(inbox[s].sent, m)
      /\ \A t \in Session : t # s => inbox'[t] = inbox[t]
  BY PostIs
<1>2. \A t \in Session : inbox[t].sent \in Seq(Nat)
  BY DEF IInv, TypeOK, Messages
<1>3. ASSUME NEW t \in Session, NEW i \in DOMAIN inbox'[t].sent
      PROVE  \/ i \in DOMAIN inbox[t].sent /\ inbox'[t].sent[i] = inbox[t].sent[i] /\ inbox[t].sent[i] # m
             \/ t = s /\ i = Len(inbox[s].sent) + 1 /\ inbox'[t].sent[i] = m
  <2>1. CASE t = s
    <3>1. inbox[t].sent \in Seq(Nat) /\ inbox'[t].sent = Append(inbox[t].sent, m)
      BY <1>1, <1>2, <2>1
    <3>2. i \in 1..(Len(inbox[t].sent) + 1)
      BY <1>3, <3>1
    <3>3. CASE i \in 1..Len(inbox[t].sent)
      BY <3>1, <3>3 DEF Fresh
    <3>4. CASE i = Len(inbox[t].sent) + 1
      BY <2>1, <3>1, <3>4
    <3> QED BY <3>1, <3>2, <3>3, <3>4
  <2>2. CASE t # s
    BY <1>1, <1>3, <2>2 DEF Fresh
  <2> QED BY <2>1, <2>2
<1>4. ASSUME NEW t \in Session, NEW u \in Session,
             NEW i \in DOMAIN inbox'[t].sent, NEW j \in DOMAIN inbox'[u].sent,
             inbox'[t].sent[i] = inbox'[u].sent[j]
      PROVE  t = u /\ i = j
  BY <1>3, <1>4 DEF Once
<1> QED BY <1>4 DEF Once
(* A write that is stored and answered keeps the invariant.                *)
LEMMA WriteStep ==
  ASSUME IInv, NEW a \in Activation, Write(a) PROVE IInv'
<1>1. /\ acts[a].at = "write" /\ acts[a].status = "waiting" /\ Stored(acts[a]) /\ Answer(a, "ok", None)
      /\ UNCHANGED <<selected, panes, active, detail, past>>
  BY DEF Write, Waits, Stored
<1>2. /\ inbox' \in [Session -> Messages]
      /\ override' \in [Session -> [Skill -> GivenText]]
      /\ \A s \in Session : inbox'[s].of = inbox[s].of
      /\ OwnFits' /\ SentTyped'
      /\ ~Posting(acts[a]) => inbox' = inbox
      /\ Posting(acts[a]) => /\ acts[a].about \in Session /\ Post(acts[a].about, draft)
                             /\ draft \in Nat
  BY <1>1, StoredIs DEF panes, past
<1>3. None \in AnswerType(acts[a].at)
  BY <1>1 DEF AnswerType
<1>4. ActsOK' /\ ActsFit' /\ OneSends'
  BY <1>1, <1>3, AnswerActs DEF panes, past
<1>5. SendFits'
  <2>1. CASE ~Posting(acts[a])
    BY <1>1, <1>2, <2>1, AnswerSends DEF panes, past
  <2>2. CASE Posting(acts[a])
    <3>1. /\ acts'[a].status = "ok"
          /\ \A b \in Activation : acts'[b].job = acts[b].job /\ acts'[b].at = acts[b].at
      BY <1>1, AnswerIs
    <3>2. \A b \in Activation : Posting(acts[b])' => b = a
      BY <2>2, <3>1 DEF IInv, OneSends, Posting
    <3>3. Posting(acts[a])'
      BY <2>2, <3>1 DEF Posting
    <3>4. ASSUME ~failed PROVE Once'
      <4>1. Once /\ Fresh(draft)
        BY <1>1, <2>2, <3>4 DEF IInv, SendFits
      <4> QED BY <1>2, <2>2, <4>1, PostOnce
    <3>5. failed' = failed
      BY <1>1 DEF past
    <3> QED BY <3>1, <3>2, <3>3, <3>4, <3>5 DEF SendFits
  <2> QED BY <2>1, <2>2
<1>6. ThreadFits'
  BY <1>1, <1>2, ThreadKept DEF panes
<1>7. EditorFits'
  BY <1>1 DEF IInv, EditorFits, panes
<1>8. TypeOK'
  BY <1>1, <1>2, <1>4 DEF IInv, TypeOK, ActsOK, GivenText, panes, past
<1> QED BY <1>2, <1>4, <1>5, <1>6, <1>7, <1>8 DEF IInv

(* A request that fails, whether or not it was stored, keeps the           *)
(* invariant.                                                              *)
LEMMA FailStep ==
  ASSUME IInv, NEW a \in Activation, Fail(a) PROVE IInv'
<1>1. /\ failed' = TRUE /\ Answer(a, "failed", None)
      /\ Stored(acts[a]) \/ UNCHANGED <<override, inbox>>
      /\ UNCHANGED <<selected, panes, active, typed, strayed, clicks, detail>>
  BY DEF Fail, Event
<1>2. /\ inbox' \in [Session -> Messages]
      /\ override' \in [Session -> [Skill -> GivenText]]
      /\ \A s \in Session : inbox'[s].of = inbox[s].of
      /\ OwnFits' /\ SentTyped'
  <2>1. CASE Stored(acts[a])
    BY <1>1, <2>1, StoredIs DEF panes
  <2>2. CASE UNCHANGED <<override, inbox>>
    <3>1. OwnFits'
      BY <1>1, <2>2 DEF IInv, OwnFits, panes
    <3>2. SentTyped'
      BY <1>1, <2>2 DEF IInv, SentTyped
    <3> QED BY <2>2, <3>1, <3>2 DEF IInv, TypeOK, GivenText
  <2> QED BY <1>1, <2>1, <2>2
<1>3. ActsOK' /\ ActsFit' /\ OneSends'
  BY <1>1, AnswerActs DEF panes
<1>4. SendFits'
  BY <1>1 DEF SendFits
<1>5. ThreadFits'
  BY <1>1, <1>2, ThreadKept DEF panes
<1>6. EditorFits'
  BY <1>1 DEF IInv, EditorFits, panes
<1>7. TypeOK'
  <2>1. {strayed, failed}' \subseteq BOOLEAN
    BY <1>1 DEF IInv, TypeOK
  <2> QED BY <1>1, <1>2, <1>3, <2>1 DEF IInv, TypeOK, ActsOK, GivenText, panes
<1> QED BY <1>2, <1>3, <1>4, <1>5, <1>6, <1>7 DEF IInv

(* Whatever the controller does to a session keeps the invariant.          *)
LEMMA ProgressStep ==
  ASSUME IInv, NEW s \in Session, Progress(s) PROVE IInv'
<1>1. /\ detail' = [detail EXCEPT ![s] = @ + 1]
      /\ UNCHANGED <<acts, inbox, override, failed, selected, panes, active, typed, strayed, clicks>>
  BY DEF Progress, Event
<1>2. Drift
  BY <1>1 DEF Drift, IInv, TypeOK, panes
<1>3. ActsOK' /\ ActsFit' /\ OneSends' /\ SentTyped' /\ SendFits'
  BY <1>1, <1>2, SameActs DEF panes
<1>4. ThreadFits' /\ OwnFits' /\ EditorFits'
  BY <1>1, <1>2, ThreadKept, OwnKept DEF panes
<1>5. detail' \in [Session -> Nat]
  BY <1>1 DEF IInv, TypeOK
<1>6. TypeOK'
  BY <1>1, <1>3, <1>5 DEF IInv, TypeOK, ActsOK, panes
<1> QED BY <1>3, <1>4, <1>6 DEF IInv

(* A reply to a message keeps the invariant.                               *)
LEMMA ReplyStep ==
  ASSUME IInv, NEW s \in Session, Reply(s) PROVE IInv'
<1>1. /\ inbox' = [inbox EXCEPT ![s].replies = @ + 1]
      /\ UNCHANGED <<acts, detail, override, failed, selected, panes, active, typed, strayed, clicks>>
  BY DEF Reply, Event
<1>2. inbox \in [Session -> Messages]
  BY DEF IInv, TypeOK
<1>3. PICK r : r = [inbox[s] EXCEPT !.replies = @ + 1]
  OBVIOUS
<1>4. r \in Messages /\ r.of = inbox[s].of /\ r.sent = inbox[s].sent
  <2>1. PICK m \in Messages : m = inbox[s]
    BY <1>2
  <2>2. m.replies + 1 \in Nat
    BY DEF Messages
  <2>3. PICK n \in Nat : n = m.replies + 1
    BY <2>2
  <2>4. r = [m EXCEPT !.replies = n]
    BY <1>3, <2>1, <2>3
  <2>5. QED
    BY ONLY <2>1, <2>4 DEF Messages
<1>5. inbox' = [inbox EXCEPT ![s] = r]
  BY <1>1, <1>3
<1>6. /\ inbox' \in [Session -> Messages]
      /\ \A t \in Session : inbox'[t].of = inbox[t].of /\ inbox'[t].sent = inbox[t].sent
  BY <1>2, <1>4, <1>5
<1>7. Drift
  BY <1>1 DEF Drift, IInv, TypeOK, panes
<1>8. ActsOK' /\ ActsFit' /\ OneSends' /\ SentTyped' /\ SendFits'
  BY <1>1, <1>6, <1>7, SameActs DEF panes
<1>9. ThreadFits' /\ OwnFits' /\ EditorFits'
  BY <1>1, <1>6, <1>7, ThreadKept, OwnKept DEF panes
<1>10. TypeOK'
  BY <1>1, <1>6, <1>8 DEF IInv, TypeOK, ActsOK, panes
<1> QED BY <1>8, <1>9, <1>10 DEF IInv
(* The answer to a write keeps the invariant: a send that was stored       *)
(* empties the draft, and what is read next is of the session now          *)
(* selected (the handlers of save, revert and send).                       *)
LEMMA TakeWrittenStep ==
  ASSUME IInv, NEW a \in Activation, TakeWritten(a) PROVE IInv'
<1> PICK act : act = After(acts[a])
  OBVIOUS
<1>1. /\ acts[a].at = "write" /\ acts[a].status # "waiting" /\ Becomes(a, act)
      /\ draft' = IF acts[a].job = "send" /\ Ok(a) THEN 0 ELSE draft
      /\ UNCHANGED <<selected, heading, tab, thread, last, list, editor, server, past>>
  BY DEF TakeWritten, Answered
<1>2. ActTypeOK(acts[a]) /\ Fits(acts[a])
  BY DEF IInv, TypeOK, ActsFit
<1>3. acts[a].status \in {"ok", "failed"} /\ (acts[a].status = "failed" => failed)
  BY <1>1, <1>2 DEF ActTypeOK, Fits
<1>4. selected \in Session /\ acts[a].job \in {"save", "revert", "send"}
  BY <1>1, <1>2 DEF Fits, Asked, ActTypeOK, IInv, TypeOK
<1>5. \/ acts[a].status = "failed" /\ act = Idle
      \/ acts[a].status = "ok" /\ acts[a].job = "send" /\ act = Asking("send", "chat", selected)
      \/ /\ acts[a].status = "ok" /\ acts[a].job # "send"
         /\ act = [Asking(acts[a].job, "skills", selected) EXCEPT !.name = editor.name]
  BY <1>3 DEF After
<1>6. /\ DOMAIN act = Fields /\ act.status = "waiting"
      /\ act.at \in {"idle", "chat", "skills"}
      /\ act.about = (IF act.at = "idle" THEN None ELSE selected)
      /\ act.name \in {None, editor.name}
      /\ act.job = "send" => acts[a].job = "send" /\ draft' = 0
  <2>1. CASE act = Idle
    BY <2>1, IdleIs
  <2>2. CASE acts[a].status = "ok" /\ acts[a].job = "send" /\ act = Asking("send", "chat", selected)
    BY <1>1, <2>2, AskingIs DEF Ok
  <2>3. CASE /\ acts[a].status = "ok" /\ acts[a].job # "send"
             /\ act = [Asking(acts[a].job, "skills", selected) EXCEPT !.name = editor.name]
    <3>1. PICK j, s, n : /\ j = acts[a].job /\ s = selected /\ n = editor.name
                         /\ act = [Asking(j, "skills", s) EXCEPT !.name = n]
      BY <2>3
    <3>2. /\ DOMAIN act = Fields /\ act.status = "waiting" /\ act.at = "skills"
          /\ act.about = s /\ act.name = n /\ act.job = j
      BY <3>1 DEF Asking, Idle, Fields
    <3> QED BY <2>3, <3>1, <3>2
  <2> QED BY <1>5, <2>1, <2>2, <2>3
<1>7. Drift /\ UNCHANGED <<failed, inbox, typed>>
  BY <1>1 DEF Drift, IInv, TypeOK, server, past
<1>8. ActTypeOK(act)'
  <2>1. act.name \in Skill \cup {None}
    BY <1>6 DEF IInv, TypeOK, Editor
  <2>2. act.about \in (IF act.at \in {"idle", "sessions"} THEN {None} ELSE Session)
    BY <1>4, <1>6
  <2> QED BY <1>6, <2>1, <2>2 DEF ActTypeOK, Fields
<1>9. Fits(act)'
  <2>1. act.name # None => list' # None
    BY <1>1, <1>6 DEF IInv, EditorFits
  <2>2. Asked(act) => selected' # None /\ act.about = selected'
    BY <1>1, <1>4, <1>6, DashboardAssumption DEF Asked
  <2> QED BY <1>6, <2>1, <2>2 DEF Fits, Posting
<1>10. draft' = draft \/ \A b \in Activation \ {a} : acts[b].job # "send"
  BY <1>1 DEF IInv, OneSends
<1>11. ActsOK' /\ ActsFit'
  BY <1>1, <1>7, <1>8, <1>9, <1>10, ActsStep
<1>12. acts'[a] = act /\ \A b \in Activation : b # a => acts'[b] = acts[b]
  BY <1>1, BecomesIs DEF IInv, TypeOK
<1>13. OneSends'
  BY <1>6, <1>12 DEF IInv, OneSends
<1>14. SentTyped'
  BY <1>7, SentGrows
<1>15. SendFits'
  <2> SUFFICES ASSUME ~failed PROVE SendFits'
    BY <1>7 DEF SendFits
  <2>1. Once'
    BY <1>7 DEF IInv, SendFits, Once
  <2>2. ~Posting(act)
    BY <1>6 DEF Posting
  <2>3. CASE acts[a].job = "send"
    <3>1. draft' = 0
      BY <1>1, <1>3, <2>3 DEF Ok
    <3>2. \A b \in Activation : ~Posting(acts[b])'
      BY <1>12, <2>2, <2>3 DEF IInv, OneSends, Posting
    <3> QED BY <2>1, <3>1, <3>2 DEF SendFits
  <2>4. CASE acts[a].job # "send"
    <3>1. draft' = draft
      BY <1>1, <2>4
    <3>2. \A b \in Activation : Posting(acts[b])' => b # a /\ acts'[b] = acts[b] /\ Posting(acts[b])
      BY <1>12, <2>2 DEF Posting
    <3>3. \A b \in Activation : Posting(acts[b]) => Posting(acts[b])'
      BY <1>12, <2>4 DEF Posting
    <3>4. Fresh(draft) => Fresh(draft)'
      BY <1>7, <3>1 DEF Fresh
    <3> QED BY <2>1, <3>1, <3>2, <3>3, <3>4 DEF IInv, SendFits
  <2> QED BY <2>3, <2>4
<1>16. ThreadFits' /\ OwnFits' /\ EditorFits'
  BY <1>1, <1>7, ThreadKept, OwnKept DEF server
<1>17. TypeOK'
  <2>1. draft' \in 0..typed'
    BY <1>1, <1>7 DEF IInv, TypeOK
  <2> QED BY <1>1, <1>11, <2>1 DEF IInv, TypeOK, ActsOK, server, past
<1> QED BY <1>11, <1>13, <1>14, <1>15, <1>16, <1>17 DEF IInv

(* A step that changes nothing keeps the invariant.                        *)
LEMMA Stuttering ==
  ASSUME IInv, UNCHANGED vars PROVE IInv'
<1>1. UNCHANGED <<acts, draft, failed, typed, inbox, selected, list, editor, override, thread, last, strayed>>
  BY DEF vars, panes, server, past
<1>2. Drift
  BY <1>1 DEF Drift, IInv, TypeOK
<1>3. ActsOK' /\ ActsFit' /\ OneSends' /\ SentTyped' /\ SendFits'
  BY <1>1, <1>2, SameActs
<1>4. ThreadFits' /\ OwnFits' /\ EditorFits'
  BY <1>1, <1>2, ThreadKept, OwnKept
<1>5. TypeOK'
  BY <1>3 DEF IInv, TypeOK, ActsOK, vars, panes, server, past
<1> QED BY <1>3, <1>4, <1>5 DEF IInv

(* Every step of an activation keeps the invariant.                        *)
LEMMA ActivationStep ==
  ASSUME IInv, NEW a \in Activation,
         \/ tick(a) \/ Read(a) \/ Write(a) \/ Fail(a) \/ Take(a)
         \/ \E s \in Session : selectSession(a, s)
         \/ \E t \in {"board", "skills", "chat"} : OpenTab(a, t)
         \/ Save(a) \/ Revert(a) \/ Send(a)
  PROVE  IInv'
<1>1. CASE tick(a)  BY <1>1, TickStep
<1>2. CASE Read(a)  BY <1>2, ReadStep
<1>3. CASE Write(a)  BY <1>3, WriteStep
<1>4. CASE Fail(a)  BY <1>4, FailStep
<1>5. CASE Take(a)
  <2>1. CASE TakeSessions(a)  BY <2>1, TakeSessionsStep
  <2>2. CASE TakeDetail(a)  BY <2>2, TakeDetailStep
  <2>3. CASE TakeSkills(a)  BY <2>3, TakeSkillsStep
  <2>4. CASE TakeChat(a)  BY <2>4, TakeChatStep
  <2>5. CASE TakeWritten(a)  BY <2>5, TakeWrittenStep
  <2> QED BY <1>5, <2>1, <2>2, <2>3, <2>4, <2>5 DEF Take
<1>6. CASE \E s \in Session : selectSession(a, s)  BY <1>6, SelectStep
<1>7. CASE \E t \in {"board", "skills", "chat"} : OpenTab(a, t)  BY <1>7, OpenTabStep
<1>8. CASE Save(a)  BY <1>8, SaveStep
<1>9. CASE Revert(a)  BY <1>9, RevertStep
<1>10. CASE Send(a)  BY <1>10, SendStep
<1> QED BY <1>1, <1>2, <1>3, <1>4, <1>5, <1>6, <1>7, <1>8, <1>9, <1>10

(* The invariant is inductive.                                             *)
LEMMA EveryStep == IInv /\ [Next]_vars => IInv'
<1> SUFFICES ASSUME IInv, [Next]_vars PROVE IInv'
  OBVIOUS
<1>1. ASSUME NEW a \in Activation,
             \/ tick(a) \/ Read(a) \/ Write(a) \/ Fail(a) \/ Take(a)
             \/ \E s \in Session : selectSession(a, s)
             \/ \E t \in {"board", "skills", "chat"} : OpenTab(a, t)
             \/ Save(a) \/ Revert(a) \/ Send(a)
      PROVE  IInv'
  BY <1>1, ActivationStep
<1>2. ASSUME NEW k \in Skill, openRunSkillEditor(k) PROVE IInv'
  BY <1>2, OpenEditorStep
<1>3. ASSUME NEW s \in Session, Progress(s) \/ Reply(s) PROVE IInv'
  BY <1>3, ProgressStep, ReplyStep
<1>4. CASE CloseEditor
  BY <1>4, CloseEditorStep
<1>5. CASE UNCHANGED vars
  BY <1>5, Stuttering
<1> QED BY <1>1, <1>2, <1>3, <1>4, <1>5 DEF Next

(* The inductive invariant holds in every reachable state.                 *)
THEOREM Invariance == Spec => []IInv
BY Initially, EveryStep, PTL DEF Spec

(* Every variable has its type: the page asks for nothing without a        *)
(* session to ask about, and an answer is of the kind that was asked for.  *)
THEOREM TypeCorrect == Spec => []TypeOK
<1>1. IInv => TypeOK
  BY DEF IInv
<1> QED BY <1>1, Invariance, PTL

(* However late an answer comes and whatever fails in between, the thread  *)
(* shows messages of no session but the selected one, and what the page    *)
(* remembers to have rendered is what it shows (selectSession,             *)
(* refreshChat).                                                           *)
THEOREM ThreadTheorem == Spec => []ThreadIsSelected
<1>1. IInv => ThreadIsSelected
  BY DEF IInv, ThreadFits, ThreadIsSelected
<1> QED BY <1>1, Invariance, PTL

(* As long as no request fails, a message is stored once and in one        *)
(* inbox, for any number of activations and clicks (the chat form's        *)
(* submit handler).                                                        *)
THEOREM SentTheorem == Spec => []SentOnce
<1>1. IInv => SentOnce
  BY DEF IInv, SendFits, Once, SentOnce
<1> QED BY <1>1, Invariance, PTL

(* A run is given the text of another run's skill only if the operator     *)
(* has gone from one run to another: no poll does so behind the            *)
(* operator's back (renderSessions, the save handler).                     *)
THEOREM OwnTheorem == Spec => []OwnTexts
<1>1. IInv => OwnTexts
  BY DEF IInv, OwnFits, OwnTexts
<1> QED BY <1>1, Invariance, PTL
=============================================================================
