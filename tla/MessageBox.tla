----------------------------- MODULE MessageBox -----------------------------
(***************************************************************************)
(* What a session's inbox promises (scripts/_mailbox.mjs, console/         *)
(* server.js): a message that was accepted waits until it is answered, it  *)
(* is answered once, by one of the commands that reply to it, and both     *)
(* happen in one indivisible step.                                         *)
(*                                                                         *)
(* The answer on record is that command's, and stays.  This part of the    *)
(* promise is void for a message that two commands contend for; that it is *)
(* kept and answered once is not.                                          *)
(***************************************************************************)
CONSTANTS
  Message,
  Replier,
  None

VARIABLES
  pending,         \* the messages that wait for an answer
  answer,          \* whose answer to each message is on record, None: no answer
  told,            \* which message each command was told that it answered
  contended        \* the messages whose answer is not promised to stay

vars == <<pending, answer, told, contended>>

Init ==
  /\ pending = {}
  /\ answer = [m \in Message |-> None]
  /\ told = [r \in Replier |-> None]
  /\ contended = {}

(* No message comes twice. *)
Accept(m) ==
  /\ m \notin pending /\ answer[m] = None
  /\ pending' = pending \cup {m}
  /\ UNCHANGED <<answer, told, contended>>

Answer(r, m) ==
  /\ m \in pending /\ told[r] = None
  /\ pending' = pending \ {m}
  /\ told' = [told EXCEPT ![r] = m]
  /\ \E q \in Replier :
       /\ m \notin contended => q = r
       /\ answer' = [answer EXCEPT ![m] = q]
  /\ UNCHANGED contended

(* Two commands have taken the same message in hand. *)
Contend(m) ==
  /\ m \in pending
  /\ contended' = contended \cup {m}
  /\ UNCHANGED <<pending, answer, told>>

Overwrite(q, m) ==
  /\ m \in contended \ pending
  /\ answer' = [answer EXCEPT ![m] = q]
  /\ UNCHANGED <<pending, told, contended>>

Next ==
  \E m \in Message :
    \/ Accept(m) \/ Contend(m)
    \/ \E r \in Replier : Answer(r, m) \/ Overwrite(r, m)

Spec == Init /\ [][Next]_vars

=============================================================================
