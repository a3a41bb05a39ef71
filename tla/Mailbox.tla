------------------------------- MODULE Mailbox -------------------------------
(***************************************************************************)
(* The inbox of one session: the operator's messages reach a running       *)
(* controller through files.  scripts/_mailbox.mjs sends and replies, one  *)
(* process per command; the console (console/server.js) posts and reads,   *)
(* one process with one event loop.  Nothing here is locked: renames,      *)
(* unlinks and their order are all there is.                               *)
(*                                                                         *)
(* A message is named by its file, whose random suffix keeps names apart.  *)
(* The reply text is told apart by the command that gave it.               *)
(***************************************************************************)
EXTENDS Naturals, FiniteSets

CONSTANTS
  Message,
  Posted,          \* those that come through the console, not the CLI
  Replier,         \* the `reply` commands
  Reader,          \* the GET requests
  Cap,             \* MAX_PENDING_MESSAGES
  None,
  MayCrash

ASSUME MailboxAssumption ==
  /\ Posted \subseteq Message
  /\ None \notin Message \cup Replier \cup Reader
  /\ Posted \cap Reader = {}
  /\ Cap \in Nat \ {0}
  /\ MayCrash \in BOOLEAN

VARIABLES
  inbox,           \* the message files in inbox/
  archive,         \* whose reply is in the copy under archive/, None: no copy
  sending,         \* how far each message has come
  busy,            \* the request the console's event loop is inside of
  pc,              \* the next step of each reply command
  target,          \* the message it replies to
  reading,         \* the next step of each GET request
  wanted,          \* the messages it was asked for
  names,           \* the inbox files it has still to read
  found,           \* the messages it will return
  owed,            \* history: those that existed when it started
  overlapped       \* history: messages two reply commands had in hand at once

cliVars     == <<pc, target, overlapped>>
readerVars  == <<reading, wanted, names, found, owed>>
vars == <<inbox, archive, sending, busy, cliVars, readerVars>>

Init ==
  /\ inbox = {}
  /\ archive = [m \in Message |-> None]
  /\ sending = [m \in Message |-> "unsent"]
  /\ busy = None
  /\ pc = [r \in Replier |-> "idle"]
  /\ target = [r \in Replier |-> None]
  /\ reading = [r \in Reader |-> "idle"]
  /\ wanted = [r \in Reader |-> {}]
  /\ names = [r \in Reader |-> {}]
  /\ found = [r \in Reader |-> {}]
  /\ owed = [r \in Reader |-> {}]
  /\ overlapped = {}

Archived == {m \in Message : archive[m] # None}
Sent     == {m \in Message : sending[m] = "sent"}

-----------------------------------------------------------------------------
(* Sending *)

(* cmdSend: the rename; no cap. *)
Send(m) ==
  /\ m \notin Posted
  /\ sending[m] = "unsent"
  /\ sending' = [sending EXCEPT ![m] = "sent"]
  /\ inbox' = inbox \cup {m}
  /\ UNCHANGED <<archive, busy, cliVars, readerVars>>

(* POST, up to the await of sessionExists *)
Arrive(m) ==
  /\ m \in Posted
  /\ busy = None
  /\ sending[m] = "unsent"
  /\ sending' = [sending EXCEPT ![m] = "waiting"]
  /\ UNCHANGED <<inbox, archive, busy, cliVars, readerVars>>

(* Mutant: awaits something between the count and the write. *)
CountThenAwait(m) ==
  /\ busy = None
  /\ sending[m] = "waiting"
  /\ sending' = [sending EXCEPT ![m] = IF Cardinality(inbox) >= Cap THEN "rejected" ELSE "counted"]
  /\ UNCHANGED <<inbox, archive, busy, cliVars, readerVars>>

(* The rest of the handler runs without giving up the event loop: 429 when *)
(* the inbox is full, or else the write.                                   *)
Count(m) ==
  /\ busy = None
  /\ sending[m] = "waiting"
  /\ IF Cardinality(inbox) >= Cap
     THEN /\ sending' = [sending EXCEPT ![m] = "rejected"]
          /\ UNCHANGED busy
     ELSE /\ sending' = [sending EXCEPT ![m] = "counted"]
          /\ busy' = m
  /\ UNCHANGED <<inbox, archive, cliVars, readerVars>>

Post(m) ==
  /\ sending[m] = "counted"
  /\ busy' = None
  /\ \/ /\ sending' = [sending EXCEPT ![m] = "sent"]
        /\ inbox' = inbox \cup {m}
     \/ /\ sending' = [sending EXCEPT ![m] = "rejected"]      \* the write fails
        /\ UNCHANGED inbox
  /\ UNCHANGED <<archive, cliVars, readerVars>>

-----------------------------------------------------------------------------
(* cmdReply *)

InHand(r, m) == target[r] = m /\ pc[r] \in {"write", "unlink"}

(* A message that is archived and no longer pending: "already archived". *)
Reply(r, m) ==
  /\ pc[r] = "idle"
  /\ sending[m] = "sent"
  /\ target' = [target EXCEPT ![r] = m]
  /\ pc' = [pc EXCEPT ![r] = IF m \in Archived \ inbox THEN "noop" ELSE "read"]
  /\ UNCHANGED <<inbox, archive, sending, busy, overlapped, readerVars>>

(* Mutant: takes the message out of inbox/ before its copy is archived. *)
ReadAndUnlink(r) ==
  /\ pc[r] = "read"
  /\ pc' = [pc EXCEPT ![r] = IF target[r] \in inbox THEN "write" ELSE "failed"]
  /\ inbox' = inbox \ {target[r]}
  /\ UNCHANGED <<archive, sending, busy, target, overlapped, readerVars>>

(* A pending file that has gone meanwhile: "message not found". *)
ReadMessage(r) ==
  /\ pc[r] = "read"
  /\ pc' = [pc EXCEPT ![r] = IF target[r] \in inbox THEN "write" ELSE "failed"]
  /\ overlapped' = overlapped \cup
       {m \in {target[r]} \cap inbox : \E q \in Replier : InHand(q, m)}
  /\ UNCHANGED <<inbox, archive, sending, busy, target, readerVars>>

(* The copy with the reply is renamed into archive/, over an older one. *)
WriteArchive(r) ==
  /\ pc[r] = "write"
  /\ \/ /\ pc' = [pc EXCEPT ![r] = "unlink"]
        /\ archive' = [archive EXCEPT ![target[r]] = r]
     \/ /\ pc' = [pc EXCEPT ![r] = "failed"]                  \* the write fails
        /\ UNCHANGED archive
  /\ UNCHANGED <<inbox, sending, busy, target, overlapped, readerVars>>

(* Mutant: a message that has gone meanwhile has been replied to. *)
UnlinkForced(r) ==
  /\ pc[r] = "unlink"
  /\ pc' = [pc EXCEPT ![r] = "replied"]
  /\ inbox' = inbox \ {target[r]}
  /\ UNCHANGED <<archive, sending, busy, target, overlapped, readerVars>>

(* ENOENT is a failure too. *)
UnlinkPending(r) ==
  /\ pc[r] = "unlink"
  /\ pc' = [pc EXCEPT ![r] = IF target[r] \in inbox THEN "replied" ELSE "failed"]
  /\ inbox' = inbox \ {target[r]}
  /\ UNCHANGED <<archive, sending, busy, target, overlapped, readerVars>>

Crash(r) ==
  /\ MayCrash
  /\ pc[r] \in {"read", "write", "unlink"}
  /\ pc' = [pc EXCEPT ![r] = "dead"]
  /\ UNCHANGED <<inbox, archive, sending, busy, target, overlapped, readerVars>>

-----------------------------------------------------------------------------
(* GET: the list of all messages, or one of them by name *)

StartReading(r, asked, to) ==
  /\ busy = None
  /\ reading[r] = "idle"
  /\ busy' = r
  /\ reading' = [reading EXCEPT ![r] = to]
  /\ wanted' = [wanted EXCEPT ![r] = asked]
  /\ owed' = [owed EXCEPT ![r] = asked \cap (inbox \cup Archived)]

(* listInboxMessages: readdir of inbox/ first *)
List(r) ==
  /\ StartReading(r, Message, "inbox")
  /\ names' = [names EXCEPT ![r] = inbox]
  /\ UNCHANGED <<inbox, archive, sending, cliVars, found>>

(* The single-message route reads the pending path whatever is there. *)
Get(r, m) ==
  /\ StartReading(r, {m}, "inbox")
  /\ names' = [names EXCEPT ![r] = {m}]
  /\ UNCHANGED <<inbox, archive, sending, cliVars, found>>

(* One file after the other; one that has gone is skipped. *)
ReadPending(r) ==
  /\ reading[r] = "inbox"
  /\ \E m \in names[r] :
       /\ names' = [names EXCEPT ![r] = @ \ {m}]
       /\ found' = [found EXCEPT ![r] = @ \cup ({m} \cap inbox)]
  /\ UNCHANGED <<inbox, archive, sending, busy, cliVars, reading, wanted, owed>>

(* Mutant: looks into archive/ only when inbox/ had nothing. *)
ReadArchiveIfNothing(r) ==
  /\ reading[r] = "inbox"
  /\ names[r] = {}
  /\ reading' = [reading EXCEPT ![r] = "done"]
  /\ found' = [found EXCEPT ![r] = IF @ = {} THEN wanted[r] \cap Archived ELSE @]
  /\ busy' = None
  /\ UNCHANGED <<inbox, archive, sending, cliVars, wanted, names, owed>>

(* ... then archive/, from which nothing ever goes *)
ReadArchive(r) ==
  /\ reading[r] = "inbox"
  /\ names[r] = {}
  /\ reading' = [reading EXCEPT ![r] = "done"]
  /\ found' = [found EXCEPT ![r] = @ \cup (wanted[r] \cap Archived)]
  /\ busy' = None
  /\ UNCHANGED <<inbox, archive, sending, cliVars, wanted, names, owed>>

(* The console dies with the requests it was serving, and starts again. *)
RestartConsole ==
  /\ MayCrash
  /\ busy # None \/ \E m \in Posted : sending[m] = "waiting"
  /\ busy' = None
  /\ sending' = [m \in Message |->
       IF sending[m] \in {"waiting", "counted"} THEN "rejected" ELSE sending[m]]
  /\ reading' = [r \in Reader |-> IF reading[r] = "inbox" THEN "dead" ELSE reading[r]]
  /\ UNCHANGED <<inbox, archive, cliVars, wanted, names, found, owed>>

-----------------------------------------------------------------------------
Next ==
  \/ \E m \in Message : Send(m) \/ Arrive(m) \/ Count(m) \/ Post(m)
  \/ \E r \in Replier : \/ \E m \in Message : Reply(r, m)
                        \/ ReadMessage(r) \/ WriteArchive(r) \/ UnlinkPending(r) \/ Crash(r)
  \/ \E r \in Reader : \/ \E m \in Message : Get(r, m)
                       \/ List(r) \/ ReadPending(r) \/ ReadArchive(r)
  \/ RestartConsole

Spec == Init /\ [][Next]_vars

-----------------------------------------------------------------------------
TypeOK ==
  /\ inbox \subseteq Message
  /\ archive \in [Message -> Replier \cup {None}]
  /\ sending \in [Message -> {"unsent", "waiting", "counted", "sent", "rejected"}]
  /\ busy \in Posted \cup Reader \cup {None}
  /\ pc \in [Replier -> {"idle", "read", "write", "unlink",
                         "noop", "replied", "failed", "dead"}]
  /\ target \in [Replier -> Message \cup {None}]
  /\ reading \in [Reader -> {"idle", "inbox", "done", "dead"}]
  /\ wanted \in [Reader -> SUBSET Message]
  /\ names \in [Reader -> SUBSET Message]
  /\ found \in [Reader -> SUBSET Message]
  /\ owed \in [Reader -> SUBSET Message]
  /\ overlapped \subseteq Message

(* No message the sender was told of ever disappears: at every instant,    *)
(* and whatever dies when, it is pending or in the archive.                *)
NothingLost == TypeOK /\ Sent \subseteq inbox \cup Archived

(* A reader that runs while messages move from inbox/ to archive/ returns  *)
(* every message that was there when it started: it looks at the two in    *)
(* the order in which a reply writes them.                                 *)
ReadersMissNothing == \A r \in Reader : reading[r] = "done" => owed[r] \subseteq found[r]

(* The console alone never fills the inbox beyond its cap, though it       *)
(* awaits the database between receiving a message and writing it.         *)
CapHeld == Cardinality(inbox \cap Posted) <= Cap

(* However many commands reply to a message, only one of them is told that *)
(* it did: the unlink decides.  Its reply is the one on record, whatever   *)
(* crashed before or came after, unless two commands had the message in    *)
(* hand at once.                                                           *)
AnswerStands ==
  \A r \in Replier : pc[r] = "replied" =>
    /\ \A q \in Replier : pc[q] = "replied" /\ target[q] = target[r] => q = r
    /\ target[r] \notin overlapped => archive[target[r]] = r

(* Files, renames and unlinks make up a box that accepts and answers each  *)
(* message in one step, whoever dies between two of them: a copy in        *)
(* archive/ is no answer before its pending file has gone.                 *)
Box == INSTANCE MessageBox WITH
  pending <- inbox,
  answer <- [m \in Message |-> IF m \in inbox THEN None ELSE archive[m]],
  told <- [r \in Replier |-> IF pc[r] = "replied" THEN target[r] ELSE None],
  contended <- overlapped

BoxAnswersOnce == Box!Spec

=============================================================================
