---------------------------- MODULE Mailbox_proofs ----------------------------
(***************************************************************************)
(* Proofs about the inbox, for any number of messages, reply commands and  *)
(* readers, and whatever dies when.                                        *)
(***************************************************************************)
EXTENDS Mailbox, FiniteSetTheorems, TLAPS

(* A pending message has been sent, so that no name ever comes back to     *)
(* inbox/, and what a command replies to has been sent too.                *)
PendingWasSent ==
  /\ IsFiniteSet(inbox)
  /\ inbox \subseteq Sent
  /\ Sent \subseteq inbox \cup Archived
  /\ \A r \in Replier : pc[r] # "idle" => target[r] \in Sent

(* The copy is archived before the pending file goes. *)
ArchivedFirst ==
  \A r \in Replier : pc[r] = "unlink" => target[r] \in Archived

(* Only what comes through the console waits for its event loop.           *)
OnlyPostedWait == \A m \in Message : sending[m] \in {"waiting", "counted"} => m \in Posted

(* The event loop is inside of one request; if that is a message which has *)
(* been counted, the inbox has room for it.                                *)
LoopHoldsRequest ==
  /\ \A m \in Message : sending[m] = "counted" =>
       busy = m /\ Cardinality(inbox \cap Posted) < Cap
  /\ \A r \in Reader : reading[r] = "inbox" => busy = r

(* What a reader owes and has not found is archived, or pending under a    *)
(* name that it will still look at.                                        *)
ReaderWillFind ==
  \A r \in Reader :
    /\ owed[r] \subseteq wanted[r]
    /\ reading[r] = "inbox" => owed[r] \subseteq found[r] \cup Archived \cup (inbox \cap names[r])
    /\ reading[r] = "done" => owed[r] \subseteq found[r]

(* Two commands that have, or have had, one message in hand at once are on *)
(* record as overlapping; the reply of one that was alone stays.           *)
HandsOverlap ==
  \A r \in Replier :
    /\ pc[r] = "replied" => target[r] \notin inbox
    /\ \A q \in Replier \ {r} :
         /\ InHand(q, target[r]) /\ pc[r] \in {"write", "unlink", "replied"} => target[r] \in overlapped
         /\ pc[r] = "replied" /\ pc[q] = "replied" => target[q] # target[r]
    /\ pc[r] \in {"unlink", "replied"} /\ target[r] \notin overlapped => archive[target[r]] = r

(* What is archived was sent, and a message that is no longer pending has  *)
(* been answered by a command that was told so.                            *)
AnsweredWasTold ==
  /\ Archived \subseteq Sent
  /\ \A m \in Sent \ inbox : \E r \in Replier : pc[r] = "replied" /\ target[r] = m

IInv ==
  /\ TypeOK
  /\ OnlyPostedWait
  /\ PendingWasSent
  /\ ArchivedFirst
  /\ LoopHoldsRequest
  /\ CapHeld
  /\ ReaderWillFind
  /\ HandsOverlap
  /\ AnsweredWasTold

-----------------------------------------------------------------------------
(* Every variable keeps its type. *)
THEOREM TypeCorrect == Spec => [](TypeOK /\ OnlyPostedWait)
<1> USE MailboxAssumption DEF TypeOK, OnlyPostedWait
<1>1. Init => TypeOK /\ OnlyPostedWait
  BY DEF Init
<1>2. TypeOK /\ OnlyPostedWait /\ [Next]_vars => (TypeOK /\ OnlyPostedWait)'
  <2> SUFFICES ASSUME TypeOK, OnlyPostedWait, [Next]_vars PROVE (TypeOK /\ OnlyPostedWait)'
    OBVIOUS
  <2> USE DEF cliVars, readerVars
  <2>1. ASSUME NEW m \in Message, Send(m) \/ Arrive(m) \/ Count(m) \/ Post(m) PROVE (TypeOK /\ OnlyPostedWait)'
    BY <2>1 DEF Send, Arrive, Count, Post
  <2>2. ASSUME NEW r \in Replier, NEW m \in Message, Reply(r, m) PROVE (TypeOK /\ OnlyPostedWait)'
    BY <2>2 DEF Reply
  <2>3. ASSUME NEW r \in Replier, ReadMessage(r) \/ UnlinkPending(r) PROVE (TypeOK /\ OnlyPostedWait)'
    BY <2>3 DEF ReadMessage, UnlinkPending
  <2>4. ASSUME NEW r \in Replier, WriteArchive(r) \/ Crash(r) PROVE (TypeOK /\ OnlyPostedWait)'
    BY <2>4 DEF WriteArchive, Crash
  <2>5. ASSUME NEW r \in Reader, List(r) \/ (\E m \in Message : Get(r, m)) PROVE (TypeOK /\ OnlyPostedWait)'
    BY <2>5 DEF List, Get, StartReading
  <2>6. ASSUME NEW r \in Reader, ReadPending(r) \/ ReadArchive(r) PROVE (TypeOK /\ OnlyPostedWait)'
    BY <2>6 DEF ReadPending, ReadArchive
  <2>7. ASSUME RestartConsole PROVE (TypeOK /\ OnlyPostedWait)'
    BY <2>7 DEF RestartConsole
  <2>8. CASE UNCHANGED vars
    BY <2>8 DEF vars
  <2>9. QED
    BY <2>1, <2>2, <2>3, <2>4, <2>5, <2>6, <2>7, <2>8 DEF Next
<1>3. QED
  BY <1>1, <1>2, PTL DEF Spec

-----------------------------------------------------------------------------
(* A message is pending once it is sent and until it is archived.          *)
LEMMA PendingStep ==
  ASSUME TypeOK, PendingWasSent, ArchivedFirst, [Next]_vars
  PROVE  PendingWasSent'
<1> USE MailboxAssumption DEF TypeOK, PendingWasSent, Sent, Archived, cliVars, readerVars
<1>1. ASSUME NEW m \in Message, Send(m) \/ Post(m) PROVE PendingWasSent'
  <2>1. IsFiniteSet(inbox')
    BY <1>1, FS_AddElement DEF Send, Post
  <2>2. QED
    BY <1>1, <2>1 DEF Send, Post
<1>2. ASSUME NEW m \in Message, Arrive(m) \/ Count(m) PROVE PendingWasSent'
  BY <1>2 DEF Arrive, Count
<1>3. ASSUME NEW r \in Replier, NEW m \in Message, Reply(r, m) PROVE PendingWasSent'
  BY <1>3 DEF Reply
<1>4. ASSUME NEW r \in Replier, ReadMessage(r) \/ Crash(r) PROVE PendingWasSent'
  BY <1>4 DEF ReadMessage, Crash
<1>5. ASSUME NEW r \in Replier, WriteArchive(r) PROVE PendingWasSent'
  BY <1>5 DEF WriteArchive
<1>6. ASSUME NEW r \in Replier, UnlinkPending(r) PROVE PendingWasSent'
  <2>1. IsFiniteSet(inbox')
    BY <1>6, FS_RemoveElement DEF UnlinkPending
  <2>2. target[r] \in Archived
    BY <1>6 DEF UnlinkPending, ArchivedFirst
  <2>3. QED
    BY <1>6, <2>1, <2>2 DEF UnlinkPending
<1>7. ASSUME NEW r \in Reader,
             List(r) \/ (\E m \in Message : Get(r, m)) \/ ReadPending(r) \/ ReadArchive(r)
      PROVE  PendingWasSent'
  BY <1>7 DEF List, Get, StartReading, ReadPending, ReadArchive
<1>8. CASE RestartConsole
  BY <1>8 DEF RestartConsole
<1>9. CASE UNCHANGED vars
  BY <1>9 DEF vars
<1>10. QED
  BY <1>1, <1>2, <1>3, <1>4, <1>5, <1>6, <1>7, <1>8, <1>9 DEF Next

(* Nothing leaves the archive. *)
LEMMA ArchiveGrows == TypeOK /\ [Next]_vars => Archived \subseteq Archived'
<1> SUFFICES ASSUME TypeOK, [Next]_vars PROVE Archived \subseteq Archived'
  OBVIOUS
<1>1. ASSUME NEW r \in Replier, WriteArchive(r) PROVE Archived \subseteq Archived'
  BY <1>1, MailboxAssumption DEF TypeOK, WriteArchive, Archived
<1>2. CASE archive' = archive
  BY <1>2 DEF Archived
<1>3. QED
  BY <1>1, <1>2 DEF Next, vars, cliVars, readerVars, Send, Arrive, Count, Post, Reply,
       ReadMessage, UnlinkPending, Crash, List, Get, StartReading, ReadPending, ReadArchive,
       RestartConsole

(* What is unlinked has been archived by the same command. *)
LEMMA ArchivedFirstStep ==
  ASSUME TypeOK, PendingWasSent, ArchivedFirst, [Next]_vars
  PROVE  ArchivedFirst'
<1> SUFFICES ASSUME NEW q \in Replier, pc'[q] = "unlink" PROVE target'[q] \in Archived'
  BY DEF ArchivedFirst
<1> USE DEF TypeOK
<1>1. ASSUME NEW r \in Replier, WriteArchive(r), r = q, pc[q] # "unlink"
      PROVE  target'[q] \in Archived'
  <2>1. target[r] \in Message
    BY <1>1 DEF PendingWasSent, WriteArchive, Sent
  <2>2. QED
    BY <1>1, <2>1, MailboxAssumption DEF WriteArchive, Archived
<1>2. CASE pc[q] = "unlink" /\ target'[q] = target[q]
  BY <1>2, ArchiveGrows DEF ArchivedFirst
<1>3. ASSUME NEW r \in Replier,
             \/ ReadMessage(r) \/ UnlinkPending(r) \/ Crash(r) \/ WriteArchive(r)
             \/ \E m \in Message : Reply(r, m)
      PROVE  (pc[q] = "unlink" /\ target'[q] = target[q]) \/ (WriteArchive(r) /\ r = q /\ pc[q] # "unlink")
  BY <1>3 DEF ReadMessage, UnlinkPending, Crash, WriteArchive, Reply
<1>4. CASE UNCHANGED <<pc, target>>
  BY <1>2, <1>4
<1>5. QED
  BY <1>1, <1>2, <1>3, <1>4 DEF Next, vars, cliVars, Send, Arrive, Count, Post,
       List, Get, StartReading, ReadPending, ReadArchive, RestartConsole

-----------------------------------------------------------------------------
(* Between the count and the write nothing else is posted. *)
LEMMA LoopStep ==
  ASSUME TypeOK, OnlyPostedWait, PendingWasSent, LoopHoldsRequest, CapHeld, [Next]_vars
  PROVE  LoopHoldsRequest' /\ CapHeld'
<1> DEFINE pending == inbox \cap Posted
           room    == \A m \in Message : sending[m] = "counted" => Cardinality(pending) < Cap
<1>1. IsFiniteSet(inbox) /\ IsFiniteSet(pending) /\ Cardinality(pending) <= Cardinality(inbox)
      /\ Cardinality(pending) \in Nat /\ Cardinality(inbox) \in Nat
  <2>1. IsFiniteSet(inbox) /\ pending \in SUBSET inbox
    BY DEF PendingWasSent
  <2>2. QED
    BY <2>1, FS_Subset, FS_CardinalityType
<1>2. Cap \in Nat
  BY MailboxAssumption
<1> USE MailboxAssumption DEF TypeOK, OnlyPostedWait, LoopHoldsRequest, CapHeld, cliVars, readerVars
<1>3. ASSUME NEW m \in Message, Send(m) \/ Arrive(m) PROVE LoopHoldsRequest' /\ CapHeld'
  <2>1. inbox' \cap Posted = pending
    BY <1>3 DEF Send, Arrive
  <2>2. QED
    BY <1>3, <2>1, ZenonT(40) DEF Send, Arrive
<1>4. ASSUME NEW m \in Message, Count(m) PROVE LoopHoldsRequest' /\ CapHeld'
  BY <1>1, <1>2, <1>4 DEF Count
<1>5. ASSUME NEW m \in Message, Post(m) PROVE LoopHoldsRequest' /\ CapHeld'
  <2>1. /\ m \in Posted /\ busy = m /\ Cardinality(pending) < Cap
        /\ \A n \in Message : sending[n] = "counted" => n = m
    BY <1>5 DEF Post
  <2>2. \A n \in Message : sending'[n] # "counted"
    BY <1>5, <2>1 DEF Post
  <2>3. \A r \in Reader : reading'[r] # "inbox"
    BY <1>5, <2>1 DEF Post
  <2>4. CASE inbox' = inbox
    BY <2>2, <2>3, <2>4
  <2>5. CASE inbox' = inbox \cup {m}
    <3>1. inbox' \cap Posted = pending \cup {m}
      BY <2>1, <2>5
    <3>2. Cardinality(pending \cup {m}) \in {Cardinality(pending), Cardinality(pending) + 1}
      <4> HIDE DEF pending
      <4>1. QED
        BY <1>1, FS_AddElement
    <3>3. Cardinality(inbox' \cap Posted) <= Cap
      <4> DEFINE before == Cardinality(pending)
                 after  == Cardinality(pending \cup {m})
      <4>1. Cardinality(inbox' \cap Posted) = after
        BY <3>1, Zenon
      <4>2. before \in Nat /\ before < Cap /\ after \in {before, before + 1}
        BY <1>1, <2>1, <3>2
      <4> HIDE DEF before, after
      <4>3. after <= Cap
        BY <1>2, <4>2
      <4>4. QED
        BY <4>1, <4>3
    <3>4. QED
      BY <2>2, <2>3, <3>3
  <2>6. QED
    BY <1>5, <2>4, <2>5 DEF Post
<1>6. ASSUME NEW r \in Replier, UnlinkPending(r) PROVE LoopHoldsRequest' /\ CapHeld'
  <2>1. (inbox' \cap Posted) \in SUBSET pending
    BY <1>6 DEF UnlinkPending
  <2>2. Cardinality(inbox' \cap Posted) <= Cardinality(pending) /\ Cardinality(inbox' \cap Posted) \in Nat
    BY <1>1, <2>1, FS_Subset, FS_CardinalityType
  <2>3. QED
    BY <1>1, <1>2, <1>6, <2>2 DEF UnlinkPending
<1>7. ASSUME NEW r \in Replier,
             \/ ReadMessage(r) \/ WriteArchive(r) \/ Crash(r)
             \/ \E m \in Message : Reply(r, m)
      PROVE  LoopHoldsRequest' /\ CapHeld'
  BY <1>7 DEF ReadMessage, WriteArchive, Crash, Reply
<1>8. ASSUME NEW r \in Reader, List(r) \/ (\E m \in Message : Get(r, m))
      PROVE  LoopHoldsRequest' /\ CapHeld'
  BY <1>8, SMTT(30) DEF List, Get, StartReading
<1>9. ASSUME NEW r \in Reader, ReadPending(r) \/ ReadArchive(r) PROVE LoopHoldsRequest' /\ CapHeld'
  <2>1. UNCHANGED <<inbox, sending>> /\ busy = r
    BY <1>9 DEF ReadPending, ReadArchive
  <2>2. \A m \in Message : sending[m] # "counted"
    BY <2>1
  <2>3. CASE ReadPending(r)
    BY <2>1, <2>2, <2>3 DEF ReadPending
  <2>4. CASE ReadArchive(r)
    BY <2>1, <2>2, <2>4 DEF ReadArchive
  <2>5. QED
    BY <1>9, <2>3, <2>4
<1>10. CASE RestartConsole
  BY <1>10 DEF RestartConsole
<1>11. CASE UNCHANGED vars
  BY <1>11 DEF vars
<1>12. QED
  BY <1>3, <1>4, <1>5, <1>6, <1>7, <1>8, <1>9, <1>10, <1>11 DEF Next

-----------------------------------------------------------------------------
(* Whatever leaves inbox/ under a reader's hands is in archive/ by then. *)
LEMMA ReaderStep ==
  ASSUME TypeOK, PendingWasSent, ArchivedFirst, LoopHoldsRequest, ReaderWillFind, [Next]_vars
  PROVE  ReaderWillFind'
<1> SUFFICES ASSUME NEW r \in Reader
             PROVE  /\ owed'[r] \subseteq wanted'[r]
                    /\ reading'[r] = "inbox" =>
                         owed'[r] \subseteq found'[r] \cup Archived' \cup (inbox' \cap names'[r])
                    /\ reading'[r] = "done" => owed'[r] \subseteq found'[r]
  BY DEF ReaderWillFind
<1> DEFINE Finds == /\ owed'[r] \subseteq wanted'[r]
                    /\ reading'[r] = "inbox" =>
                         owed'[r] \subseteq found'[r] \cup Archived' \cup (inbox' \cap names'[r])
                    /\ reading'[r] = "done" => owed'[r] \subseteq found'[r]
<1>1. /\ owed[r] \subseteq wanted[r]
      /\ reading[r] = "inbox" => owed[r] \subseteq found[r] \cup Archived \cup (inbox \cap names[r])
      /\ reading[r] = "done" => owed[r] \subseteq found[r]
  BY DEF ReaderWillFind
<1>2. Archived \subseteq Archived'
  BY ArchiveGrows
<1> USE DEF TypeOK
<1>3. ASSUME UNCHANGED readerVars, inbox \subseteq inbox' PROVE Finds
  BY <1>1, <1>2, <1>3 DEF readerVars
<1>4. ASSUME NEW q \in Replier, UnlinkPending(q) PROVE Finds
  <2>1. target[q] \in Archived'
    BY <1>2, <1>4 DEF ArchivedFirst, UnlinkPending
  <2>2. inbox \subseteq inbox' \cup Archived'
    BY <1>4, <2>1 DEF UnlinkPending
  <2>3. QED
    BY <1>1, <1>2, <1>4, <2>2 DEF UnlinkPending, readerVars
<1>5. ASSUME NEW q \in Reader, List(q) PROVE Finds
  <2>1. owed' = [owed EXCEPT ![q] = Message \cap (inbox \cup Archived)] /\ Archived' = Archived
    BY <1>5 DEF List, StartReading, Archived
  <2>2. QED
    BY <1>1, <1>5, <2>1 DEF List, StartReading
<1>6. ASSUME NEW q \in Reader, NEW m \in Message, Get(q, m) PROVE Finds
  <2>1. owed' = [owed EXCEPT ![q] = {m} \cap (inbox \cup Archived)] /\ Archived' = Archived
    BY <1>6 DEF Get, StartReading, Archived
  <2>2. QED
    BY <1>1, <1>6, <2>1 DEF Get, StartReading
<1>7. ASSUME NEW q \in Reader, ReadPending(q) PROVE Finds
  <2>1. UNCHANGED <<inbox, reading, wanted, owed>>
    BY <1>7 DEF ReadPending
  <2>2. CASE q = r
    <3>1. PICK m \in names[r] : /\ names' = [names EXCEPT ![r] = @ \ {m}]
                                /\ found' = [found EXCEPT ![r] = @ \cup ({m} \cap inbox)]
      BY <1>7, <2>2 DEF ReadPending
    <3>2. names'[r] = names[r] \ {m} /\ found'[r] = found[r] \cup ({m} \cap inbox)
      BY <3>1
    <3>3. QED
      BY <1>1, <1>2, <2>1, <3>2
  <2>3. CASE q # r
    BY <1>1, <1>2, <1>7, <2>1, <2>3 DEF ReadPending
  <2>4. QED
    BY <2>2, <2>3
<1>8. ASSUME NEW q \in Reader, ReadArchive(q) PROVE Finds
  <2>1. UNCHANGED <<inbox, wanted, names, owed>>
    BY <1>8 DEF ReadArchive
  <2>2. CASE q = r
    <3>1. names[r] = {} /\ reading[r] = "inbox" /\ reading'[r] = "done"
          /\ found'[r] = found[r] \cup (wanted[r] \cap Archived)
      BY <1>8, <2>2 DEF ReadArchive
    <3>2. QED
      BY <1>1, <2>1, <3>1
  <2>3. CASE q # r
    BY <1>1, <1>2, <1>8, <2>1, <2>3 DEF ReadArchive
  <2>4. QED
    BY <2>2, <2>3
<1>9. CASE RestartConsole
  BY <1>1, <1>2, <1>9 DEF RestartConsole
<1>10. CASE UNCHANGED vars
  BY <1>3, <1>10 DEF vars
<1>11. ASSUME NEW m \in Message, Send(m) \/ Arrive(m) \/ Count(m) \/ Post(m) PROVE Finds
  BY <1>3, <1>11 DEF Send, Arrive, Count, Post
<1>12. ASSUME NEW q \in Replier,
              \/ ReadMessage(q) \/ WriteArchive(q) \/ Crash(q)
              \/ \E m \in Message : Reply(q, m)
       PROVE  Finds
  BY <1>3, <1>12 DEF ReadMessage, WriteArchive, Crash, Reply
<1>13. Finds
  BY <1>4, <1>5, <1>6, <1>7, <1>8, <1>9, <1>10, <1>11, <1>12 DEF Next
<1>14. QED
  BY <1>13

-----------------------------------------------------------------------------
(* An overlap is never forgotten. *)
LEMMA OverlapGrows == [Next]_vars => overlapped \subseteq overlapped'
  BY DEF Next, vars, cliVars, Send, Arrive, Count, Post, Reply, ReadMessage, WriteArchive,
         UnlinkPending, Crash, List, Get, StartReading, ReadPending, ReadArchive, RestartConsole

(* The last of several commands to take a message in hand finds the others *)
(* there, and nobody takes one in hand that has been answered.             *)
LEMMA HandsStep ==
  ASSUME TypeOK, PendingWasSent, HandsOverlap, [Next]_vars
  PROVE  HandsOverlap'
<1> DEFINE Apart(r, q) ==
             /\ pc[r] = "replied" => target[r] \notin inbox
             /\ q # r =>
                  /\ InHand(q, target[r]) /\ pc[r] \in {"write", "unlink", "replied"} => target[r] \in overlapped
                  /\ pc[r] = "replied" /\ pc[q] = "replied" => target[q] # target[r]
             /\ pc[r] \in {"unlink", "replied"} /\ target[r] \notin overlapped => archive[target[r]] = r
<1>1. \A r, q \in Replier : Apart(r, q)
  BY DEF HandsOverlap
<1>2. SUFFICES ASSUME NEW r \in Replier, NEW q \in Replier PROVE Apart(r, q)'
  BY DEF HandsOverlap
<1>3. \A p \in Replier : pc[p] # "idle" => target[p] \in Message /\ sending[target[p]] = "sent"
  BY DEF PendingWasSent, Sent
<1> USE DEF TypeOK, InHand
<1>4. ASSUME UNCHANGED <<cliVars, archive>>, inbox' \cap Sent \subseteq inbox PROVE Apart(r, q)'
  BY <1>1, <1>3, <1>4 DEF cliVars, Sent
<1>5. ASSUME NEW m \in Message, Send(m) \/ Arrive(m) \/ Count(m) \/ Post(m) PROVE Apart(r, q)'
  BY <1>4, <1>5 DEF Send, Arrive, Count, Post, Sent
<1>6. ASSUME NEW p \in Replier, NEW m \in Message, Reply(p, m) PROVE Apart(r, q)'
  BY <1>1, <1>6 DEF Reply
<1>7. ASSUME NEW p \in Replier, ReadMessage(p) PROVE Apart(r, q)'
  BY <1>1, <1>3, <1>7 DEF ReadMessage
<1>8. ASSUME NEW p \in Replier, WriteArchive(p) PROVE Apart(r, q)'
  BY <1>1, <1>3, <1>8 DEF WriteArchive
<1>9. ASSUME NEW p \in Replier, UnlinkPending(p) PROVE Apart(r, q)'
  BY <1>1, <1>3, <1>9 DEF UnlinkPending
<1>10. ASSUME NEW p \in Replier, Crash(p) PROVE Apart(r, q)'
  BY <1>1, <1>10 DEF Crash
<1>11. ASSUME NEW p \in Reader,
              List(p) \/ (\E m \in Message : Get(p, m)) \/ ReadPending(p) \/ ReadArchive(p)
       PROVE  Apart(r, q)'
  BY <1>4, <1>11 DEF List, Get, StartReading, ReadPending, ReadArchive
<1>12. CASE RestartConsole
  BY <1>4, <1>12 DEF RestartConsole
<1>13. CASE UNCHANGED vars
  BY <1>4, <1>13 DEF vars
<1>14. QED
  BY <1>5, <1>6, <1>7, <1>8, <1>9, <1>10, <1>11, <1>12, <1>13 DEF Next

-----------------------------------------------------------------------------
(* Only an unlink takes a message out of inbox/, and then tells of it;     *)
(* what a command was told stays.                                          *)
LEMMA ToldStep ==
  ASSUME TypeOK, PendingWasSent, AnsweredWasTold, [Next]_vars
  PROVE  AnsweredWasTold'
<1> USE MailboxAssumption DEF TypeOK, AnsweredWasTold, Sent, Archived, cliVars, readerVars
<1>1. ASSUME NEW m \in Message, Send(m) \/ Arrive(m) \/ Count(m) \/ Post(m) PROVE AnsweredWasTold'
  BY <1>1 DEF Send, Arrive, Count, Post
<1>2. ASSUME NEW r \in Replier, NEW m \in Message, Reply(r, m) PROVE AnsweredWasTold'
  BY <1>2 DEF Reply
<1>3. ASSUME NEW r \in Replier, ReadMessage(r) \/ Crash(r) PROVE AnsweredWasTold'
  BY <1>3 DEF ReadMessage, Crash
<1>4. ASSUME NEW r \in Replier, WriteArchive(r) PROVE AnsweredWasTold'
  <2>1. target[r] \in Sent
    BY <1>4 DEF WriteArchive, PendingWasSent
  <2>2. QED
    BY <1>4, <2>1 DEF WriteArchive
<1>5. ASSUME NEW r \in Replier, UnlinkPending(r) PROVE AnsweredWasTold'
  BY <1>5 DEF UnlinkPending
<1>6. ASSUME NEW r \in Reader,
             List(r) \/ (\E m \in Message : Get(r, m)) \/ ReadPending(r) \/ ReadArchive(r)
      PROVE  AnsweredWasTold'
  BY <1>6 DEF List, Get, StartReading, ReadPending, ReadArchive
<1>7. CASE RestartConsole
  BY <1>7 DEF RestartConsole
<1>8. CASE UNCHANGED vars
  BY <1>8 DEF vars
<1>9. QED
  BY <1>1, <1>2, <1>3, <1>4, <1>5, <1>6, <1>7, <1>8 DEF Next

-----------------------------------------------------------------------------
(* Nothing is sent, in hand or owed. *)
LEMMA InitInv == Init /\ TypeOK /\ OnlyPostedWait => IInv
<1> SUFFICES ASSUME Init, TypeOK, OnlyPostedWait PROVE IInv
  OBVIOUS
<1>1. IsFiniteSet(inbox) /\ inbox \cap Posted = {} /\ Cardinality({}) = 0
  BY FS_EmptySet DEF Init
<1>2. CapHeld
  BY <1>1, MailboxAssumption DEF CapHeld
<1>3. QED
  BY <1>1, <1>2 DEF Init, IInv, PendingWasSent, ArchivedFirst, LoopHoldsRequest, ReaderWillFind,
       HandsOverlap, AnsweredWasTold, Sent, Archived, InHand

(* The conjunction is inductive, given the types. *)
LEMMA StepInv == IInv /\ (TypeOK /\ OnlyPostedWait)' /\ [Next]_vars => IInv'
  BY PendingStep, ArchivedFirstStep, LoopStep, ReaderStep, HandsStep, ToldStep DEF IInv

(* The strengthened invariant is an invariant. *)
THEOREM Invariance == Spec => []IInv
  BY InitInv, StepInv, TypeCorrect, PTL DEF Spec

(* No message whose sender was told that it was sent is ever neither       *)
(* pending nor archived.                                                   *)
THEOREM NothingLostTheorem == Spec => []NothingLost
<1>1. IInv => NothingLost
  BY DEF IInv, NothingLost, PendingWasSent
<1>2. QED
  BY <1>1, Invariance, PTL

(* A reader returns every message that was there when it started. *)
THEOREM ReadersTheorem == Spec => []ReadersMissNothing
<1>1. IInv => ReadersMissNothing
  BY DEF IInv, ReadersMissNothing, ReaderWillFind
<1>2. QED
  BY <1>1, Invariance, PTL

(* The console never fills the inbox beyond its cap. *)
THEOREM CapTheorem == Spec => []CapHeld
<1>1. IInv => CapHeld
  BY DEF IInv
<1>2. QED
  BY <1>1, Invariance, PTL

(* One command only is told that it replied to a message, and its reply    *)
(* stands unless another had the message in hand at the same time.         *)
THEOREM AnswerTheorem == Spec => []AnswerStands
<1>1. IInv => AnswerStands
  BY DEF IInv, AnswerStands, HandsOverlap
<1>2. QED
  BY <1>1, Invariance, PTL

-----------------------------------------------------------------------------
(* What the box does not see: steps that move no file and tell nobody that *)
(* he answered.                                                            *)
LEMMA Unseen ==
  ASSUME UNCHANGED <<inbox, archive, overlapped>>,
         \A r \in Replier : IF pc[r] = "replied" THEN pc'[r] = "replied" /\ target'[r] = target[r]
                                                ELSE pc'[r] # "replied"
  PROVE  UNCHANGED Box!vars
  BY DEF Box!vars

(* A message is accepted when its file appears. *)
LEMMA SendAccepts ==
  ASSUME IInv, NEW m \in Message, Send(m) \/ Post(m)
  PROVE  Box!Accept(m) \/ UNCHANGED Box!vars
<1>1. UNCHANGED <<archive, overlapped, pc, target>>
  BY DEF Send, Post, cliVars
<1>2. CASE inbox' = inbox
  BY <1>1, <1>2, Unseen
<1>3. CASE inbox' = inbox \cup {m}
  <2>1. m \notin Sent
    BY DEF Send, Post, Sent
  <2>2. m \notin inbox /\ m \notin Archived
    BY <2>1 DEF IInv, PendingWasSent, AnsweredWasTold
  <2>3. archive[m] = None
    BY <2>2 DEF Archived
  <2>4. QED
    BY <1>1, <1>3, <2>2, <2>3 DEF Box!Accept
<1>4. QED
  BY <1>2, <1>3 DEF Send, Post

(* It is answered when its file goes, by the command that unlinks it.      *)
LEMMA UnlinkAnswers ==
  ASSUME IInv, NEW r \in Replier, UnlinkPending(r)
  PROVE  (\E m \in Message : Box!Answer(r, m)) \/ UNCHANGED Box!vars
<1>0. target[r] \in Message
  BY DEF UnlinkPending, IInv, PendingWasSent, Sent
<1> PICK m \in Message : m = target[r]
  BY <1>0
<1>1. /\ pc[r] = "unlink" /\ target[r] = m
      /\ pc' = [pc EXCEPT ![r] = IF m \in inbox THEN "replied" ELSE "failed"]
      /\ inbox' = inbox \ {m}
      /\ UNCHANGED <<archive, target, overlapped>>
  BY DEF UnlinkPending
<1>2. archive[m] \in Replier /\ (m \notin overlapped => archive[m] = r)
  BY <1>1 DEF IInv, TypeOK, PendingWasSent, Sent, ArchivedFirst, Archived, HandsOverlap
<1>3. \A q \in Replier \ {r} : pc'[q] = pc[q]
  BY <1>1
<1>4. CASE m \notin inbox
  <2>1. pc'[r] = "failed" /\ inbox' = inbox
    BY <1>1, <1>4 DEF IInv, TypeOK
  <2>2. QED
    BY <1>1, <1>3, <2>1, Unseen
<1>5. CASE m \in inbox
  <2>1. pc'[r] = "replied"
    BY <1>1, <1>5 DEF IInv, TypeOK
  <2> DEFINE answer == [n \in Message |-> IF n \in inbox THEN None ELSE archive[n]]
             told   == [q \in Replier |-> IF pc[q] = "replied" THEN target[q] ELSE None]
  <2>2. told' = [told EXCEPT ![r] = m] /\ told[r] = None
    BY <1>1, <1>3, <2>1
  <2>3. answer' = [answer EXCEPT ![m] = archive[m]]
    BY <1>1, <1>2
  <2>4. Box!Answer(r, m)
    BY <1>1, <1>2, <1>5, <2>2, <2>3 DEF Box!Answer
  <2>5. QED
    BY <2>4
<1>6. QED
  BY <1>4, <1>5

(* A copy that is written for a pending message is no answer yet; one that *)
(* comes after the answer is that of a second command, and the two had the *)
(* message in hand at once.                                                *)
LEMMA WriteOverwrites ==
  ASSUME IInv, NEW r \in Replier, WriteArchive(r)
  PROVE  (\E m \in Message : Box!Overwrite(r, m)) \/ UNCHANGED Box!vars
<1> DEFINE m == target[r]
<1>1. /\ pc[r] = "write" /\ m \in Message /\ m \in Sent
      /\ UNCHANGED <<inbox, target, overlapped>>
      /\ pc' = [pc EXCEPT ![r] = "unlink"] \/ pc' = [pc EXCEPT ![r] = "failed"]
  BY DEF WriteArchive, IInv, PendingWasSent, Sent
<1>2. archive \in [Message -> Replier \cup {None}]
  BY DEF IInv, TypeOK
<1>3. \A q \in Replier : (pc'[q] = "replied") = (pc[q] = "replied")
  BY <1>1 DEF IInv, TypeOK
<1>4. CASE archive' = archive
  BY <1>1, <1>3, <1>4, Unseen
<1>5. CASE archive' = [archive EXCEPT ![m] = r] /\ m \in inbox
  BY <1>1, <1>2, <1>3, <1>5 DEF Box!vars
<1>6. CASE archive' = [archive EXCEPT ![m] = r] /\ m \notin inbox
  <2>1. PICK q \in Replier : pc[q] = "replied" /\ target[q] = m
    BY <1>1, <1>6 DEF IInv, AnsweredWasTold
  <2>2. m \in overlapped
    BY <1>1, <2>1 DEF IInv, HandsOverlap, InHand
  <2>3. QED
    BY <1>1, <1>2, <1>3, <1>6, <2>2 DEF Box!Overwrite
<1>7. QED
  BY <1>4, <1>5, <1>6 DEF WriteArchive

(* Two commands contend for a message that is pending. *)
LEMMA ReadContends ==
  ASSUME IInv, NEW r \in Replier, ReadMessage(r)
  PROVE  (\E m \in Message : Box!Contend(m)) \/ UNCHANGED Box!vars
<1>1. /\ UNCHANGED <<inbox, archive, target>>
      /\ \A q \in Replier : (pc'[q] = "replied") = (pc[q] = "replied")
      /\ \/ overlapped' = overlapped
         \/ target[r] \in inbox /\ overlapped' = overlapped \cup {target[r]}
  BY DEF ReadMessage, IInv, TypeOK
<1>2. CASE overlapped' = overlapped
  BY <1>1, <1>2, Unseen
<1>3. CASE target[r] \in inbox /\ overlapped' = overlapped \cup {target[r]}
  <2>1. target[r] \in Message
    BY <1>3 DEF IInv, TypeOK
  <2>2. QED
    BY <1>1, <1>3, <2>1 DEF Box!Contend
<1>4. QED
  BY <1>1, <1>2, <1>3

(* The other steps do not touch the files of the box. *)
LEMMA OthersUnseen ==
  ASSUME IInv,
         \/ \E m \in Message : Arrive(m) \/ Count(m)
         \/ \E r \in Replier : Crash(r) \/ \E m \in Message : Reply(r, m)
         \/ \E r \in Reader : \/ \E m \in Message : Get(r, m)
                              \/ List(r) \/ ReadPending(r) \/ ReadArchive(r)
         \/ RestartConsole
         \/ UNCHANGED vars
  PROVE  UNCHANGED Box!vars
<1>1. UNCHANGED <<inbox, archive, overlapped>>
  BY DEF Arrive, Count, Reply, Crash, Get, List, StartReading, ReadPending, ReadArchive,
         RestartConsole, vars, cliVars
<1>2. ASSUME NEW q \in Replier
      PROVE  IF pc[q] = "replied" THEN pc'[q] = "replied" /\ target'[q] = target[q] ELSE pc'[q] # "replied"
  <2>1. CASE UNCHANGED <<pc, target>>
    BY <2>1
  <2>2. ASSUME NEW r \in Replier, NEW m \in Message, Crash(r) \/ Reply(r, m)
        PROVE  IF pc[q] = "replied" THEN pc'[q] = "replied" /\ target'[q] = target[q] ELSE pc'[q] # "replied"
    BY <2>2 DEF Crash, Reply, IInv, TypeOK
  <2>3. UNCHANGED <<pc, target>> \/ \E r \in Replier, m \in Message : Crash(r) \/ Reply(r, m)
    <3>1. ASSUME NEW r \in Replier, Crash(r) PROVE \E m \in Message : Crash(r) \/ Reply(r, m)
      BY <3>1 DEF Crash, IInv, PendingWasSent, Sent
    <3>2. QED
      BY <3>1 DEF Arrive, Count, Get, List, StartReading, ReadPending, ReadArchive, RestartConsole, vars, cliVars
  <2>4. QED
    BY <2>1, <2>2, <2>3
<1>3. QED
  BY <1>1, <1>2, Unseen

LEMMA StepRefines == IInv /\ [Next]_vars => [Box!Next]_Box!vars
<1> SUFFICES ASSUME IInv, [Next]_vars PROVE [Box!Next]_Box!vars
  OBVIOUS
<1>1. ASSUME NEW m \in Message, Send(m) \/ Post(m) PROVE [Box!Next]_Box!vars
  BY <1>1, SendAccepts DEF Box!Next
<1>2. ASSUME NEW r \in Replier, UnlinkPending(r) \/ WriteArchive(r) \/ ReadMessage(r)
      PROVE  [Box!Next]_Box!vars
  BY <1>2, UnlinkAnswers, WriteOverwrites, ReadContends DEF Box!Next
<1>3. QED
  BY <1>1, <1>2, OthersUnseen DEF Next

(* The inbox implements a box in which every message is accepted and       *)
(* answered in one step, once, for any number of messages and commands and *)
(* wherever they die.                                                      *)
THEOREM BoxTheorem == Spec => BoxAnswersOnce
<1>1. Init => Box!Init
  BY DEF Init, Box!Init
<1>2. IInv /\ [Next]_vars => [Box!Next]_Box!vars
  BY StepRefines
<1>3. QED
  BY <1>1, <1>2, Invariance, PTL DEF Spec, BoxAnswersOnce, Box!Spec

=============================================================================
