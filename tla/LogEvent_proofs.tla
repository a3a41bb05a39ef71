--------------------------- MODULE LogEvent_proofs ---------------------------
(***************************************************************************)
(* Proofs about the calls of _log-event.mjs, for any number of calls,      *)
(* sessions and statuses, whatever fails or dies when; then about the      *)
(* maintenance tools among them, for any number of runs.                   *)
(***************************************************************************)
EXTENDS IndexTools, TLAPS

(* Whoever is past the wait holds the lock of the file it works on.        *)
LockHeld ==
  \A c \in Caller : stage[c] \in {"index", "state"} /\ step[c] # "wait" => holder[File(c)] = c

(* A call that rewrites the files was given a status, and has something to *)
(* put it into when it comes to write.                                     *)
Prepared ==
  \A c \in Caller :
    /\ stage[c] = "event" => step[c] = "wait" /\ result[c] = "none"
    /\ stage[c] \in {"index", "state"} => arg[c].status \in Status
    /\ At(c, "write") => IF stage[c] = "index" THEN idxBuf[c] \in Index ELSE stBuf[c] \in State

(* What a lock holder is about to merge into is what the file holds.       *)
BufferCurrent ==
  \A c \in Caller : At(c, "write") =>
    /\ stage[c] = "index" =>
         index # Corrupt /\ idxBuf[c] = IF index = Absent THEN <<>> ELSE index
    /\ stage[c] = "state" =>
         stBuf[c] = IF state[arg[c].session] \in {Absent, Corrupt}
                    THEN [status |-> arg[c].status, iteration |-> 0, parent |-> NoParent]
                    ELSE state[arg[c].session]

(* A call writes no status which it has not logged.                        *)
EventFirst ==
  \A c \in Caller : stage[c] \in {"index", "state"} =>
    Logged(arg[c].session, arg[c].status)

(* c has written its status to index.json, and not yet to state.json.      *)
HalfWay(c) ==
  \/ stage[c] = "index" /\ step[c] = "release"
  \/ stage[c] = "state" /\ step[c] # "release"

IndexHas(s, st) ==
  index = Corrupt \/ (index # Absent /\ s \in DOMAIN index /\ index[s].status = st)

Unharmed(s) ==
  \A c \in Caller : arg[c].session = s => stage[c] # "dead" /\ result[c] # "failed"

(* As long as no two calls were setting the status of s at once there is   *)
(* at most one that has it half written; otherwise the files agree, unless *)
(* some call has failed or died.                                           *)
HalfWritten ==
  \A s \in Session \ overlapped :
    /\ \A c, d \in Caller : Setting(c, s) /\ Setting(d, s) => c = d
    /\ \A c \in Caller : arg[c].session = s /\ HalfWay(c) /\ result[c] # "failed" =>
         IndexHas(s, arg[c].status)
    /\ Unharmed(s) /\ (\A c \in Caller : arg[c].session = s => ~HalfWay(c)) => Agree(s)

(* Only an index that cannot be trusted is refused.                        *)
RefusedCorrupt == \A c \in Caller : result[c] = "refused" => index = Corrupt

IInv ==
  /\ StatusHasEvent
  /\ Prepared
  /\ LockHeld
  /\ BufferCurrent
  /\ EventFirst
  /\ RefusedCorrupt
  /\ HalfWritten

(* A tool's merged index is to go over the one it was merged onto: every   *)
(* entry that is not a fixture's keeps its status, and its parent too      *)
(* unless backfill may fill it in.                                         *)
MergeKeeps(t) ==
  \A s \in DOMAIN EntriesOf(base[t]) \ Fixture :
    /\ s \in DOMAIN merged[t]
    /\ merged[t][s].status = base[t][s].status
    /\ ~Fillable(base[t][s]) => merged[t][s].parent = base[t][s].parent

Committing(t) == phase[t] \in {"compare", "rename"}

(* What a tool has in hand when it comes to write.                         *)
InHand ==
  \A t \in Tool :
    /\ phase[t] = "patch" => patch[t] \in Session \X State
    /\ Committing(t) => merged[t] \in Index /\ MergeKeeps(t)

(* Nobody is about to write over an index that cannot be trusted.          *)
CorruptAlone ==
  index = Corrupt =>
    /\ \A t \in Tool : ~Committing(t)
    /\ \A c \in Caller : ~(stage[c] = "index" /\ step[c] = "write")

ToolIInv == WritersAreCurrent /\ Prepared /\ InHand /\ CorruptAlone

-----------------------------------------------------------------------------
(* What is in an index, and what is not one.                               *)
LEMMA IndexShape ==
  ASSUME NEW idx \in Index
  PROVE  /\ DOMAIN idx \subseteq Session
         /\ idx \in [DOMAIN idx -> Entry]
         /\ Readable(idx)
  BY ContentAssumption DEF Index, Readable

(* An absent index is read as one without entries.                         *)
LEMMA EmptyIndex == <<>> \in Index /\ DOMAIN <<>> = {}
<1>1. <<>> \in [{} -> Entry]
  OBVIOUS
<1>2. {} \in SUBSET Session
  OBVIOUS
<1>3. QED
  BY <1>1, <1>2 DEF Index

(* Setting a status makes an index of an index, keeps every entry but the  *)
(* one of that session, and of that one its parent.                        *)
LEMMA WithStatusShape ==
  ASSUME NEW idx \in Index, NEW s \in Session, NEW st \in Status
  PROVE  /\ WithStatus(idx, s, st) \in Index
         /\ DOMAIN WithStatus(idx, s, st) = DOMAIN idx \cup {s}
         /\ \A t \in DOMAIN idx \ {s} : WithStatus(idx, s, st)[t] = idx[t]
         /\ WithStatus(idx, s, st)[s].status = st
         /\ s \in DOMAIN idx => WithStatus(idx, s, st)[s].parent = idx[s].parent
<1>1. DOMAIN idx \subseteq Session /\ \A t \in DOMAIN idx : idx[t] \in Entry
  BY IndexShape
<1>2. WithStatus(idx, s, st) \in [DOMAIN idx \cup {s} -> Entry]
  BY <1>1, ParentAssumption DEF WithStatus, Entry
<1>3. DOMAIN idx \cup {s} \in SUBSET Session
  BY <1>1
<1>4. WithStatus(idx, s, st) \in Index
  BY <1>2, <1>3 DEF Index
<1>5. QED
  BY <1>1, <1>4 DEF WithStatus, Entry

-----------------------------------------------------------------------------
(* The types hold at first, ...                                            *)
LEMMA TypeInit == Init => TypeOK /\ Prepared
<1> SUFFICES ASSUME Init PROVE TypeOK /\ Prepared
  OBVIOUS
<1>1. index \in {Absent, Corrupt} \cup Index
  BY ParentAssumption DEF Init, Index, OldEntry, Entry
<1>2. state \in [Session -> {Absent, Corrupt} \cup State]
  BY ParentAssumption DEF Init, OldState, State
<1>3. TypeOK
  BY <1>1, <1>2 DEF Init, TypeOK
<1>4. Prepared
  BY DEF Init, Prepared, At
<1>5. QED
  BY <1>3, <1>4

(* ... and every step keeps them.                                          *)
LEMMA TypeStep ==
  ASSUME TypeOK, Prepared, [Next]_vars
  PROVE  TypeOK' /\ Prepared'
<1> DEFINE Goal == TypeOK' /\ Prepared'
<1> USE NameAssumption DEF TypeOK, Prepared, At
<1>a. \A c \in Caller : arg[c].session \in Session /\ arg[c].status \in Status \cup {NoStatus}
  BY DEF Arg
<1>b. index \notin {Absent, Corrupt} => index \in Index
  OBVIOUS
<1>1. ASSUME NEW c \in Caller, AppendEvent(c) PROVE Goal
  <2>1. Append(events[arg[c].session], arg[c].status) \in Seq(Status \cup {OldStatus, NoStatus})
    BY <1>a
  <2>2. events' \in [Session -> Seq(Status \cup {OldStatus, NoStatus})]
    BY <1>1, <2>1 DEF AppendEvent
  <2>3. overlapped' \subseteq Session
    BY <1>1, <1>a DEF AppendEvent
  <2>4. stage' \in [Caller -> {"event", "index", "state", "exit", "dead"}]
    BY <1>1 DEF AppendEvent
  <2>5. result' \in [Caller -> {"none", "ok", "refused", "failed"}]
    BY <1>1 DEF AppendEvent
  <2>6. Prepared'
    BY <1>1, <1>a DEF AppendEvent
  <2>7. QED
    BY <1>1, <2>2, <2>3, <2>4, <2>5, <2>6 DEF AppendEvent
<1>2. ASSUME NEW c \in Caller, Acquire(c) PROVE Goal
  BY <1>2 DEF Acquire
<1>3. ASSUME NEW c \in Caller, TimeOut(c) PROVE Goal
  BY <1>3 DEF TimeOut
<1>4. ASSUME NEW c \in Caller, ReadIndex(c) PROVE Goal
  <2>1. index # Corrupt => (IF index = Absent THEN <<>> ELSE index) \in Index
    BY <1>b, EmptyIndex
  <2>2. CASE index = Corrupt
    BY <1>4, <2>2 DEF ReadIndex
  <2>3. CASE index # Corrupt
    <3>1. idxBuf' = [idxBuf EXCEPT ![c] = IF index = Absent THEN <<>> ELSE index]
      BY <1>4, <2>3 DEF ReadIndex
    <3>2. idxBuf' \in [Caller -> {Absent} \cup Index] /\ idxBuf'[c] \in Index
      BY <2>1, <2>3, <3>1
    <3>3. QED
      BY <1>4, <2>3, <3>2, <3>1 DEF ReadIndex
  <2>4. QED
    BY <2>2, <2>3
<1>5. ASSUME NEW c \in Caller, WriteIndex(c) PROVE Goal
  <2>1. index' \in Index
    BY <1>5, <1>a, WithStatusShape DEF WriteIndex
  <2>2. QED
    BY <1>5, <2>1 DEF WriteIndex
<1>6. ASSUME NEW c \in Caller, ReadState(c) PROVE Goal
  <2>1. stBuf'[c] \in State
    BY <1>6, <1>a, ParentAssumption DEF ReadState, State
  <2>2. QED
    BY <1>6, <2>1 DEF ReadState
<1>7. ASSUME NEW c \in Caller, WriteState(c) PROVE Goal
  <2>1. [stBuf[c] EXCEPT !.status = arg[c].status] \in State
    BY <1>7 DEF WriteState, State
  <2>2. QED
    BY <1>7, <1>a, <2>1 DEF WriteState
<1>8. ASSUME NEW c \in Caller, WriteFails(c) PROVE Goal
  BY <1>8 DEF WriteFails
<1>9. ASSUME NEW c \in Caller, Release(c) PROVE Goal
  BY <1>9, ZenonT(40) DEF Release
<1>10. ASSUME NEW c \in Caller, Crash(c) PROVE Goal
  BY <1>10 DEF Crash
<1>11. ASSUME NEW f \in Locked, Reclaim(f) PROVE Goal
  BY <1>11 DEF Reclaim
<1>12. CASE UNCHANGED vars
  BY <1>12 DEF vars
<1>13. QED
  BY <1>1, <1>2, <1>3, <1>4, <1>5, <1>6, <1>7, <1>8, <1>9, <1>10, <1>11, <1>12 DEF Next, Step

-----------------------------------------------------------------------------
(* A lock is given back by the one that holds it, or taken from the dead.  *)
LEMMA LockStep ==
  ASSUME TypeOK, Prepared, LockHeld, [Next]_vars
  PROVE  LockHeld'
<1> USE NameAssumption DEF TypeOK, Prepared, LockHeld, At, File
<1>a. \A c \in Caller : arg[c].session \in Session /\ File(c) \in Locked
  BY DEF Arg, Locked
<1>1. ASSUME NEW c \in Caller, AppendEvent(c) PROVE LockHeld'
  BY <1>1 DEF AppendEvent
<1>2. ASSUME NEW c \in Caller, Acquire(c) PROVE LockHeld'
  BY <1>2, <1>a DEF Acquire
<1>3. ASSUME NEW c \in Caller, TimeOut(c) PROVE LockHeld'
  BY <1>3 DEF TimeOut
<1>4. ASSUME NEW c \in Caller, ReadIndex(c) \/ WriteIndex(c) PROVE LockHeld'
  BY <1>4 DEF ReadIndex, WriteIndex
<1>5. ASSUME NEW c \in Caller, ReadState(c) \/ WriteState(c) \/ WriteFails(c) PROVE LockHeld'
  BY <1>5 DEF ReadState, WriteState, WriteFails
<1>6. ASSUME NEW c \in Caller, Release(c) PROVE LockHeld'
  BY <1>6, <1>a DEF Release
<1>7. ASSUME NEW c \in Caller, Crash(c) PROVE LockHeld'
  BY <1>7 DEF Crash
<1>8. ASSUME NEW f \in Locked, Reclaim(f) PROVE LockHeld'
  BY <1>8, <1>a DEF Reclaim
<1>9. CASE UNCHANGED vars
  BY <1>9 DEF vars
<1>10. QED
  BY <1>1, <1>2, <1>3, <1>4, <1>5, <1>6, <1>7, <1>8, <1>9 DEF Next, Step

(* Nobody else writes a file between its holder's read and write.          *)
LEMMA BufferStep ==
  ASSUME TypeOK, Prepared, LockHeld, BufferCurrent, [Next]_vars
  PROVE  BufferCurrent'
<1> USE NameAssumption DEF TypeOK, Prepared, BufferCurrent, At
<1>a. \A c \in Caller : arg[c].session \in Session
  BY DEF Arg
<1>1. ASSUME NEW c \in Caller, AppendEvent(c) PROVE BufferCurrent'
  BY <1>1 DEF AppendEvent
<1>2. ASSUME NEW c \in Caller, Acquire(c) \/ TimeOut(c) \/ WriteFails(c) PROVE BufferCurrent'
  BY <1>2 DEF Acquire, TimeOut, WriteFails
<1>3. ASSUME NEW c \in Caller, ReadIndex(c) PROVE BufferCurrent'
  BY <1>3 DEF ReadIndex
<1>4. ASSUME NEW c \in Caller, WriteIndex(c) PROVE BufferCurrent'
  <2>1. \A d \in Caller \ {c} : ~(stage[d] = "index" /\ step[d] = "write")
    BY <1>4 DEF WriteIndex, LockHeld, File
  <2>2. QED
    BY <1>4, <2>1 DEF WriteIndex
<1>5. ASSUME NEW c \in Caller, ReadState(c) PROVE BufferCurrent'
  BY <1>5 DEF ReadState
<1>6. ASSUME NEW c \in Caller, WriteState(c) PROVE BufferCurrent'
  <2>1. ASSUME NEW d \in Caller, stage[d] = "state", step[d] = "write" PROVE holder[arg[d].session] = d
    BY <2>1 DEF LockHeld, File
  <2>2. \A d \in Caller \ {c} : stage[d] = "state" /\ step[d] = "write" => arg[d].session # arg[c].session
    BY <1>6, <2>1 DEF WriteState
  <2>3. step'[c] = "release" /\ \A s \in Session \ {arg[c].session} : state'[s] = state[s]
    BY <1>6 DEF WriteState
  <2>4. ASSUME NEW d \in Caller, At(d, "write")' PROVE d # c /\ At(d, "write")
    BY <1>6, <2>3, <2>4 DEF WriteState
  <2>5. QED
    BY <1>6, <1>a, <2>2, <2>3, <2>4 DEF WriteState
<1>7. ASSUME NEW c \in Caller, Release(c) \/ Crash(c) PROVE BufferCurrent'
  BY <1>7 DEF Release, Crash
<1>8. ASSUME NEW f \in Locked, Reclaim(f) PROVE BufferCurrent'
  BY <1>8 DEF Reclaim
<1>9. CASE UNCHANGED vars
  BY <1>9 DEF vars
<1>10. QED
  BY <1>1, <1>2, <1>3, <1>4, <1>5, <1>6, <1>7, <1>8, <1>9 DEF Next, Step

(* What is logged stays logged.                                            *)
LEMMA LogGrows ==
  ASSUME TypeOK, [Next]_vars, NEW s \in Session, NEW st, Logged(s, st)
  PROVE  Logged(s, st)'
<1> USE DEF TypeOK, Logged
<1>1. ASSUME NEW c \in Caller, AppendEvent(c) PROVE Logged(s, st)'
  <2>1. events[s] \in Seq(Status \cup {OldStatus, NoStatus}) /\ arg[c].status \in Status \cup {NoStatus}
    BY DEF Arg
  <2>2. \A i \in DOMAIN events[s] : i \in DOMAIN events'[s] /\ events'[s][i] = events[s][i]
    BY <1>1, <2>1 DEF AppendEvent
  <2>3. QED
    BY <2>2
<1>2. ASSUME NEW c \in Caller, Step(c) \/ Crash(c), ~AppendEvent(c) PROVE events' = events
  BY <1>2 DEF Step, Crash, Acquire, TimeOut, ReadIndex, WriteIndex, ReadState, WriteState, WriteFails, Release
<1>3. ASSUME NEW f \in Locked, Reclaim(f) PROVE events' = events
  BY <1>3 DEF Reclaim
<1>4. QED
  BY <1>1, <1>2, <1>3 DEF Next, vars

(* A caller that is at the index or the state has appended its event.      *)
LEMMA EventFirstStep ==
  ASSUME TypeOK, EventFirst, [Next]_vars
  PROVE  EventFirst'
<1> SUFFICES ASSUME NEW c \in Caller, stage'[c] \in {"index", "state"}
             PROVE  Logged(arg[c].session, arg[c].status)' /\ arg' = arg
  BY DEF EventFirst, Logged
<1>a. arg[c].session \in Session /\ arg[c].status \in Status \cup {NoStatus}
  BY DEF TypeOK, Arg
<1>1. arg' = arg
  BY DEF Next, Step, Crash, Reclaim, AppendEvent, Acquire, TimeOut, ReadIndex, WriteIndex,
         ReadState, WriteState, WriteFails, Release, vars
<1>2. CASE AppendEvent(c)
  <2>1. events'[arg[c].session] = Append(events[arg[c].session], arg[c].status)
    BY <1>2, <1>a DEF AppendEvent, TypeOK
  <2>2. events[arg[c].session] \in Seq(Status \cup {OldStatus, NoStatus})
    BY <1>a DEF TypeOK
  <2>3. Len(events[arg[c].session]) + 1 \in DOMAIN events'[arg[c].session]
        /\ events'[arg[c].session][Len(events[arg[c].session]) + 1] = arg[c].status
    BY <1>a, <2>1, <2>2
  <2>4. QED
    BY <1>1, <2>3 DEF Logged
<1>3. CASE stage[c] \in {"index", "state"}
  <2>1. Logged(arg[c].session, arg[c].status)
    BY <1>3 DEF EventFirst
  <2>2. QED
    BY <1>1, <1>a, <2>1, LogGrows DEF Logged
<1>4. stage[c] \in {"index", "state"} \/ AppendEvent(c)
  <2> USE DEF TypeOK, At
  <2>1. ASSUME NEW d \in Caller, AppendEvent(d) PROVE stage[c] \in {"index", "state"} \/ c = d
    BY <2>1 DEF AppendEvent
  <2>2. ASSUME NEW d \in Caller, Step(d) \/ Crash(d), ~AppendEvent(d) PROVE stage[c] \in {"index", "state"}
    BY <2>2 DEF Step, Crash, Acquire, TimeOut, ReadIndex, WriteIndex, ReadState, WriteState, WriteFails, Release
  <2>3. ASSUME NEW f \in Locked, Reclaim(f) PROVE stage[c] \in {"index", "state"}
    BY <2>3 DEF Reclaim
  <2>4. QED
    BY <2>1, <2>2, <2>3 DEF Next, vars
<1>5. QED
  BY <1>1, <1>2, <1>3, <1>4

(* An index that cannot be trusted stays as it is.                         *)
LEMMA RefusedStep ==
  ASSUME TypeOK, Prepared, BufferCurrent, RefusedCorrupt, [Next]_vars
  PROVE  RefusedCorrupt' /\ (index = Corrupt => index' = Corrupt)
<1> DEFINE Goal == RefusedCorrupt' /\ (index = Corrupt => index' = Corrupt)
<1> USE DEF TypeOK, Prepared, RefusedCorrupt, At
<1>1. ASSUME NEW c \in Caller, AppendEvent(c) \/ Acquire(c) \/ TimeOut(c) PROVE Goal
  BY <1>1 DEF AppendEvent, Acquire, TimeOut
<1>2. ASSUME NEW c \in Caller, ReadIndex(c) PROVE Goal
  BY <1>2 DEF ReadIndex
<1>3. ASSUME NEW c \in Caller, WriteIndex(c) PROVE Goal
  BY <1>3 DEF WriteIndex, BufferCurrent
<1>4. ASSUME NEW c \in Caller, ReadState(c) \/ WriteState(c) \/ WriteFails(c) PROVE Goal
  BY <1>4 DEF ReadState, WriteState, WriteFails
<1>5. ASSUME NEW c \in Caller, Release(c) \/ Crash(c) PROVE Goal
  BY <1>5 DEF Release, Crash
<1>6. ASSUME NEW f \in Locked, Reclaim(f) PROVE Goal
  BY <1>6 DEF Reclaim
<1>7. CASE UNCHANGED vars
  BY <1>7 DEF vars
<1>8. QED
  BY <1>1, <1>2, <1>3, <1>4, <1>5, <1>6, <1>7 DEF Next, Step

-----------------------------------------------------------------------------
(* What one write of index.json does to the entries.                       *)
LEMMA IndexWritten ==
  ASSUME TypeOK, Prepared, BufferCurrent, NEW c \in Caller, WriteIndex(c)
  PROVE  /\ arg[c].session \in Session /\ arg[c].status \in Status
         /\ index # Corrupt
         /\ index' \in Index /\ Readable(index')
         /\ arg[c].session \in DOMAIN index'
         /\ index'[arg[c].session].status = arg[c].status
         /\ \A s \in DOMAIN index' \ {arg[c].session} :
              index # Absent /\ s \in DOMAIN index /\ index'[s] = index[s]
         /\ index # Absent => \A s \in DOMAIN index :
              s \in DOMAIN index' /\ index'[s].parent = index[s].parent
<1> DEFINE s == arg[c].session
           st == arg[c].status
           idx == IF index = Absent THEN <<>> ELSE index
<1>1. s \in Session /\ st \in Status
  BY DEF TypeOK, Arg, Prepared, WriteIndex, At
<1>2. idxBuf[c] \in Index /\ index # Corrupt /\ idxBuf[c] = idx
  BY DEF Prepared, BufferCurrent, WriteIndex, At
<1>3. index' = WithStatus(idx, s, st)
  BY <1>2 DEF WriteIndex
<1> HIDE DEF s, st, idx
<1>4. /\ index' \in Index
      /\ DOMAIN index' = DOMAIN idx \cup {s}
      /\ \A t \in DOMAIN idx \ {s} : index'[t] = idx[t]
      /\ index'[s].status = st
      /\ s \in DOMAIN idx => index'[s].parent = idx[s].parent
  BY <1>1, <1>2, <1>3, WithStatusShape
<1>5. Readable(index')
  BY <1>4, IndexShape
<1>6. \A t \in DOMAIN index' \ {s} : index # Absent /\ t \in DOMAIN index /\ index'[t] = index[t]
  <2>1. ASSUME index = Absent PROVE DOMAIN idx = {}
    BY <2>1, EmptyIndex DEF idx
  <2>2. QED
    BY <1>4, <2>1 DEF idx
<1>7. index # Absent => \A t \in DOMAIN index : t \in DOMAIN index' /\ index'[t].parent = index[t].parent
  BY <1>4 DEF idx
<1>8. QED
  BY <1>1, <1>2, <1>4, <1>5, <1>6, <1>7 DEF s, st

(* What one write of state.json does.                                      *)
LEMMA StateWritten ==
  ASSUME TypeOK, Prepared, BufferCurrent, NEW c \in Caller, WriteState(c)
  PROVE  /\ arg[c].session \in Session /\ arg[c].status \in Status
         /\ Readable(state'[arg[c].session])
         /\ state'[arg[c].session].status = arg[c].status
         /\ Readable(state[arg[c].session]) =>
              state'[arg[c].session] = [state[arg[c].session] EXCEPT !.status = arg[c].status]
         /\ \A s \in Session \ {arg[c].session} : state'[s] = state[s]
<1> DEFINE s == arg[c].session
           st == arg[c].status
<1>1. s \in Session /\ st \in Status
  BY DEF TypeOK, Arg, Prepared, WriteState, At
<1>2. stBuf[c] \in State /\ (Readable(state[s]) => stBuf[c] = state[s])
  BY DEF Prepared, BufferCurrent, WriteState, At, Readable
<1>3. state' = [state EXCEPT ![s] = [stBuf[c] EXCEPT !.status = st]]
  BY DEF WriteState
<1> HIDE DEF s, st
<1>4. state'[s] = [stBuf[c] EXCEPT !.status = st] /\ \A t \in Session \ {s} : state'[t] = state[t]
  BY <1>1, <1>3 DEF TypeOK
<1>5. state'[s] \in State /\ state'[s].status = st
  BY <1>1, <1>2, <1>4 DEF State
<1>6. Readable(state'[s])
  BY <1>5, ContentAssumption DEF Readable
<1>7. QED
  BY <1>1, <1>2, <1>4, <1>5, <1>6 DEF s, st

(* Which steps write: everything else leaves both files as they are.       *)
LEMMA Writers ==
  ASSUME [Next]_vars
  PROVE  /\ arg' = arg
         /\ \/ UNCHANGED <<index, state>>
            \/ \E c \in Caller : WriteIndex(c) /\ state' = state
            \/ \E c \in Caller : WriteState(c) /\ index' = index
<1>1. ASSUME NEW c \in Caller, Step(c), ~WriteIndex(c), ~WriteState(c) PROVE UNCHANGED <<arg, index, state>>
  BY <1>1 DEF Step, AppendEvent, Acquire, TimeOut, ReadIndex, ReadState, WriteFails, Release
<1>2. ASSUME NEW c \in Caller, WriteIndex(c) PROVE arg' = arg /\ state' = state
  BY <1>2 DEF WriteIndex
<1>3. ASSUME NEW c \in Caller, WriteState(c) PROVE arg' = arg /\ index' = index
  BY <1>3 DEF WriteState
<1>4. ASSUME NEW c \in Caller, Crash(c) PROVE UNCHANGED <<arg, index, state>>
  BY <1>4 DEF Crash
<1>5. ASSUME NEW f \in Locked, Reclaim(f) PROVE UNCHANGED <<arg, index, state>>
  BY <1>5 DEF Reclaim
<1>6. QED
  BY <1>1, <1>2, <1>3, <1>4, <1>5 DEF Next, vars

(* A status is written only by who has appended its event, and no step     *)
(* removes an event.                                                       *)
LEMMA StatusStep ==
  ASSUME StatusHasEvent, Prepared, BufferCurrent, EventFirst, [Next]_vars
  PROVE  StatusHasEvent'
<1>0. TypeOK /\ TypeOK'
  BY TypeStep DEF StatusHasEvent
<1>1. SUFFICES ASSUME NEW s \in Session
               PROVE  (/\ Readable(index) /\ s \in DOMAIN index => Logged(s, index[s].status)
                       /\ Readable(state[s]) => Logged(s, state[s].status))'
  BY <1>0 DEF StatusHasEvent
<1> DEFINE Kept(st) == st = OldStatus \/ \E i \in DOMAIN events'[s] : events'[s][i] = st
           Goal == /\ Readable(index') /\ s \in DOMAIN index' => Kept(index'[s].status)
                   /\ Readable(state'[s]) => Kept(state'[s].status)
<1>2. /\ Readable(index) /\ s \in DOMAIN index => Logged(s, index[s].status)
      /\ Readable(state[s]) => Logged(s, state[s].status)
  BY DEF StatusHasEvent
<1>3. ASSUME NEW st, Logged(s, st) PROVE Kept(st)
  BY <1>0, <1>3, LogGrows DEF Logged
<1> HIDE DEF Kept
<1>4. ASSUME UNCHANGED <<index, state>> PROVE Goal
  BY <1>2, <1>3, <1>4
<1>5. ASSUME NEW c \in Caller, WriteIndex(c), state' = state PROVE Goal
  <2>1. Logged(arg[c].session, arg[c].status)
    BY <1>5 DEF EventFirst, WriteIndex, At
  <2>2. s \in DOMAIN index' => Logged(s, index'[s].status)
    BY <1>0, <1>2, <1>5, <2>1, IndexWritten DEF Readable
  <2>3. QED
    BY <1>2, <1>3, <1>5, <2>2, <1>0, IndexWritten
<1>6. ASSUME NEW c \in Caller, WriteState(c), index' = index PROVE Goal
  <2>1. Logged(arg[c].session, arg[c].status)
    BY <1>6 DEF EventFirst, WriteState, At
  <2>2. Readable(state'[s]) => Logged(s, state'[s].status)
    BY <1>0, <1>2, <1>6, <2>1, StateWritten
  <2>3. QED
    BY <1>2, <1>3, <1>6, <2>2
<1>7. Goal
  BY <1>4, <1>5, <1>6, Writers
<1>8. QED
  BY <1>7 DEF Kept, Logged, Readable

-----------------------------------------------------------------------------
(* Only the one call that is setting the status of a session can come      *)
(* between its two files.                                                  *)
LEMMA HalfStep ==
  ASSUME TypeOK, Prepared, BufferCurrent, RefusedCorrupt, HalfWritten, [Next]_vars
  PROVE  HalfWritten'
<1> SUFFICES ASSUME NEW s \in Session, s \notin overlapped'
             PROVE  (/\ \A c, d \in Caller : Setting(c, s) /\ Setting(d, s) => c = d
                     /\ \A c \in Caller : arg[c].session = s /\ HalfWay(c) /\ result[c] # "failed" =>
                          IndexHas(s, arg[c].status)
                     /\ Unharmed(s) /\ (\A c \in Caller : arg[c].session = s => ~HalfWay(c)) => Agree(s))'
  BY DEF HalfWritten
<1> DEFINE Alone == \A c, d \in Caller : Setting(c, s) /\ Setting(d, s) => c = d
           Has   == \A c \in Caller : arg[c].session = s /\ HalfWay(c) /\ result[c] # "failed" =>
                      IndexHas(s, arg[c].status)
           Same  == Unharmed(s) /\ (\A c \in Caller : arg[c].session = s => ~HalfWay(c)) => Agree(s)
           Goal  == Alone' /\ Has' /\ Same'
<1> USE NameAssumption DEF TypeOK, Prepared, At
<1>a. s \notin overlapped
  BY DEF Next, Step, Crash, Reclaim, AppendEvent, Acquire, TimeOut, ReadIndex, WriteIndex,
         ReadState, WriteState, WriteFails, Release, vars
<1>b. Alone /\ Has /\ Same
  BY <1>a DEF HalfWritten
<1>1. ASSUME NEW c \in Caller, AppendEvent(c) PROVE Goal
  <2>1. Alone'
    BY <1>1, <1>b DEF AppendEvent, Setting
  <2>2. Has'
    BY <1>1, <1>b DEF AppendEvent, HalfWay, IndexHas
  <2>3. Same'
    BY <1>1, <1>b DEF AppendEvent, HalfWay, Unharmed, Agree, Readable
  <2>4. QED
    BY <2>1, <2>2, <2>3
<1>2. ASSUME NEW c \in Caller, Acquire(c) \/ TimeOut(c) \/ Crash(c) PROVE Goal
  <2>1. Alone'
    BY <1>2, <1>b DEF Acquire, TimeOut, Crash, Setting
  <2>2. Has'
    BY <1>2, <1>b DEF Acquire, TimeOut, Crash, HalfWay, IndexHas
  <2>3. Same'
    BY <1>2, <1>b DEF Acquire, TimeOut, Crash, HalfWay, Unharmed, Agree, Readable
  <2>4. QED
    BY <2>1, <2>2, <2>3
<1>3. ASSUME NEW c \in Caller, ReadIndex(c) \/ ReadState(c) \/ WriteFails(c) PROVE Goal
  <2>1. Alone'
    BY <1>3, <1>b DEF ReadIndex, ReadState, WriteFails, Setting
  <2>2. Has'
    BY <1>3, <1>b, ZenonT(40) DEF ReadIndex, ReadState, WriteFails, HalfWay, IndexHas
  <2>3. Same'
    BY <1>3, <1>b DEF ReadIndex, ReadState, WriteFails, HalfWay, Unharmed, Agree, Readable
  <2>4. QED
    BY <2>1, <2>2, <2>3
<1>4. ASSUME NEW c \in Caller, WriteIndex(c) PROVE Goal
  <2>1. Alone'
    BY <1>4, <1>b DEF WriteIndex, Setting
  <2>a. /\ index # Corrupt /\ index' # Absent
        /\ arg[c].session \in DOMAIN index' /\ index'[arg[c].session].status = arg[c].status
        /\ \A t \in DOMAIN index' \ {arg[c].session} :
             index # Absent /\ t \in DOMAIN index /\ index'[t] = index[t]
        /\ index # Absent => \A t \in DOMAIN index : t \in DOMAIN index'
    BY <1>4, IndexWritten DEF Readable
  <2>b. /\ UNCHANGED <<arg, state, stage, result>>
        /\ stage[c] = "index"
        /\ HalfWay(c)' /\ \A d \in Caller \ {c} : HalfWay(d)' = HalfWay(d)
    BY <1>4 DEF WriteIndex, HalfWay
  <2>2. CASE arg[c].session = s
    <3>1. \A d \in Caller : arg[d].session = s /\ HalfWay(d)' => d = c
      BY <1>b, <2>2, <2>b DEF Setting, HalfWay
    <3>2. Has'
      BY <2>2, <2>a, <2>b, <3>1 DEF IndexHas
    <3>3. Same'
      BY <2>2, <2>b
    <3>4. QED
      BY <2>1, <3>2, <3>3
  <2>3. CASE arg[c].session # s
    <3>1. \A st : IndexHas(s, st) => IndexHas(s, st)'
      BY <2>3, <2>a DEF IndexHas
    <3>2. Has'
      BY <1>b, <2>3, <2>b, <3>1
    <3>3. Unharmed(s)' = Unharmed(s)
      BY <2>b DEF Unharmed
    <3>4. Agree(s) => Agree(s)'
      BY <2>3, <2>a, <2>b DEF Agree, Readable
    <3>5. Same'
      BY <1>b, <2>3, <2>b, <3>3, <3>4
    <3>6. QED
      BY <2>1, <3>2, <3>5
  <2>4. QED
    BY <2>2, <2>3
<1>5. ASSUME NEW c \in Caller, WriteState(c) PROVE Goal
  <2>1. Alone'
    BY <1>5, <1>b DEF WriteState, Setting
  <2>2. Has'
    BY <1>5, <1>b DEF WriteState, HalfWay, IndexHas
  <2>3. Same'
    BY <1>5, <1>b, StateWritten DEF WriteState, HalfWay, Unharmed, Agree, Readable, IndexHas, Setting
  <2>4. QED
    BY <2>1, <2>2, <2>3
<1>6. ASSUME NEW c \in Caller, Release(c) PROVE Goal
  <2>1. Alone'
    BY <1>6, <1>b DEF Release, Setting
  <2>2. Has'
    BY <1>6, <1>b DEF Release, HalfWay, IndexHas
  <2>a. UNCHANGED <<arg, index, state>> /\ Agree(s)' = Agree(s)
    BY <1>6 DEF Release, Agree, Readable
  <2>b. /\ \A d \in Caller \ {c} : UNCHANGED <<stage[d], step[d], result[d]>>
        /\ step[c] = "release" /\ step'[c] = "wait"
        /\ stage[c] \in {"index", "state"} /\ stage'[c] \in {"state", "exit"}
        /\ result'[c] # "failed" => result[c] # "failed"
        /\ result[c] # "failed" => (stage'[c] = "state") = (stage[c] = "index")
    BY <1>6 DEF Release
  <2>c. ASSUME Unharmed(s)' PROVE Unharmed(s)
    <3> SUFFICES ASSUME NEW d \in Caller, arg[d].session = s PROVE stage[d] # "dead" /\ result[d] # "failed"
      BY DEF Unharmed
    <3>1. stage'[d] # "dead" /\ result'[d] # "failed"
      BY <2>a, <2>c DEF Unharmed
    <3>2. CASE d = c
      BY <2>b, <3>1, <3>2
    <3>3. CASE d # c
      BY <2>b, <3>1, <3>3
    <3>4. QED
      BY <3>2, <3>3
  <2>d. ASSUME Unharmed(s), NEW d \in Caller, arg[d].session = s, HalfWay(d) PROVE HalfWay(d)'
    BY <2>b, <2>d DEF HalfWay, Unharmed
  <2>3. Same'
    BY <1>b, <2>a, <2>c, <2>d
  <2>4. QED
    BY <2>1, <2>2, <2>3
<1>7. ASSUME NEW f \in Locked, Reclaim(f) PROVE Goal
  BY <1>7, <1>b DEF Reclaim, Setting, HalfWay, IndexHas, Unharmed, Agree, Readable
<1>8. CASE UNCHANGED vars
  BY <1>8, <1>b DEF vars, Setting, HalfWay, IndexHas, Unharmed, Agree, Readable
<1>9. QED
  BY <1>1, <1>2, <1>3, <1>4, <1>5, <1>6, <1>7, <1>8 DEF Next, Step

-----------------------------------------------------------------------------
(* The actions never disturb IInv.                                         *)
LEMMA InitInv == Init => IInv
<1> SUFFICES ASSUME Init PROVE IInv
  OBVIOUS
<1>1. TypeOK /\ Prepared
  BY TypeInit
<1>2. StatusHasEvent
  <2>1. Readable(index) => \A s \in DOMAIN index : index[s].status = OldStatus
    BY DEF Init, Readable, OldEntry
  <2>2. \A s \in Session : Readable(state[s]) => state[s].status = OldStatus
    BY DEF Init, Readable, OldState
  <2>3. QED
    BY <1>1, <2>1, <2>2 DEF StatusHasEvent, Logged
<1>3. HalfWritten
  <2>1. \A c \in Caller, s \in Session : ~HalfWay(c) /\ ~Setting(c, s)
    BY DEF Init, HalfWay, Setting
  <2>2. \A s \in Session : Agree(s)
    BY DEF Init, Agree, Readable, OldEntry, OldState
  <2>3. QED
    BY <2>1, <2>2 DEF HalfWritten
<1>4. LockHeld /\ BufferCurrent /\ EventFirst /\ RefusedCorrupt
  BY DEF Init, LockHeld, BufferCurrent, EventFirst, RefusedCorrupt, At
<1>5. QED
  BY <1>1, <1>2, <1>3, <1>4 DEF IInv

(* Every step keeps the whole invariant.                                   *)
LEMMA StepInv == IInv /\ [Next]_vars => IInv'
<1> SUFFICES ASSUME IInv, [Next]_vars PROVE IInv'
  OBVIOUS
<1>1. TypeOK
  BY DEF IInv, StatusHasEvent
<1>2. Prepared'
  BY <1>1, TypeStep DEF IInv
<1>3. LockHeld'
  BY <1>1, LockStep DEF IInv
<1>4. BufferCurrent'
  BY <1>1, BufferStep DEF IInv
<1>5. EventFirst'
  BY <1>1, EventFirstStep DEF IInv
<1>6. RefusedCorrupt'
  BY <1>1, RefusedStep DEF IInv
<1>7. StatusHasEvent'
  BY StatusStep DEF IInv
<1>8. HalfWritten'
  BY <1>1, HalfStep DEF IInv
<1>9. QED
  BY <1>2, <1>3, <1>4, <1>5, <1>6, <1>7, <1>8 DEF IInv

(* The inductive invariant of the status writers holds in every state.     *)
THEOREM Invariance == Spec => []IInv
<1>1. IInv /\ UNCHANGED vars => IInv'
  BY StepInv
<1>2. QED
  BY <1>1, InitInv, StepInv, PTL DEF Spec

(* Every variable keeps its type, and a call that has a file in hand has   *)
(* read it and was given a status to write.                                *)
THEOREM TypeCorrect == Spec => [](TypeOK /\ Prepared)
<1>1. TypeOK /\ Prepared /\ [Next]_vars => (TypeOK /\ Prepared)'
  BY TypeStep
<1>2. QED
  BY <1>1, TypeInit, PTL DEF Spec

(* A status in index.json or state.json has its event, whatever crashed.   *)
THEOREM StatusTheorem == Spec => []StatusHasEvent
<1>1. IInv => StatusHasEvent
  BY DEF IInv
<1>2. QED
  BY <1>1, Invariance, PTL

(* Of the entries and of a readable state.json only the status changes, no *)
(* session is unregistered, and an index that cannot be trusted is left    *)
(* alone.                                                                  *)
THEOREM OnlyStatusTheorem == Spec => OnlyStatusChanges
<1> DEFINE A == /\ index = Corrupt => index' = Corrupt
                /\ Readable(index) =>
                     /\ Readable(index')
                     /\ \A s \in DOMAIN index :
                          s \in DOMAIN index' /\ index'[s].parent = index[s].parent
                /\ \A s \in Session : Readable(state[s]) =>
                     /\ Readable(state'[s])
                     /\ [state'[s] EXCEPT !.status = state[s].status] = state[s]
<1>1. IInv /\ [Next]_vars => [A]_<<index, state>>
  <2> SUFFICES ASSUME IInv, [Next]_vars, ~UNCHANGED <<index, state>> PROVE A
    OBVIOUS
  <2>1. TypeOK /\ Prepared /\ BufferCurrent
    BY DEF IInv, StatusHasEvent
  <2>a. \A s \in Session : Readable(state[s]) => [state[s] EXCEPT !.status = state[s].status] = state[s]
    BY <2>1 DEF TypeOK, Readable, State
  <2>2. ASSUME NEW c \in Caller, WriteIndex(c), state' = state PROVE A
    BY <2>1, <2>a, <2>2, IndexWritten DEF Readable
  <2>3. ASSUME NEW c \in Caller, WriteState(c), index' = index PROVE A
    <3>1. \A s \in Session, st \in Status : Readable(state[s]) =>
            [[state[s] EXCEPT !.status = st] EXCEPT !.status = state[s].status] = state[s]
      BY <2>1 DEF TypeOK, Readable, State
    <3>2. \A s \in Session : Readable(state[s]) =>
            /\ Readable(state'[s])
            /\ [state'[s] EXCEPT !.status = state[s].status] = state[s]
      <4> SUFFICES ASSUME NEW s \in Session, Readable(state[s])
                   PROVE  Readable(state'[s]) /\ [state'[s] EXCEPT !.status = state[s].status] = state[s]
        OBVIOUS
      <4>1. CASE s = arg[c].session
        <5>1. /\ Readable(state'[s]) /\ arg[c].status \in Status
              /\ state'[s] = [state[s] EXCEPT !.status = arg[c].status]
          BY <2>1, <2>3, <4>1, StateWritten
        <5>2. [[state[s] EXCEPT !.status = arg[c].status] EXCEPT !.status = state[s].status] = state[s]
          BY <3>1, <5>1
        <5>3. QED
          BY <5>1, <5>2, Zenon
      <4>2. CASE s # arg[c].session
        <5>1. state'[s] = state[s]
          BY <2>1, <2>3, <4>2, StateWritten
        <5>2. QED
          BY <2>a, <5>1, Zenon
      <4>3. QED
        BY <4>1, <4>2
    <3>3. QED
      BY <2>3, <3>2
  <2>4. QED
    BY <2>2, <2>3, Writers
<1>2. QED
  BY <1>1, Invariance, PTL DEF Spec, OnlyStatusChanges

(* index.json and state.json disagree about a status only after two calls  *)
(* for the session have overlapped, or one of them has failed or died.     *)
THEOREM DriftTheorem == Spec => []DriftNeedsOverlap
<1>1. IInv => DriftNeedsOverlap
  <2> SUFFICES ASSUME IInv, NEW s \in Session, s \notin overlapped,
                      \A c \in Caller : arg[c].session = s =>
                        stage[c] = "event" \/ (stage[c] = "exit" /\ result[c] # "failed")
               PROVE  Agree(s)
    BY DEF DriftNeedsOverlap
  <2>1. Unharmed(s) /\ \A c \in Caller : arg[c].session = s => ~HalfWay(c)
    BY DEF IInv, Prepared, Unharmed, HalfWay
  <2>2. QED
    BY <2>1 DEF IInv, HalfWritten
<1>2. QED
  BY <1>1, Invariance, PTL

-----------------------------------------------------------------------------
(* A tool takes what it reads of index.json for an index.                  *)
LEMMA EntriesShape ==
  ASSUME NEW idx \in {Absent, Corrupt} \cup Index
  PROVE  /\ EntriesOf(idx) \in Index
         /\ idx \in Index => EntriesOf(idx) = idx
  BY EmptyIndex, IndexShape DEF EntriesOf, Readable

(* What backfill merges is an index that keeps every entry's status, and   *)
(* the parent of every entry that has one.                                 *)
LEMMA BackfillShape ==
  ASSUME NEW t \in Tool, NEW idx \in Index
  PROVE  /\ BackfillMerge(t, idx) \in Index
         /\ DOMAIN BackfillMerge(t, idx) = DOMAIN idx
         /\ \A s \in DOMAIN idx :
              /\ BackfillMerge(t, idx)[s].status = idx[s].status
              /\ ~Fillable(idx[s]) => BackfillMerge(t, idx)[s].parent = idx[s].parent
<1>1. DOMAIN idx \in SUBSET Session /\ \A s \in DOMAIN idx : idx[s] \in Entry
  BY IndexShape
<1>2. DOMAIN BackfillMerge(t, idx) = DOMAIN idx
  BY DEF BackfillMerge
<1>3. ASSUME NEW s \in DOMAIN idx
      PROVE  /\ BackfillMerge(t, idx)[s] \in Entry
             /\ BackfillMerge(t, idx)[s].status = idx[s].status
             /\ ~Fillable(idx[s]) => BackfillMerge(t, idx)[s].parent = idx[s].parent
  <2>1. BackfillMerge(t, idx)[s] =
          IF s \in Applied(t, idx) THEN [idx[s] EXCEPT !.parent = Desired] ELSE idx[s]
    BY DEF BackfillMerge
  <2>2. s \in Applied(t, idx) => Fillable(idx[s])
    BY DEF Applied
  <2>3. QED
    BY <1>1, <2>1, <2>2, ToolAssumption DEF Entry
<1>4. BackfillMerge(t, idx) \in [DOMAIN idx -> Entry]
  BY <1>2, <1>3 DEF BackfillMerge
<1>5. QED
  BY <1>1, <1>2, <1>3, <1>4 DEF Index

(* What the fixture tool merges is an index that keeps every entry of      *)
(* another session as it is.                                               *)
LEMMA FixtureShape ==
  ASSUME NEW t \in Tool, NEW idx \in Index
  PROVE  /\ FixtureMerge(t, idx) \in Index
         /\ \A s \in DOMAIN idx \ Fixture :
              s \in DOMAIN FixtureMerge(t, idx) /\ FixtureMerge(t, idx)[s] = idx[s]
<1> DEFINE kept == DOMAIN idx \ Fixture
           ids  == IF kind[t] = "create" THEN kept \cup Fixture ELSE kept
<1>1. DOMAIN idx \in SUBSET Session /\ \A s \in DOMAIN idx : idx[s] \in Entry
  BY IndexShape
<1>2. FixtureEntry \in Entry
  BY ParentAssumption DEF FixtureEntry, Entry
<1>3. FixtureMerge(t, idx) = [s \in ids |-> IF s \in Fixture THEN FixtureEntry ELSE idx[s]]
  BY DEF FixtureMerge
<1>4. ids \in SUBSET Session /\ kept \subseteq ids /\ \A s \in ids : s \in Fixture \/ s \in DOMAIN idx
  BY <1>1, ToolAssumption
<1> HIDE DEF kept, ids
<1>5. FixtureMerge(t, idx) \in [ids -> Entry]
  BY <1>1, <1>2, <1>3, <1>4
<1>6. FixtureMerge(t, idx) \in Index
  BY <1>4, <1>5 DEF Index
<1>7. QED
  BY <1>3, <1>4, <1>6 DEF kept

-----------------------------------------------------------------------------
(* Where the tools start from.                                             *)
LEMMA ToolInitInv == ToolInit => ToolIInv
<1> SUFFICES ASSUME ToolInit PROVE ToolIInv
  OBVIOUS
<1>1. TypeOK /\ Prepared
  BY TypeInit DEF ToolInit
<1>2. ToolTypeOK
  <2>1. attempt \in [Tool -> 1..Attempts]
    BY ToolAssumption DEF ToolInit
  <2>2. patch \in [Tool -> {<<>>} \cup (Session \X State)]
    BY Zenon DEF ToolInit
  <2>3. QED
    BY <1>1, <2>1, <2>2 DEF ToolInit, ToolTypeOK
<1>3. WritersAreCurrent
  BY <1>2 DEF ToolInit, Init, WritersAreCurrent
<1>4. InHand /\ CorruptAlone
  BY DEF ToolInit, Init, InHand, CorruptAlone, Committing
<1>5. QED
  BY <1>1, <1>3, <1>4 DEF ToolIInv

(* A step of a call: whoever is about to write while the index changes has *)
(* been raced, and nobody but a call that could read the index writes it.  *)
LEMMA LogStepInv ==
  ASSUME ToolIInv, LogStep
  PROVE  ToolIInv' /\ (index = Corrupt => index' = Corrupt)
<1> USE DEF ToolIInv
<1>1. TypeOK /\ Prepared /\ ToolTypeOK /\ [Next]_vars
  BY DEF WritersAreCurrent, ToolTypeOK, LogStep
<1>2. TypeOK' /\ Prepared'
  BY <1>1, TypeStep
<1>3. /\ UNCHANGED <<kind, phase, snapshot, todo, patch, deltas, base, merged, attempt>>
      /\ raced' = (raced \/ (index' # index /\ InWindow'))
  BY DEF LogStep, toolVars
<1>4. ToolTypeOK'
  BY <1>1, <1>2, <1>3 DEF ToolTypeOK
<1>5. InHand'
  BY <1>3 DEF InHand, MergeKeeps, Committing, Fillable
<1>6. \A c \in Caller : WriteIndex(c) => index # Corrupt /\ index' \in Index
  <2>1. ASSUME NEW c \in Caller, WriteIndex(c) PROVE index # Corrupt /\ index' \in Index
    <3>1. arg[c].session \in Session /\ arg[c].status \in Status /\ idxBuf[c] \in Index
      BY <1>1, <2>1 DEF TypeOK, Arg, Prepared, WriteIndex, At
    <3>2. index' \in Index
      BY <2>1, <3>1, WithStatusShape DEF WriteIndex
    <3>3. QED
      BY <2>1, <3>2 DEF CorruptAlone, WriteIndex, At
  <2>2. QED
    BY <2>1
<1>7. index' = index \/ (index # Corrupt /\ index' # Corrupt)
  BY <1>1, <1>6, Writers, ContentAssumption
<1>8. \A c \in Caller : (stage[c] = "index" /\ step[c] = "write")' =>
        \/ stage[c] = "index" /\ step[c] = "write" /\ idxBuf'[c] = idxBuf[c]
        \/ index # Corrupt /\ index' = index /\ idxBuf'[c] = IF index = Absent THEN <<>> ELSE index
  <2> USE <1>1 DEF TypeOK
  <2> DEFINE Goal == \A c \in Caller : (stage[c] = "index" /\ step[c] = "write")' =>
        \/ stage[c] = "index" /\ step[c] = "write" /\ idxBuf'[c] = idxBuf[c]
        \/ index # Corrupt /\ index' = index /\ idxBuf'[c] = IF index = Absent THEN <<>> ELSE index
  <2>1. ASSUME NEW c \in Caller, AppendEvent(c) \/ Acquire(c) \/ TimeOut(c) \/ Crash(c) PROVE Goal
    BY <2>1 DEF AppendEvent, Acquire, TimeOut, Crash, Prepared
  <2>2. ASSUME NEW c \in Caller, ReadIndex(c) PROVE Goal
    BY <2>2 DEF ReadIndex
  <2>3. ASSUME NEW c \in Caller, WriteIndex(c) \/ WriteFails(c) \/ Release(c) PROVE Goal
    BY <2>3 DEF WriteIndex, WriteFails, Release
  <2>4. ASSUME NEW c \in Caller, ReadState(c) \/ WriteState(c) PROVE Goal
    BY <2>4 DEF ReadState, WriteState
  <2>5. ASSUME NEW f \in Locked, Reclaim(f) PROVE Goal
    BY <2>5 DEF Reclaim
  <2>6. CASE UNCHANGED vars
    BY <2>6 DEF vars
  <2>7. QED
    BY <2>1, <2>2, <2>3, <2>4, <2>5, <2>6 DEF Next, Step
<1>9. CorruptAlone'
  BY <1>3, <1>7, <1>8 DEF CorruptAlone, Committing
<1>10. WritersAreCurrent'
  <2>1. CASE index' = index
    <3>1. index # Corrupt => (IF index = Absent THEN <<>> ELSE index) = EntriesOf(index)
      BY <1>1, EntriesShape DEF TypeOK, EntriesOf, Readable
    <3>2. QED
      BY <1>3, <1>4, <1>8, <2>1, <3>1 DEF WritersAreCurrent, EntriesOf, Readable
  <2>2. CASE index' # index
    BY <1>3, <1>4, <2>2 DEF WritersAreCurrent, InWindow
  <2>3. QED
    BY <2>1, <2>2
<1>11. QED
  BY <1>2, <1>5, <1>7, <1>9, <1>10

(* The first steps of a tool touch neither file; they read, and choose.    *)
LEMMA PrepareInv ==
  ASSUME ToolIInv, NEW t \in Tool,
         \/ Survey(t) \/ (\E s \in Session : Visit(t, s)) \/ EndWalk(t)
         \/ Validate(t)
  PROVE  ToolIInv' /\ index' = index
<1> USE DEF ToolIInv
<1>1. TypeOK /\ Prepared /\ ToolTypeOK
  BY DEF WritersAreCurrent, ToolTypeOK
<1>2. UNCHANGED <<logVars, kind, base, merged, attempt, raced>>
  BY DEF Survey, Visit, EndWalk, Validate
<1>3. UNCHANGED vars
  BY <1>2 DEF logVars
<1>4. TypeOK' /\ Prepared'
  BY <1>1, <1>3, TypeStep
<1>5. /\ phase' \in [Tool -> {"survey", "walk", "patch", "commit", "compare", "rename", "done", "aborted"}]
      /\ snapshot' \in [Tool -> {Absent, Corrupt} \cup Index]
      /\ todo' \in [Tool -> SUBSET Session]
      /\ deltas' \in [Tool -> SUBSET Session]
  <2>1. CASE Survey(t)
    BY <1>1, <2>1 DEF Survey, Goto, ToolTypeOK, TypeOK
  <2>2. ASSUME NEW s \in Session, Visit(t, s) PROVE <1>5!1 /\ <1>5!2 /\ <1>5!3 /\ <1>5!4
    BY <1>1, <2>2 DEF Visit, ToolTypeOK
  <2>3. CASE EndWalk(t)
    BY <1>1, <2>3 DEF EndWalk, Goto, ToolTypeOK
  <2>4. CASE Validate(t)
    <3>1. phase' \in [Tool -> {"survey", "walk", "patch", "commit", "compare", "rename", "done", "aborted"}]
      BY <1>1, <2>4 DEF Validate, Goto, ToolTypeOK
    <3>2. snapshot' \in [Tool -> {Absent, Corrupt} \cup Index]
      BY <1>1, <2>4 DEF Validate, ToolTypeOK, TypeOK
    <3>3. QED
      BY <1>1, <2>4, <3>1, <3>2 DEF Validate, ToolTypeOK
  <2>5. QED
    BY <2>1, <2>2, <2>3, <2>4
<1>6. /\ patch' \in [Tool -> {<<>>} \cup (Session \X State)]
      /\ \A u \in Tool : phase'[u] = "patch" => patch'[u] \in Session \X State
  <2> DEFINE Goal == /\ patch' \in [Tool -> {<<>>} \cup (Session \X State)]
                     /\ \A u \in Tool : phase'[u] = "patch" => patch'[u] \in Session \X State
  <2>1. ASSUME NEW s \in Session, Visit(t, s), Readable(state[s]) /\ Fillable(state[s]) PROVE Goal
    <3>a. state[s] \in State
      BY <1>1, <2>1 DEF TypeOK, Readable
    <3>1. [state[s] EXCEPT !.parent = Desired] \in State
      BY <3>a, ToolAssumption DEF State
    <3>2. <<s, [state[s] EXCEPT !.parent = Desired]>> \in Session \X State
      BY <3>1
    <3>3. patch' = [patch EXCEPT ![t] = <<s, [state[s] EXCEPT !.parent = Desired]>>]
          /\ phase' = [phase EXCEPT ![t] = "patch"]
      BY <2>1 DEF Visit
    <3>4. QED
      BY <1>1, <3>2, <3>3 DEF ToolTypeOK, InHand
  <2>2. ASSUME NEW s \in Session, Visit(t, s), ~(Readable(state[s]) /\ Fillable(state[s])) PROVE Goal
    <3>1. UNCHANGED <<phase, patch>>
      BY <2>2 DEF Visit
    <3>2. QED
      BY <1>1, <3>1 DEF ToolTypeOK, InHand
  <2>3. CASE Survey(t) \/ EndWalk(t) \/ Validate(t)
    <3>1. patch' = patch /\ \A u \in Tool : phase'[u] = "patch" => phase[u] = "patch"
      BY <1>1, <2>3 DEF Survey, EndWalk, Validate, Goto, ToolTypeOK
    <3>2. QED
      BY <1>1, <3>1 DEF ToolTypeOK, InHand
  <2>4. QED
    BY <2>1, <2>2, <2>3
<1>7. ToolTypeOK'
  BY <1>1, <1>2, <1>4, <1>5, <1>6 DEF ToolTypeOK
<1>8. \A u \in Tool : Committing(u)' => Committing(u) /\ phase'[u] = phase[u]
  BY <1>1 DEF Survey, Visit, EndWalk, Validate, Goto, ToolTypeOK, Committing
<1>9. InHand'
  BY <1>2, <1>6, <1>8 DEF InHand, MergeKeeps, Fillable
<1>10. CorruptAlone'
  BY <1>3, <1>8 DEF CorruptAlone, vars
<1>11. WritersAreCurrent'
  BY <1>2, <1>3, <1>7, <1>8 DEF WritersAreCurrent, vars, Committing, EntriesOf, Readable
<1>12. QED
  BY <1>3, <1>4, <1>9, <1>10, <1>11 DEF vars

(* What backfill's patch and the fixture tool's directories put on file is *)
(* of its type, and index.json is none of it.                              *)
LEMMA StoreInv ==
  ASSUME ToolIInv, NEW t \in Tool, Patch(t) \/ Directories(t)
  PROVE  ToolIInv' /\ index' = index
<1> USE DEF ToolIInv
<1>1. TypeOK /\ Prepared /\ ToolTypeOK
  BY DEF WritersAreCurrent, ToolTypeOK
<1>2. UNCHANGED <<arg, index, holder, stage, step, idxBuf, stBuf, result, overlapped,
                  kind, snapshot, todo, deltas, base, merged, attempt, raced>>
  BY DEF Patch, Directories
<1>3. state' \in [Session -> {Absent, Corrupt} \cup State]
  <2>1. CASE Patch(t)
    <3>1. patch[t] \in Session \X State
      BY <2>1 DEF Patch, Goto, InHand
    <3>2. patch[t][1] \in Session /\ patch[t][2] \in State
      BY <3>1
    <3>3. QED
      BY <1>1, <2>1, <3>2 DEF Patch, TypeOK
  <2>2. CASE Directories(t)
    <3>1. FixtureState \in State
      BY ParentAssumption DEF FixtureState, State
    <3>2. QED
      BY <1>1, <2>2, <3>1 DEF Directories, TypeOK
  <2>3. QED
    BY <2>1, <2>2
<1>4. events' \in [Session -> Seq(Status \cup {OldStatus, NoStatus})]
  <2>1. CASE Patch(t)
    BY <1>1, <2>1 DEF Patch, TypeOK
  <2>2. CASE Directories(t)
    <3>1. <<OldStatus>> \in Seq(Status \cup {OldStatus, NoStatus}) /\ <<>> \in Seq(Status \cup {OldStatus, NoStatus})
      OBVIOUS
    <3>2. QED
      BY <1>1, <2>2, <3>1 DEF Directories, TypeOK
  <2>3. QED
    BY <2>1, <2>2
<1>5. TypeOK' /\ Prepared'
  BY <1>1, <1>2, <1>3, <1>4 DEF TypeOK, Prepared, At
<1>6. /\ phase' \in [Tool -> {"survey", "walk", "patch", "commit", "compare", "rename", "done", "aborted"}]
      /\ \A u \in Tool : phase'[u] = phase[u] \/ phase'[u] \in {"walk", "commit", "done"}
  BY <1>1 DEF Patch, Directories, Goto, ToolTypeOK
<1>7. /\ patch' \in [Tool -> {<<>>} \cup (Session \X State)]
      /\ \A u \in Tool : phase'[u] = "patch" => patch'[u] \in Session \X State
  <2>1. CASE Patch(t)
    <3>1. patch' = [patch EXCEPT ![t] = <<>>] /\ phase' = [phase EXCEPT ![t] = "walk"]
      BY <2>1 DEF Patch, Goto
    <3>2. patch' \in [Tool -> {<<>>} \cup (Session \X State)]
      BY <1>1, <3>1, Zenon DEF ToolTypeOK
    <3>3. QED
      BY <1>1, <3>1, <3>2 DEF ToolTypeOK, InHand
  <2>2. CASE Directories(t)
    BY <1>1, <1>6, <2>2 DEF Directories, ToolTypeOK, InHand
  <2>3. QED
    BY <2>1, <2>2
<1>8. ToolTypeOK'
  BY <1>1, <1>2, <1>5, <1>6, <1>7 DEF ToolTypeOK
<1>9. InHand'
  BY <1>2, <1>6, <1>7 DEF InHand, MergeKeeps, Committing, Fillable
<1>10. CorruptAlone'
  BY <1>2, <1>6 DEF CorruptAlone, Committing
<1>11. WritersAreCurrent'
  BY <1>2, <1>6, <1>8 DEF WritersAreCurrent, EntriesOf, Readable
<1>12. QED
  BY <1>2, <1>5, <1>9, <1>10, <1>11

(* What a tool merges onto a fresh read keeps what it has to keep.         *)
LEMMA CommitReadInv ==
  ASSUME ToolIInv, NEW t \in Tool, CommitRead(t)
  PROVE  ToolIInv' /\ index' = index
<1> USE DEF ToolIInv
<1>1. TypeOK /\ Prepared /\ ToolTypeOK
  BY DEF WritersAreCurrent, ToolTypeOK
<1>2. UNCHANGED <<logVars, kind, snapshot, todo, patch, deltas, attempt, raced>>
  BY DEF CommitRead
<1>3. UNCHANGED vars
  BY <1>2 DEF logVars
<1>4. TypeOK' /\ Prepared'
  BY <1>1, <1>3, TypeStep
<1> DEFINE new == Merge(t, EntriesOf(index))
<1>5. /\ new \in Index
      /\ \A s \in DOMAIN EntriesOf(index) \ Fixture :
           /\ s \in DOMAIN new
           /\ new[s].status = EntriesOf(index)[s].status
           /\ ~Fillable(EntriesOf(index)[s]) => new[s].parent = EntriesOf(index)[s].parent
  <2>1. EntriesOf(index) \in Index
    BY <1>1, EntriesShape DEF TypeOK
  <2>2. CASE kind[t] = "backfill"
    BY <2>1, <2>2, BackfillShape DEF Merge
  <2>3. CASE kind[t] # "backfill"
    BY <2>1, <2>3, FixtureShape DEF Merge
  <2>4. QED
    BY <2>2, <2>3
<1> HIDE DEF new
<1>6. CASE Unusable(t)
  <2>1. UNCHANGED <<base, merged>> /\ phase' = [phase EXCEPT ![t] = "aborted"]
    BY <1>6 DEF CommitRead
  <2>2. ToolTypeOK'
    BY <1>1, <1>2, <1>4, <2>1 DEF ToolTypeOK
  <2>3. InHand'
    BY <1>1, <1>2, <2>1 DEF InHand, MergeKeeps, Committing, Fillable, ToolTypeOK
  <2>4. CorruptAlone' /\ WritersAreCurrent'
    BY <1>1, <1>2, <1>3, <2>1, <2>2
       DEF CorruptAlone, WritersAreCurrent, Committing, ToolTypeOK, vars, EntriesOf, Readable
  <2>5. QED
    BY <1>3, <1>4, <2>3, <2>4 DEF vars
<1>7. CASE ~Unusable(t)
  <2>1. /\ phase' = [phase EXCEPT ![t] = IF new = index THEN "done" ELSE "compare"]
        /\ base' = [base EXCEPT ![t] = index]
        /\ merged' = [merged EXCEPT ![t] = new]
    BY <1>7 DEF CommitRead, new
  <2>2. index # Corrupt /\ index \in {Absent} \cup Index
    BY <1>1, <1>7 DEF Unusable, TypeOK
  <2>3. base' \in [Tool -> {Absent} \cup Index] /\ base'[t] = index
    BY <1>1, <2>1, <2>2 DEF ToolTypeOK
  <2>4. merged' \in [Tool -> {Absent} \cup Index] /\ merged'[t] = new
    BY <1>1, <1>5, <2>1 DEF ToolTypeOK
  <2>5. \A u \in Tool \ {t} : UNCHANGED <<phase[u], base[u], merged[u]>>
    BY <1>1, <2>1 DEF ToolTypeOK
  <2>6. /\ phase' \in [Tool -> {"survey", "walk", "patch", "commit", "compare", "rename", "done", "aborted"}]
        /\ phase'[t] \in {"done", "compare"}
    BY <1>1, <2>1 DEF ToolTypeOK
  <2>7. ToolTypeOK'
    BY <1>1, <1>2, <1>4, <2>3, <2>4, <2>6 DEF ToolTypeOK
  <2>8. MergeKeeps(t)'
    <3>1. \A s \in DOMAIN EntriesOf(index) : EntriesOf(index)[s] = index[s]
      BY <1>1, EntriesShape, EmptyIndex DEF TypeOK, EntriesOf
    <3>2. QED
      BY <1>5, <2>3, <2>4, <3>1 DEF MergeKeeps, EntriesOf, Fillable, Readable
  <2>9. InHand'
    <3>1. ASSUME NEW u \in Tool \ {t} PROVE MergeKeeps(u)' = MergeKeeps(u)
      BY <2>5 DEF MergeKeeps, EntriesOf, Readable, Fillable
    <3>2. QED
      BY <1>2, <1>5, <2>4, <2>5, <2>6, <2>8, <3>1 DEF InHand, Committing
  <2>10. CorruptAlone'
    BY <1>3, <2>2 DEF CorruptAlone, vars
  <2>11. WritersAreCurrent'
    BY <1>2, <1>3, <2>5, <2>6, <2>7 DEF WritersAreCurrent, vars, EntriesOf, Readable
  <2>12. QED
    BY <1>3, <1>4, <2>9, <2>10, <2>11 DEF vars
<1>8. QED
  BY <1>6, <1>7

(* The last look lets a tool on only if nothing has changed.               *)
LEMMA CompareInv ==
  ASSUME ToolIInv, NEW t \in Tool, Compare(t)
  PROVE  ToolIInv' /\ index' = index
<1> USE DEF ToolIInv
<1>1. TypeOK /\ Prepared /\ ToolTypeOK
  BY DEF WritersAreCurrent, ToolTypeOK
<1>2. UNCHANGED <<logVars, kind, snapshot, todo, patch, deltas, base, merged, raced>>
  BY DEF Compare
<1>3. UNCHANGED vars
  BY <1>2 DEF logVars
<1>4. TypeOK' /\ Prepared'
  BY <1>1, <1>3, TypeStep
<1>5. /\ phase' \in [Tool -> {"survey", "walk", "patch", "commit", "compare", "rename", "done", "aborted"}]
      /\ \A u \in Tool \ {t} : phase'[u] = phase[u]
      /\ phase[t] = "compare" /\ phase'[t] \in {"rename", "commit", "aborted"}
      /\ phase'[t] = "rename" => base[t] = index
  BY <1>1 DEF Compare, ToolTypeOK
<1>6. attempt' \in [Tool -> 1..Attempts]
  <2>1. Attempts \in Nat /\ attempt[t] \in 1..Attempts
    BY <1>1, ToolAssumption DEF ToolTypeOK
  <2>2. (IF attempt[t] = Attempts THEN attempt[t] ELSE attempt[t] + 1) \in 1..Attempts
    BY <2>1
  <2>3. \/ attempt' = attempt
        \/ attempt' = [attempt EXCEPT ![t] = IF attempt[t] = Attempts THEN attempt[t] ELSE attempt[t] + 1]
    BY DEF Compare
  <2>4. QED
    BY <1>1, <2>2, <2>3 DEF ToolTypeOK
<1>7. ToolTypeOK'
  BY <1>1, <1>2, <1>4, <1>5, <1>6 DEF ToolTypeOK
<1>8. InHand'
  BY <1>2, <1>5 DEF InHand, MergeKeeps, Committing, Fillable
<1>9. CorruptAlone'
  BY <1>3, <1>5 DEF CorruptAlone, Committing, vars
<1>10. WritersAreCurrent'
  BY <1>2, <1>3, <1>5, <1>7 DEF WritersAreCurrent, vars, EntriesOf, Readable
<1>11. QED
  BY <1>3, <1>4, <1>8, <1>9, <1>10 DEF vars

(* A tool renames what it has merged over an index it could read.          *)
LEMMA RenameInv ==
  ASSUME ToolIInv, NEW t \in Tool, Rename(t)
  PROVE  /\ ToolIInv'
         /\ index # Corrupt /\ index' = merged[t] /\ index' \in Index /\ MergeKeeps(t)
         /\ ~raced => base[t] = index
<1> USE DEF ToolIInv
<1>1. TypeOK /\ Prepared /\ ToolTypeOK
  BY DEF WritersAreCurrent, ToolTypeOK
<1>2. UNCHANGED <<arg, events, state, holder, stage, step, idxBuf, stBuf, result, overlapped,
                  kind, snapshot, todo, patch, deltas, base, merged, attempt>>
  BY DEF Rename
<1>3. phase[t] = "rename" /\ phase' = [phase EXCEPT ![t] = "done"] /\ index' = merged[t]
  BY DEF Rename, Goto
<1>4. index # Corrupt /\ index' \in Index /\ MergeKeeps(t) /\ (~raced => base[t] = index)
  BY <1>1, <1>3 DEF CorruptAlone, InHand, Committing, WritersAreCurrent, ToolTypeOK
<1>5. TypeOK' /\ Prepared'
  BY <1>1, <1>2, <1>4 DEF TypeOK, Prepared, At
<1>6. ToolTypeOK'
  BY <1>1, <1>2, <1>3, <1>5 DEF ToolTypeOK, Rename
<1>7. InHand'
  BY <1>1, <1>2, <1>3 DEF InHand, MergeKeeps, Committing, Fillable, ToolTypeOK
<1>8. CorruptAlone'
  BY <1>4, ContentAssumption DEF CorruptAlone
<1>9. WritersAreCurrent'
  BY <1>6 DEF Rename, WritersAreCurrent, InWindow
<1>10. QED
  BY <1>3, <1>4, <1>5, <1>7, <1>8, <1>9

-----------------------------------------------------------------------------
(* The tools and the calls among them keep the whole invariant.            *)
LEMMA ToolStepInv == ToolIInv /\ [ToolNext]_allVars => ToolIInv'
<1> SUFFICES ASSUME ToolIInv, [ToolNext]_allVars PROVE ToolIInv'
  OBVIOUS
<1>1. CASE LogStep
  BY <1>1, LogStepInv
<1>2. ASSUME NEW t \in Tool, ToolStep(t) PROVE ToolIInv'
  BY <1>2, PrepareInv, StoreInv, CommitReadInv, CompareInv, RenameInv DEF ToolStep
<1>3. CASE UNCHANGED allVars
  <2>1. UNCHANGED vars /\ UNCHANGED toolVars /\ raced' = raced
    BY <1>3 DEF allVars, logVars
  <2>2. LogStep \/ ToolIInv'
    BY <2>1 DEF vars, toolVars, ToolIInv, WritersAreCurrent, ToolTypeOK, TypeOK, Prepared, At, InHand,
                Committing, MergeKeeps, Fillable, EntriesOf, Readable, CorruptAlone
  <2>3. QED
    BY <2>2, LogStepInv
<1>4. QED
  BY <1>1, <1>2, <1>3 DEF ToolNext

(* The inductive invariant of tools and calls together.                    *)
THEOREM ToolInvariance == ToolSpec => []ToolIInv
  BY ToolInitInv, ToolStepInv, PTL DEF ToolSpec

(* Whoever is about to write index.json, tool or call, has merged onto     *)
(* what is there, unless a write has fallen into the gap before a rename.  *)
THEOREM CurrentTheorem == ToolSpec => []WritersAreCurrent
<1>1. ToolIInv => WritersAreCurrent
  BY DEF ToolIInv
<1>2. QED
  BY <1>1, ToolInvariance, PTL

(* Nobody writes over an index that cannot be trusted; and short of such a *)
(* race no tool unregisters a session, changes a status or replaces a      *)
(* parent on record.                                                       *)
THEOREM KeepTheorem == ToolSpec => ToolsKeepEntries
<1> DEFINE A == /\ index = Corrupt => index' = Corrupt
                /\ \A t \in Tool : Rename(t) /\ ~raced =>
                     \A s \in DOMAIN EntriesOf(index) \ Fixture :
                       /\ s \in DOMAIN index'
                       /\ index'[s].status = index[s].status
                       /\ ~Fillable(index[s]) => index'[s].parent = index[s].parent
<1>1. ToolIInv /\ [ToolNext]_allVars => [A]_allVars
  <2> SUFFICES ASSUME ToolIInv, ToolNext PROVE A
    OBVIOUS
  <2>1. index = Corrupt => index' = Corrupt
    <3>1. CASE LogStep
      BY <3>1, LogStepInv
    <3>2. ASSUME NEW t \in Tool, ToolStep(t) PROVE index # Corrupt \/ index' = index
      BY <3>2, PrepareInv, StoreInv, CommitReadInv, CompareInv, RenameInv DEF ToolStep
    <3>3. QED
      BY <3>1, <3>2 DEF ToolNext
  <2>2. ASSUME NEW t \in Tool, Rename(t), ~raced
        PROVE  \A s \in DOMAIN EntriesOf(index) \ Fixture :
                 /\ s \in DOMAIN index'
                 /\ index'[s].status = index[s].status
                 /\ ~Fillable(index[s]) => index'[s].parent = index[s].parent
    BY <2>2, RenameInv DEF MergeKeeps
  <2>3. QED
    BY <2>1, <2>2
<1>2. QED
  BY <1>1, ToolInvariance, PTL DEF ToolSpec, ToolsKeepEntries

-----------------------------------------------------------------------------
(* What a tool has merged, by what it is.                                  *)
Filled(idx, S) == [s \in DOMAIN idx |-> IF s \in S THEN [idx[s] EXCEPT !.parent = Desired] ELSE idx[s]]

MergedByKind(t) ==
  IF kind[t] = "backfill"
  THEN \E S \in SUBSET Session :
         /\ \A s \in S : s \in DOMAIN base[t] /\ Fillable(base[t][s])
         /\ merged[t] = Filled(base[t], S)
  ELSE merged[t] = FixtureMerge(t, EntriesOf(base[t]))

(* Backfill comes to the index only with an entry to fill in, which it has *)
(* seen there; clean comes only to an index that was there.                *)
Chose(t) ==
  /\ phase[t] = "survey" => deltas[t] = {}
  /\ deltas[t] \subseteq DOMAIN EntriesOf(snapshot[t])
  /\ phase[t] \in {"commit", "compare", "rename"} =>
       /\ kind[t] = "backfill" => deltas[t] # {}
       /\ kind[t] = "clean" => snapshot[t] # Absent
  /\ Committing(t) =>
       /\ base[t] = Absent => snapshot[t] = Absent
       /\ merged[t] # base[t]
       /\ MergedByKind(t)

AllChose == \A t \in Tool : Chose(t)

(* It keeps what it has chosen, and what it has merged, until it reads     *)
(* the index again.                                                        *)
LEMMA ChoiceKept ==
  ASSUME NEW t \in Tool, Chose(t),
         UNCHANGED <<kind[t], snapshot[t], deltas[t], base[t], merged[t]>>,
         \/ phase'[t] = phase[t]
         \/ phase'[t] \in {"walk", "patch", "done", "aborted"}
         \/ phase[t] = "compare" /\ phase'[t] \in {"rename", "commit"}
  PROVE  Chose(t)'
<1>1. MergedByKind(t)' = MergedByKind(t)
  BY DEF MergedByKind, Filled, FixtureMerge, FixtureEntry, Fillable, EntriesOf, Readable
<1>2. (DOMAIN EntriesOf(snapshot[t]))' = DOMAIN EntriesOf(snapshot[t])
  BY DEF EntriesOf, Readable
<1>3. QED
  BY <1>1, <1>2 DEF Chose, Committing

(* What it merges onto a fresh read is of its kind.                        *)
LEMMA FreshMerge ==
  ASSUME ToolTypeOK, NEW t \in Tool, Chose(t), phase[t] = "commit", ~Unusable(t),
         base'[t] = index, merged'[t] = Merge(t, EntriesOf(index)), kind'[t] = kind[t]
  PROVE  MergedByKind(t)'
<1>1. CASE kind[t] = "backfill"
  <2>1. snapshot[t] # Absent
    BY <1>1, EmptyIndex DEF Chose, EntriesOf, Readable
  <2>2. index \in Index /\ EntriesOf(index) = index
    BY <2>1, EntriesShape DEF Unusable, ToolTypeOK, TypeOK
  <2>3. merged'[t] = Filled(index, Applied(t, index))
    BY <1>1, <2>2 DEF Merge, BackfillMerge, Filled
  <2>4. Applied(t, index) \in SUBSET Session
    BY <2>2, IndexShape DEF Applied
  <2>5. \A s \in Applied(t, index) : s \in DOMAIN index /\ Fillable(index[s])
    BY DEF Applied
  <2> DEFINE S == Applied(t, index)
  <2> HIDE DEF S
  <2>6. S \in SUBSET Session /\ merged'[t] = Filled(index, S)
        /\ \A s \in S : s \in DOMAIN index /\ Fillable(index[s])
    BY <2>3, <2>4, <2>5 DEF S
  <2>7. QED
    BY <1>1, <2>6 DEF MergedByKind, Filled, Fillable
<1>2. CASE kind[t] # "backfill"
  BY <1>2 DEF MergedByKind, Merge, FixtureMerge, FixtureEntry, EntriesOf, Readable
<1>3. QED
  BY <1>1, <1>2

LEMMA ChoiceStep ==
  ASSUME ToolIInv, AllChose, ToolNext
  PROVE  AllChose'
<1> SUFFICES ASSUME NEW u \in Tool PROVE Chose(u)'
  BY DEF AllChose
<1>1. ToolTypeOK /\ Chose(u)
  BY DEF ToolIInv, WritersAreCurrent, AllChose
<1>2. CASE LogStep
  BY <1>1, <1>2, ChoiceKept DEF LogStep, toolVars
<1>3. ASSUME NEW t \in Tool, ToolStep(t), u # t PROVE Chose(u)'
  <2>1. UNCHANGED <<kind[u], snapshot[u], deltas[u], base[u], merged[u], phase[u]>>
    BY <1>1, <1>3 DEF ToolTypeOK, ToolStep, Survey, Visit, Patch, EndWalk, Validate, Directories,
                      CommitRead, Compare, Rename, Goto
  <2>2. QED
    BY <1>1, <2>1, ChoiceKept
<1>4. CASE Patch(u) \/ Compare(u) \/ Rename(u)
  <2>1. UNCHANGED <<kind[u], snapshot[u], deltas[u], base[u], merged[u]>>
    BY <1>4 DEF Patch, Compare, Rename
  <2>2. \/ phase'[u] \in {"walk", "done", "aborted"}
        \/ phase[u] = "compare" /\ phase'[u] \in {"rename", "commit"}
    BY <1>1, <1>4 DEF ToolTypeOK, Patch, Compare, Rename, Goto
  <2>3. QED
    BY <1>1, <2>1, <2>2, ChoiceKept
<1>5. CASE Survey(u) \/ Validate(u)
  <2>1. deltas'[u] = {} /\ phase'[u] \in {"walk", "aborted"}
    BY <1>1, <1>5 DEF ToolTypeOK, Survey, Validate, Goto, Chose
  <2>2. QED
    BY <2>1 DEF Chose, Committing
<1>6. ASSUME NEW s \in Session, Visit(u, s) PROVE Chose(u)'
  <2>1. snapshot'[u] = snapshot[u] /\ phase'[u] \in {"walk", "patch"}
        /\ deltas'[u] \subseteq deltas[u] \cup DOMAIN EntriesOf(snapshot[u])
    BY <1>1, <1>6 DEF ToolTypeOK, Visit
  <2>2. DOMAIN EntriesOf(snapshot'[u]) = DOMAIN EntriesOf(snapshot[u])
    BY <2>1
  <2>3. deltas'[u] \subseteq DOMAIN EntriesOf(snapshot'[u])
    BY <1>1, <2>1, <2>2 DEF Chose
  <2>4. QED
    BY <2>1, <2>3 DEF Chose, Committing, EntriesOf, Readable
<1>7. CASE EndWalk(u) \/ Directories(u)
  <2>1. /\ UNCHANGED <<kind[u], snapshot[u], deltas[u]>>
        /\ \/ phase'[u] = "done"
           \/ /\ phase'[u] = "commit"
              /\ kind[u] = "backfill" => deltas[u] # {}
              /\ kind[u] = "clean" => snapshot[u] # Absent
    BY <1>1, <1>7 DEF ToolTypeOK, EndWalk, Directories, Goto
  <2>2. (DOMAIN EntriesOf(snapshot[u]))' = DOMAIN EntriesOf(snapshot[u])
    BY <2>1 DEF EntriesOf, Readable
  <2>3. QED
    BY <1>1, <2>1, <2>2 DEF Chose, Committing
<1>8. CASE CommitRead(u)
  <2>1. CASE Unusable(u)
    BY <1>1, <1>8, <2>1, ChoiceKept DEF CommitRead, ToolTypeOK
  <2>2. CASE ~Unusable(u)
    <3> DEFINE new == Merge(u, EntriesOf(index))
    <3>1. /\ phase[u] = "commit" /\ UNCHANGED <<kind, snapshot, deltas>>
          /\ phase' = [phase EXCEPT ![u] = IF new = index THEN "done" ELSE "compare"]
          /\ base' = [base EXCEPT ![u] = index]
          /\ merged' = [merged EXCEPT ![u] = new]
      BY <1>8, <2>2 DEF CommitRead
    <3> HIDE DEF new
    <3>2. phase'[u] = (IF new = index THEN "done" ELSE "compare") /\ base'[u] = index /\ merged'[u] = new
      BY <1>1, <3>1 DEF ToolTypeOK
    <3>3. MergedByKind(u)'
      BY <1>1, <2>2, <3>1, <3>2, FreshMerge DEF new
    <3>4. index = Absent => snapshot[u] = Absent
      BY <2>2 DEF Unusable
    <3>5. (DOMAIN EntriesOf(snapshot[u]))' = DOMAIN EntriesOf(snapshot[u])
      BY <3>1 DEF EntriesOf, Readable
    <3>6. QED
      BY <1>1, <3>1, <3>2, <3>3, <3>4, <3>5 DEF Chose, Committing
  <2>3. QED
    BY <2>1, <2>2
<1>9. QED
  BY <1>2, <1>3, <1>4, <1>5, <1>6, <1>7, <1>8 DEF ToolNext, ToolStep

-----------------------------------------------------------------------------
(* Entries and indexes are what the registry takes them for.               *)
LEMMA RegTypes == Reg!Index = Index
  BY DEF Reg!Index, Reg!Entry, Index, Entry

(* A call that writes what it has read sets a status in the registry.      *)
LEMMA CallUpdates ==
  ASSUME ToolIInv, NEW c \in Caller, WriteIndex(c)
  PROVE  Reg!Update
<1>1. /\ arg[c].session \in Session /\ arg[c].status \in Status /\ idxBuf[c] \in Index
      /\ index # Corrupt
      /\ index' = WithStatus(idxBuf[c], arg[c].session, arg[c].status)
  BY DEF ToolIInv, WritersAreCurrent, ToolTypeOK, TypeOK, Arg, Prepared, WriteIndex, At, CorruptAlone
<1>2. CASE raced
  <2>1. index' \in Index
    BY <1>1, WithStatusShape
  <2>2. QED
    BY <1>1, <1>2, <2>1, RegTypes DEF Reg!Update, Reg!Lose
<1>3. CASE ~raced
  <2>1. idxBuf[c] = Reg!Known
    BY <1>1, <1>3, EntriesShape
       DEF ToolIInv, WritersAreCurrent, ToolTypeOK, TypeOK, WriteIndex, At, EntriesOf, Readable, Reg!Known
  <2>2. Reg!Known \in Index
    BY <1>1, <2>1
  <2>3. ASSUME NEW s \in Session, NEW st \in Status
        PROVE  WithStatus(Reg!Known, s, st) =
                 [t \in DOMAIN Reg!Known \cup {s} |->
                   IF t # s THEN Reg!Known[t]
                   ELSE [status |-> st, parent |-> IF s \in DOMAIN Reg!Known THEN Reg!Known[s].parent ELSE NoParent]]
    <3>1. s \in DOMAIN Reg!Known => Reg!Known[s] \in Entry
      BY <2>2, IndexShape
    <3>2. s \in DOMAIN Reg!Known =>
            [Reg!Known[s] EXCEPT !.status = st] = [status |-> st, parent |-> Reg!Known[s].parent]
      BY <3>1 DEF Entry
    <3>3. QED
      BY <3>2 DEF WithStatus
  <2>4. Reg!SetStatus(arg[c].session, arg[c].status)
    BY <1>1, <2>1, <2>3 DEF Reg!SetStatus
  <2>5. QED
    BY <1>1, <2>4 DEF Reg!Update
<1>4. QED
  BY <1>2, <1>3

(* A tool that renames what it merged fills in parents or changes the      *)
(* fixtures.                                                               *)
LEMMA ToolUpdates ==
  ASSUME ToolIInv, AllChose, NEW t \in Tool, Rename(t)
  PROVE  Reg!Update
<1>1. /\ index # Corrupt /\ index' = merged[t] /\ index' \in Index
      /\ ~raced => base[t] = index
  BY RenameInv
<1>2. CASE raced
  BY <1>1, <1>2, RegTypes DEF Reg!Update, Reg!Lose
<1>3. CASE ~raced
  <2>1. /\ base[t] = index /\ merged[t] # index /\ MergedByKind(t)
        /\ index = Absent => snapshot[t] = Absent
        /\ kind[t] = "backfill" => deltas[t] # {}
        /\ kind[t] = "clean" => snapshot[t] # Absent
        /\ deltas[t] \subseteq DOMAIN EntriesOf(snapshot[t])
        /\ kind[t] \in {"backfill", "create", "clean"}
    BY <1>1, <1>3, ToolAssumption
       DEF AllChose, Chose, Committing, Rename, Goto, ToolIInv, WritersAreCurrent, ToolTypeOK
  <2>2. index \in {Absent} \cup Index
    BY <1>1 DEF ToolIInv, WritersAreCurrent, ToolTypeOK, TypeOK
  <2>3. EntriesOf(index) = Reg!Known
    BY <1>1, <2>2, EntriesShape DEF EntriesOf, Readable, Reg!Known
  <2>4. CASE kind[t] = "backfill"
    <3>1. index # Absent
      BY <2>1, <2>4, EmptyIndex DEF EntriesOf, Readable
    <3>2. PICK S \in SUBSET Session : /\ \A s \in S : s \in DOMAIN index /\ Fillable(index[s])
                                      /\ index' = Filled(index, S)
      BY <1>1, <2>1, <2>4 DEF MergedByKind
    <3>3. index \in [DOMAIN index -> Entry]
      BY <2>2, <3>1, IndexShape
    <3>4. S # {}
      BY <1>1, <2>1, <3>2, <3>3 DEF Filled
    <3>5. \A s \in S : index[s].parent \in {p \in Parent : Fillable([parent |-> p])}
      BY <3>2, <3>3 DEF Fillable, Entry
    <3>6. Reg!Fill(S)
      BY <1>1, <3>1, <3>2, <3>4, <3>5 DEF Reg!Fill, Filled
    <3>7. QED
      BY <3>6 DEF Reg!Update
  <2>5. CASE kind[t] = "create"
    <3>1. index' = FixtureMerge(t, Reg!Known)
      BY <1>1, <2>1, <2>3, <2>5 DEF MergedByKind
    <3>2. FixtureMerge(t, Reg!Known) =
            [s \in DOMAIN Reg!Known \cup Fixture |->
               IF s \in Fixture THEN [status |-> OldStatus, parent |-> NoParent] ELSE Reg!Known[s]]
      BY <2>5 DEF FixtureMerge, FixtureEntry
    <3>3. QED
      BY <1>1, <3>1, <3>2 DEF Reg!CreateFixtures, Reg!Update
  <2>6. CASE kind[t] = "clean"
    <3>1. index # Absent /\ EntriesOf(index) = index
      BY <2>1, <2>2, <2>6, EntriesShape
    <3>2. index' = FixtureMerge(t, index)
      BY <1>1, <2>1, <2>6, <3>1 DEF MergedByKind
    <3>3. FixtureMerge(t, index) = [s \in DOMAIN index \ Fixture |-> index[s]]
      BY <2>6 DEF FixtureMerge
    <3>4. QED
      BY <1>1, <3>1, <3>2, <3>3 DEF Reg!CleanFixtures, Reg!Update
  <2>7. QED
    BY <2>1, <2>4, <2>5, <2>6
<1>4. QED
  BY <1>2, <1>3

(* Every other step leaves the index, and the race, as they are. *)
LEMMA RegistryStep ==
  ASSUME ToolIInv, AllChose, [ToolNext]_allVars
  PROVE  [Reg!Next]_Reg!vars
<1>1. raced' \in {raced, TRUE}
  <2>1. raced \in BOOLEAN
    BY DEF ToolIInv, WritersAreCurrent, ToolTypeOK
  <2>2. QED
    BY <2>1 DEF ToolNext, LogStep, ToolStep, Survey, Visit, Patch, EndWalk, Validate, Directories,
                CommitRead, Compare, Rename, allVars, InWindow
<1>2. CASE LogStep
  <2>1. CASE index' = index
    BY <1>2, <2>1 DEF LogStep, Reg!vars, ToolIInv, WritersAreCurrent, ToolTypeOK
  <2>2. CASE index' # index
    <3>1. PICK c \in Caller : WriteIndex(c)
      BY <1>2, <2>2, Writers DEF LogStep, ToolIInv, WritersAreCurrent, ToolTypeOK
    <3>2. QED
      BY <1>1, <3>1, CallUpdates DEF Reg!Next
  <2>3. QED
    BY <2>1, <2>2
<1>3. ASSUME NEW t \in Tool, Rename(t) PROVE [Reg!Next]_Reg!vars
  BY <1>1, <1>3, ToolUpdates DEF Reg!Next
<1>4. ASSUME NEW t \in Tool, ToolStep(t), ~Rename(t) PROVE UNCHANGED Reg!vars
  BY <1>4 DEF ToolStep, Survey, Visit, Patch, EndWalk, Validate, Directories, CommitRead, Compare,
              logVars, vars, Reg!vars
<1>5. CASE UNCHANGED allVars
  BY <1>5 DEF allVars, logVars, vars, Reg!vars
<1>6. QED
  BY <1>2, <1>3, <1>4, <1>5 DEF ToolNext

(* Calls and tools implement a registry that each of them updates in one   *)
(* step, until a write falls into the gap before a rename; for any number  *)
(* of both.                                                                *)
THEOREM RegistryTheorem == ToolSpec => UpdatesAreSingle
<1>1. ToolInit => Reg!Init
  <2>1. ToolInit => index \in {Absent, Corrupt} \cup Index
    BY TypeInit DEF ToolInit, TypeOK
  <2>2. QED
    BY <2>1, RegTypes DEF ToolInit, Reg!Init
<1>2. ToolInit => AllChose
  BY DEF ToolInit, AllChose, Chose, Committing
<1>3. ToolIInv /\ AllChose /\ [ToolNext]_allVars => AllChose'
  <2>1. ASSUME ToolIInv, AllChose, UNCHANGED allVars PROVE AllChose'
    BY <2>1, ChoiceKept DEF allVars, toolVars, AllChose
  <2>2. QED
    BY <2>1, ChoiceStep
<1>4. ToolIInv /\ AllChose /\ [ToolNext]_allVars => [Reg!Next]_Reg!vars
  BY RegistryStep
<1>5. QED
  BY <1>1, <1>2, <1>3, <1>4, ToolInvariance, PTL DEF ToolSpec, UpdatesAreSingle, Reg!Spec

=============================================================================
