------------------------------ MODULE LogEvent ------------------------------
(***************************************************************************)
(* scripts/_log-event.mjs: a call appends one event to a session's         *)
(* events.jsonl and, when it is given a --status, rewrites that status in  *)
(* the shared index.json and then in the session's state.json, each under  *)
(* the lock of that file.                                                  *)
(*                                                                         *)
(* A lock is taken and given back whole here.  What the lock file itself   *)
(* goes through is the subject of LockedJson, whose theorems say when that *)
(* is sound: while no live holder is pre-empted.                           *)
(***************************************************************************)
EXTENDS Naturals, Sequences

CONSTANTS
  Caller,          \* the calls, one per process
  Session,
  Status,          \* the statuses a caller may pass with --status
  NoStatus,        \* no --status was given
  OldStatus,       \* the status the files carry before any call
  Registry,        \* names index.json among the locked files
  Free,            \* no process holds the lock
  Absent, Corrupt, \* contents: no such file; blank, not JSON, or misshapen
  Parent,          \* what may be on record as parent_session_id
  OldParent,       \* what old entries record
  NoParent,        \* ... and new ones: null
  Healthy,         \* whether the files start out intact
  MayCrash

ASSUME NameAssumption ==
  /\ NoStatus \notin Status \cup {OldStatus}
  /\ Registry \notin Session
  /\ Free \notin Caller
ASSUME ParentAssumption == {OldParent, NoParent} \subseteq Parent
ASSUME SwitchAssumption == Healthy \in BOOLEAN /\ MayCrash \in BOOLEAN

Arg    == [session : Session, status : Status \cup {NoStatus}]
Entry  == [status : Status \cup {OldStatus}, parent : Parent]
State  == [status : Status \cup {OldStatus}, iteration : Nat, parent : Parent]
Index  == UNION {[known -> Entry] : known \in SUBSET Session}
Locked == {Registry} \cup Session      \* one lock per JSON file

(* No file, and one that does not parse, are not taken for an object.      *)
ASSUME ContentAssumption ==
  /\ Absent # Corrupt
  /\ Absent \notin Index \cup State
  /\ Corrupt \notin Index \cup State

VARIABLES
  arg,             \* the session and status on each command line
  events,          \* events.jsonl of each session: the statuses of its events
  index,           \* index.json: the entries by session id
  state,           \* state.json of each session
  holder,          \* who holds the lock of each file
  stage,           \* what each call is working on
  step,            \* how far its read-modify-write of that file has come
  idxBuf, stBuf,   \* what it has read there, Absent outside the lock
  result,          \* how it exits
  overlapped       \* history: sessions whose status two calls were setting
                   \* at the same time

vars == <<arg, events, index, state, holder, stage, step, idxBuf, stBuf, result, overlapped>>

OldEntry == [status |-> OldStatus, parent |-> OldParent]
OldState == [status |-> OldStatus, iteration |-> 1, parent |-> OldParent]

(* Some sessions are registered; in an unhealthy store any file may be     *)
(* missing or damaged.                                                     *)
Init ==
  /\ arg \in [Caller -> Arg]
  /\ events = [s \in Session |-> <<>>]
  /\ \E known \in SUBSET Session :
       index \in {[s \in known |-> OldEntry]} \cup (IF Healthy THEN {} ELSE {Absent, Corrupt})
  /\ state \in [Session -> {OldState} \cup (IF Healthy THEN {} ELSE {Absent, Corrupt})]
  /\ holder = [f \in Locked |-> Free]
  /\ stage = [c \in Caller |-> "event"]
  /\ step = [c \in Caller |-> "wait"]
  /\ idxBuf = [c \in Caller |-> Absent]
  /\ stBuf = [c \in Caller |-> Absent]
  /\ result = [c \in Caller |-> "none"]
  /\ overlapped = {}

File(c) == IF stage[c] = "index" THEN Registry ELSE arg[c].session

(* c is between its first and its last write of the status of s *)
Setting(c, s) == arg[c].session = s /\ stage[c] \in {"index", "state"}

At(c, st) == stage[c] \in {"index", "state"} /\ step[c] = st

-----------------------------------------------------------------------------
(* Mutant: a call that sets a status logs no event. *)
AppendUnlessStatus(c) ==
  /\ stage[c] = "event"
  /\ stage' = [stage EXCEPT ![c] = IF arg[c].status = NoStatus THEN "exit" ELSE "index"]
  /\ UNCHANGED <<arg, events, index, state, holder, step, idxBuf, stBuf, result, overlapped>>

(* appendFileSync to events.jsonl, first and unconditionally *)
AppendEvent(c) ==
  /\ stage[c] = "event"
  /\ events' = [events EXCEPT ![arg[c].session] = Append(@, arg[c].status)]
  /\ IF arg[c].status = NoStatus
     THEN /\ stage' = [stage EXCEPT ![c] = "exit"]
          /\ result' = [result EXCEPT ![c] = "ok"]
          /\ UNCHANGED overlapped
     ELSE /\ stage' = [stage EXCEPT ![c] = "index"]
          /\ overlapped' = overlapped \cup
               {s \in {arg[c].session} : \E d \in Caller : Setting(d, s)}
          /\ UNCHANGED result
  /\ UNCHANGED <<arg, index, state, holder, step, idxBuf, stBuf>>

Acquire(c) ==
  /\ At(c, "wait")
  /\ holder[File(c)] = Free
  /\ holder' = [holder EXCEPT ![File(c)] = c]
  /\ step' = [step EXCEPT ![c] = "read"]
  /\ UNCHANGED <<arg, events, index, state, stage, idxBuf, stBuf, result, overlapped>>

(* Mutant: waits for a dead holder for as long as it takes. *)
TimeOutOnTheLiving(c) ==
  /\ At(c, "wait")
  /\ holder[File(c)] # Free
  /\ stage[holder[File(c)]] # "dead"
  /\ stage' = [stage EXCEPT ![c] = "exit"]
  /\ result' = [result EXCEPT ![c] = "failed"]
  /\ UNCHANGED <<arg, events, index, state, holder, step, idxBuf, stBuf, overlapped>>

(* ELOCKTIMEOUT: the call fails where it stands *)
TimeOut(c) ==
  /\ At(c, "wait")
  /\ holder[File(c)] # Free
  /\ stage' = [stage EXCEPT ![c] = "exit"]
  /\ result' = [result EXCEPT ![c] = "failed"]
  /\ UNCHANGED <<arg, events, index, state, holder, step, idxBuf, stBuf, overlapped>>

(* readIndexForUpdate: an absent index is an empty one, and anything else  *)
(* that is no index is refused (SKIP_WRITE), to be reported last.          *)
ReadIndex(c) ==
  /\ At(c, "read") /\ stage[c] = "index"
  /\ IF index = Corrupt
     THEN /\ step' = [step EXCEPT ![c] = "release"]
          /\ result' = [result EXCEPT ![c] = "refused"]
          /\ UNCHANGED idxBuf
     ELSE /\ step' = [step EXCEPT ![c] = "write"]
          /\ idxBuf' = [idxBuf EXCEPT ![c] = IF index = Absent THEN <<>> ELSE index]
          /\ UNCHANGED result
  /\ UNCHANGED <<arg, events, index, state, holder, stage, stBuf, overlapped>>

(* Mutant: takes every session for an unknown one. *)
WithNewEntry(idx, s, st) ==
  [t \in DOMAIN idx \cup {s} |-> IF t # s THEN idx[t] ELSE [status |-> st, parent |-> NoParent]]

(* An unknown session gets an entry without lineage; of a known one only   *)
(* the status changes.                                                     *)
WithStatus(idx, s, st) ==
  [t \in DOMAIN idx \cup {s} |->
     IF t # s THEN idx[t]
     ELSE IF s \in DOMAIN idx THEN [idx[s] EXCEPT !.status = st]
     ELSE [status |-> st, parent |-> NoParent]]

WriteIndex(c) ==
  /\ At(c, "write") /\ stage[c] = "index"
  /\ index' = WithStatus(idxBuf[c], arg[c].session, arg[c].status)
  /\ step' = [step EXCEPT ![c] = "release"]
  /\ UNCHANGED <<arg, events, state, holder, stage, idxBuf, stBuf, result, overlapped>>

(* readJson with stateFallback: anything unreadable becomes a fresh state. *)
ReadState(c) ==
  /\ At(c, "read") /\ stage[c] = "state"
  /\ stBuf' = [stBuf EXCEPT ![c] =
               IF state[arg[c].session] \in {Absent, Corrupt}
               THEN [status |-> arg[c].status, iteration |-> 0, parent |-> NoParent]
               ELSE state[arg[c].session]]
  /\ step' = [step EXCEPT ![c] = "write"]
  /\ UNCHANGED <<arg, events, index, state, holder, stage, idxBuf, result, overlapped>>

(* Mutant: writes the fallback, and the status with it. *)
WriteFreshState(c) ==
  /\ At(c, "write") /\ stage[c] = "state"
  /\ state' = [state EXCEPT ![arg[c].session] =
               [status |-> arg[c].status, iteration |-> 0, parent |-> NoParent]]
  /\ step' = [step EXCEPT ![c] = "release"]
  /\ UNCHANGED <<arg, events, index, holder, stage, idxBuf, stBuf, result, overlapped>>

WriteState(c) ==
  /\ At(c, "write") /\ stage[c] = "state"
  /\ state' = [state EXCEPT ![arg[c].session] = [stBuf[c] EXCEPT !.status = arg[c].status]]
  /\ step' = [step EXCEPT ![c] = "release"]
  /\ UNCHANGED <<arg, events, index, holder, stage, idxBuf, stBuf, result, overlapped>>

(* The temporary file cannot be written: the lock is released on the way   *)
(* out and the call fails.                                                 *)
WriteFails(c) ==
  /\ At(c, "write")
  /\ step' = [step EXCEPT ![c] = "release"]
  /\ result' = [result EXCEPT ![c] = "failed"]
  /\ UNCHANGED <<arg, events, index, state, holder, stage, idxBuf, stBuf, overlapped>>

(* Mutant: returns as soon as index.json is written. *)
ReleaseAndReturn(c) ==
  /\ At(c, "release")
  /\ holder' = [holder EXCEPT ![File(c)] = Free]
  /\ step' = [step EXCEPT ![c] = "wait"]
  /\ idxBuf' = [idxBuf EXCEPT ![c] = Absent]
  /\ stBuf' = [stBuf EXCEPT ![c] = Absent]
  /\ stage' = [stage EXCEPT ![c] = "exit"]
  /\ result' = [result EXCEPT ![c] = IF @ = "none" THEN "ok" ELSE @]
  /\ UNCHANGED <<arg, events, index, state, overlapped>>

(* After index.json the call goes on to state.json unless it has failed;   *)
(* a refused index does not keep it from doing so.                         *)
Release(c) ==
  /\ At(c, "release")
  /\ holder' = [holder EXCEPT ![File(c)] = Free]
  /\ step' = [step EXCEPT ![c] = "wait"]
  /\ idxBuf' = [idxBuf EXCEPT ![c] = Absent]
  /\ stBuf' = [stBuf EXCEPT ![c] = Absent]
  /\ IF stage[c] = "index" /\ result[c] # "failed"
     THEN /\ stage' = [stage EXCEPT ![c] = "state"]
          /\ UNCHANGED result
     ELSE /\ stage' = [stage EXCEPT ![c] = "exit"]
          /\ result' = [result EXCEPT ![c] = IF @ = "none" THEN "ok" ELSE @]
  /\ UNCHANGED <<arg, events, index, state, overlapped>>

Crash(c) ==
  /\ MayCrash
  /\ stage[c] \notin {"exit", "dead"}
  /\ stage' = [stage EXCEPT ![c] = "dead"]
  /\ UNCHANGED <<arg, events, index, state, holder, step, idxBuf, stBuf, result, overlapped>>

(* The next caller takes over the lock a dead process has left. *)
Reclaim(f) ==
  /\ holder[f] # Free
  /\ stage[holder[f]] = "dead"
  /\ holder' = [holder EXCEPT ![f] = Free]
  /\ UNCHANGED <<arg, events, index, state, stage, step, idxBuf, stBuf, result, overlapped>>

-----------------------------------------------------------------------------
Step(c) ==
  \/ AppendEvent(c) \/ Acquire(c) \/ TimeOut(c)
  \/ ReadIndex(c) \/ WriteIndex(c)
  \/ ReadState(c) \/ WriteState(c)
  \/ WriteFails(c) \/ Release(c)

Next ==
  \/ \E c \in Caller : Step(c) \/ Crash(c)
  \/ \E f \in Locked : Reclaim(f)

Spec == Init /\ [][Next]_vars

(* The operating system runs every call. *)
FairSpec == Spec /\ \A c \in Caller : WF_vars(Step(c))

-----------------------------------------------------------------------------
TypeOK ==
  /\ arg \in [Caller -> Arg]
  /\ events \in [Session -> Seq(Status \cup {OldStatus, NoStatus})]
  /\ index \in {Absent, Corrupt} \cup Index
  /\ state \in [Session -> {Absent, Corrupt} \cup State]
  /\ holder \in [Locked -> Caller \cup {Free}]
  /\ stage \in [Caller -> {"event", "index", "state", "exit", "dead"}]
  /\ step \in [Caller -> {"wait", "read", "write", "release"}]
  /\ idxBuf \in [Caller -> {Absent} \cup Index]
  /\ stBuf \in [Caller -> {Absent} \cup State]
  /\ result \in [Caller -> {"none", "ok", "refused", "failed"}]
  /\ overlapped \subseteq Session

Readable(f) == f \notin {Absent, Corrupt}
Logged(s, st) == st = OldStatus \/ \E i \in DOMAIN events[s] : events[s][i] = st

(* A status that stands in index.json or state.json is explained by an     *)
(* event of that session, whatever crashed or failed: the event goes first *)
(* and is never lost to an index problem.                                  *)
StatusHasEvent ==
  /\ TypeOK
  /\ \A s \in Session :
       /\ Readable(index) /\ s \in DOMAIN index => Logged(s, index[s].status)
       /\ Readable(state[s]) => Logged(s, state[s].status)

(* Concurrent calls never unregister a session or touch its lineage, and   *)
(* an index that cannot be trusted is left as it was found.  Of a          *)
(* state.json that can be read only the status ever changes: what another  *)
(* writer recorded in it is not reset to the fallback.                     *)
OnlyStatusChanges ==
  [][/\ index = Corrupt => index' = Corrupt
     /\ Readable(index) =>
          /\ Readable(index')
          /\ \A s \in DOMAIN index :
               s \in DOMAIN index' /\ index'[s].parent = index[s].parent
     /\ \A s \in Session : Readable(state[s]) =>
          /\ Readable(state'[s])
          /\ [state'[s] EXCEPT !.status = state[s].status] = state[s]]_<<index, state>>

Agree(s) ==
  Readable(index) /\ s \in DOMAIN index /\ Readable(state[s])
    => index[s].status = state[s].status

(* The two files drift apart only if two calls for the session overlap, or *)
(* one of them fails or dies half-way.                                     *)
DriftNeedsOverlap ==
  \A s \in Session :
    s \notin overlapped /\ (\A c \in Caller : arg[c].session = s =>
      stage[c] = "event" \/ (stage[c] = "exit" /\ result[c] # "failed")) => Agree(s)

(* Nobody waits for ever: every call ends. *)
EveryCallEnds == \A c \in Caller : stage[c] = "event" ~> stage[c] \in {"exit", "dead"}

=============================================================================
