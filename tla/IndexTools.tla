----------------------------- MODULE IndexTools -----------------------------
(***************************************************************************)
(* The two maintenance tools that write index.json WITHOUT its lock,       *)
(* composed with the locked writers of LogEvent:                           *)
(*   console/scripts/backfill-parents.mjs  adds missing parent_session_id  *)
(*   console/scripts/fixture-sessions.mjs  creates or cleans fixture runs  *)
(* Both merge a delta onto a fresh read and rename only while the file     *)
(* still holds the bytes they merged onto, at most Attempts times.         *)
(*                                                                         *)
(* active_session_id and the aliases (symlinks) that backfill also guards  *)
(* against are left out: no program in the repository writes them.         *)
(***************************************************************************)
EXTENDS LogEvent, FiniteSets

CONSTANTS
  Tool,            \* the runs of the tools
  Kinds,           \* which tools: "backfill", "create", "clean"
  Fixture,         \* the sessions with the fixture prefix
  Active,          \* the status "running"
  Desired,         \* the parent backfill is told to record
  Attempts         \* INDEX_COMMIT_ATTEMPTS

ASSUME ToolAssumption ==
  /\ Kinds \subseteq {"backfill", "create", "clean"}
  /\ Fixture \subseteq Session
  /\ Active \in Status
  /\ Desired \in Parent
  /\ Attempts \in Nat \ {0}

VARIABLES
  kind,            \* what each tool run is
  phase,           \* how far it has come
  snapshot,        \* the index it read first, Absent when there was none
  todo,            \* backfill: the sessions it has not looked at yet
  patch,           \* backfill: the session and the state.json it will write
  deltas,          \* backfill: the index entries it wants to change
  base,            \* the index its last fresh read returned
  merged,          \* what it will rename over that
  attempt,
  raced            \* history: a write fell between another writer's last look
                   \* at index.json and its rename

logVars  == vars
toolVars == <<kind, phase, snapshot, todo, patch, deltas, base, merged, attempt>>
allVars  == <<logVars, toolVars, raced>>

ToolInit ==
  /\ Init
  /\ kind \in [Tool -> Kinds]
  /\ phase = [t \in Tool |-> "survey"]
  /\ snapshot = [t \in Tool |-> Absent]
  /\ todo = [t \in Tool |-> {}]
  /\ patch = [t \in Tool |-> <<>>]
  /\ deltas = [t \in Tool |-> {}]
  /\ base = [t \in Tool |-> Absent]
  /\ merged = [t \in Tool |-> Absent]
  /\ attempt = [t \in Tool |-> 1]
  /\ raced = FALSE

Goto(t, from, to) ==
  /\ phase[t] = from
  /\ phase' = [phase EXCEPT ![t] = to]

EntriesOf(idx) == IF Readable(idx) THEN idx ELSE <<>>

(* statusOf: state.json is authoritative, the entry is a copy *)
RunningIn(idx, s) ==
  \/ Readable(state[s]) /\ state[s].status = Active
  \/ /\ ~Readable(state[s])
     /\ s \in DOMAIN EntriesOf(idx)
     /\ idx[s].status = Active

(* Without a parent on record, or with a null one that is to be replaced. *)
Fillable(x) == x.parent = OldParent \/ (x.parent = NoParent /\ Desired # NoParent)

-----------------------------------------------------------------------------
(* backfill-parents: main *)

(* The first reads, which decide what is protected for the whole run. The  *)
(* state.json files are read one after the other; one step stands for all. *)
Survey(t) ==
  /\ kind[t] = "backfill"
  /\ Goto(t, "survey", "walk")
  /\ snapshot' = [snapshot EXCEPT ![t] = index]
  /\ todo' = [todo EXCEPT ![t] =
       {s \in Session : /\ s \in DOMAIN EntriesOf(index) \/ state[s] # Absent
                        /\ ~RunningIn(index, s)}]
  /\ UNCHANGED <<logVars, kind, patch, deltas, base, merged, attempt, raced>>

(* One session of the walk: state.json is read for a patch, and the entry  *)
(* of the snapshot decides whether the index needs a delta.                *)
Visit(t, s) ==
  /\ phase[t] = "walk"
  /\ s \in todo[t]
  /\ todo' = [todo EXCEPT ![t] = @ \ {s}]
  /\ IF Readable(state[s]) /\ Fillable(state[s])
     THEN /\ phase' = [phase EXCEPT ![t] = "patch"]
          /\ patch' = [patch EXCEPT ![t] = <<s, [state[s] EXCEPT !.parent = Desired]>>]
     ELSE UNCHANGED <<phase, patch>>
  /\ deltas' = [deltas EXCEPT ![t] = @ \cup
       {e \in {s} \cap DOMAIN EntriesOf(snapshot[t]) : Fillable(snapshot[t][e])}]
  /\ UNCHANGED <<logVars, kind, snapshot, base, merged, attempt, raced>>

(* The rename over state.json: no lock, no second look. *)
Patch(t) ==
  /\ Goto(t, "patch", "walk")
  /\ state' = [state EXCEPT ![patch[t][1]] = patch[t][2]]
  /\ patch' = [patch EXCEPT ![t] = <<>>]
  /\ UNCHANGED <<arg, events, index, holder, stage, step, idxBuf, stBuf, result, overlapped,
                 kind, snapshot, todo, deltas, base, merged, attempt, raced>>

EndWalk(t) ==
  /\ kind[t] = "backfill"
  /\ todo[t] = {}
  /\ Goto(t, "walk", IF deltas[t] = {} THEN "done" ELSE "commit")
  /\ UNCHANGED <<logVars, kind, snapshot, todo, patch, deltas, base, merged, attempt, raced>>

(* commitIndexDeltas on a fresh index: entries that are gone, running or   *)
(* already filled in by someone else are skipped.                          *)
Applied(t, idx) ==
  {s \in deltas[t] \cap DOMAIN idx : ~RunningIn(idx, s) /\ Fillable(idx[s])}

BackfillMerge(t, idx) ==
  [s \in DOMAIN idx |-> IF s \in Applied(t, idx) THEN [idx[s] EXCEPT !.parent = Desired]
                                                 ELSE idx[s]]

-----------------------------------------------------------------------------
(* fixture-sessions: create and clean *)

(* readIndexOrThrow, before anything else is touched *)
Validate(t) ==
  /\ kind[t] \in {"create", "clean"}
  /\ Goto(t, "survey", IF index = Corrupt THEN "aborted" ELSE "walk")
  /\ snapshot' = [snapshot EXCEPT ![t] = index]
  /\ UNCHANGED <<logVars, kind, todo, patch, deltas, base, merged, attempt, raced>>

FixtureEntry == [status |-> OldStatus, parent |-> NoParent]
FixtureState == [status |-> OldStatus, iteration |-> 0, parent |-> NoParent]

(* The fixture directories are written, or removed with all they contain;  *)
(* clean leaves an index that was absent alone.                            *)
Directories(t) ==
  /\ kind[t] \in {"create", "clean"}
  /\ Goto(t, "walk", IF kind[t] = "clean" /\ snapshot[t] = Absent THEN "done" ELSE "commit")
  /\ state' = [s \in Session |->
       IF s \notin Fixture THEN state[s] ELSE IF kind[t] = "create" THEN FixtureState ELSE Absent]
  /\ events' = [s \in Session |->
       IF s \notin Fixture THEN events[s] ELSE IF kind[t] = "create" THEN <<OldStatus>> ELSE <<>>]
  /\ UNCHANGED <<arg, index, holder, stage, step, idxBuf, stBuf, result, overlapped,
                 kind, snapshot, todo, patch, deltas, base, merged, attempt, raced>>

(* Mutant: rebuilds the index from the fixtures alone. *)
FixturesOnly(t, idx) == [s \in IF kind[t] = "create" THEN Fixture ELSE {} |-> FixtureEntry]

FixtureMerge(t, idx) ==
  LET kept == DOMAIN idx \ Fixture
      ids  == IF kind[t] = "create" THEN kept \cup Fixture ELSE kept
  IN  [s \in ids |-> IF s \in Fixture THEN FixtureEntry ELSE idx[s]]

-----------------------------------------------------------------------------
(* commitIndexDeltas and commitIndex *)

Merge(t, idx) == IF kind[t] = "backfill" THEN BackfillMerge(t, idx) ELSE FixtureMerge(t, idx)

(* A fresh index that cannot be trusted, or that has appeared or vanished  *)
(* since the first read, aborts the run; backfill has had an index.        *)
Unusable(t) ==
  \/ index = Corrupt
  \/ (index = Absent) # (snapshot[t] = Absent)

CommitRead(t) ==
  /\ phase[t] = "commit"
  /\ IF Unusable(t)
     THEN /\ phase' = [phase EXCEPT ![t] = "aborted"]
          /\ UNCHANGED <<base, merged>>
     ELSE LET new == Merge(t, EntriesOf(index)) IN
          /\ phase' = [phase EXCEPT ![t] = IF new = index THEN "done" ELSE "compare"]
          /\ base' = [base EXCEPT ![t] = index]
          /\ merged' = [merged EXCEPT ![t] = new]
  /\ UNCHANGED <<logVars, kind, snapshot, todo, patch, deltas, attempt, raced>>

(* Mutant: renames without a last look. *)
CompareNothing(t) ==
  /\ Goto(t, "compare", "rename")
  /\ UNCHANGED <<logVars, kind, snapshot, todo, patch, deltas, base, merged, attempt, raced>>

(* writeAtomicIfUnchanged and writeIndex: the last look *)
Compare(t) ==
  /\ phase[t] = "compare"
  /\ IF index = base[t]
     THEN /\ phase' = [phase EXCEPT ![t] = "rename"]
          /\ UNCHANGED attempt
     ELSE /\ phase' = [phase EXCEPT ![t] = IF attempt[t] = Attempts THEN "aborted" ELSE "commit"]
          /\ attempt' = [attempt EXCEPT ![t] = IF @ = Attempts THEN @ ELSE @ + 1]
  /\ UNCHANGED <<logVars, kind, snapshot, todo, patch, deltas, base, merged, raced>>

InWindow == \/ \E t \in Tool : phase[t] = "rename"
            \/ \E c \in Caller : stage[c] = "index" /\ step[c] = "write"

Rename(t) ==
  /\ Goto(t, "rename", "done")
  /\ index' = merged[t]
  /\ UNCHANGED <<arg, events, state, holder, stage, step, idxBuf, stBuf, result, overlapped,
                 kind, snapshot, todo, patch, deltas, base, merged, attempt>>
  /\ raced' = (raced \/ InWindow')

-----------------------------------------------------------------------------
ToolStep(t) ==
  \/ Survey(t) \/ (\E s \in Session : Visit(t, s)) \/ Patch(t) \/ EndWalk(t)
  \/ Validate(t) \/ Directories(t)
  \/ CommitRead(t) \/ Compare(t) \/ Rename(t)

(* A locked writer renames without looking: the lock is all it relies on. *)
LogStep ==
  /\ Next
  /\ UNCHANGED toolVars
  /\ raced' = (raced \/ (index' # index /\ InWindow'))

ToolNext == LogStep \/ \E t \in Tool : ToolStep(t)

ToolSpec == ToolInit /\ [][ToolNext]_allVars

-----------------------------------------------------------------------------
ToolTypeOK ==
  /\ TypeOK
  /\ kind \in [Tool -> Kinds]
  /\ phase \in [Tool -> {"survey", "walk", "patch", "commit", "compare", "rename", "done", "aborted"}]
  /\ snapshot \in [Tool -> {Absent, Corrupt} \cup Index]
  /\ todo \in [Tool -> SUBSET Session]
  /\ patch \in [Tool -> {<<>>} \cup (Session \X State)]
  /\ deltas \in [Tool -> SUBSET Session]
  /\ base \in [Tool -> {Absent} \cup Index]
  /\ merged \in [Tool -> {Absent} \cup Index]
  /\ attempt \in [Tool -> 1..Attempts]
  /\ raced \in BOOLEAN

(* Whoever is about to rename a file over index.json has merged onto what  *)
(* is there now, unless a write has fallen into the gap between a last     *)
(* look and a rename: the compare closes everything but that gap.          *)
WritersAreCurrent ==
  /\ ToolTypeOK
  /\ raced \/ \A t \in Tool : phase[t] = "rename" => base[t] = index
  /\ raced \/ \A c \in Caller :
       stage[c] = "index" /\ step[c] = "write" => idxBuf[c] = EntriesOf(index)

(* No writer, locked or not, replaces an index that cannot be trusted by   *)
(* what it takes for an empty one; and short of such a race a tool never   *)
(* unregisters a session that is not a fixture, never changes a status and *)
(* never replaces a parent on record.                                      *)
ToolsKeepEntries ==
  [][/\ index = Corrupt => index' = Corrupt
     /\ \A t \in Tool : Rename(t) /\ ~raced =>
          \A s \in DOMAIN EntriesOf(index) \ Fixture :
            /\ s \in DOMAIN index'
            /\ index'[s].status = index[s].status
            /\ ~Fillable(index[s]) => index'[s].parent = index[s].parent]_allVars

(* What backfill-parents.mjs says of a live run: nothing but its           *)
(* controller writes anything inside its directory.  Who is live is        *)
(* decided once, before the walk: a session that starts meanwhile has its  *)
(* state.json overwritten.                                                 *)
LiveRunsUntouched ==
  [][\A t \in Tool : Patch(t) =>
       LET s == patch[t][1] IN Readable(state[s]) => state[s].status # Active]_allVars

(* Calls and tools, locked or not, make up a registry that each of them    *)
(* updates in one step and in its own respect: a status and nothing else,  *)
(* missing parents and nothing else, the fixtures and nothing else.  It    *)
(* stays one until a write falls into the gap before a rename.             *)
Reg == INSTANCE Registry WITH
  entries <- index, void <- raced,
  Missing <- {p \in Parent : Fillable([parent |-> p])}

UpdatesAreSingle == Reg!Spec

=============================================================================
