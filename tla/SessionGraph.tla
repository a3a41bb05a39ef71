---------------------------- MODULE SessionGraph ----------------------------
(***************************************************************************)
(* console/session-graph.js: what the mindmap shows of a session, derived  *)
(* from the tasks of its plan, and the edges between sessions.  A task in  *)
(* flight is given by its place in the plan.                               *)
(***************************************************************************)
EXTENDS Integers, Sequences, SequencesExt, FiniteSetsExt

CONSTANTS
  MAX_IN_FLIGHT,
  Null                     \* no such number, no such session

ASSUME GraphAssumption == MAX_IN_FLIGHT \in Nat \ {0} /\ Null \notin Nat

Counted == {"done", "pending", "blocked", "failed"}

Task == [wave : Nat \cup {Null}, status : Counted \cup {"running"}]

Waves(tasks) == {t.wave : t \in ToSet(tasks)} \ {Null}

(* Mutant: a task that has failed or is held up no longer counts as open. *)
LiveWaves(tasks) ==
  {t.wave : t \in {u \in ToSet(tasks) : u.status \in {"pending", "running"}}} \ {Null}

OpenWaves(tasks) == {t.wave : t \in {u \in ToSet(tasks) : u.status # "done"}} \ {Null}

computeCurrentWave(tasks) ==
  IF Waves(tasks) = {} THEN Null
  ELSE IF OpenWaves(tasks) # {} THEN Min(OpenWaves(tasks)) ELSE Max(Waves(tasks))

computeInFlightTasks(tasks, currentWave) ==
  LET In(status) == {i \in DOMAIN tasks : tasks[i].wave = currentWave /\ tasks[i].status = status}
      picked     == IF In("running") # {} THEN In("running") ELSE In("pending")
  IN  IF currentWave = Null THEN {}
      ELSE {i \in picked : Cardinality({j \in picked : j < i}) < MAX_IN_FLIGHT}

computeTaskCounts(tasks) ==
  [status \in Counted |-> Cardinality({i \in DOMAIN tasks : tasks[i].status = status})]

Edges(sessions, mother) ==
  {<<mother[s], s>> : s \in {c \in sessions : mother[c] \in sessions \ {c}}}

=============================================================================
