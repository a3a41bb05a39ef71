-------------------------------- MODULE Views --------------------------------
(***************************************************************************)
(* What the console shows of a session (console/server.js: GET             *)
(* /api/sessions/graph and GET /api/sessions/:id), over a run store that   *)
(* is being written and a mirror that follows it.                          *)
(*                                                                         *)
(* A step is one query and the code that follows it up to the next query.  *)
(* The graph is one query, and thus an operator on the state.  Of the      *)
(* detail view only the events are kept; the query for its tasks is part   *)
(* of that for its run.  The mirror is that of Sync, reduced to the order  *)
(* in which its rows come and go, and to where in a log a pass begins.     *)
(***************************************************************************)
EXTENDS LogTail, Mindmap

CONSTANTS
  Session,
  View,            \* the GET /api/sessions/:id requests
  Plans,           \* the task lists a controller may write
  Status,          \* ... and the statuses it may give to a task
  Shown,           \* the number of events in a view
  Recent,          \* the number of events in a status report
  Absent, Broken,  \* plan.json: no such file; not valid JSON, or unreadable
  Busy,            \* bound: the sessions whose files are written
  Lengths,         \* bound: the lengths of the lines that are written
  MaxChanges,      \* bound: how often the store changes
  MaxDrawn         \* bound: the sessions of a map that is drawn by itself

ASSUME ViewsAssumption ==
  /\ Shown \in Nat \ {0} /\ Recent \in Nat \ {0}
  /\ Null \notin Session /\ Busy \subseteq Session
  /\ \A p \in Plans : p \in Seq(Task)
  /\ Status \subseteq Counted \cup {"running"}
  /\ Lengths \subseteq Nat \ {0} /\ MaxChanges \in Nat /\ MaxDrawn \in Nat

VARIABLES
  parent,          \* what each session records as its mother
  dirs,            \* the session directories
  plan,            \* plan.json of each session
  log,             \* events.jsonl of each session
  runs,            \* the rows of runs
  rows,            \* the rows of events of each run: their ids, and the
                   \* line each one is made of
  view,            \* the requests
  changes

store    == <<parent, dirs, plan, log>>
mirror   == <<runs, rows>>
viewVars == <<store, mirror, view, changes>>

(* The lines that are mirrored, and the end of the last one of them.       *)
Held(s)    == {row[2] : row \in rows[s]}
HeldEnd(s) == Size({l[2] : l \in Held(s)})

(* written, known: the log, and what was mirrored of it, when the request  *)
(* came; steady: the session's directory has been there since.             *)
Idle == [pc |-> "idle", session |-> Null, shown |-> {},
         written |-> {}, known |-> {}, steady |-> TRUE]

ViewInit ==
  /\ parent \in [Session -> Session \cup {Null}]
  /\ dirs \in SUBSET Session
  /\ plan \in {p \in [Session -> Plans \cup {Absent}] : \A s \in Session : p[s] # Absent => s \in dirs \cap Busy}
  /\ log = [s \in Session |-> {}]
  /\ runs = {}
  /\ rows = [s \in Session |-> {}]
  /\ view = [r \in View |-> Idle]
  /\ changes = 0

-----------------------------------------------------------------------------
(* The store *)

Change ==
  /\ changes < MaxChanges
  /\ changes' = changes + 1
  /\ UNCHANGED <<parent, mirror>>

(* Session ids are dated: one that has rows is not given again. *)
MakeDir(s) ==
  /\ Change /\ s \notin dirs \cup runs
  /\ dirs' = dirs \cup {s}
  /\ UNCHANGED <<plan, log, view>>

RemoveDir(s) ==
  /\ Change /\ s \in dirs
  /\ dirs' = dirs \ {s}
  /\ plan' = [plan EXCEPT ![s] = Absent]
  /\ log' = [log EXCEPT ![s] = {}]
  /\ view' = [r \in View |-> [view[r] EXCEPT !.steady = @ /\ view[r].session # s]]

(* The controller writes the file in place: it may be seen half-written. *)
WritePlan(s) ==
  /\ Change /\ s \in dirs \cap Busy
  /\ \E p \in Plans \cup {Broken} : plan' = [plan EXCEPT ![s] = p]
  /\ UNCHANGED <<dirs, log, view>>

SetStatus(s) ==
  /\ Change /\ plan[s] \notin {Absent, Broken}
  /\ \E i \in DOMAIN plan[s], status \in Status : plan' = [plan EXCEPT ![s][i].status = status]
  /\ UNCHANGED <<dirs, log, view>>

AppendLine(s) ==
  /\ Change /\ s \in dirs \cap Busy
  /\ \E length \in Lengths : log' = [log EXCEPT ![s] = @ \cup {Size(@) + length + 1}]
  /\ UNCHANGED <<dirs, plan, view>>

-----------------------------------------------------------------------------
(* The mirror *)

MirrorRun(s) ==
  /\ s \in dirs \ runs
  /\ runs' = runs \cup {s}
  /\ UNCHANGED <<store, rows, view, changes>>

NewRows(s, lines) == {<<Size({row[1] : row \in rows[s]}) + l[2], l>> : l \in lines}

(* A pass inserts what it has read from an offset on, which is most often  *)
(* the end of what is mirrored.  Offsets are kept in memory: after a       *)
(* restart the log is read, and its lines inserted, once more; and a pass  *)
(* that overlaps another may have had its offset before the other inserted *)
(* the same lines.  (A request that is under way when the console is       *)
(* restarted has no answer.)                                               *)
MirrorEvents(s) ==
  /\ s \in dirs \cap runs
  /\ \E from \in {0} \cup {l[2] : l \in Held(s)}, to \in log[s] :
       /\ from < to
       /\ rows' = [rows EXCEPT ![s] = @ \cup NewRows(s, {l \in Lines(log[s]) : from <= l[1] /\ l[2] <= to})]
       /\ IF from = HeldEnd(s) THEN UNCHANGED changes
          ELSE changes < MaxChanges /\ changes' = changes + 1
  /\ UNCHANGED <<store, runs, view>>

ReapEvents(s) ==
  /\ s \in runs \ dirs /\ rows[s] # {}
  /\ rows' = [rows EXCEPT ![s] = {}]
  /\ UNCHANGED <<store, runs, view, changes>>

ReapRun(s) ==
  /\ s \in runs \ dirs /\ rows[s] = {}
  /\ runs' = runs \ {s}
  /\ UNCHANGED <<store, rows, view, changes>>

-----------------------------------------------------------------------------
(* GET /api/sessions/:id *)

Ask(r, s) ==
  /\ view[r].pc = "idle"
  /\ view' = [view EXCEPT ![r] = [pc |-> "run", session |-> s, shown |-> {},
                                  written |-> log[s], known |-> Held(s),
                                  steady |-> s \in dirs]]
  /\ UNCHANGED <<store, mirror, changes>>

Answer(r, pc, shown) ==
  /\ view' = [view EXCEPT ![r].pc = pc, ![r].shown = shown]
  /\ UNCHANGED <<store, mirror, changes>>

FromDisk(s) == tailLines(log[s], Shown)

(* The rows in ascending order of their ids, up to a limit. *)
FromRows(s) == {row[2] : row \in FirstOf(rows[s], Shown)}

(* A run without a row may be one that is not mirrored yet. *)
FindRun(r) ==
  LET s == view[r].session IN
  /\ view[r].pc = "run"
  /\ \/ s \in runs /\ Answer(r, "events", {})
     \/ s \in dirs \ runs /\ Answer(r, "done", FromDisk(s))
     \/ s \notin dirs \cup runs /\ Answer(r, "404", {})

(* Mutant: a run that has no rows has no events. *)
ReadRows(r) ==
  /\ view[r].pc = "events"
  /\ Answer(r, "done", FromRows(view[r].session))

(* No rows may mean that they are not mirrored yet. *)
ReadEvents(r) ==
  LET s == view[r].session IN
  /\ view[r].pc = "events"
  /\ Answer(r, "done", IF rows[s] = {} THEN FromDisk(s) ELSE FromRows(s))

ViewNext ==
  \/ \E s \in Session :
       \/ MakeDir(s) \/ RemoveDir(s) \/ WritePlan(s) \/ SetStatus(s) \/ AppendLine(s)
       \/ MirrorRun(s) \/ MirrorEvents(s) \/ ReapEvents(s) \/ ReapRun(s)
       \/ \E r \in View : Ask(r, s)
  \/ \E r \in View : FindRun(r) \/ ReadEvents(r)

ViewSpec == ViewInit /\ [][ViewNext]_viewVars

-----------------------------------------------------------------------------
(* GET /api/sessions/graph *)

(* readPlanForGraph; a session that has no plan.json yet is none the worse. *)
Tasks(s) == IF plan[s] \in {Absent, Broken} THEN <<>> ELSE plan[s]

Node(s) ==
  LET wave == computeCurrentWave(Tasks(s))
  IN  [degraded        |-> plan[s] = Broken,
       current_wave    |-> wave,
       in_flight_tasks |-> computeInFlightTasks(Tasks(s), wave),
       task_counts     |-> computeTaskCounts(Tasks(s))]

-----------------------------------------------------------------------------
ViewType ==
  [pc : {"idle", "run", "events", "done", "404"}, session : Session \cup {Null},
   shown : SUBSET (Nat \X Nat), written : SUBSET Nat, known : SUBSET (Nat \X Nat), steady : BOOLEAN]

RowsOK(s) ==
  /\ IsFiniteSet(rows[s]) /\ rows[s] \subseteq Nat \X (Nat \X Nat)
  /\ \A row, other \in rows[s] : row[1] = other[1] => row = other

(* A log is mirrored from its beginning, in order: before a row of a line  *)
(* there is one of each line before it.                                    *)
Mirrored(s) ==
  /\ Held(s) \subseteq Lines(log[s])
  /\ \A row \in rows[s] : \A l \in Before(Lines(log[s]), row[2]) :
       \E other \in rows[s] : other[1] < row[1] /\ other[2] = l

StoreTypeOK ==
  /\ parent \in [Session -> Session \cup {Null}]
  /\ dirs \cup runs \subseteq Session
  /\ plan \in [Session -> Seq(Task) \cup {Absent, Broken}]
  /\ DOMAIN log = Session /\ DOMAIN rows = Session
  /\ \A s \in Session :
       /\ WellFormed(log[s]) /\ RowsOK(s)
       /\ rows[s] # {} => s \in runs
       /\ s \in dirs => Mirrored(s)
       /\ s \notin dirs => plan[s] = Absent /\ log[s] = {}

ViewTypeOK ==
  /\ StoreTypeOK
  /\ view \in [View -> ViewType]
  /\ \A r \in View : view[r].pc = "idle" \/ view[r].session \in Session
  /\ \A r \in View : Cardinality(view[r].shown) <= Shown

(* The views and the status report, which read the end of a log only, see  *)
(* its last lines and no line cut short (tail.js, _status.mjs).            *)
TailsMatchLog == \A s \in Session : TailsMatch(log[s], Shown) /\ TailsMatch(log[s], Recent)

(* What a node says of one plan does not contradict itself: what comes     *)
(* before the current wave is done, what is in flight belongs to it and is *)
(* not done, and nothing is in flight only if all of it is held up.        *)
PlanShown(s) ==
  LET node == Node(s)
      open == {t \in ToSet(Tasks(s)) : t.status # "done" /\ t.wave # Null}
      now  == {t \in open : t.wave = node.current_wave}
      seen == {Tasks(s)[i] : i \in node.in_flight_tasks}
  IN  /\ \A t \in open : t.wave >= node.current_wave
      /\ seen \subseteq now
      /\ seen = {} => \A t \in now : t.status \in {"blocked", "failed"}
      /\ (\E t \in now : t.status = "running") => \A t \in seen : t.status = "running"
      /\ node.task_counts["done"] = Len(Tasks(s)) => open = {}
      /\ open # {} => now # {}

(* Nobody undoes a task of s, nor adds to or takes from its plan. *)
Progresses(s) ==
  /\ DOMAIN Tasks(s)' = DOMAIN Tasks(s)
  /\ \A i \in DOMAIN Tasks(s) :
       /\ Tasks(s)'[i].wave = Tasks(s)[i].wave
       /\ Tasks(s)[i].status = "done" => Tasks(s)'[i].status = "done"

EveryLineageDrawn ==
  LET nodes  == 1..MaxDrawn
      hidden == MaxDrawn + 1
      Graph(p) == Edges(nodes \cup {hidden}, p @@ (hidden :> Null))
  IN  \A p \in [nodes -> nodes \cup {hidden, Null}] : Drawn(Lineage([i \in nodes |-> i], p), Graph(p))

(* The page draws every session that it does not hide, whatever they       *)
(* record as their mothers: the map of any poll, with any of its sessions  *)
(* hidden, and that of every lineage of a few sessions, with a hidden      *)
(* mother and cycles of any length among them (dashboard.js, mindmapOrder, *)
(* mindmapClusters; session-graph.js, buildSessionGraph).                  *)
MapDrawsAll ==
  /\ EveryLineageDrawn
  /\ \A shown \in SUBSET runs : Drawn(Lineage(SetToSeq(shown), parent), Edges(runs, parent))

(* The graph of two polls in a row: every edge joins two of its nodes, no  *)
(* node's account of its plan contradicts itself, and none goes back to an *)
(* earlier wave while no task of its plan is undone.  A plan that cannot   *)
(* be read costs no node its place (session-graph.js, server.js).          *)
GraphFollowsPlan ==
  [][/\ \A e \in Edges(runs, parent) : {e[1], e[2]} \subseteq runs /\ e[1] # e[2]
     /\ \A s \in runs :
          /\ PlanShown(s)
          /\ s \in runs' /\ Progresses(s) /\ Waves(Tasks(s)) # {} =>
               computeCurrentWave(Tasks(s)') >= computeCurrentWave(Tasks(s))]_viewVars

(* A session whose directory is there throughout is never answered with    *)
(* 404, nor with an empty log if it has written any line; what is shown    *)
(* are lines of the log, none of them shown without those before it if the *)
(* view has room for the log; and if it has room for all rows, every line  *)
(* mirrored beforehand is shown.  The mirror may overtake the request      *)
(* between any two of its queries, and repeat itself after a restart       *)
(* (server.js, GET /api/sessions/:id).                                     *)
DetailIsCurrent ==
  /\ ViewTypeOK
  /\ \A r \in View :
       LET s     == view[r].session
           shown == view[r].shown
           lines == Lines(log[s])
       IN  view[r].pc \in {"done", "404"} /\ view[r].steady =>
             /\ view[r].pc = "done"
             /\ view[r].written # {} => shown # {}
             /\ Size(log[s]) <= SMALL_FILE_THRESHOLD =>
                  /\ shown \subseteq lines
                  /\ Cardinality(log[s]) <= Shown =>
                       /\ \A l \in shown : Before(lines, l) \subseteq shown
                       /\ Cardinality(rows[s]) <= Shown => view[r].known \subseteq shown

(* "A full rescan just re-inserts from scratch which is fine for a mirror  *)
(* table" (sync.js): of a log that fits into the view, every line mirrored *)
(* beforehand is shown.                                                    *)
RescanIsFine ==
  \A r \in View :
    LET s == view[r].session
    IN  /\ view[r].pc = "done" /\ view[r].steady
        /\ Size(log[s]) <= SMALL_FILE_THRESHOLD /\ Cardinality(log[s]) <= Shown
        => view[r].known \subseteq view[r].shown

=============================================================================
