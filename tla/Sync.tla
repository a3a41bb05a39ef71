-------------------------------- MODULE Sync --------------------------------
(***************************************************************************)
(* console/sync.js: the loop that mirrors the run store into the console's *)
(* database.  A pass is started every few seconds whether or not the last  *)
(* one has ended, so that passes interleave wherever one of them awaits a  *)
(* query.  A step of a pass is one query and the code that follows it, up  *)
(* to the issue of the next query; the files are read in between.          *)
(*                                                                         *)
(* The upserts of one run's tasks are taken as one query, and so are the   *)
(* select and the delete of reapTasks: they touch rows of that run only.   *)
(***************************************************************************)
EXTENDS Integers, Sequences, FiniteSets

CONSTANTS
  Run,
  Key,             \* task ids
  Pass,            \* the passes that can be under way at the same time
  None,
  Unreadable,      \* index.json: missing or not what it should be
  OneConnection,   \* sqlite's pool of one, or a server's of many
  MayRestart,      \* whether the console may be restarted on the same database
  MayUnmount,      \* whether the volume of the run store may go away
  MaxLines,        \* bound: the lines of an events.jsonl
  MaxChanges       \* bound: how often the store changes or
                   \* the console restarts

ASSUME SyncAssumption ==
  /\ None \notin Run
  /\ OneConnection \in BOOLEAN
  /\ MayRestart \in BOOLEAN /\ MayUnmount \in BOOLEAN
  /\ MaxLines \in Nat \ {0} /\ MaxChanges \in Nat

VARIABLES
  (* the run store *)
  index,           \* index.json: the ids and the active one
  dirs,            \* the session directories
  plan,            \* plan.json: its task ids, and how well it can be read
  size,            \* events.jsonl: its size, a complete line counting two
  mounted,
  (* the database *)
  runs, flagged,   \* the rows of runs, and those with active = 1
  tasks,           \* the rows of tasks, as pairs
  events,          \* the rows of events: the lines of each run's log
  (* the console process *)
  offset,          \* eventOffsets
  pass,            \* the state of each pass
  queue,           \* the passes with a query issued, in that order
  (* history *)
  changes,
  overlapped,      \* a pass began while another was under way
  restarted,
  replaced,        \* runs whose log has shrunk or been replaced
  absent,          \* runs whose directory has been absent at some time
  unlisted,        \* runs a readable index has been without at some time
  unmounted,       \* the volume has gone away at some time
  dropped,         \* tasks absent from a readable plan at some time
  torn,            \* runs whose rows were deleted by halves, or under another pass
  synced           \* a pass that began and ended alone has seen the store as it is now

store   == <<index, dirs, plan, size, mounted>>
db      == <<runs, flagged, tasks, events>>
seen    == <<overlapped, restarted, replaced, absent, unlisted, unmounted, dropped>>
history == <<seen, torn>>
vars == <<store, db, offset, pass, queue, changes, history, synced>>

Index == [ids : SUBSET Run, active : Run \cup {None}]
Plan  == [keys : SUBSET Key, kind : {"sound", "partial", "unreadable"}]

NoPlan == [keys |-> {}, kind |-> "unreadable"]
Idle   == [pc |-> "idle", ids |-> {}, active |-> None, left |-> {}, cur |-> None,
           plan |-> NoPlan, from |-> 0, to |-> 0, stale |-> {}, clean |-> FALSE]

Init ==
  /\ dirs \in SUBSET Run
  /\ index = [ids |-> dirs, active |-> None]
  /\ \E planned \in {{}, dirs} :
       /\ plan = [r \in Run |-> IF r \in planned THEN [keys |-> Key, kind |-> "sound"] ELSE NoPlan]
       /\ size = [r \in Run |-> IF r \in planned THEN 2 ELSE 0]
  /\ mounted = TRUE
  /\ runs = {} /\ flagged = {} /\ tasks = {}
  /\ events = [r \in Run |-> <<>>]
  /\ offset = [r \in Run |-> 0]
  /\ pass = [p \in Pass |-> Idle]
  /\ queue = <<>>
  /\ changes = 0
  /\ overlapped = FALSE
  /\ restarted = FALSE
  /\ replaced = {}
  /\ absent = Run \ dirs
  /\ unlisted = Run \ index.ids
  /\ unmounted = FALSE
  /\ dropped = {}
  /\ torn = {}
  /\ synced = FALSE

(* The queries still to be served when the one of p, the first, has been.  *)
Others(p) == IF queue # <<>> /\ Head(queue) = p THEN Tail(queue) ELSE queue

OnDisk  == IF mounted THEN dirs ELSE {}
Running == {p \in Pass : pass[p] # Idle}

-----------------------------------------------------------------------------
(* What a pass does next, as the set of states it may go on in *)

OnTo(s, r, skipped) == [s EXCEPT !.pc = "upsert", !.cur = r, !.left = @ \ (skipped \cup {r})]
PastLast(s) == [s EXCEPT !.pc = IF mounted THEN "select" ELSE "clear", !.cur = None, !.left = {}]

(* The next session whose directory is there; after the last one reapRuns, *)
(* unless the whole runs directory is missing.                             *)
NextRun(s) ==
  IF s.left \cap OnDisk = {}
  THEN {PastLast(s)}
  ELSE {OnTo(s, r, skipped) : r \in s.left \cap OnDisk, skipped \in SUBSET (s.left \ OnDisk)}

Continue(p, next) ==
  /\ \E s \in next : pass' = [pass EXCEPT ![p] = s]
  /\ queue' = IF OneConnection THEN Append(Others(p), p) ELSE queue

Lines(n) == n \div 2

(* syncEvents up to its insert: a log that has shrunk is read again from   *)
(* the start, a line that is still being written is left for later.        *)
LookAtLog(p, s) ==
  LET r     == s.cur
      start == IF size[r] < offset[r] THEN 0 ELSE offset[r]
      new   == r \in OnDisk /\ size[r] # start
      lines == new /\ Lines(size[r]) > Lines(start)
  IN  /\ Continue(p, IF lines
           THEN {[s EXCEPT !.pc = "insert", !.from = Lines(start), !.to = Lines(size[r])]}
           ELSE NextRun(s))
      /\ offset' = IF new /\ ~lines THEN [offset EXCEPT ![r] = start] ELSE offset

-----------------------------------------------------------------------------
(* A pass *)

(* runSyncOnce; without a readable index it ends here. *)
Begin(p) ==
  /\ pass[p] = Idle
  /\ mounted /\ index # Unreadable
  /\ Continue(p, NextRun([Idle EXCEPT !.ids = index.ids, !.left = index.ids,
                                      !.active = index.active, !.clean = Running = {}]))
  /\ overlapped' = (overlapped \/ Running # {})
  /\ synced' = FALSE
  /\ UNCHANGED <<store, db, offset, changes, restarted, replaced, absent, unlisted, unmounted, dropped, torn>>

(* The query is served: in the order of issue if there is one connection.  *)
Query(p, at) ==
  /\ pass[p].pc = at
  /\ OneConnection => Head(queue) = p

(* A plan that cannot be read leaves the task rows alone. *)
upsertRun(p) ==
  LET s   == pass[p]
      now == IF s.cur \in OnDisk THEN plan[s.cur] ELSE NoPlan
  IN  /\ Query(p, "upsert")
      /\ runs' = runs \cup {s.cur}
      /\ IF now.kind = "unreadable"
         THEN LookAtLog(p, s)
         ELSE Continue(p, {[s EXCEPT !.pc = "tasks", !.plan = now]}) /\ UNCHANGED offset
      /\ UNCHANGED <<store, flagged, tasks, events, changes, history, synced>>

(* An entry without an id keeps the rest from being reaped. *)
syncTasks(p) ==
  LET s == pass[p] IN
  /\ Query(p, "tasks")
  /\ tasks' = tasks \cup ({s.cur} \X s.plan.keys)
  /\ IF s.plan.kind = "partial"
     THEN LookAtLog(p, [s EXCEPT !.plan = NoPlan])
     ELSE Continue(p, {[s EXCEPT !.pc = "reapTasks"]}) /\ UNCHANGED offset
  /\ UNCHANGED <<store, runs, flagged, events, changes, history, synced>>

reapTasks(p) ==
  LET s == pass[p] IN
  /\ Query(p, "reapTasks")
  /\ tasks' = {row \in tasks : row[1] = s.cur => row[2] \in s.plan.keys}
  /\ LookAtLog(p, [s EXCEPT !.plan = NoPlan])
  /\ UNCHANGED <<store, runs, flagged, events, changes, history, synced>>

Segment(from, to) == [i \in 1..(to - from) |-> from + i]

(* Mutant: the events are inserted and the offset is left where it was. *)
insertAgain(p) ==
  LET s == pass[p] IN
  /\ Query(p, "insert")
  /\ events' = [events EXCEPT ![s.cur] = @ \o Segment(s.from, s.to)]
  /\ Continue(p, NextRun([s EXCEPT !.from = 0, !.to = 0]))
  /\ UNCHANGED <<store, runs, flagged, tasks, offset, changes, history, synced>>

(* The offset moves only when the insert has come back. *)
insertEvents(p) ==
  LET s == pass[p] IN
  /\ Query(p, "insert")
  /\ events' = [events EXCEPT ![s.cur] = @ \o Segment(s.from, s.to)]
  /\ offset' = [offset EXCEPT ![s.cur] = 2 * s.to]
  /\ Continue(p, NextRun([s EXCEPT !.from = 0, !.to = 0]))
  /\ UNCHANGED <<store, runs, flagged, tasks, changes, history, synced>>

(* Mutant: a run the index does not name is stale, directory or not. *)
selectUnlisted(p) ==
  LET s    == pass[p]
      gone == runs \ s.ids
  IN  /\ Query(p, "select")
      /\ Continue(p, {[s EXCEPT !.stale = gone, !.pc = IF gone = {} THEN "clear" ELSE "delTasks"]})
      /\ UNCHANGED <<store, db, offset, changes, history, synced>>

(* reapRuns: the directories are looked at when the select has come back. *)
selectRuns(p) ==
  LET s    == pass[p]
      gone == runs \ (s.ids \cup OnDisk)
  IN  /\ Query(p, "select")
      /\ Continue(p, {[s EXCEPT !.stale = gone, !.pc = IF gone = {} THEN "clear" ELSE "delTasks"]})
      /\ UNCHANGED <<store, db, offset, changes, history, synced>>

deleteTasks(p) ==
  /\ Query(p, "delTasks")
  /\ tasks' = {row \in tasks : row[1] \notin pass[p].stale}
  /\ Continue(p, {[pass[p] EXCEPT !.pc = "delEvents"]})
  /\ UNCHANGED <<store, runs, flagged, events, offset, changes, history, synced>>

deleteEvents(p) ==
  /\ Query(p, "delEvents")
  /\ events' = [r \in Run |-> IF r \in pass[p].stale THEN <<>> ELSE events[r]]
  /\ torn' = IF Running = {p} THEN torn ELSE torn \cup pass[p].stale
  /\ Continue(p, {[pass[p] EXCEPT !.pc = "delRuns"]})
  /\ UNCHANGED <<store, runs, flagged, tasks, offset, changes, seen, synced>>

deleteRuns(p) ==
  LET stale == pass[p].stale IN
  /\ Query(p, "delRuns")
  /\ runs' = runs \ stale
  /\ flagged' = flagged \ stale
  /\ offset' = [r \in Run |-> IF r \in stale THEN 0 ELSE offset[r]]
  /\ torn' = IF Running = {p} THEN torn ELSE torn \cup stale
  /\ Continue(p, {[pass[p] EXCEPT !.pc = "clear", !.stale = {}]})
  /\ UNCHANGED <<store, tasks, events, changes, seen, synced>>

(* Mutant: the flag of the run that was active before is left set. *)
clearNothing(p) ==
  /\ Query(p, "clear")
  /\ pass[p].active # None
  /\ Continue(p, {[pass[p] EXCEPT !.pc = "mark"]})
  /\ UNCHANGED <<store, db, offset, changes, history, synced>>

(* markActiveRun: every flag is cleared, and then one is set. *)
clearActive(p) ==
  /\ Query(p, "clear")
  /\ pass[p].active # None
  /\ flagged' = {}
  /\ Continue(p, {[pass[p] EXCEPT !.pc = "mark"]})
  /\ UNCHANGED <<store, runs, tasks, events, offset, changes, history, synced>>

End(p, well) ==
  /\ pass' = [pass EXCEPT ![p] = Idle]
  /\ queue' = Others(p)
  /\ synced' = (well /\ pass[p].clean /\ Running = {p})
  /\ UNCHANGED <<store, runs, tasks, events, offset, changes, history>>

clearOnly(p) ==
  /\ Query(p, "clear")
  /\ pass[p].active = None
  /\ flagged' = {}
  /\ End(p, TRUE)

markActive(p) ==
  /\ Query(p, "mark")
  /\ flagged' = flagged \cup ({pass[p].active} \cap runs)
  /\ End(p, TRUE)

(* A query fails: a run's is caught by the loop, which goes on to the next *)
(* run, one of reapRuns leaves the reaping there.                          *)
QueryFails(p) ==
  LET s == [pass[p] EXCEPT !.plan = NoPlan, !.from = 0, !.to = 0, !.clean = FALSE] IN
  /\ pass[p].pc \notin {"idle", "clear", "mark"}
  /\ Query(p, pass[p].pc)
  /\ Continue(p, IF s.cur = None THEN {[s EXCEPT !.pc = "clear", !.stale = {}]} ELSE NextRun(s))
  /\ torn' = IF pass[p].pc = "delRuns" THEN torn \cup pass[p].stale ELSE torn
  /\ UNCHANGED <<store, db, offset, changes, seen, synced>>

(* One of markActiveRun ends the pass. *)
FlagFails(p) ==
  /\ pass[p].pc \in {"clear", "mark"}
  /\ Query(p, pass[p].pc)
  /\ UNCHANGED flagged
  /\ End(p, FALSE)

(* The offsets are in memory; the database is a file. *)
Restart ==
  /\ MayRestart /\ ~restarted
  /\ changes < MaxChanges
  /\ changes' = changes + 1
  /\ restarted' = TRUE
  /\ offset' = [r \in Run |-> 0]
  /\ pass' = [p \in Pass |-> Idle]
  /\ queue' = <<>>
  /\ synced' = FALSE
  /\ UNCHANGED <<store, db, overlapped, replaced, absent, unlisted, unmounted, dropped, torn>>

-----------------------------------------------------------------------------
(* The run store changes *)

Change ==
  /\ changes < MaxChanges
  /\ changes' = changes + 1
  /\ synced' = FALSE
  /\ pass' = [p \in Pass |-> [pass[p] EXCEPT !.clean = FALSE]]
  /\ UNCHANGED <<db, offset, queue, overlapped, restarted, torn>>

WriteIndex ==
  /\ Change
  /\ index' \in {Unreadable} \cup {i \in Index : i.active \in i.ids \cup {None}}
  /\ unlisted' = IF index' = Unreadable THEN unlisted ELSE unlisted \cup (Run \ index'.ids)
  /\ UNCHANGED <<dirs, plan, size, mounted, replaced, absent, unmounted, dropped>>

MakeDir(r) ==
  /\ Change
  /\ r \notin dirs
  /\ dirs' = dirs \cup {r}
  /\ UNCHANGED <<index, plan, size, mounted, replaced, absent, unlisted, unmounted, dropped>>

RemoveDir(r) ==
  /\ Change
  /\ r \in dirs
  /\ dirs' = dirs \ {r}
  /\ plan' = [plan EXCEPT ![r] = NoPlan]
  /\ size' = [size EXCEPT ![r] = 0]
  /\ absent' = absent \cup {r}
  /\ replaced' = replaced \cup {r}
  /\ UNCHANGED <<index, mounted, unlisted, unmounted, dropped>>

WritePlan(r) ==
  /\ Change
  /\ r \in dirs
  /\ \E new \in Plan :
       /\ new.kind = "unreadable" => new.keys = {}
       /\ plan' = [plan EXCEPT ![r] = new]
       /\ dropped' = IF new.kind = "unreadable" THEN dropped
                     ELSE dropped \cup ({r} \X (Key \ new.keys))
  /\ UNCHANGED <<index, dirs, size, mounted, replaced, absent, unlisted, unmounted>>

(* A line, or a part of one, is appended. *)
AppendEvent(r) ==
  /\ Change
  /\ r \in dirs
  /\ \E n \in {1, 2} : size[r] + n <= 2 * MaxLines /\ size' = [size EXCEPT ![r] = @ + n]
  /\ UNCHANGED <<index, dirs, plan, mounted, replaced, absent, unlisted, unmounted, dropped>>

Unmount ==
  /\ MayUnmount
  /\ Change
  /\ mounted' = ~mounted
  /\ unmounted' = TRUE
  /\ UNCHANGED <<index, dirs, plan, size, replaced, absent, unlisted, dropped>>

-----------------------------------------------------------------------------
PassStep(p) ==
  \/ upsertRun(p) \/ syncTasks(p) \/ reapTasks(p) \/ insertEvents(p)
  \/ selectRuns(p) \/ deleteTasks(p) \/ deleteEvents(p) \/ deleteRuns(p)
  \/ clearActive(p) \/ clearOnly(p) \/ markActive(p)

Next ==
  \/ \E p \in Pass : Begin(p) \/ PassStep(p) \/ QueryFails(p) \/ FlagFails(p)
  \/ WriteIndex
  \/ \E r \in Run : MakeDir(r) \/ RemoveDir(r) \/ WritePlan(r) \/ AppendEvent(r)
  \/ Unmount
  \/ Restart

Spec == Init /\ [][Next]_vars

-----------------------------------------------------------------------------
Pc       == {"idle", "upsert", "tasks", "reapTasks", "insert", "select",
             "delTasks", "delEvents", "delRuns", "clear", "mark"}
PassType == [pc : Pc, ids : SUBSET Run, active : Run \cup {None}, left : SUBSET Run,
             cur : Run \cup {None}, plan : Plan, from : 0..MaxLines, to : 0..MaxLines,
             stale : SUBSET Run, clean : BOOLEAN]

TypeOK ==
  /\ index \in Index \cup {Unreadable}
  /\ dirs \subseteq Run /\ mounted \in BOOLEAN
  /\ plan \in [Run -> Plan]
  /\ size \in [Run -> 0..(2 * MaxLines)]
  /\ runs \cup flagged \subseteq Run
  /\ tasks \subseteq Run \X Key
  /\ events \in [Run -> Seq(1..MaxLines)]
  /\ offset \in [Run -> 0..(2 * MaxLines)]
  /\ queue \in Seq(Pass)
  /\ pass \in [Pass -> PassType]

Mirrored == index.ids \cap dirs

(* A pass that began and ended alone over a store that did not change      *)
(* meanwhile, and none of whose queries failed, leaves a mirror that       *)
(* agrees with it: runs, tasks, the active flag, and every complete line   *)
(* of the logs, but those of a run reaped by halves.                       *)
MirrorAgrees ==
  /\ TypeOK
  /\ synced =>
       /\ Mirrored \subseteq runs
       /\ runs \subseteq index.ids \cup dirs
       /\ \A r \in Mirrored : plan[r].kind = "sound" =>
            {row \in tasks : row[1] = r} = {r} \X plan[r].keys
       /\ flagged = {index.active} \cap runs
       /\ \A r \in Mirrored \ (replaced \cup torn) :
            \A i \in 1..Lines(size[r]) : \E j \in DOMAIN events[r] : events[r][j] = i

(* The runs that no pass has ever seen gone from both places: the index    *)
(* has always named them, or their directory has always been there to see. *)
AlwaysThere == Run \ (unlisted \cap (IF unmounted THEN Run ELSE absent))

(* A source that cannot be read never looks like an empty one: a run that  *)
(* was always there keeps its row, and so does each of its tasks that no   *)
(* readable plan has been without, whatever passes overlap, whatever       *)
(* queries fail, and though the volume goes away.                          *)
RealRowsKept ==
  [][/\ runs \cap AlwaysThere \subseteq runs'
     /\ \A row \in tasks \ dropped : row[1] \in AlwaysThere => row \in tasks']_vars

(* Passes that do not overlap mirror each line of a log once and in order, *)
(* partly written lines and failed queries notwithstanding, unless the run *)
(* was reaped by halves; and once they have ended they leave no task or    *)
(* event without its run.                                                  *)
EventsInOrder ==
  ~overlapped =>
    /\ ~restarted => \A r \in Run \ (replaced \cup torn) : events[r] = Segment(0, Len(events[r]))
    /\ Running = {} => \A r \in Run \ runs :
         events[r] = <<>> /\ ~\E row \in tasks : row[1] = r

=============================================================================
