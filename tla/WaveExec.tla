------------------------------ MODULE WaveExec ------------------------------
(***************************************************************************)
(* scripts/wave-exec.js for one session: the commands that dispatch a wave *)
(* of tasks, record their results, merge their branches into the wave      *)
(* branch, and tear the worktrees down.  Every command is a process of its *)
(* own that reads plan.json and wave-state.json whole, and writes them     *)
(* back whole, without a lock.                                             *)
(*                                                                         *)
(* Who runs which command when is up to the controller (skills/liberta/    *)
(* SKILL.md), as are reconciling a conflict and merging the wave's pull    *)
(* request; what is assumed of it stands at those actions.                 *)
(***************************************************************************)
EXTENDS Naturals, FiniteSets

CONSTANTS
  Task,
  WaveOf,          \* plan.json: the wave of each task, a number
  DependsOn,       \* plan.json: the tasks each task depends on
  Command,         \* the processes that can run at the same time
  Foreign,         \* the branches that, ours in name, others may make
  Squash,          \* whether pull requests are merged with --squash
  MayCrash,
  Budget,          \* --token-budget, a record costing one token
  MaxRecords,      \* bound: the --record commands of a behaviour
  None

Wave == {WaveOf[t] : t \in Task}
Ref  == Wave \cup Task       \* a wave branch by its number, a task branch by its task

ASSUME PlanAssumption ==
  /\ WaveOf \in [Task -> Nat]
  /\ DependsOn \in [Task -> SUBSET Task]
  /\ \A t \in Task : \A d \in DependsOn[t] : WaveOf[d] <= WaveOf[t]
ASSUME NameAssumption ==
  /\ Task \cap Nat = {}
  /\ Task \cap {"none", "clean", "missing", None} = {}
  /\ None \notin Nat \cup [passed : BOOLEAN, merged : BOOLEAN]
ASSUME SwitchAssumption ==
  /\ Foreign \subseteq Ref
  /\ Squash \in BOOLEAN
  /\ MayCrash \in BOOLEAN
  /\ Budget \in Nat
  /\ MaxRecords \in Nat

VARIABLES
  plan,            \* plan.json: status and attempts of each task
  waves,           \* wave-state.json of each wave: results and spend
  dispatched,      \* the waves that have a dispatch-plan.json
  owned,           \* the branches loadOwnedBranches returns
  refs,            \* the branches of the repository
  branch,          \* of each wave branch: the task branches that are
                   \* ancestors, and the tasks whose changes it contains
  base,            \* the same of the base branch
  delivered,       \* the waves whose pull request is merged
  trees,           \* the tasks that have a worktree
  mergeTree,       \* the merge worktree of each wave, or the task whose
                   \* merge has left conflicts in it
  pc, job,         \* what each command does next, and what it was asked for
  todo,            \* the worktrees it has still to add
  planBuf,         \* plan.json and wave-state.json as it has read them
  waveBuf,
  merged,          \* whether it will record the task as merged
  foreign,         \* the branches others have made
  usurped,         \* ... under a name we had claimed already
  records,
  overlapped,      \* history: a command started while another was running
  crashed,         \* history: a command was killed
  reported,        \* history: the result last recorded for each task
  spent            \* history: the tokens recorded for each wave

files   == <<plan, waves, dispatched, owned>>
git     == <<refs, branch, base, delivered, trees, mergeTree>>
local   == <<job, todo, planBuf, waveBuf, merged>>
history == <<foreign, usurped, records, overlapped, crashed, reported, spent>>
vars == <<files, git, pc, local, history>>

TasksOf(w) == {t \in Task : WaveOf[t] = w}

NoPlan == [t \in Task |-> [status |-> "pending", attempts |-> 0]]
NoWave == [results |-> [t \in Task |-> None], spend |-> 0]
Passed == [passed |-> TRUE, merged |-> TRUE]
NoJob  == [wave |-> None, task |-> None, passed |-> FALSE, already |-> FALSE]
Bare   == [ancestors |-> {}, content |-> {}]

Init ==
  /\ plan = NoPlan
  /\ waves = [w \in Wave |-> NoWave]
  /\ dispatched = {}
  /\ owned = {}
  /\ refs = {}
  /\ branch = [w \in Wave |-> Bare]
  /\ base = Bare
  /\ delivered = {}
  /\ trees = {}
  /\ mergeTree = [w \in Wave |-> "none"]
  /\ pc = [c \in Command |-> "idle"]
  /\ job = [c \in Command |-> NoJob]
  /\ todo = [c \in Command |-> {}]
  /\ planBuf = [c \in Command |-> NoPlan]
  /\ waveBuf = [c \in Command |-> NoWave]
  /\ merged = [c \in Command |-> FALSE]
  /\ foreign = {}
  /\ usurped = {}
  /\ records = 0
  /\ overlapped = FALSE
  /\ crashed = FALSE
  /\ reported = [t \in Task |-> None]
  /\ spent = [w \in Wave |-> 0]

Goto(c, from, to) ==
  /\ pc[c] = from
  /\ pc' = [pc EXCEPT ![c] = to]

Ended   == {"idle", "refused"}
Running == {c \in Command : pc[c] \notin Ended}

Start(c, to, asked) ==
  /\ pc[c] \in Ended
  /\ pc' = [pc EXCEPT ![c] = to]
  /\ job' = [job EXCEPT ![c] = asked]
  /\ overlapped' = (overlapped \/ Running # {})

(* The process is gone, with all it had in memory. *)
Exit(c, from, how) ==
  /\ Goto(c, from, how)
  /\ job' = [job EXCEPT ![c] = NoJob]
  /\ todo' = [todo EXCEPT ![c] = {}]
  /\ planBuf' = [planBuf EXCEPT ![c] = NoPlan]
  /\ waveBuf' = [waveBuf EXCEPT ![c] = NoWave]
  /\ merged' = [merged EXCEPT ![c] = FALSE]

(* The steps of a command that keep to its own memory. *)
Elsewhere == UNCHANGED <<files, git, history>>

-----------------------------------------------------------------------------
(* Generate *)

(* The controller dispatches a wave once the earlier ones are merged, one  *)
(* generate at a time.                                                     *)
StartGenerate(c, w) ==
  /\ w \notin delivered
  /\ \A v \in Wave : v < w => v \in delivered
  /\ \A d \in Running : job[d].task # None
  /\ Start(c, "load", [NoJob EXCEPT !.wave = w])
  /\ UNCHANGED <<files, git, todo, planBuf, waveBuf, merged,
                 foreign, usurped, records, crashed, reported, spent>>

(* "token budget exceeded" *)
OverBudget(c) ==
  /\ Exit(c, "load", "idle")
  /\ waves[job[c].wave].spend >= Budget
  /\ Elsewhere

Load(c) ==
  /\ Goto(c, "load", "branch")
  /\ waves[job[c].wave].spend < Budget
  /\ waveBuf' = [waveBuf EXCEPT ![c] = waves[job[c].wave]]
  /\ todo' = [todo EXCEPT ![c] = TasksOf(job[c].wave)]
  /\ Elsewhere /\ UNCHANGED <<job, planBuf, merged>>

(* claimBranchOwnership: a branch that exists and is not on record as ours *)
(* is refused.                                                             *)
Refuse(c) ==
  \/ Exit(c, "branch", "refused") /\ job[c].wave \in refs \ owned /\ Elsewhere
  \/ Exit(c, "trees", "refused") /\ todo[c] \cap (refs \ owned) # {} /\ Elsewhere

(* Mutant: an existing branch is taken for ours without a look at the      *)
(* ownership records.                                                      *)
GitBranchAny(c) ==
  LET w == job[c].wave IN
  /\ Goto(c, "branch", "claim")
  /\ refs' = refs \cup {w}
  /\ branch' = IF w \in refs THEN branch ELSE [branch EXCEPT ![w] = base]
  /\ UNCHANGED <<files, base, delivered, trees, mergeTree, local, history>>

(* The wave branch is created, and claimed only after that. *)
GitBranch(c) ==
  LET w == job[c].wave IN
  /\ Goto(c, "branch", "claim")
  /\ w \notin refs \ owned
  /\ refs' = refs \cup {w}
  /\ branch' = IF w \in refs THEN branch ELSE [branch EXCEPT ![w] = base]
  /\ UNCHANGED <<files, base, delivered, trees, mergeTree, local, history>>

ClaimBranch(c) ==
  /\ Goto(c, "claim", "trees")
  /\ owned' = owned \cup {job[c].wave}
  /\ UNCHANGED <<plan, waves, dispatched, git, local, history>>

(* worktreeAdd claims the task branch first and then creates it with the   *)
(* worktree; both are kept when they are there already.                    *)
AddWorktree(c) ==
  /\ pc[c] = "trees"
  /\ \E t \in todo[c] \ (refs \ owned) :
       /\ owned' = owned \cup {t}
       /\ refs' = refs \cup {t}
       /\ trees' = trees \cup {t}
       /\ todo' = [todo EXCEPT ![c] = @ \ {t}]
  /\ UNCHANGED <<plan, waves, dispatched, branch, base, delivered, mergeTree,
                 pc, job, planBuf, waveBuf, merged, history>>

(* git worktree add fails, be it that the branch has just been made by     *)
(* somebody else: it is claimed all the same, and the wave half made.      *)
AddFails(c) ==
  /\ Exit(c, "trees", "idle")
  /\ \E t \in todo[c] \ ((refs \ owned) \cup trees) : owned' = owned \cup {t}
  /\ UNCHANGED <<plan, waves, dispatched, git, history>>

(* A dispatch plan proves ownership of the branches it names. *)
WriteDispatchPlan(c) ==
  /\ todo[c] = {}
  /\ Goto(c, "trees", "rewrite")
  /\ dispatched' = dispatched \cup {job[c].wave}
  /\ owned' = owned \cup {job[c].wave} \cup TasksOf(job[c].wave)
  /\ UNCHANGED <<plan, waves, git, local, history>>

(* Mutant: a generate starts the wave's state afresh. *)
RewriteFresh(c) ==
  /\ Exit(c, "rewrite", "idle")
  /\ waves' = [waves EXCEPT ![job[c].wave] = NoWave]
  /\ owned' = owned \cup {job[c].wave}
  /\ UNCHANGED <<plan, dispatched, git, history>>

(* wave-state.json goes back as it was read, but for branch and task ids:  *)
(* at the end of a generate, and when a merge has failed.                  *)
RewriteWaveState(c) ==
  /\ Exit(c, "rewrite", "idle")
  /\ waves' = [waves EXCEPT ![job[c].wave] = waveBuf[c]]
  /\ owned' = owned \cup {job[c].wave}
  /\ UNCHANGED <<plan, dispatched, git, history>>

-----------------------------------------------------------------------------
(* Record *)

(* The controller records dispatched tasks, not those it has given up or   *)
(* merged, and says --merged only of a branch that is.                     *)
StartRecord(c, t, passed, already) ==
  LET w == WaveOf[t] IN
  /\ records < MaxRecords
  /\ w \in dispatched \ delivered
  /\ plan[t].status # "blocked"
  /\ waves[w].results[t] # Passed
  /\ \A d \in Running : job[d].task # t
  /\ already => passed /\ t \in branch[w].ancestors
  /\ Start(c, "plan", [wave |-> w, task |-> t, passed |-> passed, already |-> already])
  /\ records' = records + 1
  /\ UNCHANGED <<files, git, todo, planBuf, waveBuf, merged,
                 foreign, usurped, crashed, reported, spent>>

ReadPlan(c) ==
  /\ Goto(c, "plan", "state")
  /\ planBuf' = [planBuf EXCEPT ![c] = plan]
  /\ Elsewhere /\ UNCHANGED <<job, todo, waveBuf, merged>>

ReadWaveState(c) ==
  /\ Goto(c, "state", "decide")
  /\ waveBuf' = [waveBuf EXCEPT ![c] = waves[job[c].wave]]
  /\ Elsewhere /\ UNCHANGED <<job, todo, planBuf, merged>>

(* Mutant: a dependency with a result will do, whatever the result is. *)
isDepKnown(c, d) ==
  \/ waveBuf[c].results[d] # None
  \/ planBuf[c][d].status = "done" /\ d \in branch[job[c].wave].ancestors

(* A dependency without a result in this wave's state must be done by the  *)
(* plan, merged by the state of its own wave, and an ancestor by git.      *)
isDepSatisfied(c, d) ==
  LET here  == waveBuf[c].results[d]
      there == waves[WaveOf[d]].results[d]
  IN  IF here # None THEN here = Passed
      ELSE /\ planBuf[c][d].status = "done"
           /\ there = Passed
           /\ d \in branch[job[c].wave].ancestors

Ready(c) == \A d \in DependsOn[job[c].task] : isDepSatisfied(c, d)

(* Mutant: a passed task is recorded as merged although it has to wait. *)
DecideMerged(c) ==
  LET merges == job[c].passed /\ ~job[c].already /\ Ready(c) IN
  /\ Goto(c, "decide", IF merges THEN "check" ELSE "savePlan")
  /\ merged' = [merged EXCEPT ![c] = job[c].passed]
  /\ Elsewhere /\ UNCHANGED <<job, todo, planBuf, waveBuf>>

Decide(c) ==
  LET merges == job[c].passed /\ ~job[c].already /\ Ready(c) IN
  /\ Goto(c, "decide", IF merges THEN "check" ELSE "savePlan")
  /\ merged' = [merged EXCEPT ![c] = job[c].already]
  /\ Elsewhere /\ UNCHANGED <<job, todo, planBuf, waveBuf>>

(* mergeTaskBranch: a tree with conflicts in it ends the command at once. *)
Unreconciled(c) ==
  /\ Exit(c, "check", "idle")
  /\ mergeTree[job[c].wave] \in Task
  /\ Elsewhere

(* Mutant: what is in the way is cleared, conflicts and all. *)
CheckNothing(c) ==
  LET tree == mergeTree[job[c].wave] IN
  /\ Goto(c, "check", IF tree = "none" THEN "add" ELSE "clear")
  /\ Elsewhere /\ UNCHANGED local

CheckMergeTree(c) ==
  LET tree == mergeTree[job[c].wave] IN
  /\ Goto(c, "check", IF tree = "clean" THEN "clear" ELSE "add")
  /\ tree \notin Task
  /\ Elsewhere /\ UNCHANGED local

(* worktreeRemove keeps a tree with conflicts, but rmSync follows: git     *)
(* then has a worktree on record that is missing.                          *)
ClearMergeTree(c) ==
  LET w == job[c].wave IN
  /\ Goto(c, "clear", "add")
  /\ mergeTree' = [mergeTree EXCEPT ![w] = IF @ \in Task \cup {"missing"} THEN "missing" ELSE "none"]
  /\ UNCHANGED <<files, refs, branch, base, delivered, trees, local, history>>

(* git worktree add fails when the path or the branch is taken. *)
AddMergeTree(c) ==
  LET w == job[c].wave IN
  /\ Goto(c, "add", IF mergeTree[w] = "none" THEN "merge" ELSE "rewrite")
  /\ mergeTree' = [mergeTree EXCEPT ![w] = IF @ = "none" THEN "clean" ELSE @]
  /\ UNCHANGED <<files, refs, branch, base, delivered, trees, local, history>>

With(b, t) == [ancestors |-> b.ancestors \cup {t}, content |-> b.content \cup {t}]

Merge(c) ==
  LET w == job[c].wave IN
  /\ Goto(c, "merge", "remove")
  /\ mergeTree[w] = "clean"
  /\ branch' = [branch EXCEPT ![w] = With(@, job[c].task)]
  /\ merged' = [merged EXCEPT ![c] = TRUE]
  /\ UNCHANGED <<files, refs, base, delivered, trees, mergeTree, job, todo, planBuf, waveBuf, history>>

(* Conflicts are left in place; a tree that is gone or has conflicts of    *)
(* its own fails the merge just the same.                                  *)
MergeFails(c) ==
  LET w == job[c].wave IN
  /\ Goto(c, "merge", "rewrite")
  /\ mergeTree[w] = "clean" => job[c].task \notin branch[w].ancestors
  /\ mergeTree' = [mergeTree EXCEPT ![w] = IF @ = "clean" THEN job[c].task ELSE @]
  /\ UNCHANGED <<files, refs, branch, base, delivered, trees, local, history>>

RemoveMergeTree(c) ==
  /\ Goto(c, "remove", "savePlan")
  /\ mergeTree' = [mergeTree EXCEPT ![job[c].wave] = IF @ = "clean" THEN "none" ELSE @]
  /\ UNCHANGED <<files, refs, branch, base, delivered, trees, local, history>>

Outcome(c, task) ==
  IF job[c].passed THEN [task EXCEPT !.status = "done"]
  ELSE [status   |-> IF task.attempts + 1 >= 2 THEN "blocked" ELSE "pending",
        attempts |-> task.attempts + 1]

SavePlan(c) ==
  /\ Goto(c, "savePlan", "saveState")
  /\ plan' = [planBuf[c] EXCEPT ![job[c].task] = Outcome(c, @)]
  /\ UNCHANGED <<waves, dispatched, owned, git, local, history>>

Result(c) == [passed |-> job[c].passed, merged |-> merged[c]]

SaveResult(c) ==
  LET w == job[c].wave
      t == job[c].task
  IN  /\ Exit(c, "saveState", "idle")
      /\ waves' = [waves EXCEPT ![w] =
           [results |-> [waveBuf[c].results EXCEPT ![t] = Result(c)],
            spend   |-> waveBuf[c].spend + 1]]
      /\ owned' = owned \cup {w}
      /\ reported' = [reported EXCEPT ![t] = Result(c)]
      /\ spent' = [spent EXCEPT ![w] = @ + 1]
      /\ UNCHANGED <<plan, dispatched, git, foreign, usurped, records, overlapped, crashed>>

-----------------------------------------------------------------------------
(* Summary: once every dispatched task has a result, the worktrees go.  It *)
(* writes no file that another command reads, and is taken as one step.    *)
Summary(w) ==
  /\ w \in dispatched
  /\ \A t \in TasksOf(w) : waves[w].results[t] # None
  /\ trees \cap TasksOf(w) # {}
  /\ trees' = trees \ TasksOf(w)
  /\ UNCHANGED <<files, refs, branch, base, delivered, mergeTree, pc, local, history>>

-----------------------------------------------------------------------------
(* The environment *)

(* Somebody else, at any time, makes a branch of a name that is free.      *)
OthersBranch(b) ==
  /\ b \in Foreign \ refs
  /\ foreign' = foreign \cup {b}
  /\ usurped' = usurped \cup ({b} \cap owned)
  /\ refs' = refs \cup {b}
  /\ UNCHANGED <<files, branch, base, delivered, trees, mergeTree, pc, local,
                 records, overlapped, crashed, reported, spent>>

(* A builder resolves the conflicts and commits in the merge tree. *)
Reconcile(w) ==
  /\ mergeTree[w] \in Task
  /\ branch' = [branch EXCEPT ![w] = With(@, mergeTree[w])]
  /\ mergeTree' = [mergeTree EXCEPT ![w] = "clean"]
  /\ UNCHANGED <<files, refs, base, delivered, trees, pc, local, history>>

(* gh pr merge, when the verdicts of the wave say passed and merged: a     *)
(* squash carries the changes over to the base branch, not the ancestors.  *)
Deliver(w) ==
  /\ w \in dispatched \ delivered
  /\ \A t \in TasksOf(w) : waves[w].results[t] = Passed
  /\ Running = {}
  /\ delivered' = delivered \cup {w}
  /\ base' = [ancestors |-> base.ancestors \cup (IF Squash THEN {} ELSE branch[w].ancestors),
              content   |-> base.content \cup branch[w].content]
  /\ UNCHANGED <<files, refs, branch, trees, mergeTree, pc, local, history>>

Crash(c) ==
  /\ MayCrash
  /\ c \in Running
  /\ Exit(c, pc[c], "idle")
  /\ crashed' = TRUE
  /\ UNCHANGED <<files, git, foreign, usurped, records, overlapped, reported, spent>>

-----------------------------------------------------------------------------
GenerateStep(c) ==
  \/ \E w \in Wave : StartGenerate(c, w)
  \/ OverBudget(c) \/ Load(c) \/ Refuse(c) \/ GitBranch(c) \/ ClaimBranch(c)
  \/ AddWorktree(c) \/ AddFails(c) \/ WriteDispatchPlan(c) \/ RewriteWaveState(c)

RecordStep(c) ==
  \/ \E t \in Task, passed, already \in BOOLEAN : StartRecord(c, t, passed, already)
  \/ ReadPlan(c) \/ ReadWaveState(c) \/ Decide(c)
  \/ Unreconciled(c) \/ CheckMergeTree(c) \/ ClearMergeTree(c) \/ AddMergeTree(c)
  \/ Merge(c) \/ MergeFails(c) \/ RemoveMergeTree(c)
  \/ SavePlan(c) \/ SaveResult(c)

Next ==
  \/ \E c \in Command : GenerateStep(c) \/ RecordStep(c) \/ Crash(c)
  \/ \E w \in Wave : Summary(w) \/ Reconcile(w) \/ Deliver(w)
  \/ \E b \in Foreign : OthersBranch(b)

Spec == Init /\ [][Next]_vars

-----------------------------------------------------------------------------
ResultType == {None} \cup [passed : BOOLEAN, merged : BOOLEAN]
PlanType   == [Task -> [status : {"pending", "done", "blocked"}, attempts : Nat]]
WaveType   == [results : [Task -> ResultType], spend : Nat]
JobType    == [wave : Wave \cup {None}, task : Task \cup {None}, passed : BOOLEAN, already : BOOLEAN]
BranchType == [ancestors : SUBSET Task, content : SUBSET Task]

TypeOK ==
  /\ plan \in PlanType
  /\ waves \in [Wave -> WaveType]
  /\ dispatched \cup delivered \subseteq Wave
  /\ owned \cup refs \subseteq Ref
  /\ branch \in [Wave -> BranchType] /\ base \in BranchType
  /\ trees \subseteq Task
  /\ mergeTree \in [Wave -> {"none", "clean", "missing"} \cup Task]
  /\ pc \in [Command -> {"idle", "refused", "load", "branch", "claim", "trees", "rewrite",
                         "plan", "state", "decide", "check", "clear", "add", "merge",
                         "remove", "savePlan", "saveState"}]
  /\ job \in [Command -> JobType] /\ todo \in [Command -> SUBSET Task]
  /\ merged \in [Command -> BOOLEAN] /\ overlapped \in BOOLEAN /\ crashed \in BOOLEAN
  /\ planBuf \in [Command -> PlanType] /\ waveBuf \in [Command -> WaveType]
  /\ reported \in [Task -> ResultType] /\ spent \in [Wave -> Nat]
  /\ usurped \subseteq foreign /\ foreign \subseteq Foreign /\ records \in Nat

(* A task on record as merged is merged: whatever commands overlap or die, *)
(* and however stale the state they write back, its branch is an ancestor  *)
(* of the wave branch.                                                     *)
MergedIsMerged ==
  \A w \in Wave : \A t \in TasksOf(w) :
    waves[w].results[t] # None /\ waves[w].results[t].merged => t \in branch[w].ancestors

(* Branches are merged in dependency order: no wave branch has a task's    *)
(* changes without those of the tasks it depends on.                       *)
DependencyOrder ==
  \A w \in Wave : \A t \in branch[w].content : DependsOn[t] \subseteq branch[w].content

(* Commands that do not overlap lose nothing of one another: every result  *)
(* and every token recorded is in wave-state.json, whatever was killed;    *)
(* and once nothing runs plan.json tells the same story, unless a command  *)
(* was killed between the two.                                             *)
RecordsKept ==
  /\ TypeOK
  /\ ~overlapped =>
       /\ \A t \in Task : waves[WaveOf[t]].results[t] = reported[t]
       /\ \A w \in Wave : waves[w].spend = spent[w]
       /\ ~crashed /\ Running = {} =>
            \A t \in Task : (plan[t].status = "done") <=>
                            (reported[t] # None /\ reported[t].passed)

(* Invariant I5 of wave-exec.js, as far as it holds: a merge tree with     *)
(* conflicts in it stays until somebody has resolved them, unless commands *)
(* have overlapped.                                                        *)
ConflictStays ==
  [][\A w \in Wave : ~overlapped /\ mergeTree[w] \in Task =>
       mergeTree'[w] = mergeTree[w] \/ Reconcile(w)]_vars

(* What the comment to I5 says of a worktree with merge conflicts: it is   *)
(* never force-removed.  The merge tree is looked at first and removed     *)
(* afterwards, whatever another record has put there meanwhile.            *)
ConflictNeverRemoved ==
  [][\A w \in Wave : mergeTree[w] \in Task => mergeTree'[w] # "missing"]_vars

(* Invariant I3, as far as it holds: whenever others make a branch, it is  *)
(* never taken for ours, never checked out and never merged into, unless   *)
(* its name had been claimed before: a wave's own branch, which is made    *)
(* before it is claimed, is never lost in that way.  That order has its    *)
(* price: a branch of ours counts as somebody else's while it is yet to be *)
(* claimed, or for good when a generate was killed there, but only then    *)
(* and only before anything is dispatched from it.                         *)
ForeignUntouched ==
  /\ (foreign \ usurped) \cap (owned \cup trees) = {}
  /\ usurped \subseteq Task
  /\ \A w \in Wave \cap foreign : branch[w] = Bare
  /\ \A b \in refs \ (owned \cup foreign) :
       b \notin dispatched /\ (crashed \/ \E c \in Command : pc[c] = "claim" /\ job[c].wave = b)

(* What the comment to I3 says of a branch of somebody else's: it is never *)
(* silently checked out.  A task branch is claimed before it is made, so   *)
(* one that others make after a worktree add has failed is.                *)
ForeignNeverCheckedOut == foreign \cap trees = {}

(* A passed task is left unmerged only for a dependency that has not been  *)
(* delivered with an earlier wave.  The code keeps this when pull requests *)
(* are merged with a merge commit, and does not when they are squashed, as *)
(* SKILL.md says they are.                                                 *)
DeliveredDepsSuffice ==
  \A c \in Command :
    pc[c] = "savePlan" /\ job[c].passed /\ ~merged[c] =>
      \E d \in DependsOn[job[c].task] : WaveOf[d] \notin delivered

=============================================================================
