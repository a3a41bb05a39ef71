--------------------------- MODULE WaveExec_proofs ---------------------------
(***************************************************************************)
(* Proofs about the wave commands, for every plan, any number of commands  *)
(* at once, and whatever is killed when.                                   *)
(***************************************************************************)
EXTENDS WaveExec, TLAPS

Generating == {"load", "branch", "claim", "trees"}
Merging    == {"check", "clear", "add", "merge"}
Recording  == {"plan", "state", "decide", "remove", "savePlan", "saveState"} \cup Merging

(* Where a command has read wave-state.json. *)
Informed == {"branch", "claim", "trees", "rewrite", "decide", "remove", "savePlan", "saveState"} \cup Merging

(* What a command was asked for.                                           *)
JobsFit ==
  \A c \in Command :
    /\ pc[c] \in Generating \cup {"rewrite"} \cup Recording => job[c].wave \in Wave
    /\ pc[c] \in Recording =>
         job[c].task \in Task /\ WaveOf[job[c].task] = job[c].wave /\ job[c].wave \in dispatched

(* What is dispatched is claimed, what others have made is refused unless  *)
(* it was claimed before, and a wave branch is there before it is claimed. *)
Claimed ==
  /\ foreign \subseteq refs
  /\ owned \cap Wave \subseteq refs
  /\ trees \cup dispatched \subseteq owned \cap refs
  /\ (foreign \ usurped) \cap owned = {}
  /\ usurped \subseteq Task
  /\ \A w \in dispatched : TasksOf(w) \subseteq owned
  /\ \A c \in Command :
       /\ pc[c] \in {"claim", "trees", "rewrite"} => job[c].wave \in refs \ foreign
       /\ pc[c] \in {"branch", "claim", "trees"} => TasksOf(job[c].wave) \ todo[c] \subseteq owned

(* Nobody has worked on a branch before it was there, nor on another's.    *)
Untouched ==
  /\ \A w \in Wave : w \notin refs \ foreign => branch[w] = Bare
  /\ \A w \in Wave : mergeTree[w] # "none" => w \in dispatched

Ownership == Claimed /\ Untouched

(* Whatever is there under one of our names is somebody else's, or claimed *)
(* or about to be, unless a command was killed.                            *)
Accounted ==
  \A b \in refs \ (owned \cup foreign) :
    crashed \/ \E c \in Command : pc[c] = "claim" /\ job[c].wave = b

(* The results that say merged, on file or in memory, are those of tasks   *)
(* whose branch is an ancestor of their wave branch.                       *)
Claims(results, w) ==
  \A t \in Task : results[t] # None =>
    WaveOf[t] = w /\ (results[t].merged => t \in branch[w].ancestors)

ClaimsHold ==
  /\ \A w \in Wave : Claims(waves[w].results, w)
  /\ \A c \in Command :
       /\ pc[c] \in Recording /\ (job[c].already \/ merged[c]) =>
            job[c].task \in branch[job[c].wave].ancestors
       /\ pc[c] \in Ended \cup Generating => ~merged[c]
       /\ pc[c] \in Informed => Claims(waveBuf[c].results, job[c].wave)

(* What is about to be merged has its dependencies in the wave branch.     *)
DepsThere ==
  /\ DependencyOrder
  /\ \A t \in base.content : DependsOn[t] \subseteq base.content
  /\ base.ancestors \subseteq base.content
  /\ \A w \in Wave :
       /\ branch[w].ancestors \subseteq branch[w].content
       /\ mergeTree[w] \in Task => DependsOn[mergeTree[w]] \subseteq branch[w].content
  /\ \A c \in Command : pc[c] \in Merging => DependsOn[job[c].task] \subseteq branch[job[c].wave].content

(* A command that runs alone has read what is still on file.               *)
Undisturbed ==
  ~overlapped =>
    /\ \A c, d \in Running : c = d
    /\ \A c \in Command :
         /\ pc[c] \in Informed => waveBuf[c] = waves[job[c].wave]
         /\ pc[c] \in {"state", "decide", "remove", "savePlan"} \cup Merging => planBuf[c] = plan
         /\ pc[c] = "clear" => mergeTree[job[c].wave] = "clean"

(* ... and a command between its two files has the outcome in plan.json.   *)
PlanTells ==
  ~overlapped =>
    /\ \A t \in Task : waves[WaveOf[t]].results[t] = reported[t]
    /\ \A w \in Wave : waves[w].spend = spent[w]
    /\ ~crashed => \A t \in Task :
         /\ \A c \in Command : pc[c] = "saveState" /\ job[c].task = t =>
              (plan[t].status = "done" <=> job[c].passed)
         /\ (\A c \in Command : ~(pc[c] = "saveState" /\ job[c].task = t)) =>
              (plan[t].status = "done" <=> reported[t] # None /\ reported[t].passed)

IInv ==
  /\ TypeOK
  /\ JobsFit
  /\ Ownership
  /\ Accounted
  /\ ClaimsHold
  /\ DepsThere
  /\ Undisturbed
  /\ PlanTells

-----------------------------------------------------------------------------
(* The records the commands pass around have their types.                  *)
LEMMA Shapes ==
  /\ NoPlan \in PlanType /\ NoWave \in WaveType /\ Bare \in BranchType /\ NoJob \in JobType
  /\ \A t \in Task : WaveOf[t] \in Wave
  /\ \A w \in Wave : TasksOf(w) \subseteq Task
  /\ Wave \subseteq Nat
  BY PlanAssumption DEF NoPlan, NoWave, Bare, NoJob, PlanType, WaveType, BranchType, JobType,
     ResultType, Wave, TasksOf

(* The types hold at first, ...                                            *)
LEMMA TypeInit == Init => TypeOK /\ JobsFit
<1> SUFFICES ASSUME Init PROVE TypeOK /\ JobsFit
  OBVIOUS
<1>1. TypeOK
  BY Shapes, SwitchAssumption DEF Init, TypeOK, Ref, ResultType
<1>2. JobsFit
  BY DEF Init, JobsFit, Generating, Recording, Merging
<1>3. QED
  BY <1>1, <1>2

(* ... and every step keeps them.                                          *)
LEMMA TypeStep ==
  ASSUME TypeOK, JobsFit, [Next]_vars
  PROVE  TypeOK' /\ JobsFit'
<1> DEFINE Goal == TypeOK' /\ JobsFit'
<1> USE Shapes DEF TypeOK, JobsFit, Generating, Recording, Merging, Elsewhere, Goto, Exit, Start,
        files, git, local, history, Ref
<1>1. ASSUME NEW c \in Command, NEW w \in Wave, StartGenerate(c, w) PROVE Goal
  <2>1. [NoJob EXCEPT !.wave = w] \in JobType /\ [NoJob EXCEPT !.wave = w].wave = w
    BY DEF NoJob, JobType
  <2>2. QED
    BY <1>1, <2>1 DEF StartGenerate
<1>2. ASSUME NEW c \in Command, OverBudget(c) PROVE Goal
  BY <1>2 DEF OverBudget
<1>3. ASSUME NEW c \in Command, Load(c) PROVE Goal
  BY <1>3 DEF Load
<1>4. ASSUME NEW c \in Command, Refuse(c) PROVE Goal
  <2>1. ASSUME Exit(c, "branch", "refused"), Elsewhere PROVE Goal
    BY <2>1
  <2>2. ASSUME Exit(c, "trees", "refused"), Elsewhere PROVE Goal
    BY <2>2
  <2>3. QED
    BY <1>4, <2>1, <2>2 DEF Refuse
<1>5. ASSUME NEW c \in Command, GitBranch(c) PROVE Goal
  BY <1>5 DEF GitBranch
<1>6. ASSUME NEW c \in Command, ClaimBranch(c) PROVE Goal
  BY <1>6 DEF ClaimBranch
<1>7. ASSUME NEW c \in Command, AddWorktree(c) PROVE Goal
  BY <1>7 DEF AddWorktree
<1>8. ASSUME NEW c \in Command, AddFails(c) PROVE Goal
  BY <1>8 DEF AddFails
<1>9. ASSUME NEW c \in Command, WriteDispatchPlan(c) PROVE Goal
  <2>1. job[c].wave \in Wave /\ TasksOf(job[c].wave) \subseteq Task
    BY <1>9 DEF WriteDispatchPlan
  <2>2. QED
    BY <1>9, <2>1 DEF WriteDispatchPlan
<1>10. ASSUME NEW c \in Command, RewriteWaveState(c) PROVE Goal
  BY <1>10 DEF RewriteWaveState
<1>11. ASSUME NEW c \in Command, NEW t \in Task, NEW passed \in BOOLEAN, NEW already \in BOOLEAN,
              StartRecord(c, t, passed, already) PROVE Goal
  <2>1. [wave |-> WaveOf[t], task |-> t, passed |-> passed, already |-> already] \in JobType
    BY DEF JobType
  <2>2. QED
    BY <1>11, <2>1 DEF StartRecord
<1>12. ASSUME NEW c \in Command, ReadPlan(c) PROVE Goal
  BY <1>12 DEF ReadPlan
<1>13. ASSUME NEW c \in Command, ReadWaveState(c) PROVE Goal
  BY <1>13 DEF ReadWaveState
<1>14. ASSUME NEW c \in Command, Decide(c) PROVE Goal
  BY <1>14 DEF Decide, JobType
<1>15. ASSUME NEW c \in Command, Unreconciled(c) \/ CheckMergeTree(c) PROVE Goal
  <2>1. CASE Unreconciled(c)
    BY <2>1 DEF Unreconciled
  <2>2. CASE CheckMergeTree(c)
    BY <2>2 DEF CheckMergeTree
  <2>3. QED
    BY <1>15, <2>1, <2>2
<1>16. ASSUME NEW c \in Command, ClearMergeTree(c) \/ AddMergeTree(c) PROVE Goal
  BY <1>16 DEF ClearMergeTree, AddMergeTree
<1>17. ASSUME NEW c \in Command, Merge(c) PROVE Goal
  <2>1. job[c].wave \in Wave /\ job[c].task \in Task
    BY <1>17 DEF Merge
  <2>2. With(branch[job[c].wave], job[c].task) \in BranchType
    BY <2>1 DEF With, BranchType
  <2>3. QED
    BY <1>17, <2>1, <2>2 DEF Merge
<1>18. ASSUME NEW c \in Command, MergeFails(c) PROVE Goal
  BY <1>18 DEF MergeFails
<1>19. ASSUME NEW c \in Command, RemoveMergeTree(c) PROVE Goal
  BY <1>19 DEF RemoveMergeTree
<1>20. ASSUME NEW c \in Command, SavePlan(c) PROVE Goal
  <2>1. job[c].task \in Task /\ planBuf[c] \in PlanType
    BY <1>20 DEF SavePlan
  <2>2. Outcome(c, planBuf[c][job[c].task]) \in [status : {"pending", "done", "blocked"}, attempts : Nat]
    BY <2>1 DEF Outcome, PlanType, JobType
  <2>3. plan' \in PlanType
    BY <1>20, <2>1, <2>2 DEF SavePlan, PlanType
  <2>4. QED
    BY <1>20, <2>3 DEF SavePlan
<1>21. ASSUME NEW c \in Command, SaveResult(c) PROVE Goal
  <2>1. job[c].wave \in Wave /\ job[c].task \in Task
    BY <1>21 DEF SaveResult
  <2>2. Result(c) \in ResultType
    BY DEF Result, ResultType, JobType
  <2>3. waves' \in [Wave -> WaveType]
    BY <1>21, <2>1, <2>2 DEF SaveResult, WaveType
  <2>4. reported' \in [Task -> ResultType] /\ spent' \in [Wave -> Nat]
    BY <1>21, <2>1, <2>2 DEF SaveResult
  <2>5. QED
    BY <1>21, <2>1, <2>3, <2>4 DEF SaveResult
<1>22. ASSUME NEW c \in Command, Crash(c) PROVE Goal
  BY <1>22 DEF Crash
<1>23. ASSUME NEW w \in Wave, Summary(w) PROVE Goal
  BY <1>23 DEF Summary
<1>24. ASSUME NEW w \in Wave, Reconcile(w) PROVE Goal
  BY <1>24, NameAssumption DEF Reconcile, With, BranchType
<1>25. ASSUME NEW w \in Wave, Deliver(w) PROVE Goal
  BY <1>25 DEF Deliver, BranchType
<1>0. ASSUME NEW b \in Foreign, OthersBranch(b) PROVE Goal
  BY <1>0, SwitchAssumption DEF OthersBranch
<1>26. CASE UNCHANGED vars
  BY <1>26 DEF vars
<1>27. QED
  BY <1>0, <1>1, <1>2, <1>3, <1>4, <1>5, <1>6, <1>7, <1>8, <1>9, <1>10, <1>11, <1>12, <1>13, <1>14,
     <1>15, <1>16, <1>17, <1>18, <1>19, <1>20, <1>21, <1>22, <1>23, <1>24, <1>25, <1>26
     DEF Next, GenerateStep, RecordStep

(* A claim, or a branch of somebody else's, that keeps the two apart.      *)
LEMMA StillApart ==
  ASSUME NEW F, NEW U, NEW O, (F \ U) \cap O = {}, NEW b
  PROVE  /\ b \notin F \ U => (F \ U) \cap (O \cup {b}) = {}
         /\ ((F \cup {b}) \ (U \cup ({b} \cap O))) \cap O = {}
  OBVIOUS

(* A claim to what is no wave's branch claims no wave's branch.            *)
LEMMA StillWithin ==
  ASSUME NEW O, NEW S, NEW R, O \cap S \subseteq R, NEW b, b \notin S
  PROVE  (O \cup {b}) \cap S \subseteq R
  OBVIOUS

(* What others have made stays theirs.                                     *)
LEMMA ClaimedStep ==
  ASSUME TypeOK, JobsFit, Claimed, [Next]_vars
  PROVE  Claimed'
<1> USE Shapes, NameAssumption DEF TypeOK, JobsFit, Claimed, Generating, Recording, Merging,
        Elsewhere, Goto, Exit, Start, files, git, local, history
<1>a. \A w \in Wave : w \notin Task /\ (w \in owned => w \in refs \ foreign)
  OBVIOUS
<1>1. ASSUME NEW c \in Command, NEW w \in Wave, StartGenerate(c, w) PROVE Claimed'
  BY <1>1 DEF StartGenerate
<1>2. ASSUME NEW c \in Command, OverBudget(c) \/ Load(c) PROVE Claimed'
  BY <1>2 DEF OverBudget, Load
<1>3. ASSUME NEW c \in Command, Refuse(c) PROVE Claimed'
  BY <1>3 DEF Refuse
<1>4. ASSUME NEW c \in Command, GitBranch(c) PROVE Claimed'
  <2>1. job[c].wave \in Wave /\ (job[c].wave \in refs => job[c].wave \in owned)
    BY <1>4 DEF GitBranch
  <2>2. /\ UNCHANGED <<foreign, usurped, owned, trees, dispatched, job, todo>>
        /\ refs' = refs \cup {job[c].wave}
    BY <1>4 DEF GitBranch
  <2>3. /\ pc[c] = "branch" /\ pc'[c] = "claim"
        /\ \A d \in Command \ {c} : pc'[d] = pc[d]
    BY <1>4 DEF GitBranch
  <2>4. job[c].wave \in refs' \ foreign'
    BY <1>a, <2>1, <2>2
  <2>5. QED
    BY <2>1, <2>2, <2>3, <2>4
<1>5. ASSUME NEW c \in Command, ClaimBranch(c) PROVE Claimed'
  BY <1>5 DEF ClaimBranch
<1>6. ASSUME NEW c \in Command, AddWorktree(c) PROVE Claimed'
  BY <1>6 DEF AddWorktree
<1>7. ASSUME NEW c \in Command, AddFails(c) PROVE Claimed'
  <2>1. PICK t \in todo[c] \ ((refs \ owned) \cup trees) : owned' = owned \cup {t}
    BY <1>7 DEF AddFails
  <2>2. t \in Task /\ t \notin foreign \ usurped
    BY <2>1
  <2>3. /\ UNCHANGED <<foreign, usurped, refs, trees, dispatched>>
        /\ pc'[c] = "idle"
        /\ \A d \in Command \ {c} : pc'[d] = pc[d] /\ job'[d] = job[d] /\ todo'[d] = todo[d]
    BY <1>7 DEF AddFails
  <2>7. t \notin Wave
    BY <1>a, <2>2
  <2>4. owned' \cap Wave \subseteq refs'
    BY <2>1, <2>3, <2>7, StillWithin
  <2>5. (foreign' \ usurped') \cap owned' = {}
    BY <2>1, <2>2, <2>3, StillApart
  <2>6. QED
    BY <2>1, <2>3, <2>4, <2>5
<1>8. ASSUME NEW c \in Command, WriteDispatchPlan(c) PROVE Claimed'
  BY <1>8 DEF WriteDispatchPlan
<1>9. ASSUME NEW c \in Command, RewriteWaveState(c) PROVE Claimed'
  BY <1>9 DEF RewriteWaveState
<1>10. ASSUME NEW c \in Command, NEW t \in Task, NEW passed \in BOOLEAN, NEW already \in BOOLEAN, StartRecord(c, t, passed, already) PROVE Claimed'
  BY <1>10 DEF StartRecord
<1>11. ASSUME NEW c \in Command, ReadPlan(c) \/ ReadWaveState(c) \/ Decide(c) PROVE Claimed'
  BY <1>11 DEF ReadPlan, ReadWaveState, Decide
<1>12. ASSUME NEW c \in Command, Unreconciled(c) \/ CheckMergeTree(c) PROVE Claimed'
  BY <1>12 DEF Unreconciled, CheckMergeTree
<1>13. ASSUME NEW c \in Command, ClearMergeTree(c) PROVE Claimed'
  BY <1>13 DEF ClearMergeTree
<1>14. ASSUME NEW c \in Command, AddMergeTree(c) PROVE Claimed'
  <2>1. job[c].wave \in refs \ foreign
    BY <1>a, <1>14 DEF AddMergeTree
  <2>2. UNCHANGED <<foreign, usurped, owned, refs, trees, dispatched, job, todo>>
    BY <1>14 DEF AddMergeTree
  <2>3. pc'[c] \in {"merge", "rewrite"} /\ \A d \in Command \ {c} : pc'[d] = pc[d]
    BY <1>14 DEF AddMergeTree
  <2>4. QED
    BY <2>1, <2>2, <2>3
<1>15. ASSUME NEW c \in Command, Merge(c) PROVE Claimed'
  BY <1>15 DEF Merge
<1>16. ASSUME NEW c \in Command, MergeFails(c) PROVE Claimed'
  <2>1. job[c].wave \in refs \ foreign
    BY <1>a, <1>16 DEF MergeFails
  <2>2. UNCHANGED <<foreign, usurped, owned, refs, trees, dispatched, job, todo>>
    BY <1>16 DEF MergeFails
  <2>3. pc'[c] = "rewrite" /\ \A d \in Command \ {c} : pc'[d] = pc[d]
    BY <1>16 DEF MergeFails
  <2>4. QED
    BY <2>1, <2>2, <2>3
<1>17. ASSUME NEW c \in Command, RemoveMergeTree(c) PROVE Claimed'
  BY <1>17 DEF RemoveMergeTree
<1>18. ASSUME NEW c \in Command, SavePlan(c) PROVE Claimed'
  BY <1>18 DEF SavePlan
<1>19. ASSUME NEW c \in Command, SaveResult(c) PROVE Claimed'
  BY <1>19 DEF SaveResult
<1>20. ASSUME NEW c \in Command, Crash(c) PROVE Claimed'
  BY <1>20 DEF Crash
<1>21. ASSUME NEW w \in Wave, Summary(w) PROVE Claimed'
  BY <1>21 DEF Summary
<1>22. ASSUME NEW w \in Wave, Reconcile(w) PROVE Claimed'
  BY <1>22 DEF Reconcile
<1>23. ASSUME NEW w \in Wave, Deliver(w) PROVE Claimed'
  BY <1>23 DEF Deliver
<1>0. ASSUME NEW b \in Foreign, OthersBranch(b) PROVE Claimed'
  <2>1. b \in Wave \cup Task /\ b \notin refs /\ (b \in owned => b \in Task)
    BY <1>0, SwitchAssumption DEF OthersBranch, Ref
  <2>2. /\ foreign' = foreign \cup {b} /\ refs' = refs \cup {b}
        /\ usurped' = usurped \cup ({b} \cap owned)
        /\ UNCHANGED <<owned, trees, dispatched, pc, job, todo>>
    BY <1>0 DEF OthersBranch
  <2>3. (foreign' \ usurped') \cap owned' = {}
    BY <2>2, StillApart
  <2>4. usurped' \subseteq Task
    <3>1. usurped \subseteq Task /\ {b} \cap owned \subseteq Task
      BY <2>1
    <3>2. QED
      BY <2>2, <3>1
  <2>5. QED
    BY <2>1, <2>2, <2>3, <2>4
<1>24. CASE UNCHANGED vars
  BY <1>24 DEF vars
<1>25. QED
  BY <1>0, <1>1, <1>2, <1>3, <1>4, <1>5, <1>6, <1>7, <1>8, <1>9, <1>10, <1>11, <1>12, <1>13,
     <1>14, <1>15, <1>16, <1>17, <1>18, <1>19, <1>20, <1>21, <1>22, <1>23, <1>24 DEF
     Next, GenerateStep, RecordStep

(* Only a branch of our own that is there is worked on.                    *)
LEMMA UntouchedStep ==
  ASSUME TypeOK, JobsFit, Claimed, Untouched, [Next]_vars
  PROVE  Untouched'
<1> USE Shapes, NameAssumption DEF TypeOK, JobsFit, Claimed, Untouched, Generating, Recording, Merging,
        Elsewhere, Goto, Exit, Start, files, git, local, history
<1>1. ASSUME NEW c \in Command, NEW w \in Wave, StartGenerate(c, w) PROVE Untouched'
  BY <1>1 DEF StartGenerate
<1>2. ASSUME NEW c \in Command, OverBudget(c) \/ Load(c) PROVE Untouched'
  BY <1>2 DEF OverBudget, Load
<1>3. ASSUME NEW c \in Command, Refuse(c) PROVE Untouched'
  BY <1>3 DEF Refuse
<1>4. ASSUME NEW c \in Command, GitBranch(c) PROVE Untouched'
  BY <1>4 DEF GitBranch
<1>5. ASSUME NEW c \in Command, ClaimBranch(c) PROVE Untouched'
  BY <1>5 DEF ClaimBranch
<1>6. ASSUME NEW c \in Command, AddWorktree(c) PROVE Untouched'
  BY <1>6 DEF AddWorktree
<1>7. ASSUME NEW c \in Command, AddFails(c) PROVE Untouched'
  BY <1>7 DEF AddFails
<1>8. ASSUME NEW c \in Command, WriteDispatchPlan(c) PROVE Untouched'
  BY <1>8 DEF WriteDispatchPlan
<1>9. ASSUME NEW c \in Command, RewriteWaveState(c) PROVE Untouched'
  BY <1>9 DEF RewriteWaveState
<1>10. ASSUME NEW c \in Command, NEW t \in Task, NEW passed \in BOOLEAN, NEW already \in BOOLEAN, StartRecord(c, t, passed, already) PROVE Untouched'
  BY <1>10 DEF StartRecord
<1>11. ASSUME NEW c \in Command, ReadPlan(c) \/ ReadWaveState(c) \/ Decide(c) PROVE Untouched'
  BY <1>11 DEF ReadPlan, ReadWaveState, Decide
<1>12. ASSUME NEW c \in Command, Unreconciled(c) \/ CheckMergeTree(c) PROVE Untouched'
  BY <1>12 DEF Unreconciled, CheckMergeTree
<1>13. ASSUME NEW c \in Command, ClearMergeTree(c) PROVE Untouched'
  BY <1>13 DEF ClearMergeTree
<1>14. ASSUME NEW c \in Command, AddMergeTree(c) PROVE Untouched'
  BY <1>14 DEF AddMergeTree
<1>15. ASSUME NEW c \in Command, Merge(c) PROVE Untouched'
  BY <1>15 DEF Merge
<1>16. ASSUME NEW c \in Command, MergeFails(c) PROVE Untouched'
  BY <1>16 DEF MergeFails
<1>17. ASSUME NEW c \in Command, RemoveMergeTree(c) PROVE Untouched'
  BY <1>17 DEF RemoveMergeTree
<1>18. ASSUME NEW c \in Command, SavePlan(c) PROVE Untouched'
  BY <1>18 DEF SavePlan
<1>19. ASSUME NEW c \in Command, SaveResult(c) PROVE Untouched'
  BY <1>19 DEF SaveResult
<1>20. ASSUME NEW c \in Command, Crash(c) PROVE Untouched'
  BY <1>20 DEF Crash
<1>21. ASSUME NEW w \in Wave, Summary(w) PROVE Untouched'
  BY <1>21 DEF Summary
<1>22. ASSUME NEW w \in Wave, Reconcile(w) PROVE Untouched'
  BY <1>22 DEF Reconcile
<1>23. ASSUME NEW w \in Wave, Deliver(w) PROVE Untouched'
  BY <1>23 DEF Deliver
<1>0. ASSUME NEW b \in Foreign, OthersBranch(b) PROVE Untouched'
  BY <1>0, SwitchAssumption DEF OthersBranch, Ref
<1>24. CASE UNCHANGED vars
  BY <1>24 DEF vars
<1>25. QED
  BY <1>0, <1>1, <1>2, <1>3, <1>4, <1>5, <1>6, <1>7, <1>8, <1>9, <1>10, <1>11, <1>12, <1>13,
     <1>14, <1>15, <1>16, <1>17, <1>18, <1>19, <1>20, <1>21, <1>22, <1>23, <1>24 DEF
     Next, GenerateStep, RecordStep

(* A wave branch that is made is claimed next, or its command is killed.   *)
LEMMA AccountedStep ==
  ASSUME TypeOK, JobsFit, Ownership, Accounted, [Next]_vars
  PROVE  Accounted'
<1> USE DEF TypeOK, JobsFit, Accounted, Elsewhere, Goto, Exit, Start, files, git, local, history
<1>1. ASSUME NEW c \in Command, NEW w \in Wave, StartGenerate(c, w) PROVE Accounted'
  BY <1>1 DEF StartGenerate, Ended
<1>2. ASSUME NEW c \in Command, OverBudget(c) \/ Load(c) PROVE Accounted'
  BY <1>2 DEF OverBudget, Load
<1>3. ASSUME NEW c \in Command, Refuse(c) PROVE Accounted'
  BY <1>3 DEF Refuse
<1>4. ASSUME NEW c \in Command, GitBranch(c) PROVE Accounted'
  BY <1>4 DEF GitBranch
<1>5. ASSUME NEW c \in Command, ClaimBranch(c) PROVE Accounted'
  BY <1>5 DEF ClaimBranch
<1>6. ASSUME NEW c \in Command, AddWorktree(c) PROVE Accounted'
  BY <1>6 DEF AddWorktree
<1>7. ASSUME NEW c \in Command, AddFails(c) \/ WriteDispatchPlan(c) \/ RewriteWaveState(c) PROVE Accounted'
  BY <1>7 DEF AddFails, WriteDispatchPlan, RewriteWaveState
<1>8. ASSUME NEW c \in Command, NEW t \in Task, NEW passed \in BOOLEAN, NEW already \in BOOLEAN, StartRecord(c, t, passed, already) PROVE Accounted'
  BY <1>8 DEF StartRecord, Ended
<1>9. ASSUME NEW c \in Command, ReadPlan(c) \/ ReadWaveState(c) \/ Decide(c) PROVE Accounted'
  BY <1>9 DEF ReadPlan, ReadWaveState, Decide
<1>10. ASSUME NEW c \in Command, Unreconciled(c) \/ CheckMergeTree(c) \/ ClearMergeTree(c) \/ AddMergeTree(c) PROVE Accounted'
  BY <1>10 DEF Unreconciled, CheckMergeTree, ClearMergeTree, AddMergeTree
<1>11. ASSUME NEW c \in Command, Merge(c) \/ MergeFails(c) \/ RemoveMergeTree(c) \/ SavePlan(c) PROVE Accounted'
  BY <1>11 DEF Merge, MergeFails, RemoveMergeTree, SavePlan
<1>12. ASSUME NEW c \in Command, SaveResult(c) PROVE Accounted'
  BY <1>12 DEF SaveResult
<1>13. ASSUME NEW c \in Command, Crash(c) PROVE Accounted'
  BY <1>13 DEF Crash
<1>14. ASSUME NEW w \in Wave, Summary(w) \/ Reconcile(w) \/ Deliver(w) PROVE Accounted'
  BY <1>14 DEF Summary, Reconcile, Deliver
<1>15. ASSUME NEW b \in Foreign, OthersBranch(b) PROVE Accounted'
  BY <1>15 DEF OthersBranch
<1>16. CASE UNCHANGED vars
  BY <1>16 DEF vars
<1>17. QED
  BY <1>1, <1>2, <1>3, <1>4, <1>5, <1>6, <1>7, <1>8, <1>9, <1>10, <1>11, <1>12, <1>13, <1>14, <1>15, <1>16
     DEF Next, GenerateStep, RecordStep

(* A wave branch only grows: one that is made anew was not there before.   *)
LEMMA BranchGrows ==
  ASSUME TypeOK, JobsFit, Ownership, [Next]_vars,
         NEW v \in Wave
  PROVE  branch[v].ancestors \subseteq branch'[v].ancestors /\ branch[v].content \subseteq branch'[v].content
<1> DEFINE Grows == branch[v].ancestors \subseteq branch'[v].ancestors /\ branch[v].content \subseteq branch'[v].content
<1> USE DEF TypeOK, JobsFit, Ownership, Untouched, Generating, Recording, Merging,
        Elsewhere, Goto, Exit, Start, files, git, local, history
<1>1. ASSUME NEW c \in Command, NEW w \in Wave, StartGenerate(c, w) PROVE Grows
  BY <1>1 DEF StartGenerate
<1>2. ASSUME NEW c \in Command, OverBudget(c) \/ Load(c) PROVE Grows
  BY <1>2 DEF OverBudget, Load
<1>3. ASSUME NEW c \in Command, Refuse(c) PROVE Grows
  BY <1>3 DEF Refuse
<1>4. ASSUME NEW c \in Command, GitBranch(c) PROVE Grows
  BY <1>4 DEF GitBranch, Bare
<1>5. ASSUME NEW c \in Command, ClaimBranch(c) PROVE Grows
  BY <1>5 DEF ClaimBranch
<1>6. ASSUME NEW c \in Command, AddWorktree(c) PROVE Grows
  BY <1>6 DEF AddWorktree
<1>7. ASSUME NEW c \in Command, AddFails(c) PROVE Grows
  BY <1>7 DEF AddFails
<1>8. ASSUME NEW c \in Command, WriteDispatchPlan(c) PROVE Grows
  BY <1>8 DEF WriteDispatchPlan
<1>9. ASSUME NEW c \in Command, RewriteWaveState(c) PROVE Grows
  BY <1>9 DEF RewriteWaveState
<1>10. ASSUME NEW c \in Command, NEW t \in Task, NEW passed \in BOOLEAN, NEW already \in BOOLEAN, StartRecord(c, t, passed, already) PROVE Grows
  BY <1>10 DEF StartRecord
<1>11. ASSUME NEW c \in Command, ReadPlan(c) \/ ReadWaveState(c) \/ Decide(c) PROVE Grows
  BY <1>11 DEF ReadPlan, ReadWaveState, Decide
<1>12. ASSUME NEW c \in Command, Unreconciled(c) \/ CheckMergeTree(c) PROVE Grows
  BY <1>12 DEF Unreconciled, CheckMergeTree
<1>13. ASSUME NEW c \in Command, ClearMergeTree(c) PROVE Grows
  BY <1>13 DEF ClearMergeTree
<1>14. ASSUME NEW c \in Command, AddMergeTree(c) PROVE Grows
  BY <1>14 DEF AddMergeTree
<1>15. ASSUME NEW c \in Command, Merge(c) PROVE Grows
  BY <1>15 DEF Merge, With, BranchType
<1>16. ASSUME NEW c \in Command, MergeFails(c) PROVE Grows
  BY <1>16 DEF MergeFails
<1>17. ASSUME NEW c \in Command, RemoveMergeTree(c) PROVE Grows
  BY <1>17 DEF RemoveMergeTree
<1>18. ASSUME NEW c \in Command, Crash(c) \/ SavePlan(c) PROVE Grows
  BY <1>18 DEF Crash, SavePlan
<1>19. ASSUME NEW c \in Command, SaveResult(c) PROVE Grows
  BY <1>19 DEF SaveResult
<1>20. ASSUME NEW w \in Wave, Summary(w) PROVE Grows
  BY <1>20 DEF Summary
<1>21. ASSUME NEW w \in Wave, Reconcile(w) PROVE Grows
  BY <1>21 DEF Reconcile, With, BranchType
<1>22. ASSUME NEW w \in Wave, Deliver(w) PROVE Grows
  BY <1>22 DEF Deliver
<1>0. ASSUME NEW b \in Foreign, OthersBranch(b) PROVE Grows
  BY <1>0 DEF OthersBranch
<1>23. CASE UNCHANGED vars
  BY <1>23 DEF vars
<1>24. QED
  BY <1>0, <1>1, <1>2, <1>3, <1>4, <1>5, <1>6, <1>7, <1>8, <1>9, <1>10, <1>11, <1>12, <1>13,
     <1>14, <1>15, <1>16, <1>17, <1>18, <1>19, <1>20, <1>21, <1>22, <1>23 DEF Next,
     GenerateStep, RecordStep

(* A result that says merged speaks of a branch that is, and stays, an     *)
(* ancestor; stale copies of it do so too.                                 *)
LEMMA ClaimsStep ==
  ASSUME TypeOK, JobsFit, Ownership, ClaimsHold, [Next]_vars
  PROVE  ClaimsHold'
<1> DEFINE Still(r, v) == \A t \in Task : r[t] # None =>
             WaveOf[t] = v /\ (r[t].merged => t \in branch'[v].ancestors)
           Goal == /\ \A v \in Wave : Still(waves'[v].results, v)
                   /\ \A d \in Command :
                        /\ pc'[d] \in Recording /\ (job'[d].already \/ merged'[d]) =>
                             job'[d].task \in branch'[job'[d].wave].ancestors
                        /\ pc'[d] \in Ended \cup Generating => ~merged'[d]
                        /\ pc'[d] \in Informed => Still(waveBuf'[d].results, job'[d].wave)
<1>a. \A v \in Wave : branch[v].ancestors \subseteq branch'[v].ancestors
  BY BranchGrows
<1>b. \A r, v : v \in Wave /\ Claims(r, v) => Still(r, v)
  BY <1>a DEF Claims
<1>c. /\ \A v \in Wave : Still(waves[v].results, v)
      /\ \A d \in Command :
           /\ pc[d] \in Recording /\ (job[d].already \/ merged[d]) =>
                job[d].task \in branch'[job[d].wave].ancestors
           /\ pc[d] \in Ended \cup Generating => ~merged[d]
           /\ pc[d] \in Informed => Still(waveBuf[d].results, job[d].wave)
  BY <1>a, <1>b DEF ClaimsHold, JobsFit, Informed, Generating, Recording, Merging
<1> SUFFICES Goal
  BY DEF ClaimsHold, Claims
<1> HIDE DEF Still
<1> USE Shapes, <1>c DEF TypeOK, JobsFit, Ended, Generating, Recording, Merging, Informed,
        Elsewhere, Goto, Exit, Start, files, git, local, history
<1>1. ASSUME NEW c \in Command, NEW w \in Wave, StartGenerate(c, w) PROVE Goal
  BY <1>1 DEF StartGenerate
<1>2. ASSUME NEW c \in Command, OverBudget(c) PROVE Goal
  BY <1>2 DEF OverBudget
<1>3. ASSUME NEW c \in Command, Load(c) PROVE Goal
  BY <1>3 DEF Load
<1>4. ASSUME NEW c \in Command, Refuse(c) PROVE Goal
  BY <1>4 DEF Refuse
<1>5. ASSUME NEW c \in Command, GitBranch(c) PROVE Goal
  BY <1>5 DEF GitBranch
<1>6. ASSUME NEW c \in Command, ClaimBranch(c) PROVE Goal
  BY <1>6 DEF ClaimBranch
<1>7. ASSUME NEW c \in Command, AddWorktree(c) PROVE Goal
  BY <1>7 DEF AddWorktree
<1>8. ASSUME NEW c \in Command, AddFails(c) PROVE Goal
  BY <1>8 DEF AddFails
<1>9. ASSUME NEW c \in Command, WriteDispatchPlan(c) PROVE Goal
  BY <1>9 DEF WriteDispatchPlan
<1>10. ASSUME NEW c \in Command, RewriteWaveState(c) PROVE Goal
  BY <1>10 DEF RewriteWaveState
<1>11. ASSUME NEW c \in Command, NEW t \in Task, NEW passed \in BOOLEAN, NEW already \in BOOLEAN, StartRecord(c, t, passed, already) PROVE Goal
  BY <1>11 DEF StartRecord
<1>12. ASSUME NEW c \in Command, ReadPlan(c) PROVE Goal
  BY <1>12 DEF ReadPlan
<1>13. ASSUME NEW c \in Command, ReadWaveState(c) PROVE Goal
  BY <1>13 DEF ReadWaveState
<1>14. ASSUME NEW c \in Command, Decide(c) PROVE Goal
  BY <1>14 DEF Decide
<1>15. ASSUME NEW c \in Command, Unreconciled(c) \/ CheckMergeTree(c) PROVE Goal
  BY <1>15 DEF Unreconciled, CheckMergeTree
<1>16. ASSUME NEW c \in Command, ClearMergeTree(c) PROVE Goal
  BY <1>16 DEF ClearMergeTree
<1>17. ASSUME NEW c \in Command, AddMergeTree(c) PROVE Goal
  BY <1>17 DEF AddMergeTree
<1>18. ASSUME NEW c \in Command, Merge(c) PROVE Goal
  BY <1>18 DEF Merge, With, BranchType
<1>19. ASSUME NEW c \in Command, MergeFails(c) PROVE Goal
  BY <1>19 DEF MergeFails
<1>20. ASSUME NEW c \in Command, RemoveMergeTree(c) PROVE Goal
  BY <1>20 DEF RemoveMergeTree
<1>21. ASSUME NEW c \in Command, Crash(c) \/ SavePlan(c) PROVE Goal
  BY <1>21 DEF Crash, SavePlan
<1>22. ASSUME NEW c \in Command, SaveResult(c) PROVE Goal
  <2>1. job[c].wave \in Wave /\ job[c].task \in Task /\ WaveOf[job[c].task] = job[c].wave
    BY <1>22 DEF SaveResult
  <2>2. Still(waveBuf[c].results, job[c].wave)
        /\ (merged[c] => job[c].task \in branch'[job[c].wave].ancestors)
    BY <1>22 DEF SaveResult
  <2>3. Still([waveBuf[c].results EXCEPT ![job[c].task] = Result(c)], job[c].wave)
    BY <2>1, <2>2 DEF Still, Result, WaveType
  <2>4. QED
    BY <1>22, <2>1, <2>3 DEF SaveResult
<1>23. ASSUME NEW w \in Wave, Summary(w) PROVE Goal
  BY <1>23 DEF Summary
<1>24. ASSUME NEW w \in Wave, Reconcile(w) PROVE Goal
  BY <1>24 DEF Reconcile
<1>25. ASSUME NEW w \in Wave, Deliver(w) PROVE Goal
  BY <1>25 DEF Deliver
<1>0. ASSUME NEW b \in Foreign, OthersBranch(b) PROVE Goal
  BY <1>0 DEF OthersBranch
<1>26. CASE UNCHANGED vars
  BY <1>26 DEF vars
<1>27. QED
  BY <1>0, <1>1, <1>2, <1>3, <1>4, <1>5, <1>6, <1>7, <1>8, <1>9, <1>10, <1>11, <1>12, <1>13,
     <1>14, <1>15, <1>16, <1>17, <1>18, <1>19, <1>20, <1>21, <1>22, <1>23, <1>24, <1>25,
     <1>26 DEF Next, GenerateStep, RecordStep

(* A branch is merged only after those it depends on: what a command has   *)
(* found ready, and what a builder reconciles, has them in the wave branch.  *)
LEMMA DepsStep ==
  ASSUME TypeOK, JobsFit, Ownership, ClaimsHold, DepsThere, [Next]_vars
  PROVE  DepsThere'
<1> DEFINE Goal == /\ \A v \in Wave : \A t \in branch'[v].content : DependsOn[t] \subseteq branch'[v].content
                   /\ \A t \in base'.content : DependsOn[t] \subseteq base'.content
                   /\ base'.ancestors \subseteq base'.content
                   /\ \A v \in Wave :
                        /\ branch'[v].ancestors \subseteq branch'[v].content
                        /\ mergeTree'[v] \in Task => DependsOn[mergeTree'[v]] \subseteq branch'[v].content
                   /\ \A d \in Command : pc'[d] \in Merging =>
                        DependsOn[job'[d].task] \subseteq branch'[job'[d].wave].content
<1>a. \A v \in Wave : branch[v].content \subseteq branch'[v].content
  BY BranchGrows
<1>b. /\ \A v \in Wave : \A t \in branch[v].content : DependsOn[t] \subseteq branch[v].content
      /\ \A t \in base.content : DependsOn[t] \subseteq base.content
      /\ base.ancestors \subseteq base.content
      /\ \A v \in Wave :
           /\ branch[v].ancestors \subseteq branch[v].content
           /\ mergeTree[v] \in Task => DependsOn[mergeTree[v]] \subseteq branch'[v].content
      /\ \A d \in Command : pc[d] \in Merging =>
           DependsOn[job[d].task] \subseteq branch'[job[d].wave].content
  BY <1>a DEF DepsThere, DependencyOrder, JobsFit, Recording, Merging
<1> SUFFICES Goal
  BY DEF DepsThere, DependencyOrder
<1> USE Shapes, PlanAssumption, NameAssumption, <1>b DEF TypeOK, JobsFit, Generating, Recording, Merging,
        Elsewhere, Goto, Exit, Start, files, git, local, history
<1>1. ASSUME NEW c \in Command, NEW w \in Wave, StartGenerate(c, w) PROVE Goal
  BY <1>1 DEF StartGenerate
<1>2. ASSUME NEW c \in Command, OverBudget(c) \/ Load(c) PROVE Goal
  BY <1>2 DEF OverBudget, Load
<1>3. ASSUME NEW c \in Command, Refuse(c) PROVE Goal
  BY <1>3 DEF Refuse
<1>4. ASSUME NEW c \in Command, GitBranch(c) PROVE Goal
  BY <1>4 DEF GitBranch, Bare
<1>5. ASSUME NEW c \in Command, ClaimBranch(c) PROVE Goal
  BY <1>5 DEF ClaimBranch
<1>6. ASSUME NEW c \in Command, AddWorktree(c) PROVE Goal
  BY <1>6 DEF AddWorktree
<1>7. ASSUME NEW c \in Command, AddFails(c) PROVE Goal
  BY <1>7 DEF AddFails
<1>8. ASSUME NEW c \in Command, WriteDispatchPlan(c) PROVE Goal
  BY <1>8 DEF WriteDispatchPlan
<1>9. ASSUME NEW c \in Command, RewriteWaveState(c) PROVE Goal
  BY <1>9 DEF RewriteWaveState
<1>10. ASSUME NEW c \in Command, NEW t \in Task, NEW passed \in BOOLEAN, NEW already \in BOOLEAN, StartRecord(c, t, passed, already) PROVE Goal
  BY <1>10 DEF StartRecord
<1>11. ASSUME NEW c \in Command, ReadPlan(c) PROVE Goal
  BY <1>11 DEF ReadPlan
<1>12. ASSUME NEW c \in Command, ReadWaveState(c) PROVE Goal
  BY <1>12 DEF ReadWaveState
<1>13. ASSUME NEW c \in Command, Decide(c) PROVE Goal
  <2>1. job[c].wave \in Wave /\ job[c].task \in Task /\ Claims(waveBuf[c].results, job[c].wave)
    BY <1>13 DEF Decide, ClaimsHold, Informed
  <2>2. ASSUME Ready(c), NEW d \in DependsOn[job[c].task] PROVE d \in branch[job[c].wave].content
    <3>1. d \in Task /\ isDepSatisfied(c, d)
      BY <2>1, <2>2 DEF Ready
    <3>2. d \in branch[job[c].wave].ancestors
      BY <2>1, <3>1 DEF isDepSatisfied, Claims, Passed
    <3>3. QED
      BY <2>1, <3>2
  <2>3. QED
    BY <1>13, <2>1, <2>2 DEF Decide
<1>14. ASSUME NEW c \in Command, Unreconciled(c) \/ CheckMergeTree(c) PROVE Goal
  BY <1>14 DEF Unreconciled, CheckMergeTree
<1>15. ASSUME NEW c \in Command, ClearMergeTree(c) PROVE Goal
  BY <1>15 DEF ClearMergeTree
<1>16. ASSUME NEW c \in Command, AddMergeTree(c) PROVE Goal
  BY <1>16 DEF AddMergeTree
<1>17. ASSUME NEW c \in Command, Merge(c) PROVE Goal
  <2>1. job[c].wave \in Wave /\ job[c].task \in Task
        /\ DependsOn[job[c].task] \subseteq branch[job[c].wave].content
    BY <1>17 DEF Merge, DepsThere
  <2>2. branch' = [branch EXCEPT ![job[c].wave] = With(branch[job[c].wave], job[c].task)]
        /\ UNCHANGED <<base, mergeTree, job>> /\ pc'[c] = "remove"
        /\ \A d \in Command \ {c} : pc'[d] = pc[d]
    BY <1>17 DEF Merge
  <2>3. \A v \in Wave :
          /\ branch'[v].content = branch[v].content \cup (IF v = job[c].wave THEN {job[c].task} ELSE {})
          /\ branch'[v].ancestors = branch[v].ancestors \cup (IF v = job[c].wave THEN {job[c].task} ELSE {})
    BY <2>1, <2>2 DEF With, BranchType
  <2>4. QED
    BY <2>1, <2>2, <2>3
<1>18. ASSUME NEW c \in Command, MergeFails(c) PROVE Goal
  <2>1. job[c].wave \in Wave /\ job[c].task \in Task
        /\ DependsOn[job[c].task] \subseteq branch'[job[c].wave].content
    BY <1>18 DEF MergeFails
  <2>2. /\ UNCHANGED <<branch, base, job>> /\ pc'[c] = "rewrite"
        /\ \A d \in Command \ {c} : pc'[d] = pc[d]
        /\ \A v \in Wave : mergeTree'[v] = mergeTree[v] \/ (v = job[c].wave /\ mergeTree'[v] = job[c].task)
    BY <1>18 DEF MergeFails
  <2>3. QED
    BY <2>1, <2>2
<1>19. ASSUME NEW c \in Command, RemoveMergeTree(c) PROVE Goal
  BY <1>19 DEF RemoveMergeTree
<1>20. ASSUME NEW c \in Command, Crash(c) \/ SavePlan(c) PROVE Goal
  BY <1>20, SMTT(30) DEF Crash, SavePlan
<1>21. ASSUME NEW c \in Command, SaveResult(c) PROVE Goal
  BY <1>21 DEF SaveResult
<1>22. ASSUME NEW w \in Wave, Summary(w) PROVE Goal
  BY <1>22 DEF Summary
<1>23. ASSUME NEW w \in Wave, Reconcile(w) PROVE Goal
  <2>1. mergeTree[w] \in Task /\ DependsOn[mergeTree[w]] \subseteq branch[w].content
    BY <1>23 DEF Reconcile, DepsThere
  <2>2. branch' = [branch EXCEPT ![w] = With(branch[w], mergeTree[w])]
        /\ mergeTree' = [mergeTree EXCEPT ![w] = "clean"] /\ UNCHANGED <<base, job, pc>>
    BY <1>23 DEF Reconcile
  <2>3. \A v \in Wave :
          /\ branch'[v].content = branch[v].content \cup (IF v = w THEN {mergeTree[w]} ELSE {})
          /\ branch'[v].ancestors = branch[v].ancestors \cup (IF v = w THEN {mergeTree[w]} ELSE {})
    BY <2>1, <2>2 DEF With, BranchType
  <2>4. QED
    BY <2>1, <2>2, <2>3
<1>24. ASSUME NEW w \in Wave, Deliver(w) PROVE Goal
  BY <1>24 DEF Deliver
<1>0. ASSUME NEW b \in Foreign, OthersBranch(b) PROVE Goal
  BY <1>0 DEF OthersBranch
<1>25. CASE UNCHANGED vars
  BY <1>25 DEF vars
<1> HIDE <1>b DEF Goal, TypeOK, JobsFit
<1>26. QED
  BY <1>0, <1>1, <1>2, <1>3, <1>4, <1>5, <1>6, <1>7, <1>8, <1>9, <1>10, <1>11, <1>12, <1>13,
     <1>14, <1>15, <1>16, <1>17, <1>18, <1>19, <1>20, <1>21, <1>22, <1>23, <1>24, <1>25
     DEF Next, GenerateStep, RecordStep

(* What has happened has happened.                                         *)
LEMMA HistoryKept ==
  ASSUME TypeOK, [Next]_vars
  PROVE  (overlapped => overlapped') /\ (crashed => crashed')
<1> DEFINE Kept == (overlapped => overlapped') /\ (crashed => crashed')
<1> USE DEF Elsewhere, Goto, Exit, Start, files, git, local, history
<1>1. ASSUME NEW c \in Command, NEW w \in Wave, StartGenerate(c, w) PROVE Kept
  BY <1>1 DEF StartGenerate
<1>2. ASSUME NEW c \in Command, OverBudget(c) \/ Load(c) \/ Unreconciled(c) \/ CheckMergeTree(c) PROVE Kept
  BY <1>2 DEF OverBudget, Load, Unreconciled, CheckMergeTree
<1>3. ASSUME NEW c \in Command, Refuse(c) PROVE Kept
  BY <1>3 DEF Refuse
<1>4. ASSUME NEW c \in Command, GitBranch(c) \/ ClaimBranch(c) \/ AddWorktree(c) PROVE Kept
  BY <1>4 DEF GitBranch, ClaimBranch, AddWorktree
<1>5. ASSUME NEW c \in Command, AddFails(c) \/ WriteDispatchPlan(c) \/ RewriteWaveState(c) PROVE Kept
  BY <1>5 DEF AddFails, WriteDispatchPlan, RewriteWaveState
<1>6. ASSUME NEW c \in Command, NEW t \in Task, NEW passed \in BOOLEAN, NEW already \in BOOLEAN, StartRecord(c, t, passed, already) PROVE Kept
  BY <1>6 DEF StartRecord
<1>7. ASSUME NEW c \in Command, ReadPlan(c) \/ ReadWaveState(c) \/ Decide(c) PROVE Kept
  BY <1>7 DEF ReadPlan, ReadWaveState, Decide
<1>8. ASSUME NEW c \in Command, ClearMergeTree(c) \/ AddMergeTree(c) \/ MergeFails(c) PROVE Kept
  BY <1>8 DEF ClearMergeTree, AddMergeTree, MergeFails
<1>9. ASSUME NEW c \in Command, Merge(c) \/ RemoveMergeTree(c) \/ SavePlan(c) PROVE Kept
  BY <1>9 DEF Merge, RemoveMergeTree, SavePlan
<1>10. ASSUME NEW c \in Command, SaveResult(c) PROVE Kept
  BY <1>10 DEF SaveResult
<1>11. ASSUME NEW c \in Command, Crash(c) PROVE Kept
  BY <1>11 DEF Crash
<1>12. ASSUME NEW w \in Wave, Summary(w) \/ Reconcile(w) \/ Deliver(w) PROVE Kept
  BY <1>12 DEF Summary, Reconcile, Deliver
<1>0. ASSUME NEW b \in Foreign, OthersBranch(b) PROVE Kept
  BY <1>0 DEF OthersBranch
<1>13. CASE UNCHANGED vars
  BY <1>13 DEF vars
<1>14. QED
  BY <1>0, <1>1, <1>2, <1>3, <1>4, <1>5, <1>6, <1>7, <1>8, <1>9, <1>10, <1>11, <1>12, <1>13
     DEF Next, GenerateStep, RecordStep

(* A command that is alone finds its files as it has read them.            *)
LEMMA UndisturbedStep ==
  ASSUME TypeOK, JobsFit, Undisturbed, [Next]_vars
  PROVE  Undisturbed'
<1> SUFFICES ASSUME ~overlapped' PROVE Undisturbed'
  BY DEF Undisturbed
<1>a. ~overlapped /\ (crashed => crashed')
  BY HistoryKept
<1> DEFINE Goal == /\ \A d, e \in Command : pc'[d] \notin Ended /\ pc'[e] \notin Ended => d = e
                   /\ \A d \in Command :
                        /\ pc'[d] \in Informed => waveBuf'[d] = waves'[job'[d].wave]
                        /\ pc'[d] \in {"state", "decide", "remove", "savePlan"} \cup Merging => planBuf'[d] = plan'
                        /\ pc'[d] = "clear" => mergeTree'[job'[d].wave] = "clean"
<1>b. /\ \A d, e \in Command : pc[d] \notin Ended /\ pc[e] \notin Ended => d = e
      /\ \A d \in Command :
           /\ pc[d] \in Informed => waveBuf[d] = waves[job[d].wave]
           /\ pc[d] \in {"state", "decide", "remove", "savePlan"} \cup Merging => planBuf[d] = plan
           /\ pc[d] = "clear" => mergeTree[job[d].wave] = "clean"
  BY <1>a DEF Undisturbed, Running
<1> SUFFICES Goal
  BY DEF Undisturbed, Running
<1> USE Shapes, NameAssumption, <1>a, <1>b DEF TypeOK, JobsFit, Ended, Generating, Recording, Merging, Informed,
        Elsewhere, Goto, Exit, Start, files, git, local, history
<1>1. ASSUME NEW c \in Command, NEW w \in Wave, StartGenerate(c, w) PROVE Goal
  <2>1. \A d \in Command : pc[d] \in Ended
    BY <1>1 DEF StartGenerate, Running
  <2>2. QED
    BY <1>1, <2>1 DEF StartGenerate
<1>2. ASSUME NEW c \in Command, OverBudget(c) \/ Load(c) PROVE Goal
  BY <1>2 DEF OverBudget, Load
<1>3. ASSUME NEW c \in Command, Refuse(c) PROVE Goal
  BY <1>3 DEF Refuse
<1>4. ASSUME NEW c \in Command, GitBranch(c) PROVE Goal
  BY <1>4 DEF GitBranch
<1>5. ASSUME NEW c \in Command, ClaimBranch(c) PROVE Goal
  BY <1>5 DEF ClaimBranch
<1>6. ASSUME NEW c \in Command, AddWorktree(c) PROVE Goal
  BY <1>6 DEF AddWorktree
<1>7. ASSUME NEW c \in Command, AddFails(c) PROVE Goal
  BY <1>7 DEF AddFails
<1>8. ASSUME NEW c \in Command, WriteDispatchPlan(c) PROVE Goal
  BY <1>8 DEF WriteDispatchPlan
<1>9. ASSUME NEW c \in Command, RewriteWaveState(c) PROVE Goal
  BY <1>9 DEF RewriteWaveState
<1>10. ASSUME NEW c \in Command, NEW t \in Task, NEW passed \in BOOLEAN, NEW already \in BOOLEAN, StartRecord(c, t, passed, already) PROVE Goal
  <2>1. \A d \in Command : pc[d] \in Ended
    BY <1>10 DEF StartRecord, Running
  <2>2. QED
    BY <1>10, <2>1 DEF StartRecord
<1>11. ASSUME NEW c \in Command, ReadPlan(c) PROVE Goal
  BY <1>11 DEF ReadPlan
<1>12. ASSUME NEW c \in Command, ReadWaveState(c) PROVE Goal
  BY <1>12 DEF ReadWaveState
<1>13. ASSUME NEW c \in Command, Decide(c) PROVE Goal
  BY <1>13 DEF Decide
<1>14. ASSUME NEW c \in Command, Unreconciled(c) \/ CheckMergeTree(c) PROVE Goal
  BY <1>14 DEF Unreconciled, CheckMergeTree
<1>15. ASSUME NEW c \in Command, ClearMergeTree(c) PROVE Goal
  BY <1>15 DEF ClearMergeTree
<1>16. ASSUME NEW c \in Command, AddMergeTree(c) PROVE Goal
  BY <1>16 DEF AddMergeTree
<1>17. ASSUME NEW c \in Command, Merge(c) PROVE Goal
  BY <1>17 DEF Merge
<1>18. ASSUME NEW c \in Command, MergeFails(c) PROVE Goal
  BY <1>18 DEF MergeFails
<1>19. ASSUME NEW c \in Command, RemoveMergeTree(c) PROVE Goal
  BY <1>19 DEF RemoveMergeTree
<1>20. ASSUME NEW c \in Command, SavePlan(c) PROVE Goal
  BY <1>20 DEF SavePlan
<1>21. ASSUME NEW c \in Command, SaveResult(c) PROVE Goal
  <2>1. /\ pc[c] = "saveState" /\ pc' = [pc EXCEPT ![c] = "idle"]
        /\ \A d \in Command \ {c} : pc[d] \in Ended
    BY <1>21 DEF SaveResult
  <2>2. \A d \in Command : pc'[d] \in Ended
    BY <2>1
  <2>3. QED
    BY <2>2
<1>22. ASSUME NEW c \in Command, Crash(c) PROVE Goal
  BY <1>22 DEF Crash
<1>23. ASSUME NEW w \in Wave, Summary(w) PROVE Goal
  BY <1>23 DEF Summary
<1>24. ASSUME NEW w \in Wave, Reconcile(w) PROVE Goal
  BY <1>24 DEF Reconcile
<1>25. ASSUME NEW w \in Wave, Deliver(w) PROVE Goal
  BY <1>25 DEF Deliver
<1>0. ASSUME NEW b \in Foreign, OthersBranch(b) PROVE Goal
  BY <1>0 DEF OthersBranch
<1>26. CASE UNCHANGED vars
  BY <1>26 DEF vars
<1> HIDE DEF Goal
<1>27. QED
  BY <1>0, <1>1, <1>2, <1>3, <1>4, <1>5, <1>6, <1>7, <1>8, <1>9, <1>10, <1>11, <1>12, <1>13,
     <1>14, <1>15, <1>16, <1>17, <1>18, <1>19, <1>20, <1>21, <1>22, <1>23, <1>24, <1>25,
     <1>26 DEF Next, GenerateStep, RecordStep

(* What such a command records is what is on file when it ends.            *)
LEMMA PlanTellsStep ==
  ASSUME TypeOK, JobsFit, Undisturbed, PlanTells, [Next]_vars
  PROVE  PlanTells'
<1> SUFFICES ASSUME ~overlapped' PROVE PlanTells'
  BY DEF PlanTells
<1>a. ~overlapped /\ (crashed => crashed')
  BY HistoryKept
<1> DEFINE Goal == /\ \A u \in Task : waves'[WaveOf[u]].results[u] = reported'[u]
                   /\ \A v \in Wave : waves'[v].spend = spent'[v]
                   /\ ~crashed' => \A u \in Task :
                        /\ \A d \in Command : pc'[d] = "saveState" /\ job'[d].task = u =>
                             (plan'[u].status = "done" <=> job'[d].passed)
                        /\ (\A d \in Command : ~(pc'[d] = "saveState" /\ job'[d].task = u)) =>
                             (plan'[u].status = "done" <=> reported'[u] # None /\ reported'[u].passed)
<1>b. /\ \A d, e \in Command : pc[d] \notin Ended /\ pc[e] \notin Ended => d = e
      /\ \A d \in Command :
           /\ pc[d] \in Informed => waveBuf[d] = waves[job[d].wave]
           /\ pc[d] = "savePlan" => planBuf[d] = plan
  BY <1>a DEF Undisturbed, Running
<1>c. /\ \A u \in Task : waves[WaveOf[u]].results[u] = reported[u]
      /\ \A v \in Wave : waves[v].spend = spent[v]
      /\ ~crashed => \A u \in Task :
           /\ \A d \in Command : pc[d] = "saveState" /\ job[d].task = u =>
                (plan[u].status = "done" <=> job[d].passed)
           /\ (\A d \in Command : ~(pc[d] = "saveState" /\ job[d].task = u)) =>
                (plan[u].status = "done" <=> reported[u] # None /\ reported[u].passed)
  BY <1>a DEF PlanTells
<1> SUFFICES Goal
  BY DEF PlanTells
<1> USE Shapes, NameAssumption, <1>b, <1>c DEF TypeOK, JobsFit, Ended, Generating, Recording, Merging, Informed,
        Elsewhere, Goto, Exit, Start, files, git, local, history
<1>1. ASSUME NEW c \in Command, NEW w \in Wave, StartGenerate(c, w) PROVE Goal
  BY <1>1 DEF StartGenerate
<1>2. ASSUME NEW c \in Command, OverBudget(c) \/ Load(c) PROVE Goal
  BY <1>2 DEF OverBudget, Load
<1>3. ASSUME NEW c \in Command, Refuse(c) PROVE Goal
  BY <1>3, SMTT(30) DEF Refuse
<1>4. ASSUME NEW c \in Command, GitBranch(c) PROVE Goal
  BY <1>4 DEF GitBranch
<1>5. ASSUME NEW c \in Command, ClaimBranch(c) PROVE Goal
  BY <1>5 DEF ClaimBranch
<1>6. ASSUME NEW c \in Command, AddWorktree(c) PROVE Goal
  BY <1>6 DEF AddWorktree
<1>7. ASSUME NEW c \in Command, AddFails(c) PROVE Goal
  BY <1>7 DEF AddFails
<1>8. ASSUME NEW c \in Command, WriteDispatchPlan(c) PROVE Goal
  BY <1>8 DEF WriteDispatchPlan
<1>9. ASSUME NEW c \in Command, RewriteWaveState(c) PROVE Goal
  BY <1>9 DEF RewriteWaveState
<1>10. ASSUME NEW c \in Command, NEW t \in Task, NEW passed \in BOOLEAN, NEW already \in BOOLEAN, StartRecord(c, t, passed, already) PROVE Goal
  BY <1>10 DEF StartRecord
<1>11. ASSUME NEW c \in Command, ReadPlan(c) PROVE Goal
  BY <1>11 DEF ReadPlan
<1>12. ASSUME NEW c \in Command, ReadWaveState(c) PROVE Goal
  BY <1>12 DEF ReadWaveState
<1>13. ASSUME NEW c \in Command, Decide(c) PROVE Goal
  BY <1>13 DEF Decide
<1>14. ASSUME NEW c \in Command, Unreconciled(c) \/ CheckMergeTree(c) PROVE Goal
  BY <1>14 DEF Unreconciled, CheckMergeTree
<1>15. ASSUME NEW c \in Command, ClearMergeTree(c) PROVE Goal
  BY <1>15 DEF ClearMergeTree
<1>16. ASSUME NEW c \in Command, AddMergeTree(c) PROVE Goal
  BY <1>16 DEF AddMergeTree
<1>17. ASSUME NEW c \in Command, Merge(c) PROVE Goal
  BY <1>17 DEF Merge
<1>18. ASSUME NEW c \in Command, MergeFails(c) PROVE Goal
  BY <1>18 DEF MergeFails
<1>19. ASSUME NEW c \in Command, RemoveMergeTree(c) PROVE Goal
  BY <1>19 DEF RemoveMergeTree
<1>20. ASSUME NEW c \in Command, SavePlan(c) PROVE Goal
  <2>1. /\ planBuf[c] = plan /\ job[c].task \in Task /\ pc[c] = "savePlan"
        /\ \A d \in Command \ {c} : pc[d] \in Ended
    BY <1>20 DEF SavePlan
  <2>2. /\ pc' = [pc EXCEPT ![c] = "saveState"] /\ UNCHANGED <<waves, reported, spent, crashed, job>>
        /\ plan' = [plan EXCEPT ![job[c].task] = Outcome(c, plan[job[c].task])]
    BY <1>20, <2>1 DEF SavePlan
  <2>3. Outcome(c, plan[job[c].task]).status = "done" <=> job[c].passed
    BY <2>1 DEF Outcome, PlanType
  <2>4. /\ plan'[job[c].task].status = "done" <=> job[c].passed
        /\ \A u \in Task \ {job[c].task} : plan'[u] = plan[u]
    BY <2>1, <2>2, <2>3 DEF PlanType
  <2>5. \A d \in Command : pc[d] # "saveState" /\ (pc'[d] = "saveState" => d = c) /\ pc'[c] = "saveState"
    BY <2>1, <2>2, SMTT(30)
  <2>6. QED
    BY <2>2, <2>4, <2>5
<1>21. ASSUME NEW c \in Command, SaveResult(c) PROVE Goal
  <2>1. /\ job[c].task \in Task /\ job[c].wave = WaveOf[job[c].task] /\ job[c].wave \in Wave
        /\ pc[c] = "saveState" /\ waveBuf[c] = waves[job[c].wave]
        /\ \A d \in Command \ {c} : pc[d] \in Ended
    BY <1>21 DEF SaveResult
  <2>2. /\ pc' = [pc EXCEPT ![c] = "idle"] /\ UNCHANGED <<plan, crashed>>
        /\ waves' = [waves EXCEPT ![job[c].wave] =
             [results |-> [waves[job[c].wave].results EXCEPT ![job[c].task] = Result(c)],
              spend   |-> waves[job[c].wave].spend + 1]]
        /\ reported' = [reported EXCEPT ![job[c].task] = Result(c)]
        /\ spent' = [spent EXCEPT ![job[c].wave] = spent[job[c].wave] + 1]
    BY <1>21, <2>1 DEF SaveResult
  <2>3. \A u \in Task : waves'[WaveOf[u]].results[u] = reported'[u]
    BY <2>1, <2>2 DEF WaveType
  <2>4. \A v \in Wave : waves'[v].spend = spent'[v]
    BY <2>1, <2>2 DEF WaveType
  <2>5. Result(c) # None /\ (Result(c).passed <=> job[c].passed)
    BY DEF Result, JobType
  <2>6. \A d \in Command : pc'[d] # "saveState"
    BY <2>1, <2>2
  <2>7. \A u \in Task \ {job[c].task} : \A d \in Command : ~(pc[d] = "saveState" /\ job[d].task = u)
    BY <2>1
  <2>8. QED
    BY <2>1, <2>2, <2>3, <2>4, <2>5, <2>6, <2>7
<1>22. ASSUME NEW c \in Command, Crash(c) PROVE Goal
  BY <1>22 DEF Crash
<1>23. ASSUME NEW w \in Wave, Summary(w) PROVE Goal
  BY <1>23 DEF Summary
<1>24. ASSUME NEW w \in Wave, Reconcile(w) PROVE Goal
  BY <1>24 DEF Reconcile
<1>25. ASSUME NEW w \in Wave, Deliver(w) PROVE Goal
  BY <1>25 DEF Deliver
<1>0. ASSUME NEW b \in Foreign, OthersBranch(b) PROVE Goal
  BY <1>0 DEF OthersBranch
<1>26. CASE UNCHANGED vars
  BY <1>26 DEF vars
<1> HIDE DEF Goal
<1>27. QED
  BY <1>0, <1>1, <1>2, <1>3, <1>4, <1>5, <1>6, <1>7, <1>8, <1>9, <1>10, <1>11, <1>12, <1>13,
     <1>14, <1>15, <1>16, <1>17, <1>18, <1>19, <1>20, <1>21, <1>22, <1>23, <1>24, <1>25,
     <1>26 DEF Next, GenerateStep, RecordStep

-----------------------------------------------------------------------------
(* The actions never disturb IInv.                                         *)
LEMMA InitInv == Init => IInv
<1> SUFFICES ASSUME Init PROVE IInv
  OBVIOUS
<1> USE DEF Init, NoWave, Bare, NoJob, Ended, Generating, Recording, Merging, Informed
<1>1. TypeOK /\ JobsFit
  BY TypeInit
<1>2. Ownership /\ Accounted
  BY DEF Ownership, Claimed, Untouched, Accounted
<1>3. ClaimsHold
  BY DEF ClaimsHold, Claims
<1>4. DepsThere
  BY NameAssumption DEF DepsThere, DependencyOrder
<1>5. Undisturbed
  BY DEF Undisturbed, Running
<1>6. PlanTells
  BY Shapes DEF PlanTells, NoPlan
<1>7. QED
  BY <1>1, <1>2, <1>3, <1>4, <1>5, <1>6 DEF IInv

(* Every step keeps the whole invariant.                                   *)
LEMMA StepInv == IInv /\ [Next]_vars => IInv'
<1> SUFFICES ASSUME IInv, [Next]_vars PROVE IInv'
  OBVIOUS
<1> USE DEF IInv
<1>1. TypeOK' /\ JobsFit'
  BY TypeStep
<1>2. Ownership' /\ Accounted'
  BY ClaimedStep, UntouchedStep, AccountedStep DEF Ownership
<1>3. ClaimsHold'
  BY ClaimsStep
<1>4. DepsThere'
  BY DepsStep
<1>5. Undisturbed'
  BY UndisturbedStep
<1>6. PlanTells'
  BY PlanTellsStep
<1>7. QED
  BY <1>1, <1>2, <1>3, <1>4, <1>5, <1>6

(* The inductive invariant of the commands holds in every state.           *)
THEOREM Invariance == Spec => []IInv
<1>1. IInv /\ UNCHANGED vars => IInv'
  BY StepInv
<1>2. QED
  BY <1>1, InitInv, StepInv, PTL DEF Spec

(* Every variable keeps its type, and a running command has the job that   *)
(* its phase calls for.                                                    *)
THEOREM TypeCorrect == Spec => [](TypeOK /\ JobsFit)
<1>1. TypeOK /\ JobsFit /\ [Next]_vars => (TypeOK /\ JobsFit)'
  BY TypeStep
<1>2. QED
  BY <1>1, TypeInit, PTL DEF Spec

(* What wave-state.json calls merged is an ancestor of the wave branch,    *)
(* however many commands overlap or are killed.                            *)
THEOREM MergedTheorem == Spec => []MergedIsMerged
<1>1. IInv => MergedIsMerged
  BY DEF IInv, ClaimsHold, Claims, MergedIsMerged, TasksOf
<1>2. QED
  BY <1>1, Invariance, PTL

(* No wave branch has a task's changes without those of its dependencies,  *)
(* whether pull requests are squashed or not.                              *)
THEOREM DependencyTheorem == Spec => []DependencyOrder
<1>1. IInv => DependencyOrder
  BY DEF IInv, DepsThere
<1>2. QED
  BY <1>1, Invariance, PTL

(* A branch that somebody else makes is never claimed, checked out or      *)
(* merged into, unless its name was claimed before; and a branch of ours   *)
(* is without a claim only until it is claimed, or when a generate was     *)
(* killed.                                                                 *)
THEOREM ForeignTheorem == Spec => []ForeignUntouched
<1>1. IInv => ForeignUntouched
  BY DEF IInv, TypeOK, Ownership, Claimed, Untouched, Accounted, ForeignUntouched
<1>2. QED
  BY <1>1, Invariance, PTL

(* Commands that do not overlap lose no result and no token, and plan.json *)
(* agrees with wave-state.json unless a command was killed between them.   *)
THEOREM RecordsTheorem == Spec => []RecordsKept
<1>1. IInv => RecordsKept
  <2> SUFFICES ASSUME IInv, ~overlapped
               PROVE  /\ \A t \in Task : waves[WaveOf[t]].results[t] = reported[t]
                      /\ \A w \in Wave : waves[w].spend = spent[w]
                      /\ ~crashed /\ Running = {} =>
                           \A t \in Task : (plan[t].status = "done") <=>
                                           (reported[t] # None /\ reported[t].passed)
    BY DEF IInv, RecordsKept
  <2>1. Running = {} => \A c \in Command : pc[c] # "saveState"
    BY DEF Running, Ended
  <2>2. QED
    BY <2>1 DEF IInv, PlanTells
<1>2. QED
  BY <1>1, Invariance, PTL

(* Short of overlapping commands nothing but a builder's own work takes    *)
(* the conflicts out of a merge tree: no command clears it away.           *)
THEOREM ConflictTheorem == Spec => ConflictStays
<1> DEFINE A == \A w \in Wave : ~overlapped /\ mergeTree[w] \in Task =>
                  mergeTree'[w] = mergeTree[w] \/ Reconcile(w)
<1>1. ASSUME IInv, [Next]_vars PROVE A
  <2> SUFFICES ASSUME NEW w \in Wave, ~overlapped, mergeTree[w] \in Task, mergeTree'[w] # mergeTree[w]
               PROVE  Reconcile(w)
    OBVIOUS
  <2> USE NameAssumption, <1>1 DEF IInv, TypeOK, JobsFit, Recording, Merging, Goto
  <2>1. ASSUME NEW c \in Command, GenerateStep(c) \/ Crash(c) PROVE FALSE
    BY <2>1 DEF GenerateStep, Crash, StartGenerate, OverBudget, Load, Refuse, GitBranch, ClaimBranch,
       AddWorktree, AddFails, WriteDispatchPlan, RewriteWaveState, Elsewhere, git
  <2>2. ASSUME NEW c \in Command, NEW t \in Task, NEW passed \in BOOLEAN, NEW already \in BOOLEAN,
               StartRecord(c, t, passed, already) PROVE FALSE
    BY <2>2 DEF StartRecord, git
  <2>3. ASSUME NEW c \in Command, ClearMergeTree(c) PROVE FALSE
    BY <2>3 DEF ClearMergeTree, Undisturbed
  <2>4. ASSUME NEW c \in Command, AddMergeTree(c) \/ MergeFails(c) \/ RemoveMergeTree(c) PROVE FALSE
    BY <2>4 DEF AddMergeTree, MergeFails, RemoveMergeTree
  <2>5. ASSUME NEW c \in Command, ReadPlan(c) \/ ReadWaveState(c) \/ Decide(c) \/ Unreconciled(c)
                                  \/ CheckMergeTree(c) \/ Merge(c) \/ SavePlan(c) \/ SaveResult(c) PROVE FALSE
    BY <2>5 DEF ReadPlan, ReadWaveState, Decide, Unreconciled, CheckMergeTree, Merge, SavePlan, SaveResult,
       Elsewhere, git
  <2>6. ASSUME NEW v \in Wave, Summary(v) \/ Deliver(v) PROVE FALSE
    BY <2>6 DEF Summary, Deliver
  <2>7. ASSUME NEW v \in Wave, Reconcile(v) PROVE v = w
    BY <2>7 DEF Reconcile
  <2>8. ASSUME NEW b \in Foreign, OthersBranch(b) PROVE FALSE
    BY <2>8 DEF OthersBranch
  <2>9. CASE UNCHANGED vars
    BY <2>9 DEF vars, git
  <2>10. QED
    BY <2>1, <2>2, <2>3, <2>4, <2>5, <2>6, <2>7, <2>8, <2>9 DEF Next, RecordStep
<1>2. IInv /\ [Next]_vars => [A]_vars
  BY <1>1
<1>3. QED
  BY <1>2, Invariance, PTL DEF Spec, ConflictStays

=============================================================================
