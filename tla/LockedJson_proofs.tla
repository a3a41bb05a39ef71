-------------------------- MODULE LockedJson_proofs --------------------------
(***************************************************************************)
(* Proofs about the advisory lock, for every set of calls, whatever        *)
(* processes crash and creators stall.                                     *)
(***************************************************************************)
EXTENDS LockedJson, Naturals, TLAPS

(* Until a live holder is pre-empted the lock file names every process     *)
(* that believes it holds the lock.                                        *)
HoldersOwnLock ==
  ~preempted =>
    \A p \in Proc : pc[p] \in Holding => lock # NoLock /\ lock.owner = p

(* ... and what a critical section has read is what the file contains.     *)
ReadsStayFresh ==
  ~preempted => \A p \in Proc : pc[p] = "store" => buf[p] = file

(* An outcome is fixed by the rename, or by giving up, and not before.     *)
PendingUntilStored ==
  \A p \in Proc :
    pc[p] \in {"start", "stamp"} \cup Waiting \cup Critical => outcome[p] = "pending"

(* The lock file is that of a holder, or of one that died as a holder:     *)
(* nobody comes to an ordinary end while a lock file of his is there.      *)
OwnerHolds == lock # NoLock => pc[lock.owner] \in Holding \cup {"dead"}

(* An old lock file has outlasted its live holder, or its owner is dead;   *)
(* and that is the only choice for one without a pid.                      *)
LeftBehind(h) ==
  h # NoLock /\ h.old => (h.stamped /\ overdue) \/ pc[h.owner] = "dead"

(* Without stalls a lock file is judged stale, as it is or as somebody has *)
(* read it, only after a crash, or after an exit when a holder has been    *)
(* overdue.                                                                *)
StaleMeansLeft ==
  ~stalled =>
    /\ LeftBehind(lock)
    /\ \A p \in Proc :
         /\ LeftBehind(seen[p])
         /\ pc[p] = "takeover" => SomeCrash \/ (SomeExit /\ overdue)

IInv ==
  /\ TypeOK
  /\ HoldersOwnLock
  /\ ReadsStayFresh
  /\ PendingUntilStored
  /\ OwnerHolds
  /\ StaleMeansLeft
  /\ NoLostUpdate
  /\ SlowHolderKeepsLock

-----------------------------------------------------------------------------
(* Every variable keeps its type. *)
THEOREM TypeCorrect == Spec => []TypeOK
<1> USE NoLockAssumption DEF LockFile, Phases, Waiting, Holding, Critical, Ended
<1>1. Init => TypeOK
  <2>1. Init => preempted \in BOOLEAN /\ stalled \in BOOLEAN /\ overdue \in BOOLEAN
    BY Zenon DEF Init
  <2>2. QED
    BY <2>1 DEF Init, TypeOK
<1>2. TypeOK /\ [Next]_vars => TypeOK'
  <2> SUFFICES ASSUME TypeOK, [Next]_vars PROVE TypeOK'
    OBVIOUS
  <2> USE DEF TypeOK, Goto
  <2>1. ASSUME NEW p \in Proc, Call(p) \/ Exists(p) PROVE TypeOK'
    BY <2>1 DEF Call, Exists
  <2>16. ASSUME NEW p \in Proc, ReadHolder(p) PROVE TypeOK'
    BY <2>16 DEF ReadHolder
  <2>2. ASSUME NEW p \in Proc, Create(p) PROVE TypeOK'
    BY <2>2 DEF Create
  <2>3. ASSUME NEW p \in Proc, JudgeStale(p) \/ Backoff(p) \/ TimeOut(p) PROVE TypeOK'
    BY <2>3 DEF JudgeStale, Backoff, TimeOut
  <2>4. ASSUME NEW p \in Proc, TakeOver(p) PROVE TypeOK'
    BY <2>4 DEF TakeOver, Unlink, Preempts
  <2>5. ASSUME NEW p \in Proc, Stamp(p) PROVE TypeOK'
    BY <2>5 DEF Stamp
  <2>6. ASSUME NEW p \in Proc, Fetch(p) PROVE TypeOK'
    BY <2>6 DEF Fetch
  <2>7. ASSUME NEW p \in Proc, Store(p) PROVE TypeOK'
    BY <2>7 DEF Store
  <2>8. ASSUME NEW p \in Proc, LeaveFile(p) PROVE TypeOK'
    BY <2>8 DEF LeaveFile
  <2>9. ASSUME NEW p \in Proc, CheckOwner(p) PROVE TypeOK'
    <3>1. (IF Foreign(p, lock) THEN "done" ELSE "unlink") \in Phases
      OBVIOUS
    <3>2. QED
      BY <2>9, <3>1 DEF CheckOwner
  <2>10. ASSUME NEW p \in Proc, Release(p) PROVE TypeOK'
    BY <2>10 DEF Release, Unlink, Preempts
  <2>11. ASSUME NEW p \in Proc, Expire(p) \/ Exit(p) PROVE TypeOK'
    BY <2>11 DEF Expire, Exit
  <2>12. ASSUME NEW p \in Proc, Crash(p) PROVE TypeOK'
    BY <2>12 DEF Crash
  <2>13. ASSUME Age PROVE TypeOK'
    BY <2>13 DEF Age
  <2>14. CASE UNCHANGED vars
    BY <2>14 DEF vars
  <2>15. QED
    BY <2>1, <2>2, <2>3, <2>4, <2>5, <2>6, <2>7, <2>8, <2>9, <2>10, <2>11,
       <2>12, <2>13, <2>14, <2>16 DEF Next, Step
<1>3. QED
  BY <1>1, <1>2, PTL DEF Spec

-----------------------------------------------------------------------------
(* A lock file is not the absence of one, so its fields mean something.   *)
LEMMA LockFileExists ==
  ASSUME NEW p \in Proc, NEW s \in BOOLEAN, NEW o \in BOOLEAN
  PROVE  /\ [owner |-> p, stamped |-> s, old |-> o] # NoLock
         /\ [owner |-> p, stamped |-> s, old |-> o].owner = p
<1>1. [owner |-> p, stamped |-> s, old |-> o] \in LockFile
  BY DEF LockFile
<1>2. QED
  BY <1>1, NoLockAssumption

(* Creating the lock file finds nobody holding; taking over or releasing   *)
(* either concerns nobody's lock or pre-empts its holder.                  *)
LEMMA OwnershipStep ==
  TypeOK /\ HoldersOwnLock /\ [Next]_vars => HoldersOwnLock'
<1> SUFFICES ASSUME TypeOK, HoldersOwnLock, [Next]_vars, ~preempted',
                    NEW q \in Proc, pc'[q] \in Holding
             PROVE  lock' # NoLock /\ lock'.owner = q
  BY DEF HoldersOwnLock
<1> USE DEF TypeOK, Goto
<1>1. ~preempted
  BY DEF Next, Step, vars, Call, Create, Exists, ReadHolder, JudgeStale, Backoff,
         TimeOut, TakeOver, Stamp, Fetch, Store, LeaveFile, CheckOwner, Release,
         Expire, Exit, Age, Crash, Unlink
<1>2. \A p \in Proc : pc[p] \in Holding => lock # NoLock /\ lock.owner = p
  BY <1>1 DEF HoldersOwnLock
<1>3. ASSUME NEW p \in Proc, Create(p) PROVE lock' # NoLock /\ lock'.owner = q
  <2>1. lock' = [owner |-> p, stamped |-> FALSE, old |-> FALSE]
    BY <1>3 DEF Create
  <2>2. q = p
    BY <1>2, <1>3 DEF Create, Holding
  <2>3. QED
    BY <2>1, <2>2, LockFileExists
<1>4. ASSUME NEW p \in Proc, TakeOver(p) \/ Release(p) PROVE FALSE
  <2>1. pc[q] \in Holding /\ q # p
    BY <1>4 DEF TakeOver, Release, Holding
  <2>2. Preempts(p)
    BY <1>2, <2>1 DEF Preempts
  <2>3. QED
    BY <1>4, <2>2 DEF TakeOver, Release, Unlink
<1>5. ASSUME NEW p \in Proc, Stamp(p) PROVE lock' # NoLock /\ lock'.owner = q
  <2>1. pc[q] \in Holding
    BY <1>5 DEF Stamp, Holding
  <2>2. lock # NoLock /\ lock.owner = q
    BY <1>2, <2>1
  <2>3. CASE q = p
    <3>1. lock' = [owner |-> p, stamped |-> TRUE, old |-> FALSE]
      BY <1>5, <2>2, <2>3 DEF Stamp
    <3>2. QED
      BY <2>3, <3>1, LockFileExists
  <2>4. CASE q # p
    BY <1>5, <2>2, <2>4 DEF Stamp
  <2>5. QED
    BY <2>3, <2>4
<1>6. ASSUME Age PROVE lock' # NoLock /\ lock'.owner = q
  <2>1. lock # NoLock /\ lock.owner = q
    BY <1>2, <1>6 DEF Age
  <2>2. lock \in LockFile
    BY <2>1
  <2>3. lock' = [lock EXCEPT !.old = TRUE]
    BY <1>6 DEF Age
  <2>4. lock' \in LockFile /\ lock'.owner = lock.owner
    BY <2>2, <2>3 DEF LockFile
  <2>5. QED
    BY <2>1, <2>4, NoLockAssumption
<1>7. ASSUME NEW p \in Proc,
             \/ Call(p) \/ Exists(p) \/ ReadHolder(p) \/ JudgeStale(p) \/ Backoff(p)
             \/ TimeOut(p) \/ Fetch(p) \/ Store(p) \/ LeaveFile(p) \/ CheckOwner(p)
             \/ Expire(p) \/ Exit(p) \/ Crash(p)
      PROVE  lock' # NoLock /\ lock'.owner = q
  <2>1. lock' = lock
    BY <1>7 DEF Call, Exists, ReadHolder, JudgeStale, Backoff, TimeOut, Fetch, Store,
                LeaveFile, CheckOwner, Expire, Exit, Crash
  <2>2. ASSUME pc' # [pc EXCEPT ![p] = pc'[p]] PROVE pc' = pc
    BY <1>7, <2>2 DEF Call, Exists, ReadHolder, JudgeStale, Backoff, TimeOut, Fetch, Store,
                LeaveFile, CheckOwner, Expire, Exit, Crash
  <2>3. pc'[p] \in Holding => pc[p] \in Holding
    BY <1>7 DEF Call, Exists, ReadHolder, JudgeStale, Backoff, TimeOut, Fetch, Store,
                LeaveFile, CheckOwner, Expire, Exit, Crash, Holding, Critical
  <2>4. QED
    BY <1>2, <2>1, <2>2, <2>3
<1>8. CASE UNCHANGED vars
  BY <1>2, <1>8 DEF vars
<1>9. QED
  BY <1>3, <1>4, <1>5, <1>6, <1>7, <1>8 DEF Next, Step

(* Two owners of one lock file are the same process. *)
LEMMA OwnersExclude == HoldersOwnLock => ExclusionUnlessPreempted
  BY DEF HoldersOwnLock, ExclusionUnlessPreempted, MutualExclusion

-----------------------------------------------------------------------------
(* No step reports an outcome before the rename of its process, or before *)
(* that process gives up.                                                 *)
LEMMA PendingStep == TypeOK /\ PendingUntilStored /\ [Next]_vars => PendingUntilStored'
<1> SUFFICES ASSUME TypeOK, PendingUntilStored, [Next]_vars, NEW q \in Proc,
                    pc'[q] \in {"start", "stamp"} \cup Waiting \cup Critical
             PROVE  outcome'[q] = "pending"
  BY DEF PendingUntilStored
<1> USE DEF TypeOK, Goto, Waiting, Critical
<1>1. ASSUME NEW p \in Proc,
             \/ Call(p) \/ Create(p) \/ Exists(p) \/ ReadHolder(p) \/ JudgeStale(p)
             \/ Backoff(p) \/ TakeOver(p) \/ Stamp(p) \/ Fetch(p) \/ Expire(p) \/ Exit(p)
      PROVE  outcome'[q] = "pending"
  <2>1. outcome' = outcome
    BY <1>1 DEF Call, Create, Exists, ReadHolder, JudgeStale, Backoff, TakeOver, Stamp,
                Fetch, Expire, Exit
  <2>2. pc[q] \in {"start", "stamp"} \cup Waiting \cup Critical
    BY <1>1 DEF Call, Create, Exists, ReadHolder, JudgeStale, Backoff, TakeOver, Stamp,
                Fetch, Expire, Exit
  <2>3. QED
    BY <2>1, <2>2 DEF PendingUntilStored
<1>2. ASSUME NEW p \in Proc, TimeOut(p) \/ Store(p) \/ LeaveFile(p) \/ Crash(p)
      PROVE  outcome'[q] = "pending"
  <2>1. q # p
    BY <1>2 DEF TimeOut, Store, LeaveFile, Crash
  <2>2. pc'[q] = pc[q] /\ outcome'[q] = outcome[q]
    BY <1>2, <2>1 DEF TimeOut, Store, LeaveFile, Crash
  <2>3. QED
    BY <2>2 DEF PendingUntilStored
<1>3. ASSUME NEW p \in Proc, CheckOwner(p) PROVE outcome'[q] = "pending"
  <2>1. q # p
    BY <1>3 DEF CheckOwner
  <2>2. pc'[q] = pc[q] /\ outcome' = outcome
    BY <1>3, <2>1 DEF CheckOwner
  <2>3. QED
    BY <2>2 DEF PendingUntilStored
<1>4. ASSUME NEW p \in Proc, Release(p) PROVE outcome'[q] = "pending"
  BY <1>4 DEF Release, PendingUntilStored
<1>5. CASE Age \/ UNCHANGED vars
  BY <1>5 DEF Age, vars, PendingUntilStored
<1>6. QED
  BY <1>1, <1>2, <1>3, <1>4, <1>5 DEF Next, Step

(* The file changes only by the rename of the one process in its critical  *)
(* section, so what that process has read cannot go stale.                 *)
LEMMA FreshStep ==
  TypeOK /\ HoldersOwnLock /\ ReadsStayFresh /\ [Next]_vars => ReadsStayFresh'
<1> SUFFICES ASSUME TypeOK, HoldersOwnLock, ReadsStayFresh, [Next]_vars,
                    ~preempted', NEW q \in Proc, pc'[q] = "store"
             PROVE  buf'[q] = file'
  BY DEF ReadsStayFresh
<1> USE DEF TypeOK, Goto
<1>1. ~preempted
  BY DEF Next, Step, vars, Call, Create, Exists, ReadHolder, JudgeStale, Backoff,
         TimeOut, TakeOver, Stamp, Fetch, Store, LeaveFile, CheckOwner, Release,
         Expire, Exit, Age, Crash, Unlink
<1>2. ASSUME NEW p \in Proc, Fetch(p) PROVE buf'[q] = file'
  BY <1>1, <1>2 DEF Fetch, ReadsStayFresh
<1>3. ASSUME NEW p \in Proc, Store(p) PROVE FALSE
  <2>1. q # p /\ pc[q] = "store" /\ pc[p] = "store"
    BY <1>3 DEF Store
  <2>2. QED
    BY <1>1, <2>1, OwnersExclude DEF ExclusionUnlessPreempted, MutualExclusion, Holding
<1>4. ASSUME NEW p \in Proc,
             \/ Call(p) \/ Create(p) \/ Exists(p) \/ ReadHolder(p) \/ JudgeStale(p)
             \/ Backoff(p) \/ TimeOut(p) \/ TakeOver(p) \/ Stamp(p)
             \/ CheckOwner(p) \/ Release(p) \/ Expire(p) \/ Exit(p)
      PROVE  buf'[q] = file'
  <2>1. buf' = buf /\ file' = file
    BY <1>4 DEF Call, Create, Exists, ReadHolder, JudgeStale, Backoff, TimeOut, TakeOver,
                Stamp, CheckOwner, Release, Expire, Exit
  <2>2. pc[q] = "store"
    BY <1>4 DEF Call, Create, Exists, ReadHolder, JudgeStale, Backoff, TimeOut, TakeOver,
                Stamp, CheckOwner, Release, Expire, Exit
  <2>3. QED
    BY <1>1, <2>1, <2>2 DEF ReadsStayFresh
<1>5. ASSUME NEW p \in Proc, LeaveFile(p) \/ Crash(p) PROVE buf'[q] = file'
  <2>1. q # p
    BY <1>5 DEF LeaveFile, Crash
  <2>2. buf'[q] = buf[q] /\ file' = file /\ pc[q] = "store"
    BY <1>5, <2>1 DEF LeaveFile, Crash
  <2>3. QED
    BY <1>1, <2>2 DEF ReadsStayFresh
<1>6. CASE Age \/ UNCHANGED vars
  BY <1>1, <1>6 DEF Age, vars, ReadsStayFresh
<1>7. QED
  BY <1>2, <1>3, <1>4, <1>5, <1>6 DEF Next, Step

-----------------------------------------------------------------------------
(* No process comes back to life: what a reader has concluded from the    *)
(* end of a holder stays true.                                            *)
LEMMA EndedStaysEnded ==
  ASSUME TypeOK, [Next]_vars, NEW q \in Proc, pc[q] \in Ended
  PROVE  pc'[q] = pc[q]
<1> USE DEF TypeOK, Goto, Waiting, Holding, Critical, Ended
<1>1. ASSUME NEW p \in Proc,
             \/ Call(p) \/ Create(p) \/ Exists(p) \/ ReadHolder(p) \/ JudgeStale(p)
             \/ Backoff(p) \/ TimeOut(p) \/ TakeOver(p)
      PROVE  pc'[q] = pc[q]
  BY <1>1 DEF Call, Create, Exists, ReadHolder, JudgeStale, Backoff, TimeOut, TakeOver
<1>2. ASSUME NEW p \in Proc,
             \/ Stamp(p) \/ Fetch(p) \/ Store(p) \/ LeaveFile(p) \/ Release(p)
             \/ Expire(p) \/ Exit(p) \/ Crash(p)
      PROVE  pc'[q] = pc[q]
  BY <1>2 DEF Stamp, Fetch, Store, LeaveFile, Release, Expire, Exit, Crash
<1>3. ASSUME NEW p \in Proc, CheckOwner(p) PROVE pc'[q] = pc[q]
  <2>1. q # p
    BY <1>3 DEF CheckOwner
  <2>2. QED
    BY <1>3, <2>1 DEF CheckOwner
<1>4. CASE Age \/ UNCHANGED vars
  BY <1>4 DEF Age, vars
<1>5. QED
  BY <1>1, <1>2, <1>3, <1>4 DEF Next, Step

(* What the history has noted it never forgets, nor that somebody ended.   *)
LEMMA HistoryRemembered ==
  ASSUME TypeOK, [Next]_vars
  PROVE  /\ stalled => stalled'
         /\ overdue => overdue'
         /\ SomeCrash => SomeCrash'
         /\ SomeExit => SomeExit'
<1>1. (stalled => stalled') /\ (overdue => overdue')
  BY DEF TypeOK, Next, Step, vars, Call, Create, Exists, ReadHolder, JudgeStale, Backoff,
         TimeOut, TakeOver, Stamp, Fetch, Store, LeaveFile, CheckOwner, Release,
         Expire, Exit, Age, Crash
<1>2. (SomeCrash => SomeCrash') /\ (SomeExit => SomeExit')
  BY EndedStaysEnded DEF SomeCrash, SomeExit, Ended
<1>3. QED
  BY <1>1, <1>2

(* A lock file is a holder's from its creation, and a holder that gives up *)
(* its own unlinks it first.                                               *)
LEMMA OwnerStep == TypeOK /\ OwnerHolds /\ [Next]_vars => OwnerHolds'
<1> SUFFICES ASSUME TypeOK, OwnerHolds, [Next]_vars, lock' # NoLock
             PROVE  pc'[lock'.owner] \in Holding \cup {"dead"}
  BY DEF OwnerHolds
<1> USE DEF TypeOK, Goto
<1>1. ASSUME NEW p \in Proc, Create(p)
      PROVE  pc'[lock'.owner] \in Holding \cup {"dead"}
  <2>1. lock' = [owner |-> p, stamped |-> FALSE, old |-> FALSE] /\ pc'[p] = "stamp"
    BY <1>1 DEF Create
  <2>2. QED
    BY <2>1 DEF Holding
<1>2. ASSUME NEW p \in Proc, TakeOver(p) \/ Release(p) PROVE FALSE
  BY <1>2 DEF TakeOver, Release, Unlink
<1>3. ASSUME lock # NoLock, lock'.owner = lock.owner,
             \A q \in Proc : pc[q] \in Holding \cup {"dead"} /\ q = lock.owner
                              => pc'[q] \in Holding \cup {"dead"}
      PROVE  pc'[lock'.owner] \in Holding \cup {"dead"}
  <2>1. lock.owner \in Proc
    BY <1>3 DEF LockFile
  <2>2. QED
    BY <1>3, <2>1 DEF OwnerHolds
<1>4. ASSUME NEW p \in Proc, Stamp(p)
      PROVE  pc'[lock'.owner] \in Holding \cup {"dead"}
  <2>1. lock # NoLock /\ lock'.owner = lock.owner
    BY <1>4 DEF Stamp
  <2>2. \A q \in Proc : pc[q] \in Holding \cup {"dead"} => pc'[q] \in Holding \cup {"dead"}
    BY <1>4 DEF Stamp, Holding
  <2>3. QED
    BY <1>3, <2>1, <2>2
<1>5. ASSUME Age PROVE pc'[lock'.owner] \in Holding \cup {"dead"}
  <2>1. lock \in LockFile /\ lock' = [lock EXCEPT !.old = TRUE] /\ pc' = pc
    BY <1>5 DEF Age
  <2>2. lock'.owner = lock.owner
    BY <2>1 DEF LockFile
  <2>3. QED
    BY <1>3, <1>5, <2>1, <2>2 DEF Age
<1>6. ASSUME NEW p \in Proc, CheckOwner(p)
      PROVE  pc'[lock'.owner] \in Holding \cup {"dead"}
  <2>1. lock' = lock /\ lock # NoLock
    BY <1>6 DEF CheckOwner
  <2>2. CASE p = lock.owner
    <3>1. pc'[p] = "unlink"
      BY <1>6, <2>2 DEF CheckOwner, Foreign
    <3>2. QED
      BY <2>1, <2>2, <3>1 DEF Holding
  <2>3. CASE p # lock.owner
    BY <1>3, <1>6, <2>1, <2>3 DEF CheckOwner
  <2>4. QED
    BY <2>2, <2>3
<1>7. ASSUME NEW p \in Proc,
             \/ Call(p) \/ Exists(p) \/ ReadHolder(p) \/ JudgeStale(p) \/ Backoff(p)
             \/ TimeOut(p) \/ Fetch(p) \/ Store(p) \/ LeaveFile(p)
             \/ Expire(p) \/ Exit(p) \/ Crash(p)
      PROVE  pc'[lock'.owner] \in Holding \cup {"dead"}
  <2>1. lock' = lock
    BY <1>7 DEF Call, Exists, ReadHolder, JudgeStale, Backoff, TimeOut, Fetch, Store,
                LeaveFile, Expire, Exit, Crash
  <2>2. \A q \in Proc : pc[q] \in Holding \cup {"dead"} => pc'[q] \in Holding \cup {"dead"}
    BY <1>7 DEF Call, Exists, ReadHolder, JudgeStale, Backoff, TimeOut, Fetch, Store,
                LeaveFile, Expire, Exit, Crash, Holding, Waiting, Critical
  <2>3. QED
    BY <1>3, <2>1, <2>2
<1>8. CASE UNCHANGED vars
  BY <1>3, <1>8 DEF vars
<1>9. QED
  BY <1>1, <1>2, <1>4, <1>5, <1>6, <1>7, <1>8 DEF Next, Step

(* A lock file grows old under a live holder, or when its owner is dead,   *)
(* and what readHolder returned stays true of the owner.                   *)
LEMMA StaleStep ==
  ASSUME TypeOK, OwnerHolds, StaleMeansLeft, [Next]_vars
  PROVE  StaleMeansLeft'
<1> SUFFICES ASSUME ~stalled'
             PROVE  /\ LeftBehind(lock)'
                    /\ \A q \in Proc :
                         /\ LeftBehind(seen[q])'
                         /\ pc'[q] = "takeover" => SomeCrash' \/ (SomeExit' /\ overdue')
  BY DEF StaleMeansLeft
<1> USE DEF TypeOK, Goto
<1>1. /\ LeftBehind(lock)
      /\ \A q \in Proc : /\ LeftBehind(seen[q])
                         /\ pc[q] = "takeover" => SomeCrash \/ (SomeExit /\ overdue)
  BY HistoryRemembered DEF StaleMeansLeft
<1>2. ASSUME NEW h \in LockFile \cup {NoLock}, LeftBehind(h)
      PROVE  h # NoLock /\ h.old => (h.stamped /\ overdue') \/ pc'[h.owner] = "dead"
  <2> SUFFICES ASSUME h # NoLock, h.old, ~(h.stamped /\ overdue')
               PROVE  pc'[h.owner] = "dead"
    OBVIOUS
  <2>1. h.owner \in Proc
    BY DEF LockFile
  <2>2. pc[h.owner] = "dead"
    BY <1>2, HistoryRemembered DEF LeftBehind
  <2>3. QED
    BY <2>1, <2>2, EndedStaysEnded DEF Ended
<1>4. lock' # NoLock /\ lock'.old => (lock'.stamped /\ overdue') \/ pc'[lock'.owner] = "dead"
  <2>1. CASE lock' = lock
    BY <1>1, <1>2, <2>1
  <2>2. ASSUME NEW p \in Proc, Create(p) PROVE ~lock'.old
    BY <2>2 DEF Create
  <2>3. ASSUME NEW p \in Proc, TakeOver(p) \/ Release(p) PROVE lock' = NoLock
    BY <2>3 DEF TakeOver, Release, Unlink
  <2>4. ASSUME NEW p \in Proc, Stamp(p), lock' # lock PROVE ~lock'.old
    BY <2>4 DEF Stamp
  <2>5. ASSUME Age PROVE (lock'.stamped /\ overdue') \/ pc'[lock'.owner] = "dead"
    <3>1. lock \in LockFile /\ lock' = [lock EXCEPT !.old = TRUE] /\ pc' = pc
      BY <2>5 DEF Age
    <3>2. lock'.stamped = lock.stamped /\ lock'.owner = lock.owner
      BY <3>1 DEF LockFile
    <3>3. PidAlive(lock.owner) => lock.stamped /\ overdue'
      BY <2>5 DEF Age
    <3>4. ~PidAlive(lock.owner) => pc[lock.owner] = "dead"
      BY <2>5 DEF OwnerHolds, PidAlive, Ended, Holding, Age
    <3>5. QED
      BY <3>1, <3>2, <3>3, <3>4
  <2>6. ASSUME NEW p \in Proc,
               \/ Call(p) \/ Exists(p) \/ ReadHolder(p) \/ JudgeStale(p) \/ Backoff(p)
               \/ TimeOut(p) \/ Fetch(p) \/ Store(p) \/ LeaveFile(p) \/ CheckOwner(p)
               \/ Expire(p) \/ Exit(p) \/ Crash(p)
        PROVE  lock' = lock
    BY <2>6 DEF Call, Exists, ReadHolder, JudgeStale, Backoff, TimeOut, Fetch, Store,
                LeaveFile, CheckOwner, Expire, Exit, Crash
  <2>7. CASE UNCHANGED vars
    BY <2>1, <2>7 DEF vars
  <2>8. QED
    BY <2>1, <2>2, <2>3, <2>4, <2>5, <2>6, <2>7 DEF Next, Step
<1>5. ASSUME NEW q \in Proc
      PROVE  seen'[q] # NoLock /\ seen'[q].old
               => (seen'[q].stamped /\ overdue') \/ pc'[seen'[q].owner] = "dead"
  <2>1. seen'[q] \in {seen[q], lock, NoLock}
    <3>1. ASSUME NEW p \in Proc, ReadHolder(p)
          PROVE  seen' = [seen EXCEPT ![p] = lock]
      BY <3>1 DEF ReadHolder
    <3>2. ASSUME NEW p \in Proc,
                 \/ Call(p) \/ Create(p) \/ Exists(p) \/ TakeOver(p) \/ Stamp(p)
                 \/ Fetch(p) \/ Store(p) \/ LeaveFile(p) \/ CheckOwner(p) \/ Release(p)
                 \/ Expire(p) \/ Exit(p)
          PROVE  seen' = seen
      BY <3>2 DEF Call, Create, Exists, TakeOver, Stamp, Fetch, Store, LeaveFile,
                  CheckOwner, Release, Expire, Exit
    <3>3. ASSUME NEW p \in Proc, JudgeStale(p) \/ Backoff(p) \/ TimeOut(p) \/ Crash(p)
          PROVE  seen' = [seen EXCEPT ![p] = NoLock]
      BY <3>3 DEF JudgeStale, Backoff, TimeOut, Crash
    <3>4. CASE Age \/ UNCHANGED vars
      BY <3>4 DEF Age, vars
    <3>5. QED
      BY <3>1, <3>2, <3>3, <3>4 DEF Next, Step
  <2>2. seen[q] \in LockFile \cup {NoLock} /\ lock \in LockFile \cup {NoLock}
    OBVIOUS
  <2>3. QED
    BY <1>1, <1>2, <2>1, <2>2
<1>6. ASSUME NEW q \in Proc, pc'[q] = "takeover"
      PROVE  SomeCrash' \/ (SomeExit' /\ overdue')
  <2>1. ASSUME NEW p \in Proc, JudgeStale(p)
        PROVE  SomeCrash \/ (SomeExit /\ overdue)
    <3>1. seen[p] \in LockFile /\ seen[p].old
      BY <2>1 DEF JudgeStale, Stale
    <3>2. seen[p].owner \in Proc
      BY <3>1 DEF LockFile
    <3>3. seen[p].stamped => pc[seen[p].owner] \in {"dead", "exited"}
      BY <2>1 DEF JudgeStale, Stale, PidAlive, Ended
    <3>4. (seen[p].stamped /\ overdue) \/ pc[seen[p].owner] = "dead"
      BY <1>1, <3>1, NoLockAssumption DEF LeftBehind
    <3>5. QED
      BY <3>2, <3>3, <3>4 DEF SomeCrash, SomeExit
  <2>2. ASSUME NEW p \in Proc,
               \/ Call(p) \/ Create(p) \/ Exists(p) \/ ReadHolder(p) \/ Backoff(p)
               \/ TimeOut(p) \/ TakeOver(p) \/ Stamp(p) \/ Fetch(p) \/ Store(p)
               \/ LeaveFile(p) \/ Release(p) \/ Expire(p) \/ Exit(p) \/ Crash(p)
        PROVE  pc[q] = "takeover"
    BY <1>6, <2>2 DEF Call, Create, Exists, ReadHolder, Backoff, TimeOut, TakeOver, Stamp,
                Fetch, Store, LeaveFile, Release, Expire, Exit, Crash
  <2>3. ASSUME NEW p \in Proc, CheckOwner(p) PROVE pc[q] = "takeover"
    <3>1. q # p
      BY <1>6, <2>3 DEF CheckOwner
    <3>2. QED
      BY <1>6, <2>3, <3>1 DEF CheckOwner
  <2>4. ASSUME Age \/ UNCHANGED vars PROVE pc[q] = "takeover"
    BY <1>6, <2>4 DEF Age, vars
  <2>5. SomeCrash \/ (SomeExit /\ overdue)
    BY <1>1, <1>6, <2>1, <2>2, <2>3, <2>4 DEF Next, Step
  <2>6. QED
    BY <2>5, HistoryRemembered
<1>7. QED
  BY <1>4, <1>5, <1>6 DEF LeftBehind

-----------------------------------------------------------------------------
(* Apart from the rename, a step gives up a pending call or changes        *)
(* nothing that the abstract update sees.                                  *)
GivesUp(p) ==
  /\ outcome[p] = "pending"
  /\ outcome' = [outcome EXCEPT ![p] = "unwritten"]
  /\ UNCHANGED file

(* Every step of the locked update is one of the abstract one or changes   *)
(* nothing of it.                                                          *)
LEMMA VisibleSteps ==
  ASSUME TypeOK, PendingUntilStored, [Next]_vars
  PROVE  \/ \E p \in Proc : Store(p) \/ GivesUp(p)
         \/ UNCHANGED <<file, outcome>>
<1> USE DEF TypeOK, Goto
<1>1. ASSUME NEW p \in Proc,
             \/ Call(p) \/ Create(p) \/ Exists(p) \/ ReadHolder(p) \/ JudgeStale(p)
             \/ Backoff(p) \/ TakeOver(p) \/ Stamp(p) \/ Fetch(p) \/ CheckOwner(p)
             \/ Release(p) \/ Expire(p) \/ Exit(p)
      PROVE  UNCHANGED <<file, outcome>>
  BY <1>1 DEF Call, Create, Exists, ReadHolder, JudgeStale, Backoff, TakeOver, Stamp,
              Fetch, CheckOwner, Release, Expire, Exit
<1>2. ASSUME NEW p \in Proc, TimeOut(p) \/ LeaveFile(p) PROVE GivesUp(p)
  <2>1. pc[p] \in Waiting \cup Critical
    BY <1>2 DEF TimeOut, LeaveFile, Waiting
  <2>2. outcome[p] = "pending"
    BY <2>1 DEF PendingUntilStored
  <2>3. QED
    BY <1>2, <2>2 DEF TimeOut, LeaveFile, GivesUp
<1>3. ASSUME NEW p \in Proc, Crash(p)
      PROVE  GivesUp(p) \/ UNCHANGED <<file, outcome>>
  BY <1>3 DEF Crash, GivesUp
<1>4. CASE Age \/ UNCHANGED vars
  BY <1>4 DEF Age, vars
<1>5. QED
  BY <1>1, <1>2, <1>3, <1>4 DEF Next, Step

(* The rename applies the mutation to the current contents of the file. *)
LEMMA StoreApplies ==
  ASSUME TypeOK, PendingUntilStored, ReadsStayFresh, ~preempted,
         NEW p \in Proc, Store(p)
  PROVE  /\ outcome[p] = "pending"
         /\ file' = Append(file, p)
         /\ outcome' = [outcome EXCEPT ![p] = "written"]
<1>1. outcome[p] = "pending"
  BY DEF PendingUntilStored, Critical, Store, Goto
<1>2. buf[p] = file
  BY DEF ReadsStayFresh, Store, Goto
<1>3. QED
  BY <1>1, <1>2 DEF Store

(* A pre-emption is never forgotten.                                      *)
LEMMA PreemptedGrows == [Next]_vars /\ ~preempted' => ~preempted
  BY DEF Next, Step, vars, Call, Create, Exists, ReadHolder, JudgeStale, Backoff,
         TimeOut, TakeOver, Stamp, Fetch, Store, LeaveFile, CheckOwner, Release,
         Expire, Exit, Age, Crash, Unlink

(* The rename keeps what was written before it, its process having read   *)
(* the latest contents; no other step touches the file.                   *)
LEMMA LostUpdateStep ==
  ASSUME TypeOK, TypeOK', PendingUntilStored, ReadsStayFresh, NoLostUpdate, [Next]_vars
  PROVE  NoLostUpdate'
<1> SUFFICES ASSUME ~preempted', NEW q \in Proc, outcome'[q] = "written"
             PROVE  \E i \in DOMAIN file' : file'[i] = q
  BY DEF NoLostUpdate, Written, Reflected
<1> USE DEF TypeOK
<1>1. ~preempted
  BY PreemptedGrows
<1>2. outcome[q] = "written" => \E i \in DOMAIN file : file[i] = q
  BY <1>1 DEF NoLostUpdate, Written, Reflected
<1>3. ASSUME NEW p \in Proc, Store(p) PROVE \E i \in DOMAIN file' : file'[i] = q
  <2>1. file' = Append(file, p) /\ outcome' = [outcome EXCEPT ![p] = "written"]
    BY <1>1, <1>3, StoreApplies
  <2>2. CASE q = p
    <3>1. Len(file) + 1 \in DOMAIN file' /\ file'[Len(file) + 1] = p
      BY <2>1
    <3>2. QED
      BY <2>2, <3>1
  <2>3. CASE q # p
    <3>1. PICK i \in DOMAIN file : file[i] = q
      BY <1>2, <2>1, <2>3
    <3>2. i \in DOMAIN file' /\ file'[i] = file[i]
      BY <2>1
    <3>3. QED
      BY <3>1, <3>2
  <2>4. QED
    BY <2>2, <2>3
<1>4. ASSUME NEW p \in Proc, GivesUp(p)
      PROVE  \E i \in DOMAIN file' : file'[i] = q
  BY <1>2, <1>4 DEF GivesUp
<1>5. CASE UNCHANGED <<file, outcome>>
  BY <1>2, <1>5
<1>6. QED
  BY <1>3, <1>4, <1>5, VisibleSteps

(* A takeover follows a crash, or an exit when a holder has been overdue;  *)
(* and a release finds its own lock file.                                  *)
LEMMA SlowHolderStep ==
  ASSUME TypeOK, TypeOK', HoldersOwnLock, StaleMeansLeft, SlowHolderKeepsLock, [Next]_vars
  PROVE  SlowHolderKeepsLock'
<1> SUFFICES ASSUME Calm' PROVE ~preempted'
  BY DEF SlowHolderKeepsLock
<1>1. Calm
  BY HistoryRemembered DEF Calm
<1>2. ~preempted
  BY <1>1 DEF SlowHolderKeepsLock
<1>3. ASSUME NEW p \in Proc, TakeOver(p) PROVE FALSE
  BY <1>1, <1>3 DEF Calm, StaleMeansLeft, TakeOver, Goto
<1>4. ASSUME NEW p \in Proc, Release(p) PROVE ~preempted'
  <2>1. lock.owner = p
    BY <1>2, <1>4 DEF HoldersOwnLock, Release, Goto, Holding
  <2>2. ~Preempts(p)
    BY <2>1 DEF Preempts
  <2>3. QED
    BY <1>2, <1>4, <2>2 DEF Release, Unlink
<1>5. CASE UNCHANGED preempted
  BY <1>2, <1>5
<1>6. QED
  BY <1>3, <1>4, <1>5
     DEF Next, Step, vars, Call, Create, Exists, ReadHolder, JudgeStale, Backoff, TimeOut,
         Stamp, Fetch, Store, LeaveFile, CheckOwner, Expire, Exit, Age, Crash

-----------------------------------------------------------------------------
(* All calls are yet to begin: nothing is held, read, stale or written.   *)
LEMMA InitInv == Init /\ TypeOK => IInv
  BY DEF Init, IInv, HoldersOwnLock, ReadsStayFresh, PendingUntilStored, OwnerHolds,
         StaleMeansLeft, LeftBehind, NoLostUpdate, SlowHolderKeepsLock, Calm, Waiting, Holding, Critical,
         Written, Reflected, SomeCrash

(* The strengthened invariant is inductive, given the types.              *)
LEMMA StepInv == IInv /\ TypeOK' /\ [Next]_vars => IInv'
<1> SUFFICES ASSUME IInv, TypeOK', [Next]_vars PROVE IInv'
  OBVIOUS
<1> USE DEF IInv
<1>1. HoldersOwnLock' /\ ReadsStayFresh' /\ PendingUntilStored'
  BY OwnershipStep, FreshStep, PendingStep
<1>4. OwnerHolds' /\ StaleMeansLeft'
  BY OwnerStep, StaleStep
<1>2. NoLostUpdate'
  BY LostUpdateStep
<1>3. SlowHolderKeepsLock'
  BY SlowHolderStep
<1>5. QED
  BY <1>1, <1>2, <1>3, <1>4

(* The strengthened invariant is an invariant. *)
THEOREM Invariance == Spec => []IInv
  BY InitInv, StepInv, TypeCorrect, PTL DEF Spec

(* At most one process holds the lock, until a live holder's lock file has *)
(* been unlinked by another process.                                       *)
THEOREM ExclusionTheorem == Spec => []ExclusionUnlessPreempted
<1>1. IInv => ExclusionUnlessPreempted
  BY OwnersExclude DEF IInv
<1>2. QED
  BY <1>1, Invariance, PTL

(* No update reported as written is lost, under the same proviso. *)
THEOREM NoLostUpdateTheorem == Spec => []NoLostUpdate
<1>1. IInv => NoLostUpdate
  BY DEF IInv
<1>2. QED
  BY <1>1, Invariance, PTL

(* No holder is pre-empted as long as nobody dies or stalls, and either    *)
(* nobody exits or no holder outlasts staleMs.                             *)
THEOREM SlowHolderTheorem == Spec => []SlowHolderKeepsLock
<1>1. IInv => SlowHolderKeepsLock
  BY DEF IInv
<1>2. QED
  BY <1>1, Invariance, PTL

(* A step is a step of the abstract update, or changes nothing it sees;    *)
(* once a live holder has been pre-empted the update promises nothing.     *)
LEMMA StepRefines ==
  ASSUME IInv, TypeOK', [Next]_vars
  PROVE  [Update!Next]_Update!vars
<1>1. CASE preempted'
  <2>1. file' \in Seq(Proc) /\ outcome' \in [Proc -> Update!Outcomes]
    BY DEF TypeOK, Update!Outcomes
  <2>2. QED
    BY <1>1, <2>1 DEF Update!Next, Update!Break
<1>2. CASE ~preempted'
  <2>1. ~preempted
    BY <1>2, PreemptedGrows
  <2>2. UNCHANGED preempted
    BY <1>2, <2>1 DEF IInv, TypeOK
  <2>3. ASSUME NEW p \in Proc, Store(p) PROVE Update!Apply(p)
    BY <1>2, <2>1, <2>2, <2>3, StoreApplies DEF IInv, Update!Apply
  <2>4. CASE \E p \in Proc : Store(p) \/ GivesUp(p)
    BY <2>2, <2>3, <2>4 DEF GivesUp, Update!Refuse, Update!Next
  <2>5. CASE UNCHANGED <<file, outcome>>
    BY <2>2, <2>5 DEF Update!vars
  <2>6. QED
    BY <2>4, <2>5, VisibleSteps DEF IInv
<1>3. QED
  BY <1>1, <1>2

(* A locked read-modify-write is an atomic update for as long as no live   *)
(* holder is pre-empted.                                                   *)
THEOREM Refinement == Spec => AtomicUpdates
<1>1. Init => Update!Init
  BY DEF Init, Update!Init
<1>2. IInv /\ IInv' /\ [Next]_vars => [Update!Next]_Update!vars
  BY StepRefines DEF IInv
<1>3. QED
  BY <1>1, <1>2, Invariance, PTL DEF Spec, AtomicUpdates, Update!Spec

(* For as long as nobody dies or stalls, and either nobody exits or no     *)
(* holder outlasts staleMs, there is no proviso: any number of processes   *)
(* exclude each other, and every update reported as written is in the      *)
(* file.                                                                   *)
THEOREM CalmExclusion ==
  Spec => [](Calm => MutualExclusion /\ Written \subseteq Reflected)
<1>1. IInv /\ Calm => MutualExclusion /\ Written \subseteq Reflected
  BY OwnersExclude DEF IInv, SlowHolderKeepsLock, ExclusionUnlessPreempted, NoLostUpdate
<1>2. QED
  BY <1>1, Invariance, PTL

=============================================================================
