----------------------------- MODULE LockedJson -----------------------------
(***************************************************************************)
(* The advisory lock and the locked read-modify-write of one JSON file of  *)
(* the run store (scripts/_locked-json.cjs), at the granularity of the     *)
(* system calls another process can observe.                               *)
(*                                                                         *)
(* Every element of Proc is one call of updateJsonAtomic on the file by a  *)
(* process of its own, with its own pid and its own random token, so that  *)
(* the name of the process stands for both.  The two system calls of       *)
(* readHolder (the contents, then the mtime) are one step: whatever        *)
(* replaces the lock file between them is younger, and is judged as if it  *)
(* had been read whole.                                                    *)
(***************************************************************************)
EXTENDS Sequences, FiniteSets

CONSTANTS
  Proc,            \* the calls
  NoLock           \* there is no lock file

(* Stamped: the pid, timestamp and token are in the file.  Old: its age,   *)
(* by the timestamp or else by the mtime, exceeds staleMs.                 *)
LockFile == [owner : Proc, stamped : BOOLEAN, old : BOOLEAN]

ASSUME NoLockAssumption == NoLock \notin LockFile

VARIABLES
  lock,            \* the lock file
  file,            \* the guarded file: the mutations it reflects
  pc,              \* the next system call of each process
  seen,            \* what its readHolder has returned, until it is judged
  buf,             \* the contents its critical section has read
  outcome,         \* what its call will report
  expired,         \* the waiting processes whose timeoutMs have passed
  preempted,       \* history: a live holder's lock file has been unlinked by
                   \* another process
  stalled,         \* history: a live creator has taken longer than staleMs
                   \* between creating the lock file and stamping it
  overdue          \* history: a live holder has kept its stamped lock longer
                   \* than staleMs

vars == <<lock, file, pc, seen, buf, outcome, expired, preempted, stalled, overdue>>

Waiting  == {"open", "read", "judge", "takeover"}
Critical == {"fetch", "store"}
Holding  == {"stamp", "fetch", "store", "check", "unlink"}
Ended    == {"dead", "exited"}
Phases   == {"start", "done"} \cup Ended \cup Waiting \cup Holding

Init ==
  /\ lock = NoLock
  /\ file = <<>>
  /\ pc = [p \in Proc |-> "start"]
  /\ seen = [p \in Proc |-> NoLock]
  /\ buf = [p \in Proc |-> <<>>]
  /\ outcome = [p \in Proc |-> "pending"]
  /\ expired = {}
  /\ preempted = FALSE
  /\ stalled = FALSE
  /\ overdue = FALSE

Goto(p, from, to) ==
  /\ pc[p] = from
  /\ pc' = [pc EXCEPT ![p] = to]

(* Another process's lock file disappears under it. *)
Preempts(p) ==
  lock # NoLock /\ lock.owner # p /\ pc[lock.owner] \in Holding

(* fs.unlinkSync(lockPath), an ENOENT ignored: whichever file is there now. *)
Unlink(p) ==
  /\ lock' = NoLock
  /\ preempted' = (preempted \/ Preempts(p))

-----------------------------------------------------------------------------
(* acquireLock *)

Call(p) ==
  /\ Goto(p, "start", "open")
  /\ UNCHANGED <<lock, file, seen, buf, outcome, expired, preempted, stalled, overdue>>

(* Mutant: opens with "w", which truncates a lock file that is there. *)
CreateTruncating(p) ==
  /\ Goto(p, "open", "stamp")
  /\ lock' = [owner |-> p, stamped |-> FALSE, old |-> FALSE]
  /\ expired' = expired \ {p}
  /\ UNCHANGED <<file, seen, buf, outcome, preempted, stalled, overdue>>

(* openSync(lockPath, "wx") succeeds *)
Create(p) ==
  /\ lock = NoLock
  /\ Goto(p, "open", "stamp")
  /\ lock' = [owner |-> p, stamped |-> FALSE, old |-> FALSE]
  /\ expired' = expired \ {p}
  /\ UNCHANGED <<file, seen, buf, outcome, preempted, stalled, overdue>>

(* ... and fails with EEXIST *)
Exists(p) ==
  /\ lock # NoLock
  /\ Goto(p, "open", "read")
  /\ UNCHANGED <<lock, file, seen, buf, outcome, expired, preempted, stalled, overdue>>

ReadHolder(p) ==
  /\ Goto(p, "read", "judge")
  /\ seen' = [seen EXCEPT ![p] = lock]
  /\ UNCHANGED <<lock, file, buf, outcome, expired, preempted, stalled, overdue>>

(* Mutant: age alone makes a lock stale. *)
StaleByAge(h) == h # NoLock /\ h.old

(* Mutant: an unknown pid counts as a live process. *)
StaleIfKnown(h) == h # NoLock /\ h.old /\ h.stamped /\ pc[h.owner] \in Ended

(* isPidAlive, of the process that is named for its pid.                   *)
PidAlive(p) == pc[p] \notin Ended

(* Too old, and no live process: the pid of an unstamped lock is unknown,  *)
(* which counts as dead.  The lock is what was read, the process what it   *)
(* is now: it may have stored, released and exited meanwhile.              *)
Stale(h) ==
  /\ h # NoLock
  /\ h.old
  /\ h.stamped => ~PidAlive(h.owner)

JudgeStale(p) ==
  /\ Stale(seen[p])
  /\ Goto(p, "judge", "takeover")
  /\ seen' = [seen EXCEPT ![p] = NoLock]
  /\ UNCHANGED <<lock, file, buf, outcome, expired, preempted, stalled, overdue>>

Backoff(p) ==
  /\ ~Stale(seen[p])
  /\ p \notin expired
  /\ Goto(p, "judge", "open")
  /\ seen' = [seen EXCEPT ![p] = NoLock]
  /\ UNCHANGED <<lock, file, buf, outcome, expired, preempted, stalled, overdue>>

(* ELOCKTIMEOUT, even when the lock file has just vanished *)
TimeOut(p) ==
  /\ ~Stale(seen[p])
  /\ p \in expired
  /\ Goto(p, "judge", "done")
  /\ outcome' = [outcome EXCEPT ![p] = "unwritten"]
  /\ seen' = [seen EXCEPT ![p] = NoLock]
  /\ expired' = expired \ {p}
  /\ UNCHANGED <<lock, file, buf, preempted, stalled, overdue>>

TakeOver(p) ==
  /\ Goto(p, "takeover", "open")
  /\ Unlink(p)
  /\ UNCHANGED <<file, seen, buf, outcome, expired, stalled, overdue>>

(* The write goes to the file this process created: when another process   *)
(* has unlinked it meanwhile, it is lost with the inode.                   *)
Stamp(p) ==
  /\ Goto(p, "stamp", "fetch")
  /\ lock' = IF lock # NoLock /\ lock.owner = p
             THEN [owner |-> p, stamped |-> TRUE, old |-> FALSE]
             ELSE lock
  /\ UNCHANGED <<file, seen, buf, outcome, expired, preempted, stalled, overdue>>

-----------------------------------------------------------------------------
(* The critical section of updateJsonAtomic *)

(* Mutant: keeps what it had read before it took the lock. *)
FetchCached(p) ==
  /\ Goto(p, "fetch", "store")
  /\ UNCHANGED <<lock, file, seen, buf, outcome, expired, preempted, stalled, overdue>>

Fetch(p) ==
  /\ Goto(p, "fetch", "store")
  /\ buf' = [buf EXCEPT ![p] = file]
  /\ UNCHANGED <<lock, file, seen, outcome, expired, preempted, stalled, overdue>>

(* writeFileAtomicSync: only its rename is visible *)
Store(p) ==
  /\ Goto(p, "store", "check")
  /\ file' = Append(buf[p], p)
  /\ outcome' = [outcome EXCEPT ![p] = "written"]
  /\ buf' = [buf EXCEPT ![p] = <<>>]
  /\ UNCHANGED <<lock, seen, expired, preempted, stalled, overdue>>

(* Mutant: writes in place, and leaves a truncated file when that fails. *)
LeaveTruncated(p) ==
  /\ pc[p] \in Critical
  /\ pc' = [pc EXCEPT ![p] = "check"]
  /\ file' = <<>>
  /\ outcome' = [outcome EXCEPT ![p] = "unwritten"]
  /\ buf' = [buf EXCEPT ![p] = <<>>]
  /\ UNCHANGED <<lock, seen, expired, preempted, stalled, overdue>>

(* The read or the mutation throws, the mutation returns SKIP_WRITE, or    *)
(* the temporary file cannot be written.                                   *)
LeaveFile(p) ==
  /\ pc[p] \in Critical
  /\ pc' = [pc EXCEPT ![p] = "check"]
  /\ outcome' = [outcome EXCEPT ![p] = "unwritten"]
  /\ buf' = [buf EXCEPT ![p] = <<>>]
  /\ UNCHANGED <<lock, file, seen, expired, preempted, stalled, overdue>>

-----------------------------------------------------------------------------
(* release *)

(* The token of an unstamped lock is null, which counts as ours. *)
Foreign(p, h) == h # NoLock /\ h.stamped /\ h.owner # p

CheckOwner(p) ==
  /\ Goto(p, "check", IF Foreign(p, lock) THEN "done" ELSE "unlink")
  /\ UNCHANGED <<lock, file, seen, buf, outcome, expired, preempted, stalled, overdue>>

Release(p) ==
  /\ Goto(p, "unlink", "done")
  /\ Unlink(p)
  /\ UNCHANGED <<file, seen, buf, outcome, expired, stalled, overdue>>

-----------------------------------------------------------------------------
(* The environment *)

(* timeoutMs have passed since the call began *)
Expire(p) ==
  /\ pc[p] \in Waiting
  /\ p \notin expired
  /\ expired' = expired \cup {p}
  /\ UNCHANGED <<lock, file, pc, seen, buf, outcome, preempted, stalled, overdue>>

(* staleMs have passed since the lock file was stamped, or created *)
Age ==
  /\ lock # NoLock
  /\ ~lock.old
  /\ lock' = [lock EXCEPT !.old = TRUE]
  /\ stalled' = (stalled \/ (~lock.stamped /\ PidAlive(lock.owner)))
  /\ overdue' = (overdue \/ (lock.stamped /\ PidAlive(lock.owner)))
  /\ UNCHANGED <<file, pc, seen, buf, outcome, expired, preempted>>

(* The process comes to its ordinary end, and its pid is no longer alive.  *)
Exit(p) ==
  /\ Goto(p, "done", "exited")
  /\ UNCHANGED <<lock, file, seen, buf, outcome, expired, preempted, stalled, overdue>>

(* The process is killed, or the write of the stamp throws and it exits    *)
(* with the empty lock file in place.                                      *)
Crash(p) ==
  /\ pc[p] \in Waiting \cup Holding
  /\ pc' = [pc EXCEPT ![p] = "dead"]
  /\ outcome' = [outcome EXCEPT ![p] = IF @ = "pending" THEN "unwritten" ELSE @]
  /\ seen' = [seen EXCEPT ![p] = NoLock]
  /\ buf' = [buf EXCEPT ![p] = <<>>]
  /\ expired' = expired \ {p}
  /\ UNCHANGED <<lock, file, preempted, stalled, overdue>>

-----------------------------------------------------------------------------
Step(p) ==
  \/ Create(p) \/ Exists(p) \/ ReadHolder(p)
  \/ JudgeStale(p) \/ Backoff(p) \/ TimeOut(p) \/ TakeOver(p)
  \/ Stamp(p) \/ Fetch(p) \/ Store(p) \/ LeaveFile(p)
  \/ CheckOwner(p) \/ Release(p)

Next ==
  \/ \E p \in Proc : Call(p) \/ Step(p) \/ Expire(p) \/ Exit(p) \/ Crash(p)
  \/ Age

Spec == Init /\ [][Next]_vars

(* The operating system runs every process, and clocks advance.  Nobody    *)
(* promises that a call is made, that a process crashes, exits or does     *)
(* not, or that a lock file is still there staleMs later.                  *)
Fairness == \A p \in Proc : WF_vars(Step(p)) /\ WF_vars(Expire(p))

FairSpec == Spec /\ Fairness

-----------------------------------------------------------------------------
TypeOK ==
  /\ lock \in LockFile \cup {NoLock}
  /\ file \in Seq(Proc)
  /\ pc \in [Proc -> Phases]
  /\ seen \in [Proc -> LockFile \cup {NoLock}]
  /\ buf \in [Proc -> Seq(Proc)]
  /\ outcome \in [Proc -> {"pending", "written", "unwritten"}]
  /\ expired \subseteq Proc
  /\ preempted \in BOOLEAN
  /\ stalled \in BOOLEAN
  /\ overdue \in BOOLEAN

Reflected == {file[i] : i \in DOMAIN file}
Written   == {p \in Proc : outcome[p] = "written"}
SomeCrash == \E p \in Proc : pc[p] = "dead"
SomeExit  == \E p \in Proc : pc[p] = "exited"

(* No two processes are between taking the lock and giving it up. *)
MutualExclusion ==
  \A p, q \in Proc : pc[p] \in Holding /\ pc[q] \in Holding => p = q

(* Two holders at once are possible only after some process has unlinked   *)
(* the lock file of a live holder: the exclusive create, the takeover and  *)
(* the release have no other way to break mutual exclusion.                *)
ExclusionUnlessPreempted == ~preempted => MutualExclusion

(* Every update reported as written is still in the file, unless a live    *)
(* holder was pre-empted: no read-modify-write drops another one's entry.  *)
NoLostUpdate == ~preempted => Written \subseteq Reflected

(* No process has died in its call and no creator has stalled; and either  *)
(* none has ended at all, or no holder has outlasted staleMs.              *)
Calm ==
  /\ ~SomeCrash /\ ~stalled
  /\ ~SomeExit \/ ~overdue

(* Slowness does not cost a live holder its lock for as long as nobody     *)
(* ends, nor do ends for as long as nobody outlasts staleMs: a lock can be *)
(* lost without a crash or a stall only when both come together, a waiter  *)
(* having read the overdue lock of a process that has exited since.        *)
SlowHolderKeepsLock ==
  /\ TypeOK
  /\ Calm => ~preempted

(* What README.md ("a live holder is never pre-empted") and session-store  *)
(* ("never while the holder is still running") say of stale takeover; a    *)
(* creator that has not got as far as its pid is not held against them.    *)
LiveHolderNeverPreempted == ~stalled => ~preempted

Abandoned == lock # NoLock /\ lock.old /\ pc[lock.owner] = "dead"

(* Every call returns, times out or dies with its process: there are as   *)
(* many as there are, and in the end nobody is within one.  And a caller   *)
(* that arrives at an abandoned lock, old enough, never times out on it:   *)
(* the lock file goes, or the caller dies first.                           *)
EveryCallEnds ==
  /\ <>[](\A p \in Proc : pc[p] \notin Waiting \cup Holding)
  /\ \A p \in Proc : Abandoned /\ pc[p] = "open" ~> ~Abandoned \/ pc[p] = "dead"

(* The locked read-modify-write is an atomic update, and stays one for as  *)
(* long as no live holder is pre-empted.                                   *)
Update == INSTANCE AtomicUpdate WITH value <- file, void <- preempted

AtomicUpdates == Update!Spec

=============================================================================
