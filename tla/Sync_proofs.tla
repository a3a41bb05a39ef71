----------------------------- MODULE Sync_proofs -----------------------------
(***************************************************************************)
(* Proofs about the loop that mirrors the run store, for any number of     *)
(* runs, tasks, passes under way, lines and changes: that the rows of runs *)
(* and tasks nobody has removed stay; that passes which do not overlap     *)
(* mirror each log once, in order, and leave no row without its run; and   *)
(* that a pass which ran undisturbed leaves a mirror of the store.         *)
(***************************************************************************)
EXTENDS Sync, TLAPS, SequenceTheorems

(* What the history knows of the store as it is.                           *)
StoreSeen ==
  /\ index # Unreadable => Run \ index.ids \subseteq unlisted
  /\ Run \ dirs \subseteq absent /\ absent \subseteq Run
  /\ ~mounted => unmounted
  /\ \A r \in Run, k \in Key :
       (plan[r].kind # "unreadable" /\ k \notin plan[r].keys) => <<r, k>> \in dropped

Gone == unlisted \cap (IF unmounted THEN Run ELSE absent)

AtRun == {"upsert", "tasks", "reapTasks", "insert"}

(* What a pass remembers of the store was so at some time.                 *)
Remembers(s) ==
  /\ s.pc # "idle" => Run \ s.ids \subseteq unlisted
  /\ IF s.pc \in AtRun THEN s.cur \in Run ELSE s.cur = None
  /\ s.stale \subseteq Gone /\ s.from <= s.to
  /\ s.pc \in {"tasks", "reapTasks"} =>
       \A k \in Key : k \notin s.plan.keys => <<s.cur, k>> \in dropped

Remembered == \A p \in Pass : Remembers(pass[p])

(* Until they overlap one pass is under way at a time, ...                 *)
Alone ==
  ~overlapped => \A p, q \in Pass : (pass[p].pc # "idle" /\ pass[q].pc # "idle") => p = q

(* ... every task and event has its run, whatever has been deleted, ...    *)
Backed(s) ==
  /\ s.pc \in {"tasks", "reapTasks", "insert"} => s.cur \in runs
  /\ s.pc \in {"delEvents", "delRuns"} => \A row \in tasks : row[1] \notin s.stale
  /\ s.pc = "delRuns" => \A r \in s.stale : events[r] = <<>>

RowsBacked ==
  ~overlapped =>
    /\ \A r \in Run \ runs : events[r] = <<>> /\ \A row \in tasks : row[1] # r
    /\ \A p \in Pass : Backed(pass[p])

(* ... and the offset of a log is that of the last line mirrored, but for  *)
(* a run whose events are deleted and whose row is about to be.            *)
Reaped(r) == \E p \in Pass : pass[p].pc = "delRuns" /\ r \in pass[p].stale

Ordered(r) ==
  /\ events[r] = Segment(0, Len(events[r]))
  /\ offset[r] = 2 * Len(events[r]) \/ Reaped(r)
  /\ \A p \in Pass : (pass[p].pc = "insert" /\ pass[p].cur = r) => pass[p].from = Len(events[r])

LinesOrdered ==
  (~overlapped /\ ~restarted) => \A r \in Run \ (replaced \cup torn) : Ordered(r)

(* Whatever passes overlap, the lines before the offset are mirrored.      *)
Has(r, n) == \A i \in 1..n : \E j \in DOMAIN events[r] : events[r][j] = i

Inserting(s, r) == s.pc = "insert" /\ s.cur = r

Covered(r) ==
  /\ offset[r] <= size[r]
  /\ Has(r, Lines(offset[r])) \/ Reaped(r)
  /\ \A p \in Pass : Inserting(pass[p], r) =>
       2 * pass[p].to <= size[r] /\ (Has(r, pass[p].from) \/ Reaped(r))

LinesCovered == \A r \in Run \ (replaced \cup torn) : Covered(r)

(* As long as a pass is clean, whatever any pass under way knows of the    *)
(* store is so, ...                                                        *)
Clean(s) == s.pc # "idle" /\ s.clean

Knows(s) ==
  /\ s.ids = index.ids /\ s.active = index.active
  /\ s.left \subseteq index.ids
  /\ \A r \in s.stale : r \notin index.ids /\ r \notin dirs
  /\ s.pc \in AtRun => s.cur \in index.ids
  /\ s.pc \in {"tasks", "reapTasks"} => s.plan = plan[s.cur]

CleanKnows ==
  (\E p \in Pass : Clean(pass[p])) =>
     /\ index # Unreadable /\ mounted
     /\ \A q \in Pass : pass[q].pc # "idle" => Knows(pass[q])

(* ... and what the clean pass has done so far stands.                     *)
TasksDone(r) ==
  plan[r].kind = "sound" => \A k \in Key : <<r, k>> \in tasks <=> k \in plan[r].keys

LinesDone(r) == r \in replaced \/ r \in torn \/ Has(r, Lines(size[r]))

RunDone(r) == r \in runs /\ TasksDone(r) /\ LinesDone(r)

HasDone(s) ==
  /\ \A r \in Run : (r \in index.ids /\ r \in dirs /\ r \notin s.left /\ s.cur # r) => RunDone(r)
  /\ s.pc \in {"tasks", "reapTasks", "insert"} => s.cur \in runs
  /\ s.pc = "reapTasks" => \A k \in s.plan.keys : <<s.cur, k>> \in tasks
  /\ s.pc = "insert" => TasksDone(s.cur) /\ s.to = Lines(size[s.cur])
  /\ s.pc \notin AtRun => s.left = {}
  /\ s.pc \in {"delTasks", "delEvents", "delRuns"} =>
       \A r \in runs : r \in index.ids \/ r \in dirs \/ r \in s.stale
  /\ s.pc \in {"clear", "mark"} => \A r \in runs : r \in index.ids \/ r \in dirs
  /\ s.pc = "mark" => \A r \in flagged : r = index.active

CleanDone == \A p \in Pass : Clean(pass[p]) => HasDone(pass[p])

Agrees ==
  /\ \A p \in Pass : pass[p].pc = "idle"
  /\ \A r \in Run : (r \in index.ids /\ r \in dirs) => RunDone(r)
  /\ \A r \in runs : r \in index.ids \/ r \in dirs
  /\ flagged = {index.active} \cap runs

IInv ==
  /\ TypeOK
  /\ StoreSeen /\ Remembered
  /\ flagged \subseteq runs
  /\ Alone /\ RowsBacked /\ LinesOrdered /\ LinesCovered
  /\ CleanKnows /\ CleanDone
  /\ synced => Agrees

-----------------------------------------------------------------------------
(* Halves and segments *)

(* The complete lines of a log of a given size. *)
LEMMA Halves ==
  ASSUME NEW n \in Nat
  PROVE  /\ Lines(n) \in Nat /\ 2 * Lines(n) <= n /\ n <= 2 * Lines(n) + 1
         /\ Lines(2 * n) = n
BY DEF Lines

(* A log within the bound has no more lines than the bound. *)
LEMMA HalvesType ==
  ASSUME NEW m \in Nat, NEW n \in 0..(2 * m)
  PROVE  Lines(n) \in 0..m
BY DEF Lines

(* A longer log has no fewer complete lines. *)
LEMMA HalvesGrow ==
  ASSUME NEW m \in Nat, NEW n \in Nat, m <= n
  PROVE  Lines(m) <= Lines(n)
BY DEF Lines

(* A sequence by its domain and its elements. *)
LEMMA IsASequence ==
  ASSUME NEW S, NEW n \in Nat, NEW f \in [1..n -> S]
  PROVE  f \in Seq(S)
OBVIOUS

(* The lines of a segment are lines of the log. *)
LEMMA SegmentType ==
  ASSUME NEW a \in 0..MaxLines, NEW b \in 0..MaxLines
  PROVE  Segment(a, b) \in Seq(1..MaxLines)
<1>0. MaxLines \in Nat
  BY SyncAssumption
<1>1. CASE a <= b
  <2>1. b - a \in Nat /\ \A i \in 1..(b - a) : a + i \in 1..MaxLines
    BY <1>0, <1>1
  <2>2. Segment(a, b) \in [1..(b - a) -> 1..MaxLines]
    BY <2>1 DEF Segment
  <2> QED
    BY <2>1, <2>2, IsASequence, Zenon
<1>2. CASE b < a
  <2>1. 1..(b - a) = 1..0
    BY <1>0, <1>2
  <2>2. PICK n \in Nat : n = 0
    OBVIOUS
  <2>3. 1..(b - a) = 1..n
    BY <2>1, <2>2
  <2>4. Segment(a, b) \in [1..n -> 1..MaxLines]
    BY <2>1, <2>2, <2>3 DEF Segment
  <2> QED
    BY <2>4, IsASequence, Zenon
<1> QED
  BY <1>0, <1>1, <1>2

(* The elements of a segment. *)
LEMMA SegmentIs ==
  ASSUME NEW a \in Nat, NEW b \in Nat, a <= b
  PROVE  /\ Segment(a, b) \in Seq(Nat) /\ Len(Segment(a, b)) = b - a
         /\ \A i \in 1..(b - a) : Segment(a, b)[i] = a + i
<1>1. b - a \in Nat /\ \A i \in 1..(b - a) : a + i \in Nat
  OBVIOUS
<1>2. Segment(a, b) \in [1..(b - a) -> Nat]
  BY <1>1 DEF Segment
<1>3. Segment(a, b) \in Seq(Nat)
  BY <1>1, <1>2
<1>4. Len(Segment(a, b)) = b - a
  BY <1>1, <1>2, <1>3
<1> QED
  BY <1>3, <1>4 DEF Segment

(* Nothing has been mirrored yet. *)
LEMMA SegmentEmpty == Segment(0, 0) = <<>> /\ Len(<<>>) = 0
<1>1. Segment(0, 0) \in Seq(Nat) /\ Len(Segment(0, 0)) = 0
  BY SegmentIs
<1> QED
  BY <1>1, EmptySeq

(* A sequence that goes on counting where another stops. *)
LEMMA CountedOn ==
  ASSUME NEW s \in Seq(Nat), NEW t \in Seq(Nat), NEW u \in Seq(Nat),
         Len(u) = Len(s) + Len(t),
         \A i \in 1..Len(s) : s[i] = u[i],
         \A i \in 1..Len(t) : t[i] = u[Len(s) + i]
  PROVE  s \o t = u
<1>1. PICK v : v = s \o t
  OBVIOUS
<1>2. /\ v \in Seq(Nat) /\ Len(v) = Len(s) + Len(t)
      /\ \A i \in 1..(Len(s) + Len(t)) : v[i] = IF i <= Len(s) THEN s[i] ELSE t[i - Len(s)]
  BY <1>1, ConcatProperties
<1>3. Len(s) \in Nat /\ Len(t) \in Nat
  BY LenProperties
<1>4. \A i \in 1..Len(v) : v[i] = u[i]
  <2> TAKE i \in 1..Len(v)
  <2>0. i \in 1..(Len(s) + Len(t))
    BY <1>2
  <2>1. CASE i <= Len(s)
    <3>1. i \in 1..Len(s)
      BY <2>0, <2>1, <1>3
    <3> QED
      BY <3>1, <2>0, <2>1, <1>2
  <2>2. CASE ~(i <= Len(s))
    <3>1. PICK j : j = i - Len(s)
      OBVIOUS
    <3>2. j \in 1..Len(t) /\ Len(s) + j = i
      BY <3>1, <2>0, <2>2, <1>3
    <3>3. v[i] = t[j]
      BY <3>1, <2>0, <2>2, <1>2
    <3> QED
      BY <3>2, <3>3
  <2> QED
    BY <2>1, <2>2
<1>5. v = u
  BY <1>2, <1>4, SeqEqual
<1> QED
  BY <1>1, <1>5

(* A segment continued where it ends. *)
LEMMA SegmentJoined ==
  ASSUME NEW a \in Nat, NEW b \in Nat, a <= b
  PROVE  Segment(0, a) \o Segment(a, b) = Segment(0, b)
<1> DEFINE s == Segment(0, a)
           t == Segment(a, b)
           u == Segment(0, b)
<1>1. s \in Seq(Nat) /\ Len(s) = a /\ \A i \in 1..a : s[i] = i
  BY SegmentIs
<1>2. t \in Seq(Nat) /\ Len(t) = b - a /\ \A i \in 1..(b - a) : t[i] = a + i
  BY SegmentIs
<1>3. u \in Seq(Nat) /\ Len(u) = b /\ \A i \in 1..b : u[i] = i
  BY SegmentIs
<1> HIDE DEF s, t, u
<1>4. \A i \in 1..Len(s) : s[i] = u[i]
  BY <1>1, <1>3
<1>5. \A i \in 1..Len(t) : t[i] = u[Len(s) + i]
  BY <1>1, <1>2, <1>3
<1>6. Len(u) = Len(s) + Len(t)
  BY <1>1, <1>2, <1>3
<1>7. s \in Seq(Nat) /\ t \in Seq(Nat) /\ u \in Seq(Nat)
  BY <1>1, <1>2, <1>3
<1>8. s \o t = u
  BY <1>4, <1>5, <1>6, <1>7, CountedOn, Zenon
<1> QED
  BY <1>8 DEF s, t, u

-----------------------------------------------------------------------------
(* What the steps do, field by field *)

Same(s, t) ==
  t.ids = s.ids /\ t.active = s.active /\ t.clean = s.clean /\ t.stale = s.stale

(* From s a pass goes on to t: to the next run, or past the last one.      *)
WentOn(s, t) ==
  /\ Same(s, t) /\ t.from = s.from /\ t.to = s.to
  /\ t.left \subseteq s.left
  /\ \/ t.pc = "upsert" /\ t.cur \in s.left /\ t.cur \in OnDisk
     \/ t.pc = (IF mounted THEN "select" ELSE "clear") /\ t.cur = None /\ t.left = {}
  /\ \A r \in OnDisk : r \in s.left => r \in t.left \/ r = t.cur

(* Only the pass p has moved.                                              *)
Moved(p) ==
  /\ pass' \in [Pass -> PassType] /\ queue' \in Seq(Pass)
  /\ \A q \in Pass : q # p => pass'[q] = pass[q]

StoreSame == UNCHANGED <<index, dirs, plan, size, mounted>>
SeenSame  == UNCHANGED <<overlapped, restarted, replaced, absent, unlisted, unmounted, dropped>>

(* Strings and sets of the type of a pass, so that it can stay folded.     *)
LEMMA PcKnown ==
  /\ \A s \in PassType : /\ s.pc \in Pc /\ s.ids \subseteq Run /\ s.active \in Run \cup {None}
                         /\ s.left \subseteq Run /\ s.cur \in Run \cup {None}
                         /\ s.from \in 0..MaxLines /\ s.to \in 0..MaxLines
                         /\ s.plan \in Plan /\ s.stale \subseteq Run /\ s.clean \in BOOLEAN
BY DEF PassType

(* What a pass starts from. *)
LEMMA NothingYet == NoPlan \in Plan /\ 0 \in 0..MaxLines
BY SyncAssumption DEF NoPlan, Plan

(* A pass that is not under way. *)
LEMMA IdleIs == Idle.pc = "idle" /\ Idle.stale = {} /\ Idle.cur = None /\ ~Idle.clean
BY DEF Idle

(* A run or none on disk. *)
LEMMA DiskType ==
  ASSUME TypeOK
  PROVE  OnDisk \subseteq Run /\ (mounted => OnDisk = dirs) /\ (~mounted => OnDisk = {})
BY DEF TypeOK, OnDisk

(* A pass goes on to a state of its type. *)
LEMMA NextRunEffect ==
  ASSUME TypeOK, NEW s \in PassType, NEW t \in NextRun(s)
  PROVE  t \in PassType /\ WentOn(s, t)
<1>0. None \notin Run /\ OnDisk \subseteq Run
  BY SyncAssumption, DiskType
<1>1. CASE s.left \cap OnDisk = {}
  <2>1. t = [s EXCEPT !.pc = IF mounted THEN "select" ELSE "clear", !.cur = None, !.left = {}]
    BY <1>1 DEF NextRun, PastLast
  <2>2. t \in PassType
    BY <2>1 DEF PassType, Pc
  <2> QED
    BY <1>1, <2>1, <2>2 DEF WentOn, Same, PassType
<1>2. CASE s.left \cap OnDisk # {}
  <2>0. PICK r \in s.left \cap OnDisk, skipped \in SUBSET (s.left \ OnDisk) : t = OnTo(s, r, skipped)
    BY <1>2 DEF NextRun
  <2>1. t = [s EXCEPT !.pc = "upsert", !.cur = r, !.left = s.left \ (skipped \cup {r})]
    BY <2>0 DEF OnTo
  <2>2. s.left \subseteq Run /\ r \in Run
    BY <1>0 DEF PassType
  <2>3. t \in PassType
    BY <2>1, <2>2 DEF PassType, Pc
  <2> QED
    BY <1>2, <2>1, <2>3 DEF WentOn, Same, PassType
<1> QED
  BY <1>1, <1>2

(* The queries of the others stay in the order of their issue. *)
LEMMA OthersType ==
  ASSUME TypeOK, NEW p \in Pass
  PROVE  Others(p) \in Seq(Pass)
<1>1. queue \in Seq(Pass)
  BY DEF TypeOK
<1>2. queue # <<>> => Tail(queue) \in Seq(Pass)
  BY <1>1, HeadTailProperties
<1> QED
  BY <1>1, <1>2 DEF Others

(* One pass moves, to one of the states given. *)
LEMMA ContinueEffect ==
  ASSUME TypeOK, NEW p \in Pass, NEW next, next \subseteq PassType, Continue(p, next)
  PROVE  Moved(p) /\ pass'[p] \in next
<1>1. PICK s \in next : pass' = [pass EXCEPT ![p] = s]
  BY DEF Continue
<1>2. pass' \in [Pass -> PassType] /\ pass'[p] = s /\ \A q \in Pass : q # p => pass'[q] = pass[q]
  BY <1>1 DEF TypeOK
<1>3. queue \in Seq(Pass) /\ Append(Others(p), p) \in Seq(Pass)
  BY OthersType, AppendProperties DEF TypeOK
<1>4. queue' \in Seq(Pass)
  BY <1>3 DEF Continue
<1> QED
  BY <1>2, <1>4 DEF Moved

(* A pass that ends is idle. *)
LEMMA EndEffect ==
  ASSUME TypeOK, NEW p \in Pass, NEW well \in BOOLEAN, End(p, well)
  PROVE  /\ Moved(p) /\ pass'[p] = Idle
         /\ synced' = (well /\ pass[p].clean /\ Running = {p})
         /\ StoreSame /\ SeenSame /\ UNCHANGED <<runs, tasks, events, offset, torn>>
<1>1. Idle \in PassType
  BY SyncAssumption DEF Idle, NoPlan, Plan, PassType, Pc
<1>2. pass' \in [Pass -> PassType] /\ pass'[p] = Idle /\ \A q \in Pass : q # p => pass'[q] = pass[q]
  BY <1>1 DEF End, TypeOK
<1>3. queue' \in Seq(Pass)
  BY OthersType DEF End
<1> QED
  BY <1>2, <1>3 DEF Moved, End, StoreSame, SeenSame, store, history, seen

(* What the pass p, at a run, has found in the run's log.                  *)
Start(r) == IF size[r] < offset[r] THEN 0 ELSE offset[r]

Looked(p) ==
  LET s == pass[p]
      t == pass'[p]
  IN  /\ Same(s, t)
      /\ offset' \in [Run -> 0..(2 * MaxLines)]
      /\ \/ /\ t.pc = "insert" /\ t.cur = s.cur /\ t.left = s.left /\ s.cur \in OnDisk
            /\ t.from = Lines(Start(s.cur)) /\ t.to = Lines(size[s.cur]) /\ t.from < t.to
            /\ offset' = offset
         \/ /\ WentOn(s, t)
            /\ s.cur \in OnDisk => Lines(size[s.cur]) <= Lines(Start(s.cur))
            /\ \A r \in Run : offset'[r] = offset[r] \/ (r = s.cur /\ offset'[r] = Start(r))

(* The log is looked at once the plan is dealt with. *)
LEMMA LookEffect ==
  ASSUME TypeOK, NEW p \in Pass, pass[p].cur \in Run,
         NEW s \in PassType, LookAtLog(p, s),
         s.cur = pass[p].cur, s.left = pass[p].left, s.from = pass[p].from, s.to = pass[p].to,
         Same(pass[p], s)
  PROVE  Moved(p) /\ Looked(p)
<1> DEFINE r == s.cur
           start == Start(r)
           new == r \in OnDisk /\ size[r] # start
           lines == new /\ Lines(size[r]) > Lines(start)
           ins == [s EXCEPT !.pc = "insert", !.from = Lines(start), !.to = Lines(size[r])]
<1>0. MaxLines \in Nat /\ r \in Run /\ offset \in [Run -> 0..(2 * MaxLines)]
  BY SyncAssumption DEF TypeOK
<1>1. size[r] \in 0..(2 * MaxLines) /\ start \in 0..(2 * MaxLines)
  BY <1>0 DEF Start, TypeOK
<1>2. Lines(start) \in 0..MaxLines /\ Lines(size[r]) \in 0..MaxLines
  BY <1>0, <1>1, HalvesType
<1>3. ins \in PassType
  BY <1>2 DEF PassType, Pc
<1>4. /\ Continue(p, IF lines THEN {ins} ELSE NextRun(s))
      /\ offset' = IF new /\ ~lines THEN [offset EXCEPT ![r] = start] ELSE offset
  BY DEF LookAtLog, Start
<1>5. offset' \in [Run -> 0..(2 * MaxLines)]
  BY <1>0, <1>1, <1>4
<1>6. CASE lines
  <2>1. Moved(p) /\ pass'[p] = ins
    <3>1. {ins} \subseteq PassType /\ Continue(p, {ins})
      BY <1>3, <1>4, <1>6
    <3>2. Moved(p) /\ pass'[p] \in {ins}
      BY <3>1, ContinueEffect
    <3> QED
      BY <3>2
  <2>2. PICK t : t = ins
    OBVIOUS
  <2>3. /\ t.pc = "insert" /\ t.cur = s.cur /\ t.left = s.left
        /\ t.from = Lines(start) /\ t.to = Lines(size[r]) /\ Same(s, t)
    BY <2>2 DEF PassType, Same
  <2>4. offset' = offset /\ t.from < t.to /\ r \in OnDisk
    BY <1>2, <1>4, <1>6, <2>3
  <2> HIDE DEF ins, start
  <2>5. Same(pass[p], t)
    BY <2>3 DEF Same
  <2> QED
    BY <1>5, <2>1, <2>2, <2>3, <2>4, <2>5 DEF Looked, start
<1>7. CASE ~lines
  <2>1. NextRun(s) \subseteq PassType
    BY NextRunEffect
  <2>2. Continue(p, NextRun(s))
    BY <1>4, <1>7
  <2>3. Moved(p) /\ pass'[p] \in NextRun(s)
    BY <2>1, <2>2, ContinueEffect
  <2>4. WentOn(s, pass'[p])
    BY <2>3, NextRunEffect
  <2>5. WentOn(pass[p], pass'[p]) /\ Same(pass[p], pass'[p])
    BY <2>4 DEF WentOn, Same
  <2>6. r \in OnDisk => Lines(size[r]) <= Lines(start)
    BY <1>2, <1>7
  <2>7. \A q \in Run : offset'[q] = offset[q] \/ (q = r /\ offset'[q] = Start(q))
    BY <1>0, <1>4
  <2> HIDE DEF start
  <2> QED
    BY <1>5, <2>3, <2>5, <2>6, <2>7 DEF Looked, start
<1> QED
  BY <1>6, <1>7

(* runSyncOnce starts with the ids of the index it has read. *)
LEMMA BeginEffect ==
  ASSUME TypeOK, NEW p \in Pass, Begin(p)
  PROVE  /\ Moved(p) /\ pass[p] = Idle /\ mounted /\ index # Unreadable /\ index \in Index
         /\ overlapped' = (overlapped \/ Running # {}) /\ synced' = FALSE
         /\ UNCHANGED <<runs, flagged, tasks, events, offset, restarted, replaced, torn>>
         /\ UNCHANGED <<absent, unlisted, unmounted, dropped>> /\ StoreSame
         /\ \E s \in PassType :
              /\ WentOn(s, pass'[p])
              /\ s.ids = index.ids /\ s.left = index.ids /\ s.active = index.active
              /\ s.clean = (Running = {}) /\ s.stale = {} /\ s.from = 0 /\ s.to = 0
<1>1. mounted /\ index # Unreadable /\ index \in Index /\ pass[p] = Idle
  BY DEF Begin, TypeOK
<1>2. index.ids \subseteq Run /\ index.active \in Run \cup {None}
  BY <1>1 DEF Index
<1>3. Idle \in PassType
  BY SyncAssumption DEF Idle, NoPlan, Plan, PassType, Pc
<1>4. PICK clean \in BOOLEAN : clean = (Running = {})
  OBVIOUS
<1>5. PICK s : s = [Idle EXCEPT !.ids = index.ids, !.left = index.ids, !.active = index.active,
                                !.clean = clean]
  OBVIOUS
<1>6. s \in PassType
  BY <1>2, <1>3, <1>5 DEF PassType
<1>7. /\ s.ids = index.ids /\ s.left = index.ids /\ s.active = index.active
      /\ s.clean = clean /\ s.stale = {} /\ s.from = 0 /\ s.to = 0
  BY <1>5 DEF Idle
<1>8. NextRun(s) \subseteq PassType
  BY <1>6, NextRunEffect
<1>9. Continue(p, NextRun(s))
  BY <1>4, <1>5 DEF Begin
<1>10. Moved(p) /\ pass'[p] \in NextRun(s)
  BY <1>8, <1>9, ContinueEffect
<1>11. WentOn(s, pass'[p])
  BY <1>6, <1>10, NextRunEffect
<1>12. /\ overlapped' = (overlapped \/ Running # {}) /\ synced' = FALSE
       /\ UNCHANGED <<runs, flagged, tasks, events, offset, restarted, replaced, torn>>
       /\ UNCHANGED <<absent, unlisted, unmounted, dropped>> /\ StoreSame
  BY DEF Begin, store, db, StoreSame
<1> QED
  BY <1>1, <1>4, <1>6, <1>7, <1>10, <1>11, <1>12

(* upsertRun: the row is there, the plan has been read or left for later. *)
LEMMA UpsertEffect ==
  ASSUME TypeOK, Remembered, NEW p \in Pass, upsertRun(p)
  PROVE  /\ Moved(p) /\ pass[p].pc = "upsert" /\ pass[p].cur \in Run
         /\ runs' = runs \cup {pass[p].cur} /\ StoreSame /\ SeenSame
         /\ UNCHANGED <<flagged, tasks, events, torn, synced>>
         /\ \/ /\ pass[p].cur \in OnDisk => plan[pass[p].cur].kind = "unreadable"
               /\ Looked(p)
            \/ /\ Same(pass[p], pass'[p]) /\ UNCHANGED offset
               /\ pass'[p].pc = "tasks" /\ pass'[p].cur = pass[p].cur
               /\ pass'[p].left = pass[p].left
               /\ pass'[p].from = pass[p].from /\ pass'[p].to = pass[p].to
               /\ pass[p].cur \in OnDisk /\ pass'[p].plan = plan[pass[p].cur]
               /\ plan[pass[p].cur].kind # "unreadable"
<1> DEFINE s == pass[p]
           now == IF s.cur \in OnDisk THEN plan[s.cur] ELSE NoPlan
           t == [s EXCEPT !.pc = "tasks", !.plan = now]
<1>1. s \in PassType /\ s.pc = "upsert" /\ s.cur \in Run
  BY DEF upsertRun, Query, TypeOK, Remembered, Remembers, AtRun
<1>2. /\ runs' = runs \cup {s.cur} /\ StoreSame /\ SeenSame
      /\ UNCHANGED <<flagged, tasks, events, torn, synced>>
  BY DEF upsertRun, store, history, seen, StoreSame, SeenSame
<1>3. now \in Plan
  BY <1>1 DEF TypeOK, NoPlan, Plan
<1>4. CASE now.kind = "unreadable"
  <2>1. LookAtLog(p, s)
    BY <1>4 DEF upsertRun
  <2>2. Same(s, s)
    BY DEF Same
  <2>3. Moved(p) /\ Looked(p)
    BY <1>1, <2>1, <2>2, LookEffect
  <2>4. s.cur \in OnDisk => plan[s.cur].kind = "unreadable"
    BY <1>4
  <2> QED
    BY <1>1, <1>2, <2>3, <2>4
<1>5. CASE now.kind # "unreadable"
  <2>1. Continue(p, {t}) /\ UNCHANGED offset
    BY <1>5 DEF upsertRun
  <2>2. t \in PassType
    BY <1>1, <1>3 DEF PassType, Pc
  <2>3. {t} \subseteq PassType
    BY <2>2
  <2>4. Moved(p) /\ pass'[p] \in {t}
    BY <2>1, <2>3, ContinueEffect
  <2>5. PICK u : u = t
    OBVIOUS
  <2>6. /\ Same(s, u) /\ u.pc = "tasks" /\ u.cur = s.cur /\ u.left = s.left
        /\ u.from = s.from /\ u.to = s.to /\ u.plan = now
    BY <1>1, <2>5 DEF PassType, Same
  <2>7. s.cur \in OnDisk /\ now = plan[s.cur] /\ plan[s.cur].kind # "unreadable"
    BY <1>5 DEF NoPlan
  <2>8. pass'[p] = u
    BY <2>4, <2>5
  <2> HIDE DEF t, now
  <2> QED
    BY <1>1, <1>2, <2>1, <2>4, <2>6, <2>7, <2>8
<1> QED
  BY <1>4, <1>5

(* syncTasks: the tasks of the plan are there. *)
LEMMA SyncTasksEffect ==
  ASSUME TypeOK, Remembered, NEW p \in Pass, syncTasks(p)
  PROVE  /\ Moved(p) /\ pass[p].pc = "tasks" /\ pass[p].cur \in Run
         /\ tasks' = tasks \cup ({pass[p].cur} \X pass[p].plan.keys) /\ StoreSame /\ SeenSame
         /\ UNCHANGED <<runs, flagged, events, torn, synced>>
         /\ \/ pass[p].plan.kind = "partial" /\ Looked(p)
            \/ /\ Same(pass[p], pass'[p]) /\ UNCHANGED offset
               /\ pass'[p].pc = "reapTasks" /\ pass'[p].cur = pass[p].cur
               /\ pass'[p].left = pass[p].left /\ pass'[p].plan = pass[p].plan
               /\ pass'[p].from = pass[p].from /\ pass'[p].to = pass[p].to
<1> DEFINE s == pass[p]
           t == [s EXCEPT !.pc = "reapTasks"]
           v == [s EXCEPT !.plan = NoPlan]
<1>1. s \in PassType /\ s.pc = "tasks" /\ s.cur \in Run
  BY DEF syncTasks, Query, TypeOK, Remembered, Remembers, AtRun
<1>2. /\ tasks' = tasks \cup ({s.cur} \X s.plan.keys) /\ StoreSame /\ SeenSame
      /\ UNCHANGED <<runs, flagged, events, torn, synced>>
  BY DEF syncTasks, store, history, seen, StoreSame, SeenSame
<1>3. CASE s.plan.kind = "partial"
  <2>1. LookAtLog(p, v)
    BY <1>3 DEF syncTasks
  <2>2. PICK u : u = v
    OBVIOUS
  <2>3. u \in PassType
    BY <1>1, <2>2 DEF PassType, NoPlan, Plan
  <2>4. Same(s, u) /\ u.cur = s.cur /\ u.left = s.left /\ u.from = s.from /\ u.to = s.to
    BY <1>1, <2>2 DEF PassType, Same
  <2>5. LookAtLog(p, u)
    BY <2>1, <2>2
  <2> HIDE DEF v
  <2>6. Moved(p) /\ Looked(p)
    BY <1>1, <2>3, <2>4, <2>5, LookEffect
  <2> QED
    BY <1>1, <1>2, <1>3, <2>6
<1>4. CASE s.plan.kind # "partial"
  <2>1. Continue(p, {t}) /\ UNCHANGED offset
    BY <1>4 DEF syncTasks
  <2>2. t \in PassType
    BY <1>1 DEF PassType, Pc
  <2>3. {t} \subseteq PassType
    BY <2>2
  <2>4. Moved(p) /\ pass'[p] \in {t}
    BY <2>1, <2>3, ContinueEffect
  <2>5. PICK u : u = t
    OBVIOUS
  <2>6. /\ Same(s, u) /\ u.pc = "reapTasks" /\ u.cur = s.cur /\ u.left = s.left
        /\ u.from = s.from /\ u.to = s.to /\ u.plan = s.plan
    BY <1>1, <2>5 DEF PassType, Same
  <2>8. pass'[p] = u
    BY <2>4, <2>5
  <2> HIDE DEF t
  <2> QED
    BY <1>1, <1>2, <2>1, <2>4, <2>6, <2>8
<1> QED
  BY <1>3, <1>4

(* reapTasks: the tasks the plan does not have are gone. *)
LEMMA ReapTasksEffect ==
  ASSUME TypeOK, Remembered, NEW p \in Pass, reapTasks(p)
  PROVE  /\ Moved(p) /\ pass[p].pc = "reapTasks" /\ pass[p].cur \in Run
         /\ tasks' = {row \in tasks : row[1] = pass[p].cur => row[2] \in pass[p].plan.keys}
         /\ StoreSame /\ SeenSame /\ UNCHANGED <<runs, flagged, events, torn, synced>>
         /\ Looked(p)
<1> DEFINE s == pass[p]
           v == [s EXCEPT !.plan = NoPlan]
<1>1. s \in PassType /\ s.pc = "reapTasks" /\ s.cur \in Run
  BY DEF reapTasks, Query, TypeOK, Remembered, Remembers, AtRun
<1>2. /\ tasks' = {row \in tasks : row[1] = s.cur => row[2] \in s.plan.keys}
      /\ StoreSame /\ SeenSame /\ UNCHANGED <<runs, flagged, events, torn, synced>>
  BY DEF reapTasks, store, history, seen, StoreSame, SeenSame
<1>3. LookAtLog(p, v)
  BY DEF reapTasks
<1>4. PICK u : u = v
  OBVIOUS
<1>5. u \in PassType
  BY <1>1, <1>4 DEF PassType, NoPlan, Plan
<1>6. Same(s, u) /\ u.cur = s.cur /\ u.left = s.left /\ u.from = s.from /\ u.to = s.to
  BY <1>1, <1>4 DEF PassType, Same
<1>7. LookAtLog(p, u)
  BY <1>3, <1>4
<1> HIDE DEF v
<1>8. Moved(p) /\ Looked(p)
  BY <1>1, <1>5, <1>6, <1>7, LookEffect
<1> QED
  BY <1>1, <1>2, <1>8

(* insertEvents: the lines are there, and only now the offset is past them. *)
LEMMA InsertEffect ==
  ASSUME TypeOK, Remembered, NEW p \in Pass, insertEvents(p)
  PROVE  LET s == pass[p] IN
         /\ Moved(p) /\ s.pc = "insert" /\ s.cur \in Run /\ s.from <= s.to
         /\ events'[s.cur] = events[s.cur] \o Segment(s.from, s.to)
         /\ offset'[s.cur] = 2 * s.to
         /\ \A r \in Run : r # s.cur => events'[r] = events[r] /\ offset'[r] = offset[r]
         /\ events' \in [Run -> Seq(1..MaxLines)] /\ offset' \in [Run -> 0..(2 * MaxLines)]
         /\ StoreSame /\ SeenSame /\ UNCHANGED <<runs, flagged, tasks, torn, synced>>
         /\ \E u \in PassType :
              /\ WentOn(u, pass'[p]) /\ Same(s, u) /\ u.cur = s.cur /\ u.left = s.left
              /\ u.from = 0 /\ u.to = 0
<1> DEFINE s == pass[p]
           v == [s EXCEPT !.from = 0, !.to = 0]
<1>1. s \in PassType /\ s.pc = "insert" /\ s.cur \in Run /\ s.from <= s.to
  BY DEF insertEvents, Query, TypeOK, Remembered, Remembers, AtRun
<1>2. StoreSame /\ SeenSame /\ UNCHANGED <<runs, flagged, tasks, torn, synced>>
  BY DEF insertEvents, store, history, seen, StoreSame, SeenSame
<1>3. s.from \in 0..MaxLines /\ s.to \in 0..MaxLines
  BY <1>1, PcKnown
<1>4. PICK g : g = events[s.cur] \o Segment(s.from, s.to)
  OBVIOUS
<1>5. g \in Seq(1..MaxLines)
  <2>1. events[s.cur] \in Seq(1..MaxLines) /\ Segment(s.from, s.to) \in Seq(1..MaxLines)
    BY <1>1, <1>3, SegmentType DEF TypeOK
  <2> QED
    BY <1>4, <2>1, ConcatProperties
<1>6. events' = [events EXCEPT ![s.cur] = g]
  BY <1>4 DEF insertEvents
<1>7. /\ events'[s.cur] = g /\ events' \in [Run -> Seq(1..MaxLines)]
      /\ \A r \in Run : r # s.cur => events'[r] = events[r]
  BY <1>1, <1>5, <1>6 DEF TypeOK
<1>8. /\ offset'[s.cur] = 2 * s.to /\ offset' \in [Run -> 0..(2 * MaxLines)]
      /\ \A r \in Run : r # s.cur => offset'[r] = offset[r]
  <2>1. 2 * s.to \in 0..(2 * MaxLines)
    BY <1>3, SyncAssumption
  <2>2. offset' = [offset EXCEPT ![s.cur] = 2 * s.to]
    BY DEF insertEvents
  <2> QED
    BY <1>1, <2>1, <2>2 DEF TypeOK
<1>9. PICK u : u = v
  OBVIOUS
<1>10. u \in PassType
  BY <1>1, <1>9, NothingYet DEF PassType
<1>11. Same(s, u) /\ u.cur = s.cur /\ u.left = s.left /\ u.from = 0 /\ u.to = 0
  BY <1>1, <1>9 DEF PassType, Same
<1>12. Continue(p, NextRun(u))
  BY <1>9 DEF insertEvents
<1>13. Moved(p) /\ pass'[p] \in NextRun(u)
  BY <1>10, <1>12, NextRunEffect, ContinueEffect
<1>14. WentOn(u, pass'[p])
  BY <1>10, <1>13, NextRunEffect
<1> HIDE DEF v
<1>15. \E w \in PassType :
         /\ WentOn(w, pass'[p]) /\ Same(s, w) /\ w.cur = s.cur /\ w.left = s.left
         /\ w.from = 0 /\ w.to = 0
  BY <1>10, <1>11, <1>14
<1> QED
  BY <1>1, <1>2, <1>4, <1>7, <1>8, <1>13, <1>15

(* A step of a pass after its last run: only pc and stale change.          *)
Later(s, t, pc) ==
  /\ t.pc = pc /\ t.ids = s.ids /\ t.active = s.active /\ t.clean = s.clean
  /\ t.cur = s.cur /\ t.left = s.left /\ t.from = s.from /\ t.to = s.to

(* Such a step, and the state it leads to. *)
LEMMA LaterEffect ==
  ASSUME TypeOK, NEW p \in Pass, NEW pc \in Pc, NEW stale \in SUBSET Run,
         Continue(p, {[pass[p] EXCEPT !.stale = stale, !.pc = pc]})
  PROVE  Moved(p) /\ Later(pass[p], pass'[p], pc) /\ pass'[p].stale = stale
<1>1. pass[p] \in PassType
  BY DEF TypeOK
<1>2. PICK u : u = [pass[p] EXCEPT !.stale = stale, !.pc = pc]
  OBVIOUS
<1>3. u \in PassType
  BY <1>1, <1>2 DEF PassType
<1>4. Later(pass[p], u, pc) /\ u.stale = stale
  BY <1>1, <1>2 DEF PassType, Later
<1>5. Continue(p, {u}) /\ {u} \subseteq PassType
  BY <1>2, <1>3
<1>6. Moved(p) /\ pass'[p] \in {u}
  BY <1>5, ContinueEffect
<1> QED
  BY <1>4, <1>6

(* The same without a change of the stale runs. *)
LEMMA LaterEffectPc ==
  ASSUME TypeOK, NEW p \in Pass, NEW pc \in Pc, Continue(p, {[pass[p] EXCEPT !.pc = pc]})
  PROVE  Moved(p) /\ Later(pass[p], pass'[p], pc) /\ pass'[p].stale = pass[p].stale
<1>1. pass[p] \in PassType
  BY DEF TypeOK
<1>2. PICK u : u = [pass[p] EXCEPT !.pc = pc]
  OBVIOUS
<1>3. u \in PassType
  BY <1>1, <1>2 DEF PassType
<1>4. Later(pass[p], u, pc) /\ u.stale = pass[p].stale
  BY <1>1, <1>2 DEF PassType, Later
<1>5. Continue(p, {u}) /\ {u} \subseteq PassType
  BY <1>2, <1>3
<1>6. Moved(p) /\ pass'[p] \in {u}
  BY <1>5, ContinueEffect
<1> QED
  BY <1>4, <1>6

(* reapRuns: the runs it has found gone. *)
LEMMA SelectEffect ==
  ASSUME TypeOK, NEW p \in Pass, selectRuns(p)
  PROVE  LET gone == runs \ (pass[p].ids \cup OnDisk) IN
         /\ Moved(p) /\ pass[p].pc = "select"
         /\ Later(pass[p], pass'[p], IF gone = {} THEN "clear" ELSE "delTasks")
         /\ pass'[p].stale = gone
         /\ StoreSame /\ SeenSame /\ UNCHANGED <<runs, flagged, tasks, events, offset, torn, synced>>
<1> DEFINE gone == runs \ (pass[p].ids \cup OnDisk)
<1>1. PICK g : g = gone
  OBVIOUS
<1>2. PICK pc \in Pc : pc = IF g = {} THEN "clear" ELSE "delTasks"
  BY DEF Pc
<1>3. g \in SUBSET Run
  BY <1>1 DEF TypeOK
<1>4. Continue(p, {[pass[p] EXCEPT !.stale = gone, !.pc = IF gone = {} THEN "clear" ELSE "delTasks"]})
  BY DEF selectRuns
<1> HIDE DEF gone
<1>5. Continue(p, {[pass[p] EXCEPT !.stale = g, !.pc = pc]})
  BY <1>1, <1>2, <1>4
<1>6. Moved(p) /\ Later(pass[p], pass'[p], pc) /\ pass'[p].stale = g
  BY <1>3, <1>5, LaterEffect
<1>7. /\ StoreSame /\ SeenSame /\ UNCHANGED <<runs, flagged, tasks, events, offset, torn, synced>>
      /\ pass[p].pc = "select"
  BY DEF selectRuns, Query, store, db, history, seen, StoreSame, SeenSame
<1> QED
  BY <1>1, <1>2, <1>6, <1>7 DEF gone

(* reapRuns: the tasks of those runs are gone. *)
LEMMA DeleteTasksEffect ==
  ASSUME TypeOK, NEW p \in Pass, deleteTasks(p)
  PROVE  /\ Moved(p) /\ pass[p].pc = "delTasks"
         /\ Later(pass[p], pass'[p], "delEvents") /\ pass'[p].stale = pass[p].stale
         /\ tasks' = {row \in tasks : row[1] \notin pass[p].stale}
         /\ StoreSame /\ SeenSame /\ UNCHANGED <<runs, flagged, events, offset, torn, synced>>
<1>1. Continue(p, {[pass[p] EXCEPT !.pc = "delEvents"]}) /\ "delEvents" \in Pc
  BY DEF deleteTasks, Pc
<1>2. Moved(p) /\ Later(pass[p], pass'[p], "delEvents") /\ pass'[p].stale = pass[p].stale
  BY <1>1, LaterEffectPc
<1> QED
  BY <1>2 DEF deleteTasks, Query, store, history, seen, StoreSame, SeenSame

(* reapRuns: their events are gone. *)
LEMMA DeleteEventsEffect ==
  ASSUME TypeOK, NEW p \in Pass, deleteEvents(p)
  PROVE  /\ Moved(p) /\ pass[p].pc = "delEvents"
         /\ Later(pass[p], pass'[p], "delRuns") /\ pass'[p].stale = pass[p].stale
         /\ \A r \in Run : events'[r] = IF r \in pass[p].stale THEN <<>> ELSE events[r]
         /\ events' \in [Run -> Seq(1..MaxLines)]
         /\ torn' = IF Running = {p} THEN torn ELSE torn \cup pass[p].stale
         /\ StoreSame /\ SeenSame /\ UNCHANGED <<runs, flagged, tasks, offset, synced>>
<1>1. Continue(p, {[pass[p] EXCEPT !.pc = "delRuns"]}) /\ "delRuns" \in Pc
  BY DEF deleteEvents, Pc
<1>2. Moved(p) /\ Later(pass[p], pass'[p], "delRuns") /\ pass'[p].stale = pass[p].stale
  BY <1>1, LaterEffectPc
<1>3. /\ \A r \in Run : events'[r] = IF r \in pass[p].stale THEN <<>> ELSE events[r]
      /\ events' \in [Run -> Seq(1..MaxLines)]
  <2>1. <<>> \in Seq(1..MaxLines)
    BY EmptySeq
  <2>2. PICK e \in Seq(1..MaxLines) : e = <<>>
    BY <2>1
  <2>3. events' = [r \in Run |-> IF r \in pass[p].stale THEN e ELSE events[r]]
    BY <2>2 DEF deleteEvents
  <2> QED
    BY <2>2, <2>3 DEF TypeOK
<1> QED
  BY <1>2, <1>3 DEF deleteEvents, Query, store, seen, StoreSame, SeenSame

(* reapRuns: their rows and offsets are gone. *)
LEMMA DeleteRunsEffect ==
  ASSUME TypeOK, NEW p \in Pass, deleteRuns(p)
  PROVE  /\ Moved(p) /\ pass[p].pc = "delRuns"
         /\ Later(pass[p], pass'[p], "clear") /\ pass'[p].stale = {}
         /\ runs' = runs \ pass[p].stale /\ flagged' = flagged \ pass[p].stale
         /\ \A r \in Run : offset'[r] = IF r \in pass[p].stale THEN 0 ELSE offset[r]
         /\ offset' \in [Run -> 0..(2 * MaxLines)]
         /\ torn' = IF Running = {p} THEN torn ELSE torn \cup pass[p].stale
         /\ StoreSame /\ SeenSame /\ UNCHANGED <<tasks, events, synced>>
<1>1. Continue(p, {[pass[p] EXCEPT !.pc = "clear", !.stale = {}]})
  BY DEF deleteRuns
<1>2. [pass[p] EXCEPT !.pc = "clear", !.stale = {}] = [pass[p] EXCEPT !.stale = {}, !.pc = "clear"]
  BY DEF TypeOK, PassType
<1>3. Continue(p, {[pass[p] EXCEPT !.stale = {}, !.pc = "clear"]}) /\ "clear" \in Pc
  BY <1>1, <1>2 DEF Pc
<1>4. Moved(p) /\ Later(pass[p], pass'[p], "clear") /\ pass'[p].stale = {}
  BY <1>3, LaterEffect
<1>5. /\ \A r \in Run : offset'[r] = IF r \in pass[p].stale THEN 0 ELSE offset[r]
      /\ offset' \in [Run -> 0..(2 * MaxLines)]
  BY SyncAssumption DEF deleteRuns, TypeOK
<1> QED
  BY <1>4, <1>5 DEF deleteRuns, Query, store, seen, StoreSame, SeenSame

(* markActiveRun: every flag is cleared. *)
LEMMA ClearEffect ==
  ASSUME TypeOK, NEW p \in Pass, clearActive(p)
  PROVE  /\ Moved(p) /\ pass[p].pc = "clear"
         /\ Later(pass[p], pass'[p], "mark") /\ pass'[p].stale = pass[p].stale
         /\ flagged' = {}
         /\ StoreSame /\ SeenSame /\ UNCHANGED <<runs, tasks, events, offset, torn, synced>>
<1>1. Continue(p, {[pass[p] EXCEPT !.pc = "mark"]}) /\ "mark" \in Pc
  BY DEF clearActive, Pc
<1>2. Moved(p) /\ Later(pass[p], pass'[p], "mark") /\ pass'[p].stale = pass[p].stale
  BY <1>1, LaterEffectPc
<1> QED
  BY <1>2 DEF clearActive, Query, store, history, seen, StoreSame, SeenSame

(* A pass ends, its flags set, with none to set, or failing. *)
LEMMA EndsEffect ==
  ASSUME TypeOK, NEW p \in Pass, clearOnly(p) \/ markActive(p) \/ FlagFails(p)
  PROVE  /\ Moved(p) /\ pass'[p] = Idle /\ pass[p].pc \in {"clear", "mark"}
         /\ StoreSame /\ SeenSame /\ UNCHANGED <<runs, tasks, events, offset, torn>>
         /\ \/ pass[p].pc = "clear" /\ pass[p].active = None /\ flagged' = {}
            \/ pass[p].pc = "mark" /\ flagged' = flagged \cup ({pass[p].active} \cap runs)
            \/ flagged' = flagged /\ ~synced'
         /\ synced' => pass[p].clean /\ Running = {p}
<1>1. CASE clearOnly(p)
  BY <1>1, EndEffect DEF clearOnly, Query
<1>2. CASE markActive(p)
  BY <1>2, EndEffect DEF markActive, Query
<1>3. CASE FlagFails(p)
  <2>1. FALSE \in BOOLEAN /\ End(p, FALSE) /\ flagged' = flagged /\ pass[p].pc \in {"clear", "mark"}
    BY <1>3 DEF FlagFails
  <2> QED
    BY <2>1, EndEffect
<1> QED
  BY <1>1, <1>2, <1>3

(* A query fails: on to the next run, or out of reapRuns. *)
LEMMA FailEffect ==
  ASSUME TypeOK, Remembered, NEW p \in Pass, QueryFails(p)
  PROVE  LET s == pass[p]
             t == pass'[p]
         IN
         /\ Moved(p) /\ s.pc \notin {"idle", "clear", "mark"} /\ ~t.clean
         /\ t.ids = s.ids /\ t.active = s.active /\ t.from = 0 /\ t.to = 0
         /\ t.left \subseteq s.left
         /\ \/ s.pc \in AtRun /\ t.stale = s.stale /\ t.pc = "upsert" /\ t.cur \in s.left
            \/ s.pc \in AtRun /\ t.stale = s.stale /\ t.pc \in {"select", "clear"} /\ t.cur = None
            \/ s.pc \notin AtRun /\ t.stale = {} /\ t.pc = "clear" /\ t.cur = None
         /\ torn' = IF s.pc = "delRuns" THEN torn \cup s.stale ELSE torn
         /\ StoreSame /\ SeenSame /\ UNCHANGED <<runs, flagged, tasks, events, offset, synced>>
<1> DEFINE s == pass[p]
           v == [s EXCEPT !.plan = NoPlan, !.from = 0, !.to = 0, !.clean = FALSE]
           w == [v EXCEPT !.pc = "clear", !.stale = {}]
<1>1. /\ s \in PassType /\ s.pc \notin {"idle", "clear", "mark"}
      /\ IF s.pc \in AtRun THEN s.cur \in Run ELSE s.cur = None
  BY DEF QueryFails, TypeOK, Remembered, Remembers
<1>2. /\ torn' = IF s.pc = "delRuns" THEN torn \cup s.stale ELSE torn
      /\ StoreSame /\ SeenSame /\ UNCHANGED <<runs, flagged, tasks, events, offset, synced>>
  BY DEF QueryFails, store, db, seen, StoreSame, SeenSame
<1>3. PICK u : u = v
  OBVIOUS
<1>4. u \in PassType
  BY <1>1, <1>3, NothingYet DEF PassType
<1>5. /\ u.pc = s.pc /\ u.ids = s.ids /\ u.active = s.active /\ u.from = 0 /\ u.to = 0
      /\ u.left = s.left /\ u.stale = s.stale /\ u.cur = s.cur /\ ~u.clean
  BY <1>1, <1>3 DEF PassType
<1>6. Continue(p, IF u.cur = None THEN {[u EXCEPT !.pc = "clear", !.stale = {}]} ELSE NextRun(u))
  BY <1>3 DEF QueryFails
<1> HIDE DEF v
<1>7. CASE s.pc \in AtRun
  <2>1. u.cur # None
    BY <1>1, <1>5, <1>7, SyncAssumption
  <2>2. Continue(p, NextRun(u))
    BY <2>1, <1>6
  <2>3. NextRun(u) \subseteq PassType
    BY <1>4, NextRunEffect
  <2>4. Moved(p) /\ pass'[p] \in NextRun(u)
    BY <2>2, <2>3, ContinueEffect
  <2>5. WentOn(u, pass'[p])
    BY <1>4, <2>4, NextRunEffect
  <2>6. /\ pass'[p].ids = s.ids /\ pass'[p].active = s.active /\ ~pass'[p].clean
        /\ pass'[p].stale = s.stale /\ pass'[p].from = 0 /\ pass'[p].to = 0
        /\ pass'[p].left \subseteq s.left
    BY <1>5, <2>5 DEF WentOn, Same
  <2>7. \/ pass'[p].pc = "upsert" /\ pass'[p].cur \in s.left
        \/ pass'[p].pc \in {"select", "clear"} /\ pass'[p].cur = None
    BY <1>5, <2>5 DEF WentOn
  <2> QED
    BY <1>1, <1>2, <1>7, <2>4, <2>6, <2>7
<1>8. CASE s.pc \notin AtRun
  <2>1. PICK x : x = [u EXCEPT !.pc = "clear", !.stale = {}]
    OBVIOUS
  <2>2. x \in PassType
    BY <1>4, <2>1 DEF PassType, Pc
  <2>3. /\ x.pc = "clear" /\ x.ids = u.ids /\ x.active = u.active /\ x.from = 0 /\ x.to = 0
        /\ x.left = u.left /\ x.stale = {} /\ x.cur = u.cur /\ ~x.clean
    BY <1>4, <1>5, <2>1 DEF PassType
  <2>4. Continue(p, {x}) /\ {x} \subseteq PassType
    BY <1>1, <1>5, <1>6, <1>8, <2>1, <2>2
  <2>5. Moved(p) /\ pass'[p] \in {x}
    BY <2>4, ContinueEffect
  <2> QED
    BY <1>1, <1>2, <1>5, <1>8, <2>3, <2>5
<1> QED
  BY <1>7, <1>8

(* The run store changes: no pass is clean any more, and goes on as it was. *)
LEMMA ChangeEffect ==
  ASSUME TypeOK, Change
  PROVE  /\ pass' \in [Pass -> PassType] /\ queue' \in Seq(Pass)
         /\ \A q \in Pass : /\ ~pass'[q].clean
                            /\ pass'[q].ids = pass[q].ids /\ pass'[q].stale = pass[q].stale
                            /\ pass'[q].pc = pass[q].pc /\ pass'[q].cur = pass[q].cur
                            /\ pass'[q].plan = pass[q].plan
                            /\ pass'[q].from = pass[q].from /\ pass'[q].to = pass[q].to
         /\ UNCHANGED <<runs, flagged, tasks, events, offset, overlapped, restarted, torn>>
         /\ ~synced'
<1>1. \A q \in Pass : pass[q] \in PassType
  BY DEF TypeOK
<1>2. \A q \in Pass : [pass[q] EXCEPT !.clean = FALSE] \in PassType
  BY <1>1 DEF PassType
<1>3. \A q \in Pass : pass'[q] = [pass[q] EXCEPT !.clean = FALSE]
  BY DEF Change
<1>4. pass' \in [Pass -> PassType] /\ queue' \in Seq(Pass)
  BY <1>2 DEF Change, TypeOK
<1>5. \A q \in Pass : /\ ~pass'[q].clean
                      /\ pass'[q].ids = pass[q].ids /\ pass'[q].stale = pass[q].stale
                      /\ pass'[q].pc = pass[q].pc /\ pass'[q].cur = pass[q].cur
                      /\ pass'[q].plan = pass[q].plan
                      /\ pass'[q].from = pass[q].from /\ pass'[q].to = pass[q].to
  <2> TAKE q \in Pass
  <2>1. PICK u : u = [pass[q] EXCEPT !.clean = FALSE]
    OBVIOUS
  <2> QED
    BY <1>1, <1>3, <2>1 DEF PassType
<1> QED
  BY <1>4, <1>5 DEF Change, db

StoreMoves ==
  \/ WriteIndex
  \/ \E r \in Run : MakeDir(r) \/ RemoveDir(r) \/ WritePlan(r) \/ AppendEvent(r)
  \/ Unmount

(* What has been seen of the store only grows, and logs grow unless they   *)
(* are replaced.                                                           *)
SeenGrows ==
  /\ replaced \subseteq replaced' /\ absent \subseteq absent' /\ unlisted \subseteq unlisted'
  /\ dropped \subseteq dropped' /\ (unmounted => unmounted')
  /\ \A r \in Run : r \notin replaced' => size[r] <= size'[r]

(* However the store changes, the history sees it. *)
LEMMA StoreEffect ==
  ASSUME TypeOK, StoreSeen, StoreMoves
  PROVE  Change /\ TypeOK' /\ StoreSeen' /\ SeenGrows
<1> DEFINE StoreType == /\ index' \in Index \cup {Unreadable}
                        /\ dirs' \subseteq Run /\ mounted' \in BOOLEAN
                        /\ plan' \in [Run -> Plan]
                        /\ size' \in [Run -> 0..(2 * MaxLines)]
           Goal == Change /\ StoreType /\ StoreSeen' /\ SeenGrows
<1>0. MaxLines \in Nat /\ \A r \in Run : size[r] \in Nat
  BY SyncAssumption DEF TypeOK
<1> HIDE DEF StoreType, Goal
<1>1. ASSUME WriteIndex PROVE Goal
  <2>1. /\ Change /\ UNCHANGED <<dirs, plan, size, mounted, replaced, absent, unmounted, dropped>>
        /\ index' \in {Unreadable} \cup {i \in Index : i.active \in i.ids \cup {None}}
        /\ unlisted' = IF index' = Unreadable THEN unlisted ELSE unlisted \cup (Run \ index'.ids)
    BY <1>1 DEF WriteIndex
  <2>2. StoreType
    BY <2>1 DEF TypeOK, StoreType
  <2>3. StoreSeen'
    BY <2>1 DEF StoreSeen
  <2>4. SeenGrows
    BY <2>1, <1>0 DEF TypeOK, SeenGrows
  <2> QED
    BY <2>1, <2>2, <2>3, <2>4 DEF Goal
<1>2. ASSUME Unmount PROVE Goal
  <2>1. /\ Change /\ UNCHANGED <<index, dirs, plan, size, replaced, absent, unlisted, dropped>>
        /\ mounted' = ~mounted /\ unmounted' = TRUE
    BY <1>2 DEF Unmount
  <2>2. StoreType
    BY <2>1 DEF TypeOK, StoreType
  <2>3. StoreSeen'
    BY <2>1 DEF TypeOK, StoreSeen
  <2>4. SeenGrows
    BY <2>1, <1>0 DEF TypeOK, SeenGrows
  <2> QED
    BY <2>1, <2>2, <2>3, <2>4 DEF Goal
<1>3. ASSUME NEW r \in Run, MakeDir(r) \/ RemoveDir(r) \/ WritePlan(r) \/ AppendEvent(r)
      PROVE  Goal
  <2>1. CASE MakeDir(r)
    <3>1. /\ Change /\ dirs' = dirs \cup {r}
          /\ UNCHANGED <<index, plan, size, mounted, replaced, absent, unlisted, unmounted, dropped>>
      BY <2>1 DEF MakeDir
    <3> QED
      BY <3>1, <1>0 DEF TypeOK, StoreSeen, SeenGrows, StoreType, Goal
  <2>2. CASE RemoveDir(r)
    <3>1. /\ Change /\ dirs' = dirs \ {r}
          /\ plan' = [plan EXCEPT ![r] = NoPlan] /\ size' = [size EXCEPT ![r] = 0]
          /\ absent' = absent \cup {r} /\ replaced' = replaced \cup {r}
          /\ UNCHANGED <<index, mounted, unlisted, unmounted, dropped>>
      BY <2>2 DEF RemoveDir
    <3>2. /\ plan' \in [Run -> Plan] /\ plan'[r].kind = "unreadable"
          /\ \A q \in Run : q # r => plan'[q] = plan[q]
      BY <3>1, NothingYet DEF TypeOK, NoPlan
    <3>3. size' \in [Run -> 0..(2 * MaxLines)] /\ \A q \in Run : q # r => size'[q] = size[q]
      BY <3>1, <1>0 DEF TypeOK
    <3>4. StoreType
      BY <3>1, <3>2, <3>3 DEF TypeOK, StoreType
    <3>5. StoreSeen'
      BY <3>1, <3>2 DEF StoreSeen
    <3>6. SeenGrows
      BY <3>1, <3>3, <1>0 DEF SeenGrows, TypeOK
    <3> QED
      BY <3>1, <3>4, <3>5, <3>6 DEF Goal
  <2>3. CASE WritePlan(r)
    <3>1. /\ Change
          /\ UNCHANGED <<index, dirs, size, mounted, replaced, absent, unlisted, unmounted>>
      BY <2>3 DEF WritePlan
    <3>2. PICK new \in Plan :
            /\ plan' = [plan EXCEPT ![r] = new]
            /\ dropped' = IF new.kind = "unreadable" THEN dropped
                          ELSE dropped \cup ({r} \X (Key \ new.keys))
      BY <2>3 DEF WritePlan
    <3>3. plan' \in [Run -> Plan] /\ plan'[r] = new /\ \A q \in Run : q # r => plan'[q] = plan[q]
      BY <3>2 DEF TypeOK
    <3>4. StoreType
      BY <3>1, <3>3 DEF TypeOK, StoreType
    <3>5. \A k \in Key : (new.kind # "unreadable" /\ k \notin new.keys) => <<r, k>> \in dropped'
      BY <3>2
    <3>6. dropped \subseteq dropped'
      BY <3>2
    <3>7. StoreSeen'
      BY <3>1, <3>3, <3>5, <3>6 DEF StoreSeen
    <3>8. SeenGrows
      BY <3>1, <3>6, <1>0 DEF SeenGrows, TypeOK
    <3> QED
      BY <3>1, <3>4, <3>7, <3>8 DEF Goal
  <2>4. CASE AppendEvent(r)
    <3>1. /\ Change
          /\ UNCHANGED <<index, dirs, plan, mounted, replaced, absent, unlisted, unmounted, dropped>>
      BY <2>4 DEF AppendEvent
    <3>2. PICK n \in {1, 2} : size[r] + n <= 2 * MaxLines /\ size' = [size EXCEPT ![r] = @ + n]
      BY <2>4 DEF AppendEvent
    <3>3. /\ size' \in [Run -> 0..(2 * MaxLines)] /\ size[r] <= size'[r]
          /\ \A q \in Run : q # r => size'[q] = size[q]
      BY <3>2, <1>0 DEF TypeOK
    <3>4. StoreType
      BY <3>1, <3>3 DEF TypeOK, StoreType
    <3>5. StoreSeen'
      BY <3>1 DEF StoreSeen
    <3>6. \A q \in Run : size[q] <= size'[q]
      <4> TAKE q \in Run
      <4> QED
        BY <3>3, <1>0
    <3>7. SeenGrows
      BY <3>1, <3>6 DEF SeenGrows
    <3> QED
      BY <3>1, <3>4, <3>5, <3>7 DEF Goal
  <2> QED
    BY <1>3, <2>1, <2>2, <2>3, <2>4
<1>4. Goal
  BY <1>1, <1>2, <1>3 DEF StoreMoves
<1>5. TypeOK'
  BY <1>4, ChangeEffect DEF TypeOK, Goal, StoreType
<1> QED
  BY <1>4, <1>5 DEF Goal

(* After a restart no pass is under way, and every log is read anew. *)
LEMMA RestartEffect ==
  ASSUME TypeOK, Restart
  PROVE  /\ pass' \in [Pass -> PassType] /\ queue' \in Seq(Pass)
         /\ \A q \in Pass : pass'[q] = Idle
         /\ offset' \in [Run -> 0..(2 * MaxLines)] /\ \A r \in Run : offset'[r] = 0
         /\ restarted' = TRUE /\ ~synced' /\ StoreSame
         /\ UNCHANGED <<runs, flagged, tasks, events, overlapped, torn>>
         /\ UNCHANGED <<replaced, absent, unlisted, unmounted, dropped>>
<1>1. Idle \in PassType
  BY NothingYet, SyncAssumption DEF Idle, PassType, Pc
<1>2. pass' \in [Pass -> PassType] /\ \A q \in Pass : pass'[q] = Idle
  BY <1>1 DEF Restart
<1>3. queue' \in Seq(Pass)
  BY EmptySeq DEF Restart
<1>4. offset' \in [Run -> 0..(2 * MaxLines)] /\ \A r \in Run : offset'[r] = 0
  BY SyncAssumption DEF Restart
<1> QED
  BY <1>2, <1>3, <1>4 DEF Restart, store, db, StoreSame

PassMoves(p) == Begin(p) \/ PassStep(p) \/ QueryFails(p) \/ FlagFails(p)

(* Every step is of a pass, of the store, or a restart. *)
LEMMA Steps ==
  ASSUME [Next]_vars
  PROVE  (\E p \in Pass : PassMoves(p)) \/ StoreMoves \/ Restart \/ UNCHANGED vars
BY DEF Next, PassMoves, StoreMoves

(* Every variable keeps its type. *)
LEMMA TypePass ==
  ASSUME TypeOK, Remembered, NEW p \in Pass, PassMoves(p)
  PROVE  TypeOK'
<1>1. CASE Begin(p)
  BY <1>1, BeginEffect DEF TypeOK, StoreSame, Moved
<1>2. CASE upsertRun(p)
  BY <1>2, UpsertEffect, SMTT(30) DEF TypeOK, StoreSame, Moved, Looked
<1>3. CASE syncTasks(p)
  <2>1. pass[p].plan.keys \subseteq Key
    BY DEF TypeOK, PassType, Plan
  <2>2. tasks' \subseteq Run \X Key
    BY <1>3, <2>1, SyncTasksEffect DEF TypeOK
  <2>3. offset' \in [Run -> 0..(2 * MaxLines)]
    BY <1>3, SyncTasksEffect DEF TypeOK, Looked
  <2> QED
    BY <1>3, <2>2, <2>3, SyncTasksEffect DEF TypeOK, StoreSame, Moved
<1>4. CASE reapTasks(p)
  BY <1>4, ReapTasksEffect DEF TypeOK, StoreSame, Moved, Looked
<1>5. CASE insertEvents(p)
  BY <1>5, InsertEffect DEF TypeOK, StoreSame, Moved
<1>6. CASE selectRuns(p)
  BY <1>6, SelectEffect DEF TypeOK, StoreSame, Moved
<1>7. CASE deleteTasks(p)
  BY <1>7, DeleteTasksEffect DEF TypeOK, StoreSame, Moved
<1>8. CASE deleteEvents(p)
  BY <1>8, DeleteEventsEffect DEF TypeOK, StoreSame, Moved
<1>9. CASE deleteRuns(p)
  BY <1>9, DeleteRunsEffect DEF TypeOK, StoreSame, Moved
<1>10. CASE clearActive(p)
  BY <1>10, ClearEffect DEF TypeOK, StoreSame, Moved
<1>11. CASE clearOnly(p) \/ markActive(p) \/ FlagFails(p)
  BY <1>11, EndsEffect DEF TypeOK, StoreSame, Moved
<1>12. CASE QueryFails(p)
  BY <1>12, FailEffect DEF TypeOK, StoreSame, Moved
<1> QED
  BY <1>1, <1>2, <1>3, <1>4, <1>5, <1>6, <1>7, <1>8, <1>9, <1>10, <1>11, <1>12
     DEF PassMoves, PassStep

(* A pass leaves the store, and what has been seen of it, as they are. *)
LEMMA PassSeen ==
  ASSUME TypeOK, Remembered, NEW p \in Pass, PassMoves(p)
  PROVE  /\ Moved(p) /\ StoreSame
         /\ UNCHANGED <<restarted, replaced, absent, unlisted, unmounted, dropped>>
         /\ overlapped => overlapped'
         /\ torn \subseteq torn'
<1>1. CASE Begin(p)
  BY <1>1, BeginEffect
<1>2. CASE upsertRun(p)
  BY <1>2, UpsertEffect DEF SeenSame
<1>3. CASE syncTasks(p)
  BY <1>3, SyncTasksEffect DEF SeenSame
<1>4. CASE reapTasks(p)
  BY <1>4, ReapTasksEffect DEF SeenSame
<1>5. CASE insertEvents(p)
  BY <1>5, InsertEffect DEF SeenSame
<1>6. CASE selectRuns(p)
  BY <1>6, SelectEffect DEF SeenSame
<1>7. CASE deleteTasks(p)
  BY <1>7, DeleteTasksEffect DEF SeenSame
<1>8. CASE deleteEvents(p)
  BY <1>8, DeleteEventsEffect DEF SeenSame
<1>9. CASE deleteRuns(p)
  BY <1>9, DeleteRunsEffect DEF SeenSame
<1>10. CASE clearActive(p)
  BY <1>10, ClearEffect DEF SeenSame
<1>11. CASE clearOnly(p) \/ markActive(p) \/ FlagFails(p)
  BY <1>11, EndsEffect DEF SeenSame
<1>12. CASE QueryFails(p)
  BY <1>12, FailEffect DEF SeenSame
<1> QED
  BY <1>1, <1>2, <1>3, <1>4, <1>5, <1>6, <1>7, <1>8, <1>9, <1>10, <1>11, <1>12
     DEF PassMoves, PassStep

(* What the history knows of the store stays true. *)
LEMMA StoreSeenStep ==
  ASSUME TypeOK, Remembered, StoreSeen, [Next]_vars
  PROVE  StoreSeen'
<1>1. ASSUME NEW p \in Pass, PassMoves(p) PROVE StoreSeen'
  BY <1>1, PassSeen DEF StoreSeen, StoreSame
<1>2. CASE Restart
  BY <1>2, RestartEffect DEF StoreSeen, StoreSame
<1>3. CASE UNCHANGED vars
  BY <1>3 DEF StoreSeen, vars, store, history, seen
<1> QED
  BY <1>1, <1>2, <1>3, StoreEffect, Steps

-----------------------------------------------------------------------------
(* What the passes remember was so *)

(* What is past the store as it is seen is in Gone. *)
LEMMA GoneSeen ==
  ASSUME TypeOK, StoreSeen, NEW r \in Run, r \notin OnDisk, r \in unlisted
  PROVE  r \in Gone
BY DEF TypeOK, StoreSeen, OnDisk, Gone

(* A pass that has moved remembers what was so. *)
LEMMA RememberedPass ==
  ASSUME TypeOK, StoreSeen, Remembered, NEW p \in Pass, PassMoves(p)
  PROVE  Remembers(pass[p])'
<1>0. /\ Remembers(pass[p]) /\ pass[p] \in PassType /\ pass'[p] \in PassType
      /\ UNCHANGED <<absent, unlisted, unmounted, dropped>> /\ OnDisk \subseteq Run
      /\ None \notin Run
  BY PassSeen, DiskType, SyncAssumption DEF Remembered, Moved, TypeOK
<1>1. ASSUME Same(pass[p], pass'[p]), pass'[p].from <= pass'[p].to, pass[p].pc # "idle",
             IF pass'[p].pc \in AtRun THEN pass'[p].cur \in Run ELSE pass'[p].cur = None,
             pass'[p].pc \notin {"tasks", "reapTasks"}
      PROVE  Remembers(pass[p])'
  BY <1>0, <1>1 DEF Remembers, Same, Gone, AtRun
<1>2. ASSUME NEW s \in PassType, WentOn(s, pass'[p])
      PROVE  /\ IF pass'[p].pc \in AtRun THEN pass'[p].cur \in Run ELSE pass'[p].cur = None
             /\ pass'[p].pc \notin {"tasks", "reapTasks", "idle"}
  BY <1>0, <1>2 DEF WentOn, AtRun
<1>3. ASSUME Looked(p), pass[p].pc \in AtRun PROVE Remembers(pass[p])'
  <2>1. CASE WentOn(pass[p], pass'[p])
    <3>1. pass'[p].from <= pass'[p].to /\ Same(pass[p], pass'[p]) /\ pass[p].pc # "idle"
      BY <1>0, <1>3, <2>1 DEF WentOn, Remembers, AtRun
    <3> QED
      BY <1>0, <1>1, <1>2, <2>1, <3>1
  <2>2. CASE pass'[p].pc = "insert" /\ pass'[p].cur = pass[p].cur /\ pass'[p].from < pass'[p].to
    <3>1. pass'[p].from <= pass'[p].to /\ pass'[p].cur \in Run /\ pass[p].pc # "idle"
      BY <1>0, <1>3, <2>2, PcKnown DEF Remembers, AtRun
    <3>2. Same(pass[p], pass'[p])
      BY <1>3 DEF Looked
    <3> QED
      BY <1>1, <2>2, <3>1, <3>2 DEF AtRun
  <2> QED
    BY <1>3, <2>1, <2>2 DEF Looked
<1>4. ASSUME NEW pc \in Pc \ (AtRun \cup {"idle"}), Later(pass[p], pass'[p], pc),
             pass[p].pc \notin AtRun \cup {"idle"}, pass'[p].stale \subseteq Gone
      PROVE  Remembers(pass[p])'
  BY <1>0, <1>4 DEF Remembers, Later, Gone, AtRun
<1>5. CASE Begin(p)
  <2>1. PICK s \in PassType :
          /\ WentOn(s, pass'[p])
          /\ s.ids = index.ids /\ s.stale = {} /\ s.from = 0 /\ s.to = 0
    BY <1>5, BeginEffect
  <2>2. pass'[p].ids = index.ids /\ pass'[p].stale = {} /\ pass'[p].from = 0 /\ pass'[p].to = 0
    BY <2>1 DEF WentOn, Same
  <2>3. Run \ index.ids \subseteq unlisted
    BY <1>5, BeginEffect DEF StoreSeen
  <2>4. /\ IF pass'[p].pc \in AtRun THEN pass'[p].cur \in Run ELSE pass'[p].cur = None
        /\ pass'[p].pc \notin {"tasks", "reapTasks", "idle"}
    BY <1>2, <2>1
  <2> QED
    BY <1>0, <2>2, <2>3, <2>4 DEF Remembers
<1>6. CASE upsertRun(p)
  <2>1. CASE Looked(p)
    BY <1>3, <1>6, <2>1, UpsertEffect DEF AtRun
  <2>2. CASE /\ Same(pass[p], pass'[p])
             /\ pass'[p].pc = "tasks" /\ pass'[p].cur = pass[p].cur
             /\ pass'[p].from = pass[p].from /\ pass'[p].to = pass[p].to
             /\ pass'[p].plan = plan[pass[p].cur]
             /\ plan[pass[p].cur].kind # "unreadable"
    <3>1. pass[p].pc = "upsert" /\ pass[p].cur \in Run
      BY <1>6, UpsertEffect
    <3>2. \A k \in Key : k \notin pass'[p].plan.keys => <<pass[p].cur, k>> \in dropped
      BY <2>2, <3>1 DEF StoreSeen
    <3> QED
      BY <1>0, <2>2, <3>1, <3>2 DEF Remembers, Same, Gone, AtRun
  <2> QED
    BY <1>6, <2>1, <2>2, UpsertEffect
<1>7. CASE syncTasks(p)
  <2>1. CASE Looked(p)
    BY <1>3, <1>7, <2>1, SyncTasksEffect DEF AtRun
  <2>2. CASE /\ Same(pass[p], pass'[p])
             /\ pass'[p].pc = "reapTasks" /\ pass'[p].cur = pass[p].cur
             /\ pass'[p].plan = pass[p].plan
             /\ pass'[p].from = pass[p].from /\ pass'[p].to = pass[p].to
    <3>1. pass[p].pc = "tasks" /\ pass[p].cur \in Run
      BY <1>7, SyncTasksEffect
    <3> QED
      BY <1>0, <2>2, <3>1 DEF Remembers, Same, Gone, AtRun
  <2> QED
    BY <1>7, <2>1, <2>2, SyncTasksEffect
<1>8. CASE reapTasks(p)
  BY <1>3, <1>8, ReapTasksEffect DEF AtRun
<1>9. CASE insertEvents(p)
  <2>1. PICK u \in PassType : /\ WentOn(u, pass'[p]) /\ Same(pass[p], u)
                              /\ u.from = 0 /\ u.to = 0
    BY <1>9, InsertEffect
  <2>2. Same(pass[p], pass'[p]) /\ pass'[p].from <= pass'[p].to
    BY <2>1 DEF WentOn, Same
  <2>3. pass[p].pc # "idle"
    BY <1>9, InsertEffect
  <2> QED
    BY <1>1, <1>2, <2>1, <2>2, <2>3
<1>10. CASE selectRuns(p)
  <2>1. /\ pass[p].pc = "select" /\ pass'[p].stale = runs \ (pass[p].ids \cup OnDisk)
        /\ Later(pass[p], pass'[p], IF pass'[p].stale = {} THEN "clear" ELSE "delTasks")
    BY <1>10, SelectEffect
  <2>2. pass'[p].stale \subseteq Gone
    <3>1. Run \ pass[p].ids \subseteq unlisted /\ runs \subseteq Run
      BY <1>0, <2>1 DEF Remembers, TypeOK
    <3> QED
      BY <2>1, <3>1, GoneSeen
  <2>3. PICK pc \in Pc \ (AtRun \cup {"idle"}) :
          pc = IF pass'[p].stale = {} THEN "clear" ELSE "delTasks"
    BY DEF Pc, AtRun
  <2>4. Later(pass[p], pass'[p], pc)
    BY <2>1, <2>3
  <2>5. pass[p].pc \notin AtRun \cup {"idle"}
    BY <2>1 DEF AtRun
  <2> QED
    BY <1>4, <2>2, <2>4, <2>5
<1>11. CASE deleteTasks(p)
  BY <1>0, <1>11, DeleteTasksEffect DEF Remembers, Later, Gone, AtRun
<1>12. CASE deleteEvents(p)
  BY <1>0, <1>12, DeleteEventsEffect DEF Remembers, Later, Gone, AtRun
<1>13. CASE deleteRuns(p)
  BY <1>0, <1>13, DeleteRunsEffect DEF Remembers, Later, Gone, AtRun
<1>14. CASE clearActive(p)
  BY <1>0, <1>14, ClearEffect DEF Remembers, Later, Gone, AtRun
<1>15. CASE clearOnly(p) \/ markActive(p) \/ FlagFails(p)
  BY <1>0, <1>15, EndsEffect DEF Remembers, Idle, Gone, AtRun
<1>16. CASE QueryFails(p)
  <2>1. pass[p].left \subseteq Run
    BY <1>0, PcKnown
  <2> QED
    BY <1>0, <1>16, <2>1, FailEffect DEF Remembers, Gone, AtRun
<1> QED
  BY <1>5, <1>6, <1>7, <1>8, <1>9, <1>10, <1>11, <1>12, <1>13, <1>14, <1>15, <1>16
     DEF PassMoves, PassStep

(* However the store has changed since. *)
LEMMA RememberedStep ==
  ASSUME TypeOK, StoreSeen, Remembered, [Next]_vars
  PROVE  Remembered'
<1>1. ASSUME NEW p \in Pass, PassMoves(p) PROVE Remembered'
  <2>1. \A q \in Pass : q # p => pass'[q] = pass[q]
    BY <1>1, PassSeen DEF Moved
  <2>2. UNCHANGED <<absent, unlisted, unmounted, dropped>>
    BY <1>1, PassSeen
  <2>3. \A q \in Pass : q # p => Remembers(pass[q])'
    BY <2>1, <2>2 DEF Remembered, Remembers, Gone
  <2>4. Remembers(pass[p])'
    BY <1>1, RememberedPass
  <2> QED
    BY <2>3, <2>4 DEF Remembered
<1>2. CASE StoreMoves
  <2>1. SeenGrows /\ Change
    BY <1>2, StoreEffect
  <2>2. Gone \subseteq Gone'
    BY <2>1 DEF SeenGrows, Gone, StoreSeen, TypeOK
  <2> QED
    BY <2>1, <2>2, ChangeEffect DEF Remembered, Remembers, SeenGrows
<1>3. CASE Restart
  BY <1>3, RestartEffect DEF Remembered, Remembers, Idle, AtRun
<1>4. CASE UNCHANGED vars
  BY <1>4 DEF Remembered, Remembers, Gone, vars, history, seen
<1> QED
  BY <1>1, <1>2, <1>3, <1>4, Steps

-----------------------------------------------------------------------------
(* Passes that do not overlap *)

(* A pass that takes a query's result is under way, and begins nothing. *)
LEMMA Querying ==
  ASSUME TypeOK, Remembered, NEW p \in Pass, PassMoves(p), ~Begin(p)
  PROVE  pass[p].pc # "idle" /\ p \in Running /\ overlapped' = overlapped
<1>1. pass[p].pc # "idle"
  BY ZenonT(40) DEF PassMoves, PassStep, upsertRun, syncTasks, reapTasks, insertEvents, selectRuns, deleteTasks,
         deleteEvents, deleteRuns, clearActive, clearOnly, markActive, QueryFails, FlagFails, Query
<1>2. overlapped' = overlapped
  BY DEF PassMoves, PassStep, upsertRun, syncTasks, reapTasks, insertEvents, selectRuns, deleteTasks,
         deleteEvents, deleteRuns, clearActive, clearOnly, markActive, QueryFails, FlagFails,
         End, history, seen
<1>3. p \in Running
  BY <1>1 DEF Running, Idle
<1> QED
  BY <1>1, <1>2, <1>3, SMTT(30)

(* Until passes overlap there is nobody beside the one that moves. *)
LEMMA NobodyElse ==
  ASSUME TypeOK, Remembered, Alone, NEW p \in Pass, PassMoves(p), ~overlapped'
  PROVE  /\ ~overlapped
         /\ \A q \in Pass : q # p => pass[q].pc = "idle" /\ pass'[q].pc = "idle"
<1>0. ~overlapped /\ \A q \in Pass : q # p => pass'[q] = pass[q]
  BY PassSeen DEF Moved
<1>1. CASE Begin(p)
  <2>1. Running = {}
    BY <1>1, BeginEffect
  <2>2. \A q \in Pass : pass[q].pc = "idle"
    BY <2>1 DEF Running, Idle
  <2> QED
    BY <1>0, <2>2
<1>2. CASE ~Begin(p)
  BY <1>0, <1>2, Querying DEF Alone
<1> QED
  BY <1>1, <1>2

(* One pass at a time is under way until they overlap. *)
LEMMA AloneStep ==
  ASSUME TypeOK, StoreSeen, Remembered, Alone, [Next]_vars
  PROVE  Alone'
<1>1. ASSUME NEW p \in Pass, PassMoves(p) PROVE Alone'
  BY <1>1, NobodyElse DEF Alone
<1>2. CASE StoreMoves
  BY <1>2, StoreEffect, ChangeEffect DEF Alone
<1>3. CASE Restart
  BY <1>3, RestartEffect DEF Alone, Idle
<1>4. CASE UNCHANGED vars
  BY <1>4 DEF Alone, vars, history, seen
<1> QED
  BY <1>1, <1>2, <1>3, <1>4, Steps

(* Only runs with a row are marked active. *)
LEMMA FlagsStep ==
  ASSUME TypeOK, StoreSeen, Remembered, flagged \subseteq runs, [Next]_vars
  PROVE  flagged' \subseteq runs'
<1>1. ASSUME NEW p \in Pass, PassMoves(p) PROVE flagged' \subseteq runs'
  <2>1. CASE Begin(p)
    BY <2>1, BeginEffect
  <2>2. CASE upsertRun(p) \/ syncTasks(p) \/ reapTasks(p) \/ insertEvents(p)
    BY <2>2, UpsertEffect, SyncTasksEffect, ReapTasksEffect, InsertEffect
  <2>3. CASE selectRuns(p) \/ deleteTasks(p) \/ deleteEvents(p) \/ deleteRuns(p) \/ clearActive(p)
    BY <2>3, SelectEffect, DeleteTasksEffect, DeleteEventsEffect, DeleteRunsEffect, ClearEffect
  <2>4. CASE clearOnly(p) \/ markActive(p) \/ FlagFails(p)
    BY <2>4, EndsEffect
  <2>5. CASE QueryFails(p)
    BY <2>5, FailEffect
  <2> QED
    BY <1>1, <2>1, <2>2, <2>3, <2>4, <2>5 DEF PassMoves, PassStep
<1>2. CASE StoreMoves
  BY <1>2, StoreEffect, ChangeEffect
<1>3. CASE Restart
  BY <1>3, RestartEffect
<1>4. CASE UNCHANGED vars
  BY <1>4 DEF vars, db
<1> QED
  BY <1>1, <1>2, <1>3, <1>4, Steps

NoRowsLeft == \A r \in Run \ runs : events[r] = <<>> /\ \A row \in tasks : row[1] # r

(* A pass alone leaves no row without its run. *)
LEMMA RowsPass ==
  ASSUME TypeOK, StoreSeen, Remembered, NEW p \in Pass, PassMoves(p), NoRowsLeft, Backed(pass[p])
  PROVE  NoRowsLeft' /\ Backed(pass[p])'
<1>0. tasks \subseteq Run \X Key /\ pass[p] \in PassType
  BY DEF TypeOK
<1>1. ASSUME NEW s, WentOn(s, pass'[p]) PROVE Backed(pass[p])'
  BY <1>1 DEF WentOn, Backed
<1>2. ASSUME Looked(p), pass[p].cur \in runs' PROVE Backed(pass[p])'
  <2>1. CASE WentOn(pass[p], pass'[p])
    BY <1>1, <2>1
  <2>2. CASE pass'[p].pc = "insert" /\ pass'[p].cur = pass[p].cur
    BY <1>2, <2>2 DEF Backed
  <2> QED
    BY <1>2, <2>1, <2>2 DEF Looked
<1>3. CASE Begin(p)
  BY <1>1, <1>3, BeginEffect DEF NoRowsLeft
<1>4. CASE upsertRun(p)
  <2>1. NoRowsLeft' /\ pass[p].cur \in runs'
    BY <1>4, UpsertEffect DEF NoRowsLeft
  <2>2. CASE Looked(p)
    BY <1>2, <2>1, <2>2
  <2>3. CASE pass'[p].pc = "tasks" /\ pass'[p].cur = pass[p].cur
    BY <2>1, <2>3 DEF Backed
  <2> QED
    BY <1>4, <2>1, <2>2, <2>3, UpsertEffect
<1>5. CASE syncTasks(p)
  <2>1. /\ pass[p].cur \in runs /\ runs' = runs /\ events' = events
        /\ tasks' = tasks \cup ({pass[p].cur} \X pass[p].plan.keys)
    BY <1>5, SyncTasksEffect DEF Backed
  <2>2. NoRowsLeft'
    <3>1. \A row \in tasks' : row \in tasks \/ row[1] = pass[p].cur
      BY <2>1
    <3> QED
      BY <2>1, <3>1 DEF NoRowsLeft
  <2>3. CASE Looked(p)
    BY <1>2, <2>1, <2>2, <2>3
  <2>4. CASE pass'[p].pc = "reapTasks" /\ pass'[p].cur = pass[p].cur
    BY <2>1, <2>2, <2>4 DEF Backed
  <2> QED
    BY <1>5, <2>3, <2>4, SyncTasksEffect
<1>6. CASE reapTasks(p)
  <2>1. pass[p].cur \in runs /\ runs' = runs /\ events' = events /\ tasks' \subseteq tasks
    BY <1>6, ReapTasksEffect DEF Backed
  <2> QED
    BY <1>2, <1>6, <2>1, ReapTasksEffect DEF NoRowsLeft
<1>7. CASE insertEvents(p)
  <2>1. pass[p].cur \in runs /\ runs' = runs /\ tasks' = tasks
    BY <1>7, InsertEffect DEF Backed
  <2>2. \A r \in Run : r # pass[p].cur => events'[r] = events[r]
    BY <1>7, InsertEffect
  <2> QED
    BY <1>1, <1>7, <2>1, <2>2, InsertEffect DEF NoRowsLeft
<1>8. CASE selectRuns(p)
  <2>1. pass'[p].pc \in {"clear", "delTasks"}
    BY <1>8, SelectEffect DEF Later
  <2>2. runs' = runs /\ tasks' = tasks /\ events' = events
    BY <1>8, SelectEffect
  <2> QED
    BY <2>1, <2>2 DEF NoRowsLeft, Backed
<1>9. CASE deleteTasks(p)
  <2>1. /\ pass'[p].pc = "delEvents" /\ pass'[p].stale = pass[p].stale
        /\ runs' = runs /\ events' = events
        /\ tasks' = {row \in tasks : row[1] \notin pass[p].stale}
    BY <1>9, DeleteTasksEffect DEF Later
  <2> QED
    BY <2>1 DEF NoRowsLeft, Backed
<1>10. CASE deleteEvents(p)
  <2>1. /\ pass[p].pc = "delEvents" /\ pass'[p].pc = "delRuns" /\ pass'[p].stale = pass[p].stale
        /\ runs' = runs /\ tasks' = tasks
        /\ \A r \in Run : events'[r] = IF r \in pass[p].stale THEN <<>> ELSE events[r]
    BY <1>10, DeleteEventsEffect DEF Later
  <2>2. pass[p].stale \subseteq Run
    BY <1>0, PcKnown
  <2> QED
    BY <2>1, <2>2 DEF NoRowsLeft, Backed
<1>11. CASE deleteRuns(p)
  <2>1. /\ pass[p].pc = "delRuns" /\ pass'[p].pc = "clear"
        /\ runs' = runs \ pass[p].stale /\ tasks' = tasks /\ events' = events
    BY <1>11, DeleteRunsEffect DEF Later
  <2> QED
    BY <2>1 DEF NoRowsLeft, Backed
<1>12. CASE clearActive(p)
  <2>1. pass'[p].pc = "mark" /\ runs' = runs /\ tasks' = tasks /\ events' = events
    BY <1>12, ClearEffect DEF Later
  <2> QED
    BY <2>1 DEF NoRowsLeft, Backed
<1>13. CASE clearOnly(p) \/ markActive(p) \/ FlagFails(p)
  <2>1. pass'[p].pc = "idle" /\ runs' = runs /\ tasks' = tasks /\ events' = events
    BY <1>13, EndsEffect DEF Idle
  <2> QED
    BY <2>1 DEF NoRowsLeft, Backed
<1>14. CASE QueryFails(p)
  <2>1. /\ pass'[p].pc \in {"upsert", "select", "clear"}
        /\ runs' = runs /\ tasks' = tasks /\ events' = events
    BY <1>14, FailEffect
  <2> QED
    BY <2>1 DEF NoRowsLeft, Backed
<1> QED
  BY <1>3, <1>4, <1>5, <1>6, <1>7, <1>8, <1>9, <1>10, <1>11, <1>12, <1>13, <1>14
     DEF PassMoves, PassStep

(* Every task and event keeps its run until passes overlap. *)
LEMMA RowsStep ==
  ASSUME TypeOK, StoreSeen, Remembered, Alone, RowsBacked, [Next]_vars
  PROVE  RowsBacked'
<1>1. ASSUME NEW p \in Pass, PassMoves(p), ~overlapped'
      PROVE  NoRowsLeft' /\ \A q \in Pass : Backed(pass[q])'
  <2>1. NoRowsLeft /\ Backed(pass[p])
    BY <1>1, NobodyElse DEF RowsBacked, NoRowsLeft
  <2>2. NoRowsLeft' /\ Backed(pass[p])'
    BY <1>1, <2>1, RowsPass
  <2>3. \A q \in Pass : q # p => pass'[q].pc = "idle"
    BY <1>1, NobodyElse
  <2>4. \A q \in Pass : q # p => Backed(pass[q])'
    BY <2>3 DEF Backed
  <2> QED
    BY <2>2, <2>4
<1>2. ASSUME NEW p \in Pass, PassMoves(p) PROVE RowsBacked'
  BY <1>1, <1>2 DEF RowsBacked, NoRowsLeft
<1>3. CASE StoreMoves
  <2>1. Change
    BY <1>3, StoreEffect
  <2> QED
    BY <2>1, ChangeEffect DEF RowsBacked, Backed
<1>4. CASE Restart
  BY <1>4, RestartEffect DEF RowsBacked, Backed, Idle
<1>5. CASE UNCHANGED vars
  BY <1>5 DEF RowsBacked, Backed, vars, db, history, seen
<1> QED
  BY <1>2, <1>3, <1>4, <1>5, Steps

-----------------------------------------------------------------------------
(* The lines mirrored *)

(* The lines there stay there when more are added. *)
LEMMA HasMore ==
  ASSUME TypeOK, Remembered, NEW p \in Pass, insertEvents(p),
         NEW CONSTANT c, NEW CONSTANT a, NEW CONSTANT b,
         c = pass[p].cur, a = pass[p].from, b = pass[p].to
  PROVE  /\ \A r \in Run, n \in Nat : Has(r, n) => Has(r, n)'
         /\ Has(c, a) => Has(c, b)'
<1>0. /\ c \in Run /\ a \in Nat /\ b \in Nat /\ a <= b /\ a \in 0..MaxLines /\ b \in 0..MaxLines
      /\ events'[c] = events[c] \o Segment(a, b)
      /\ \A r \in Run : r # c => events'[r] = events[r]
  <2>1. /\ c \in Run /\ a <= b /\ events'[c] = events[c] \o Segment(a, b)
        /\ \A r \in Run : r # c => events'[r] = events[r]
    BY InsertEffect
  <2>2. a \in 0..MaxLines /\ b \in 0..MaxLines
    BY PcKnown DEF TypeOK
  <2> QED
    BY <2>1, <2>2, SyncAssumption
<1>1. PICK e : e = events[c]
  OBVIOUS
<1>2. PICK f : f = events'[c]
  OBVIOUS
<1>3. PICK g : g = Segment(a, b)
  OBVIOUS
<1>4. /\ e \in Seq(1..MaxLines) /\ g \in Seq(1..MaxLines)
      /\ Len(g) = b - a /\ \A i \in 1..(b - a) : g[i] = a + i
  BY <1>0, <1>1, <1>3, SegmentType, SegmentIs DEF TypeOK
<1>5. /\ f \in Seq(1..MaxLines) /\ Len(f) = Len(e) + (b - a)
      /\ \A i \in 1..(Len(e) + Len(g)) : f[i] = IF i <= Len(e) THEN e[i] ELSE g[i - Len(e)]
  <2>1. f = e \o g
    BY <1>0, <1>1, <1>2, <1>3
  <2>2. /\ f \in Seq(1..MaxLines) /\ Len(f) = Len(e) + Len(g)
        /\ \A i \in 1..(Len(e) + Len(g)) : f[i] = IF i <= Len(e) THEN e[i] ELSE g[i - Len(e)]
    <3>1. e \in Seq(1..MaxLines) /\ g \in Seq(1..MaxLines)
      BY <1>4
    <3> QED
      BY <2>1, <3>1, ConcatProperties
  <2> QED
    BY <1>4, <2>2
<1>6. Len(e) \in Nat /\ DOMAIN e = 1..Len(e) /\ DOMAIN f = 1..Len(f)
  BY <1>4, <1>5, LenProperties
<1>7. \A j \in DOMAIN e : j \in DOMAIN f /\ f[j] = e[j]
  BY <1>0, <1>4, <1>5, <1>6
<1>8. \A i \in Nat : (a < i /\ i <= b) => \E j \in DOMAIN f : f[j] = i
  <2> SUFFICES ASSUME NEW i \in Nat, a < i, i <= b
               PROVE  \E j \in DOMAIN f : f[j] = i
    OBVIOUS
  <2>1. PICK k : k = i - a
    OBVIOUS
  <2>2. PICK j : j = Len(e) + k
    OBVIOUS
  <2>3. k \in 1..(b - a) /\ a + k = i
    BY <1>0, <2>1
  <2>4. j \in 1..(Len(e) + Len(g)) /\ ~(j <= Len(e)) /\ j - Len(e) = k /\ j \in DOMAIN f
    BY <1>0, <1>4, <1>5, <1>6, <2>2, <2>3, SMTT(30)
  <2>5. f[j] = g[k] /\ g[k] = i
    BY <1>4, <1>5, <2>3, <2>4
  <2> QED
    BY <2>4, <2>5
<1>9. \A r \in Run, n \in Nat : Has(r, n) => Has(r, n)'
  <2> TAKE r \in Run, n \in Nat
  <2>1. CASE r = c
    BY <1>1, <1>2, <1>7, <2>1 DEF Has
  <2>2. CASE r # c
    BY <1>0, <2>2 DEF Has
  <2> QED
    BY <2>1, <2>2
<1>10. ASSUME Has(c, a) PROVE Has(c, b)'
  <2>1. \A i \in 1..a : \E j \in DOMAIN f : f[j] = i
    BY <1>1, <1>7, <1>10 DEF Has
  <2>2. \A i \in 1..b : \E j \in DOMAIN f : f[j] = i
    <3> TAKE i \in 1..b
    <3>1. CASE i <= a
      BY <1>0, <2>1, <3>1
    <3>2. CASE a < i
      BY <1>0, <1>8, <3>2
    <3> QED
      BY <1>0, <3>1, <3>2
  <2> QED
    BY <1>2, <2>2 DEF Has
<1> QED
  BY <1>9, <1>10

(* A run that is being reaped is so until that pass has moved. *)
LEMMA ReapedStays ==
  ASSUME TypeOK, NEW p \in Pass, Moved(p), NEW r \in Run, Reaped(r),
         ~(pass[p].pc = "delRuns" /\ r \in pass[p].stale)
  PROVE  Reaped(r)'
BY DEF Reaped, Moved

(* A pass at its next run or past the last one inserts nothing. *)
LEMMA NotInserting ==
  ASSUME NEW s, NEW t, WentOn(s, t)
  PROVE  t.pc \notin {"insert", "delRuns", "tasks", "reapTasks"}
BY DEF WentOn

(* A step that neither touches the lines of a run nor starts to. *)
LEMMA CoveredQuiet ==
  ASSUME TypeOK, NEW p \in Pass, PassMoves(p), Remembered, NEW r \in Run, Covered(r),
         events'[r] = events[r], offset'[r] = offset[r], Reaped(r) => Reaped(r)',
         ~Inserting(pass'[p], r)
  PROVE  Covered(r)'
<1>1. size' = size /\ \A q \in Pass : q # p => pass'[q] = pass[q]
  BY PassSeen DEF Moved, StoreSame
<1>2. \A n : Has(r, n) => Has(r, n)'
  BY DEF Has
<1>3. \A q \in Pass : q # p => (Inserting(pass'[q], r) <=> Inserting(pass[q], r))
  BY <1>1
<1>4. offset'[r] <= size'[r]
  BY <1>1 DEF Covered
<1>5. (Has(r, Lines(offset[r])) \/ Reaped(r))'
  <2>1. PICK n : n = Lines(offset[r])
    OBVIOUS
  <2>2. n = Lines(offset'[r])
    BY <2>1
  <2>3. Has(r, n)' \/ Reaped(r)'
    BY <1>2, <2>1 DEF Covered
  <2> QED
    BY <2>2, <2>3 DEF Has
<1>6. ASSUME NEW q \in Pass, Inserting(pass'[q], r)
      PROVE  2 * pass'[q].to <= size'[r] /\ (Has(r, pass[q].from)' \/ Reaped(r)')
  <2>1. q # p /\ pass'[q] = pass[q] /\ Inserting(pass[q], r)
    BY <1>1, <1>3, <1>6
  <2>2. PICK n : n = pass[q].from
    OBVIOUS
  <2>3. 2 * pass[q].to <= size[r] /\ (Has(r, n) \/ Reaped(r))
    BY <2>1, <2>2 DEF Covered
  <2>4. Has(r, n)' \/ Reaped(r)'
    BY <1>2, <2>3
  <2>5. n = pass'[q].from
    BY <2>1, <2>2
  <2> QED
    BY <1>1, <2>1, <2>3, <2>4, <2>5 DEF Has
<1> QED
  BY <1>4, <1>5, <1>6 DEF Covered, Inserting

(* A look at the log finds what is new in it. *)
LEMMA CoveredLooked ==
  ASSUME TypeOK, NEW p \in Pass, PassMoves(p), Remembered, NEW r \in Run, Covered(r),
         pass[p].pc \in AtRun, events' = events, Looked(p)
  PROVE  Covered(r)'
<1>0. /\ size' = size /\ Moved(p) /\ \A q \in Pass : q # p => pass'[q] = pass[q]
      /\ offset[r] <= size[r] /\ offset[r] \in Nat /\ size[r] \in Nat
  BY PassSeen, SyncAssumption DEF Moved, StoreSame, Covered, TypeOK
<1>1. Start(r) = offset[r]
  BY <1>0 DEF Start
<1>2. Reaped(r) => Reaped(r)'
  BY <1>0, ReapedStays DEF AtRun
<1>3. offset'[r] = offset[r]
  BY <1>1 DEF Looked
<1>4. CASE ~Inserting(pass'[p], r)
  BY <1>2, <1>3, <1>4, CoveredQuiet
<1>5. CASE Inserting(pass'[p], r)
  <2>1. pass'[p].pc = "insert" /\ pass'[p].cur = r
    BY <1>5 DEF Inserting
  <2>2. ~WentOn(pass[p], pass'[p])
    BY <2>1, NotInserting
  <2>3. pass'[p].from = Lines(offset[r]) /\ pass'[p].to = Lines(size[r])
    BY <1>1, <2>1, <2>2 DEF Looked
  <2>4. \A n : Has(r, n) => Has(r, n)'
    BY DEF Has
  <2>5. PICK n : n = Lines(offset[r])
    OBVIOUS
  <2>6. Has(r, n)' \/ Reaped(r)'
    BY <1>2, <2>4, <2>5 DEF Covered
  <2>7. (Has(r, Lines(offset[r])) \/ Reaped(r))'
    BY <1>3, <2>5, <2>6 DEF Has
  <2>8. 2 * pass'[p].to <= size'[r]
    BY <1>0, <2>3, Halves
  <2>9. Has(r, pass[p].from)' \/ Reaped(r)'
    BY <2>3, <2>5, <2>6 DEF Has
  <2>10. ASSUME NEW q \in Pass, q # p, Inserting(pass'[q], r)
         PROVE  2 * pass'[q].to <= size'[r] /\ (Has(r, pass[q].from)' \/ Reaped(r)')
    <3>1. pass'[q] = pass[q]
      BY <1>0, <2>10
    <3>2. PICK m : m = pass[q].from
      OBVIOUS
    <3>3. 2 * pass[q].to <= size[r] /\ (Has(r, m) \/ Reaped(r))
      BY <2>10, <3>1, <3>2 DEF Covered
    <3>4. Has(r, m)' \/ Reaped(r)'
      BY <1>2, <2>4, <3>3
    <3>5. m = pass'[q].from
      BY <3>1, <3>2
    <3> QED
      BY <1>0, <3>1, <3>3, <3>4, <3>5 DEF Has
  <2> QED
    BY <1>0, <1>3, <2>7, <2>8, <2>9, <2>10 DEF Covered
<1> QED
  BY <1>4, <1>5

(* The insert adds the lines between the offsets. *)
LEMMA CoveredInserted ==
  ASSUME TypeOK, NEW p \in Pass, insertEvents(p), Remembered, NEW r \in Run, Covered(r)
  PROVE  Covered(r)'
<1>0. PassMoves(p)
  BY DEF PassMoves, PassStep
<1>1. PICK c, a, b : c = pass[p].cur /\ a = pass[p].from /\ b = pass[p].to
  OBVIOUS
<1>2. /\ size' = size /\ Moved(p) /\ \A q \in Pass : q # p => pass'[q] = pass[q]
      /\ \A q \in Pass : pass[q].from \in Nat
      /\ b \in Nat /\ a \in Nat
  BY <1>0, <1>1, PassSeen, PcKnown, SyncAssumption DEF Moved, StoreSame, TypeOK
<1>3. /\ offset'[c] = 2 * b /\ pass[p].pc = "insert"
      /\ \A q \in Run : q # c => events'[q] = events[q] /\ offset'[q] = offset[q]
  BY <1>1, InsertEffect
<1>4. ~Inserting(pass'[p], r)
  BY InsertEffect, NotInserting DEF Inserting
<1>5. Reaped(r) => Reaped(r)'
  BY <1>2, <1>3, ReapedStays
<1>6. CASE r # c
  BY <1>0, <1>3, <1>4, <1>5, <1>6, CoveredQuiet
<1>7. CASE r = c
  <2>1. Inserting(pass[p], r)
    BY <1>1, <1>3, <1>7 DEF Inserting
  <2>2. 2 * b <= size[r] /\ (Has(r, a) \/ Reaped(r))
    BY <1>1, <2>1 DEF Covered
  <2>3. /\ \A n \in Nat : Has(r, n) => Has(r, n)'
        /\ Has(r, a) => Has(r, b)'
    BY <1>1, <1>7, HasMore
  <2>4. Has(r, b)' \/ Reaped(r)'
    BY <1>5, <2>2, <2>3
  <2>5. Lines(offset'[r]) = b
    BY <1>2, <1>3, <1>7, Halves
  <2>6. (Has(r, Lines(offset[r])) \/ Reaped(r))'
    BY <2>4, <2>5 DEF Has
  <2>7. ASSUME NEW q \in Pass, Inserting(pass'[q], r)
        PROVE  2 * pass'[q].to <= size'[r] /\ (Has(r, pass[q].from)' \/ Reaped(r)')
    <3>1. pass'[q] = pass[q] /\ q # p
      BY <1>2, <1>4, <2>7
    <3>2. PICK m \in Nat : m = pass[q].from
      BY <1>2
    <3>3. 2 * pass[q].to <= size[r] /\ (Has(r, m) \/ Reaped(r))
      BY <2>7, <3>1, <3>2 DEF Covered
    <3>4. Has(r, m)' \/ Reaped(r)'
      BY <1>5, <2>3, <3>3
    <3>5. m = pass'[q].from
      BY <3>1, <3>2
    <3> QED
      BY <1>2, <3>1, <3>3, <3>4, <3>5 DEF Has
  <2> QED
    BY <1>2, <1>3, <1>7, <2>2, <2>6, <2>7 DEF Covered
<1> QED
  BY <1>6, <1>7

(* The events of a run that is being reaped are gone before its offset is. *)
LEMMA CoveredDeleted ==
  ASSUME TypeOK, NEW p \in Pass, deleteEvents(p) \/ deleteRuns(p), Remembered,
         NEW r \in Run, r \notin torn', Covered(r)
  PROVE  Covered(r)'
<1>0. PassMoves(p)
  BY DEF PassMoves, PassStep
<1>1. /\ size' = size /\ Moved(p) /\ \A q \in Pass : q # p => pass'[q] = pass[q]
      /\ offset[r] \in Nat /\ size[r] \in Nat
  BY <1>0, PassSeen, SyncAssumption DEF Moved, StoreSame, TypeOK
<1>2. pass'[p].pc # "insert"
  BY DeleteEventsEffect, DeleteRunsEffect DEF Later
<1>3. CASE r \notin pass[p].stale
  <2>1. events'[r] = events[r] /\ offset'[r] = offset[r]
    BY <1>3, DeleteEventsEffect, DeleteRunsEffect
  <2>2. Reaped(r) => Reaped(r)'
    BY <1>1, <1>3, ReapedStays
  <2> QED
    BY <1>0, <1>2, <2>1, <2>2, CoveredQuiet DEF Inserting
<1>4. CASE deleteEvents(p) /\ r \in pass[p].stale
  <2>1. pass'[p].pc = "delRuns" /\ pass'[p].stale = pass[p].stale /\ offset' = offset
    BY <1>4, DeleteEventsEffect DEF Later
  <2>2. Reaped(r)'
    BY <1>4, <2>1 DEF Reaped
  <2>3. ASSUME NEW q \in Pass, Inserting(pass'[q], r) PROVE 2 * pass'[q].to <= size'[r]
    <3>1. pass'[q] = pass[q] /\ Inserting(pass[q], r)
      BY <1>1, <1>2, <2>3 DEF Inserting
    <3> QED
      BY <1>1, <3>1 DEF Covered
  <2> QED
    BY <1>1, <2>1, <2>2, <2>3 DEF Covered
<1>5. CASE deleteRuns(p) /\ r \in pass[p].stale
  <2>1. Running = {p} /\ offset'[r] = 0
    BY <1>5, DeleteRunsEffect
  <2>2. \A q \in Pass : q # p => pass[q].pc = "idle"
    BY <2>1 DEF Running, Idle
  <2>3. \A q \in Pass : ~Inserting(pass'[q], r)
    BY <1>1, <1>2, <2>2 DEF Inserting
  <2>4. Lines(offset'[r]) = 0
    BY <2>1 DEF Lines
  <2>5. Has(r, Lines(offset[r]))'
    BY <2>4 DEF Has
  <2> QED
    BY <1>1, <2>1, <2>3, <2>5 DEF Covered
<1> QED
  BY <1>3, <1>4, <1>5

(* A pass leaves the lines before every offset mirrored. *)
LEMMA CoveredPass ==
  ASSUME TypeOK, NEW p \in Pass, PassMoves(p), Remembered, NEW r \in Run, r \notin torn', Covered(r)
  PROVE  Covered(r)'
<1>1. Moved(p)
  BY PassSeen
<1>2. CASE Begin(p)
  <2>1. pass'[p].pc # "insert" /\ events' = events /\ offset' = offset
    BY <1>2, BeginEffect, NotInserting
  <2>2. Reaped(r) => Reaped(r)'
    <3>1. pass[p].pc = "idle"
      BY <1>2, BeginEffect, IdleIs
    <3> QED
      BY <1>1, <3>1, ReapedStays
  <2> QED
    BY <2>1, <2>2, CoveredQuiet DEF Inserting
<1>3. CASE upsertRun(p)
  <2>1. pass[p].pc = "upsert" /\ events' = events
    BY <1>3, UpsertEffect
  <2>2. Reaped(r) => Reaped(r)'
    BY <1>1, <2>1, ReapedStays
  <2>3. CASE Looked(p)
    BY <2>1, <2>3, CoveredLooked DEF AtRun
  <2>4. CASE pass'[p].pc = "tasks" /\ UNCHANGED offset
    BY <2>1, <2>2, <2>4, CoveredQuiet DEF Inserting
  <2> QED
    BY <1>3, <2>3, <2>4, UpsertEffect
<1>4. CASE syncTasks(p)
  <2>1. pass[p].pc = "tasks" /\ events' = events
    BY <1>4, SyncTasksEffect
  <2>2. Reaped(r) => Reaped(r)'
    BY <1>1, <2>1, ReapedStays
  <2>3. CASE Looked(p)
    BY <2>1, <2>3, CoveredLooked DEF AtRun
  <2>4. CASE pass'[p].pc = "reapTasks" /\ UNCHANGED offset
    BY <2>1, <2>2, <2>4, CoveredQuiet DEF Inserting
  <2> QED
    BY <1>4, <2>3, <2>4, SyncTasksEffect
<1>5. CASE reapTasks(p)
  BY <1>5, ReapTasksEffect, CoveredLooked DEF AtRun
<1>6. CASE insertEvents(p)
  BY <1>6, CoveredInserted
<1>7. CASE selectRuns(p) \/ deleteTasks(p) \/ clearActive(p)
  <2>1. pass[p].pc # "delRuns" /\ pass'[p].pc # "insert" /\ events' = events /\ offset' = offset
    BY <1>7, SelectEffect, DeleteTasksEffect, ClearEffect DEF Later
  <2>2. Reaped(r) => Reaped(r)'
    BY <1>1, <2>1, ReapedStays
  <2> QED
    BY <2>1, <2>2, CoveredQuiet DEF Inserting
<1>8. CASE deleteEvents(p) \/ deleteRuns(p)
  BY <1>8, CoveredDeleted
<1>9. CASE clearOnly(p) \/ markActive(p) \/ FlagFails(p)
  <2>1. pass[p].pc # "delRuns" /\ pass'[p].pc # "insert" /\ events' = events /\ offset' = offset
    BY <1>9, EndsEffect DEF Idle
  <2>2. Reaped(r) => Reaped(r)'
    BY <1>1, <2>1, ReapedStays
  <2> QED
    BY <2>1, <2>2, CoveredQuiet DEF Inserting
<1>10. CASE QueryFails(p)
  <2>1. /\ pass'[p].pc # "insert" /\ events' = events /\ offset' = offset
        /\ pass[p].pc = "delRuns" => r \notin pass[p].stale
    BY <1>10, FailEffect
  <2>2. Reaped(r) => Reaped(r)'
    BY <1>1, <2>1, ReapedStays
  <2> QED
    BY <2>1, <2>2, CoveredQuiet DEF Inserting
<1> QED
  BY <1>2, <1>3, <1>4, <1>5, <1>6, <1>7, <1>8, <1>9, <1>10 DEF PassMoves, PassStep

(* So does whatever happens to the store. *)
LEMMA CoveredStep ==
  ASSUME TypeOK, StoreSeen, Remembered, LinesCovered, [Next]_vars
  PROVE  LinesCovered'
<1>1. ASSUME NEW p \in Pass, PassMoves(p) PROVE LinesCovered'
  <2>1. replaced' = replaced /\ torn \subseteq torn'
    BY <1>1, PassSeen
  <2> QED
    BY <1>1, <2>1, CoveredPass DEF LinesCovered
<1>2. CASE StoreMoves
  <2>1. SeenGrows /\ Change /\ TypeOK'
    BY <1>2, StoreEffect
  <2>2. torn' = torn /\ events' = events /\ offset' = offset
    BY <2>1, ChangeEffect
  <2>3. \A r \in Run : r \notin replaced' => r \notin replaced /\ size[r] <= size'[r]
    BY <2>1 DEF SeenGrows
  <2>4. \A q \in Pass : /\ pass'[q].pc = pass[q].pc /\ pass'[q].cur = pass[q].cur
                        /\ pass'[q].from = pass[q].from /\ pass'[q].to = pass[q].to
                        /\ pass'[q].stale = pass[q].stale
    BY <2>1, ChangeEffect
  <2>5. SUFFICES ASSUME NEW r \in Run, r \notin replaced', r \notin torn', Covered(r)
                 PROVE  Covered(r)'
    BY <2>2, <2>3 DEF LinesCovered
  <2>6. (Reaped(r) => Reaped(r)') /\ \A n : Has(r, n) => Has(r, n)'
    BY <2>2, <2>4 DEF Reaped, Has
  <2>7. offset[r] \in Nat /\ size[r] \in Nat /\ size'[r] \in Nat /\ size[r] <= size'[r]
    BY <2>1, <2>3, <2>5, SyncAssumption DEF TypeOK
  <2>8. offset'[r] <= size'[r]
    BY <2>2, <2>5, <2>7 DEF Covered
  <2>9. (Has(r, Lines(offset[r])) \/ Reaped(r))'
    <3>1. PICK n : n = Lines(offset[r])
      OBVIOUS
    <3>2. Has(r, n)' \/ Reaped(r)'
      BY <2>5, <2>6, <3>1 DEF Covered
    <3> QED
      BY <2>2, <3>1, <3>2 DEF Has
  <2>10. ASSUME NEW q \in Pass, Inserting(pass'[q], r)
         PROVE  2 * pass'[q].to <= size'[r] /\ (Has(r, pass[q].from)' \/ Reaped(r)')
    <3>1. Inserting(pass[q], r) /\ pass[q].to \in Nat
      BY <2>4, <2>10, PcKnown, SyncAssumption DEF Inserting, TypeOK
    <3>2. PICK m : m = pass[q].from
      OBVIOUS
    <3>3. 2 * pass[q].to <= size[r] /\ (Has(r, m) \/ Reaped(r))
      BY <2>5, <3>1, <3>2 DEF Covered
    <3>4. Has(r, m)' \/ Reaped(r)'
      BY <2>6, <3>3
    <3>5. m = pass'[q].from /\ pass'[q].to = pass[q].to
      BY <2>4, <3>2
    <3> QED
      BY <2>7, <3>1, <3>3, <3>4, <3>5 DEF Has
  <2> QED
    BY <2>8, <2>9, <2>10 DEF Covered, Inserting
<1>3. CASE Restart
  <2>1. /\ \A q \in Pass : pass'[q].pc = "idle"
        /\ \A r \in Run : offset'[r] = 0
        /\ size' = size /\ replaced' = replaced /\ torn' = torn
    BY <1>3, RestartEffect DEF Idle, StoreSame
  <2>2. \A r \in Run : size[r] \in Nat /\ 0 <= size[r]
    BY SyncAssumption DEF TypeOK
  <2>3. \A r \in Run : Lines(offset'[r]) = 0
    BY <2>1 DEF Lines
  <2>4. \A r \in Run : Has(r, Lines(offset[r]))'
    BY <2>3 DEF Has
  <2> QED
    BY <2>1, <2>2, <2>4 DEF LinesCovered, Covered, Inserting
<1>4. CASE UNCHANGED vars
  BY <1>4 DEF LinesCovered, Covered, Inserting, Reaped, Has, vars, store, db, history, seen
<1> QED
  BY <1>1, <1>2, <1>3, <1>4, Steps

-----------------------------------------------------------------------------
(* Each line once, in order *)

(* A step that neither touches the lines of a run nor starts to. *)
LEMMA OrderedQuiet ==
  ASSUME NEW p \in Pass, NEW r \in Run, Ordered(r), \A q \in Pass : q # p => pass'[q].pc = "idle",
         events'[r] = events[r], offset'[r] = offset[r], Reaped(r) => Reaped(r)',
         pass'[p].pc # "insert"
  PROVE  Ordered(r)'
<1>1. \A q \in Pass : pass'[q].pc # "insert"
  BY DEF Ordered
<1>2. events'[r] = Segment(0, Len(events'[r]))
  BY DEF Ordered
<1>3. offset'[r] = 2 * Len(events'[r]) \/ Reaped(r)'
  BY DEF Ordered
<1> QED
  BY <1>1, <1>2, <1>3 DEF Ordered, Segment

(* A look at the log starts after the last line mirrored. *)
LEMMA OrderedLooked ==
  ASSUME TypeOK, NEW p \in Pass, PassMoves(p), Remembered, NEW r \in Run, Ordered(r), Covered(r),
         \A q \in Pass : q # p => pass[q].pc = "idle" /\ pass'[q].pc = "idle",
         pass[p].pc \in AtRun, events' = events, Looked(p)
  PROVE  Ordered(r)'
<1>0. /\ offset[r] <= size[r] /\ offset[r] \in Nat /\ size[r] \in Nat
      /\ Len(events[r]) \in Nat
  BY SyncAssumption DEF Covered, TypeOK
<1>1. Start(r) = offset[r]
  BY <1>0 DEF Start
<1>2. ~Reaped(r)
  BY DEF Reaped, AtRun
<1>3. offset'[r] = offset[r] /\ offset[r] = 2 * Len(events[r])
  BY <1>1, <1>2 DEF Looked, Ordered
<1>4. ASSUME pass'[p].pc = "insert", pass'[p].cur = r
      PROVE  pass'[p].from = Len(events'[r])
  <2>1. pass'[p].from = Lines(offset[r])
    BY <1>1, <1>4, NotInserting DEF Looked
  <2> QED
    BY <1>0, <1>3, <2>1, Halves
<1>5. events'[r] = Segment(0, Len(events'[r]))
  BY DEF Ordered
<1> QED
  BY <1>3, <1>4, <1>5 DEF Ordered, Segment

(* The insert continues the lines where they end. *)
LEMMA OrderedInserted ==
  ASSUME TypeOK, NEW p \in Pass, insertEvents(p), Remembered, NEW r \in Run, Ordered(r),
         \A q \in Pass : q # p => pass'[q].pc = "idle"
  PROVE  Ordered(r)'
<1>1. PICK c, a, b : c = pass[p].cur /\ a = pass[p].from /\ b = pass[p].to
  OBVIOUS
<1>2. /\ Moved(p) /\ pass[p].pc = "insert" /\ c \in Run /\ a <= b /\ offset'[c] = 2 * b
      /\ events'[c] = events[c] \o Segment(a, b)
      /\ \A q \in Run : q # c => events'[q] = events[q] /\ offset'[q] = offset[q]
  BY <1>1, InsertEffect
<1>3. a \in Nat /\ b \in Nat
  BY <1>1, PcKnown, SyncAssumption DEF TypeOK
<1>4. pass'[p].pc # "insert"
  BY InsertEffect, NotInserting, ZenonT(40)
<1>5. CASE r # c
  <2>1. Reaped(r) => Reaped(r)'
    BY <1>2, ReapedStays
  <2> QED
    BY <1>2, <1>4, <1>5, <2>1, OrderedQuiet
<1>6. CASE r = c
  <2>1. events[r] = Segment(0, a)
    BY <1>1, <1>2, <1>6 DEF Ordered
  <2>2. events'[r] = Segment(0, b)
    BY <1>2, <1>3, <1>6, <2>1, SegmentJoined
  <2>3. Len(Segment(0, b)) = b
    BY <1>3, SegmentIs
  <2>4. Len(events'[r]) = b /\ offset'[r] = 2 * b
    BY <1>2, <1>6, <2>2, <2>3
  <2>5. events'[r] = Segment(0, Len(events'[r]))
    BY <2>2, <2>4
  <2>6. \A q \in Pass : pass'[q].pc # "insert"
    BY <1>4
  <2> QED
    BY <2>4, <2>5, <2>6 DEF Ordered, Segment
<1> QED
  BY <1>5, <1>6

(* A run that is reaped starts anew. *)
LEMMA OrderedDeleted ==
  ASSUME TypeOK, NEW p \in Pass, deleteEvents(p) \/ deleteRuns(p), Remembered, Backed(pass[p]),
         NEW r \in Run, Ordered(r),
         \A q \in Pass : q # p => pass'[q].pc = "idle"
  PROVE  Ordered(r)'
<1>0. PassMoves(p)
  BY DEF PassMoves, PassStep
<1>1. Moved(p)
  BY <1>0, PassSeen
<1>2. pass'[p].pc # "insert"
  BY DeleteEventsEffect, DeleteRunsEffect DEF Later
<1>3. CASE r \notin pass[p].stale
  <2>1. events'[r] = events[r] /\ offset'[r] = offset[r]
    BY <1>3, DeleteEventsEffect, DeleteRunsEffect
  <2>2. Reaped(r) => Reaped(r)'
    BY <1>1, <1>3, ReapedStays
  <2> QED
    BY <1>2, <2>1, <2>2, OrderedQuiet
<1>4. CASE r \in pass[p].stale
  <2>1. \A q \in Pass : pass'[q].pc # "insert"
    BY <1>2
  <2>2. events'[r] = <<>>
    BY <1>4, DeleteEventsEffect, DeleteRunsEffect DEF Backed
  <2>3. Len(events'[r]) = 0 /\ events'[r] = Segment(0, Len(events'[r]))
    BY <2>2, SegmentEmpty
  <2>4. offset'[r] = 2 * 0 \/ Reaped(r)'
    <3>1. CASE deleteEvents(p)
      <4>1. pass'[p].pc = "delRuns" /\ pass'[p].stale = pass[p].stale
        BY <3>1, DeleteEventsEffect DEF Later
      <4> QED
        BY <1>4, <4>1 DEF Reaped
    <3>2. CASE deleteRuns(p)
      BY <1>4, <3>2, DeleteRunsEffect
    <3> QED
      BY <3>1, <3>2
  <2>5. offset'[r] = 2 * Len(events'[r]) \/ Reaped(r)'
    BY <2>3, <2>4
  <2> QED
    BY <2>1, <2>3, <2>5 DEF Ordered, Segment
<1> QED
  BY <1>3, <1>4

(* A pass that nobody overlaps keeps the lines in order. *)
LEMMA OrderedPass ==
  ASSUME TypeOK, NEW p \in Pass, PassMoves(p), Remembered, Backed(pass[p]),
         NEW r \in Run, r \notin torn', Ordered(r), Covered(r),
         \A q \in Pass : q # p => pass[q].pc = "idle" /\ pass'[q].pc = "idle"
  PROVE  Ordered(r)'
<1>1. Moved(p)
  BY PassSeen
<1>2. CASE Begin(p)
  <2>1. pass'[p].pc # "insert" /\ events' = events /\ offset' = offset
    BY <1>2, BeginEffect, NotInserting
  <2>2. pass[p].pc = "idle"
    BY <1>2, BeginEffect, IdleIs
  <2>3. Reaped(r) => Reaped(r)'
    BY <1>1, <2>2, ReapedStays
  <2> QED
    BY <2>1, <2>3, OrderedQuiet
<1>3. CASE upsertRun(p)
  <2>1. pass[p].pc = "upsert" /\ events' = events
    BY <1>3, UpsertEffect
  <2>2. Reaped(r) => Reaped(r)'
    BY <1>1, <2>1, ReapedStays
  <2>3. CASE Looked(p)
    BY <2>1, <2>3, OrderedLooked DEF AtRun
  <2>4. CASE pass'[p].pc = "tasks" /\ UNCHANGED offset
    BY <2>1, <2>2, <2>4, OrderedQuiet
  <2> QED
    BY <1>3, <2>3, <2>4, UpsertEffect
<1>4. CASE syncTasks(p)
  <2>1. pass[p].pc = "tasks" /\ events' = events
    BY <1>4, SyncTasksEffect
  <2>2. Reaped(r) => Reaped(r)'
    BY <1>1, <2>1, ReapedStays
  <2>3. CASE Looked(p)
    BY <2>1, <2>3, OrderedLooked DEF AtRun
  <2>4. CASE pass'[p].pc = "reapTasks" /\ UNCHANGED offset
    BY <2>1, <2>2, <2>4, OrderedQuiet
  <2> QED
    BY <1>4, <2>3, <2>4, SyncTasksEffect
<1>5. CASE reapTasks(p)
  BY <1>5, ReapTasksEffect, OrderedLooked DEF AtRun
<1>6. CASE insertEvents(p)
  BY <1>6, OrderedInserted
<1>7. CASE selectRuns(p) \/ deleteTasks(p) \/ clearActive(p)
  <2>1. pass[p].pc # "delRuns" /\ pass'[p].pc # "insert" /\ events' = events /\ offset' = offset
    BY <1>7, SelectEffect, DeleteTasksEffect, ClearEffect DEF Later
  <2>2. Reaped(r) => Reaped(r)'
    BY <1>1, <2>1, ReapedStays
  <2> QED
    BY <2>1, <2>2, OrderedQuiet
<1>8. CASE deleteEvents(p) \/ deleteRuns(p)
  BY <1>8, OrderedDeleted
<1>9. CASE clearOnly(p) \/ markActive(p) \/ FlagFails(p)
  <2>1. pass[p].pc # "delRuns" /\ pass'[p].pc # "insert" /\ events' = events /\ offset' = offset
    BY <1>9, EndsEffect DEF Idle
  <2>2. Reaped(r) => Reaped(r)'
    BY <1>1, <2>1, ReapedStays
  <2> QED
    BY <2>1, <2>2, OrderedQuiet
<1>10. CASE QueryFails(p)
  <2>1. /\ pass'[p].pc # "insert" /\ events' = events /\ offset' = offset
        /\ pass[p].pc = "delRuns" => r \notin pass[p].stale
    BY <1>10, FailEffect
  <2>2. Reaped(r) => Reaped(r)'
    BY <1>1, <2>1, ReapedStays
  <2> QED
    BY <2>1, <2>2, OrderedQuiet
<1> QED
  BY <1>2, <1>3, <1>4, <1>5, <1>6, <1>7, <1>8, <1>9, <1>10 DEF PassMoves, PassStep

(* The lines stay in order until passes overlap or the console restarts. *)
LEMMA OrderedStep ==
  ASSUME TypeOK, StoreSeen, Remembered, Alone, RowsBacked, LinesOrdered, LinesCovered, [Next]_vars
  PROVE  LinesOrdered'
<1>1. ASSUME NEW p \in Pass, PassMoves(p) PROVE LinesOrdered'
  <2>1. SUFFICES ASSUME ~overlapped', ~restarted', NEW r \in Run, r \notin replaced', r \notin torn'
                 PROVE  Ordered(r)'
    BY DEF LinesOrdered
  <2>2. ~overlapped /\ \A q \in Pass : q # p => pass[q].pc = "idle" /\ pass'[q].pc = "idle"
    BY <1>1, <2>1, NobodyElse
  <2>3. ~restarted /\ r \notin replaced /\ r \notin torn
    BY <1>1, <2>1, PassSeen
  <2>4. Ordered(r) /\ Covered(r) /\ Backed(pass[p])
    BY <2>2, <2>3 DEF LinesOrdered, LinesCovered, RowsBacked
  <2> QED
    BY <1>1, <2>1, <2>2, <2>4, OrderedPass
<1>2. CASE StoreMoves
  <2>1. SeenGrows /\ Change
    BY <1>2, StoreEffect
  <2>2. UNCHANGED <<events, offset, torn, overlapped, restarted>> /\ replaced \subseteq replaced'
    BY <2>1, ChangeEffect DEF SeenGrows
  <2>3. \A q \in Pass : /\ pass'[q].pc = pass[q].pc /\ pass'[q].cur = pass[q].cur
                        /\ pass'[q].from = pass[q].from /\ pass'[q].stale = pass[q].stale
    BY <2>1, ChangeEffect
  <2>4. \A r \in Run : Reaped(r) => Reaped(r)'
    BY <2>3 DEF Reaped
  <2>5. ASSUME NEW r \in Run, Ordered(r) PROVE Ordered(r)'
    BY <2>2, <2>3, <2>4, <2>5 DEF Ordered, Segment
  <2> QED
    BY <2>2, <2>5 DEF LinesOrdered
<1>3. CASE Restart
  BY <1>3, RestartEffect DEF LinesOrdered
<1>4. CASE UNCHANGED vars
  BY <1>4 DEF LinesOrdered, Ordered, Reaped, Segment, vars, db, history, seen
<1> QED
  BY <1>1, <1>2, <1>3, <1>4, Steps

-----------------------------------------------------------------------------
(* A pass over a store that does not change *)


(* A pass that knows the store goes on knowing it. *)
LEMMA KnowsPass ==
  ASSUME TypeOK, Remembered, NEW p \in Pass, PassMoves(p), ~Begin(p), Knows(pass[p]), mounted
  PROVE  Knows(pass[p])' \/ pass'[p].pc = "idle"
<1>0. index' = index /\ dirs' = dirs /\ plan' = plan /\ OnDisk = dirs
  BY PassSeen, DiskType DEF StoreSame
<1>1. ASSUME NEW s, WentOn(s, pass'[p]), s.ids = index.ids, s.active = index.active,
             s.left \subseteq index.ids, s.stale = pass[p].stale
      PROVE  Knows(pass[p])'
  <2>1. /\ pass'[p].ids = index.ids /\ pass'[p].active = index.active
        /\ pass'[p].stale = pass[p].stale /\ pass'[p].left \subseteq index.ids
    BY <1>1 DEF WentOn, Same
  <2>2. pass'[p].pc \in AtRun => pass'[p].cur \in index.ids
    BY <1>1 DEF WentOn, AtRun
  <2>3. pass'[p].pc \notin {"tasks", "reapTasks"}
    BY <1>1, NotInserting
  <2> QED
    BY <1>0, <2>1, <2>2, <2>3 DEF Knows
<1>2. ASSUME Looked(p), pass[p].pc \in AtRun PROVE Knows(pass[p])'
  <2>1. CASE WentOn(pass[p], pass'[p])
    BY <1>1, <2>1 DEF Knows
  <2>2. CASE pass'[p].pc = "insert" /\ pass'[p].cur = pass[p].cur /\ pass'[p].left = pass[p].left
    <3>1. Same(pass[p], pass'[p])
      BY <1>2 DEF Looked
    <3> QED
      BY <1>0, <1>2, <2>2, <3>1 DEF Knows, Same, AtRun
  <2> QED
    BY <1>2, <2>1, <2>2 DEF Looked
<1>3. ASSUME NEW pc \in {"clear", "mark", "delTasks", "delEvents", "delRuns"},
             Later(pass[p], pass'[p], pc),
             \A r \in pass'[p].stale : r \notin index.ids /\ r \notin dirs
      PROVE  Knows(pass[p])'
  <2>1. pc \notin AtRun /\ pc \notin {"tasks", "reapTasks"}
    BY <1>3 DEF AtRun
  <2> QED
    BY <1>0, <1>3, <2>1 DEF Later, Knows
<1>4. CASE upsertRun(p)
  <2>1. CASE Looked(p)
    BY <1>2, <1>4, <2>1, UpsertEffect DEF AtRun
  <2>2. CASE /\ Same(pass[p], pass'[p]) /\ pass'[p].pc = "tasks" /\ pass'[p].cur = pass[p].cur
             /\ pass'[p].left = pass[p].left /\ pass'[p].plan = plan[pass[p].cur]
    <3>1. pass[p].cur \in index.ids
      BY <1>4, UpsertEffect DEF Knows, AtRun
    <3> QED
      BY <1>0, <2>2, <3>1 DEF Knows, Same
  <2> QED
    BY <1>4, <2>1, <2>2, UpsertEffect
<1>5. CASE syncTasks(p)
  <2>1. CASE Looked(p)
    BY <1>2, <1>5, <2>1, SyncTasksEffect DEF AtRun
  <2>2. CASE /\ Same(pass[p], pass'[p]) /\ pass'[p].pc = "reapTasks" /\ pass'[p].cur = pass[p].cur
             /\ pass'[p].left = pass[p].left /\ pass'[p].plan = pass[p].plan
    <3>1. pass[p].cur \in index.ids /\ pass[p].plan = plan[pass[p].cur]
      BY <1>5, SyncTasksEffect DEF Knows, AtRun
    <3> QED
      BY <1>0, <2>2, <3>1 DEF Knows, Same
  <2> QED
    BY <1>5, <2>1, <2>2, SyncTasksEffect
<1>6. CASE reapTasks(p)
  BY <1>2, <1>6, ReapTasksEffect DEF AtRun
<1>7. CASE insertEvents(p)
  <2>1. PICK u \in PassType : WentOn(u, pass'[p]) /\ Same(pass[p], u) /\ u.left = pass[p].left
    BY <1>7, InsertEffect
  <2>2. /\ u.ids = index.ids /\ u.active = index.active
        /\ u.left \subseteq index.ids /\ u.stale = pass[p].stale
    BY <2>1 DEF Same, Knows
  <2> QED
    BY <1>1, <2>1, <2>2
<1>8. CASE selectRuns(p)
  <2>1. /\ pass'[p].stale = runs \ (pass[p].ids \cup OnDisk)
        /\ Later(pass[p], pass'[p], IF pass'[p].stale = {} THEN "clear" ELSE "delTasks")
    BY <1>8, SelectEffect
  <2>2. \A r \in pass'[p].stale : r \notin index.ids /\ r \notin dirs
    BY <1>0, <2>1 DEF Knows
  <2>3. PICK pc \in {"clear", "mark", "delTasks", "delEvents", "delRuns"} :
          pc = IF pass'[p].stale = {} THEN "clear" ELSE "delTasks"
    OBVIOUS
  <2> QED
    BY <1>3, <2>1, <2>2, <2>3
<1>9. CASE deleteTasks(p)
  BY <1>3, <1>9, DeleteTasksEffect DEF Knows
<1>10. CASE deleteEvents(p)
  BY <1>3, <1>10, DeleteEventsEffect DEF Knows
<1>11. CASE deleteRuns(p)
  BY <1>3, <1>11, DeleteRunsEffect DEF Knows
<1>12. CASE clearActive(p)
  BY <1>3, <1>12, ClearEffect DEF Knows
<1>13. CASE clearOnly(p) \/ markActive(p) \/ FlagFails(p)
  BY <1>13, EndsEffect, IdleIs
<1>14. CASE QueryFails(p)
  <2>1. /\ pass'[p].ids = index.ids /\ pass'[p].active = index.active
        /\ pass'[p].left \subseteq index.ids
    BY <1>14, FailEffect DEF Knows
  <2>2. pass'[p].pc \in {"upsert", "select", "clear"}
    BY <1>14, FailEffect
  <2>3. pass'[p].pc = "upsert" => pass'[p].cur \in index.ids
    BY <1>14, FailEffect DEF Knows
  <2>4. \A r \in pass'[p].stale : r \notin index.ids /\ r \notin dirs
    BY <1>14, FailEffect DEF Knows
  <2> QED
    BY <1>0, <2>1, <2>2, <2>3, <2>4 DEF Knows, AtRun
<1> QED
  BY <1>4, <1>5, <1>6, <1>7, <1>8, <1>9, <1>10, <1>11, <1>12, <1>13, <1>14
     DEF PassMoves, PassStep

(* A pass that is clean after a query was so before. *)
LEMMA CleanBefore ==
  ASSUME TypeOK, Remembered, NEW p \in Pass, PassMoves(p), ~Begin(p), Clean(pass'[p])
  PROVE  Clean(pass[p])
<1>0. pass[p].pc # "idle"
  BY Querying
<1>1. CASE upsertRun(p) \/ syncTasks(p) \/ reapTasks(p)
  BY <1>0, <1>1, UpsertEffect, SyncTasksEffect, ReapTasksEffect DEF Looked, Same, Clean
<1>2. CASE insertEvents(p)
  <2>1. PICK u \in PassType : WentOn(u, pass'[p]) /\ Same(pass[p], u)
    BY <1>2, InsertEffect
  <2> QED
    BY <1>0, <2>1 DEF WentOn, Same, Clean
<1>3. CASE selectRuns(p) \/ deleteTasks(p) \/ deleteEvents(p) \/ deleteRuns(p) \/ clearActive(p)
  <2>1. pass'[p].clean = pass[p].clean
    BY <1>3, SelectEffect, DeleteTasksEffect, DeleteEventsEffect, DeleteRunsEffect, ClearEffect DEF Later
  <2> QED
    BY <1>0, <2>1 DEF Clean
<1>4. CASE clearOnly(p) \/ markActive(p) \/ FlagFails(p)
  BY <1>4, EndsEffect, IdleIs DEF Clean
<1>5. CASE QueryFails(p)
  BY <1>5, FailEffect DEF Clean
<1> QED
  BY <1>1, <1>2, <1>3, <1>4, <1>5 DEF PassMoves, PassStep

(* A pass that begins knows the store. *)
LEMMA BeginKnows ==
  ASSUME TypeOK, NEW p \in Pass, Begin(p)
  PROVE  /\ Knows(pass[p])' /\ pass'[p].clean = (Running = {})
         /\ index' # Unreadable /\ mounted'
<1>1. index' = index /\ dirs' = dirs /\ plan' = plan /\ mounted' = mounted
  BY BeginEffect DEF StoreSame
<1>2. PICK s \in PassType :
        /\ WentOn(s, pass'[p])
        /\ s.ids = index.ids /\ s.left = index.ids /\ s.active = index.active
        /\ s.clean = (Running = {}) /\ s.stale = {}
  BY BeginEffect
<1>3. /\ pass'[p].ids = index.ids /\ pass'[p].active = index.active
      /\ pass'[p].left \subseteq index.ids /\ pass'[p].stale = {}
      /\ pass'[p].clean = (Running = {})
  BY <1>2 DEF WentOn, Same
<1>4. pass'[p].pc \in AtRun => pass'[p].cur \in index.ids
  BY <1>2 DEF WentOn, AtRun
<1>5. pass'[p].pc \notin {"tasks", "reapTasks"}
  BY <1>2, NotInserting
<1> QED
  BY <1>1, <1>3, <1>4, <1>5, BeginEffect DEF Knows

(* As long as a pass is clean, the passes under way know the store. *)
LEMMA CleanKnowsStep ==
  ASSUME TypeOK, StoreSeen, Remembered, CleanKnows, [Next]_vars
  PROVE  CleanKnows'
<1>1. ASSUME NEW p \in Pass, PassMoves(p) PROVE CleanKnows'
  <2>0. /\ index' = index /\ dirs' = dirs /\ plan' = plan /\ mounted' = mounted
        /\ \A q \in Pass : q # p => pass'[q] = pass[q]
    BY <1>1, PassSeen DEF StoreSame, Moved
  <2>1. SUFFICES ASSUME NEW c \in Pass, Clean(pass'[c])
                 PROVE  /\ index' # Unreadable /\ mounted'
                        /\ \A q \in Pass : pass'[q].pc # "idle" => Knows(pass[q])'
    BY DEF CleanKnows, Clean
  <2>2. ASSUME NEW q \in Pass, q # p, Knows(pass[q]) PROVE Knows(pass[q])'
    BY <2>0, <2>2 DEF Knows
  <2>3. CASE Begin(p) /\ c # p
    <3>1. Clean(pass[c])
      BY <2>0, <2>1, <2>3
    <3>2. \A q \in Pass : (q # p /\ pass'[q].pc # "idle") => Knows(pass[q])
      BY <2>0, <3>1 DEF CleanKnows
    <3> QED
      BY <2>2, <2>3, <3>2, BeginKnows
  <2>4. CASE Begin(p) /\ c = p
    <3>1. Running = {}
      BY <2>1, <2>4, BeginKnows DEF Clean
    <3>2. \A q \in Pass : pass[q].pc = "idle"
      BY <3>1, IdleIs DEF Running
    <3> QED
      BY <2>0, <2>4, <3>2, BeginKnows
  <2>5. CASE ~Begin(p)
    <3>1. Clean(pass[c])
      BY <1>1, <2>0, <2>1, <2>5, CleanBefore
    <3>2. /\ index # Unreadable /\ mounted
          /\ \A q \in Pass : pass[q].pc # "idle" => Knows(pass[q])
      BY <3>1 DEF CleanKnows
    <3>3. pass[p].pc # "idle"
      BY <1>1, <2>5, Querying
    <3>4. Knows(pass[p])' \/ pass'[p].pc = "idle"
      BY <1>1, <2>5, <3>2, <3>3, KnowsPass
    <3>5. \A q \in Pass : (q # p /\ pass'[q].pc # "idle") => Knows(pass[q])
      BY <2>0, <3>2
    <3> QED
      BY <2>0, <2>2, <3>2, <3>4, <3>5
  <2> QED
    BY <2>3, <2>4, <2>5
<1>2. CASE StoreMoves
  BY <1>2, StoreEffect, ChangeEffect DEF CleanKnows, Clean
<1>3. CASE Restart
  BY <1>3, RestartEffect, IdleIs DEF CleanKnows, Clean
<1>4. CASE UNCHANGED vars
  BY <1>4 DEF CleanKnows, Clean, Knows, vars, store
<1> QED
  BY <1>1, <1>2, <1>3, <1>4, Steps

-----------------------------------------------------------------------------
(* What a clean pass has done *)

(* What a step of a pass that knows the store leaves of what others did.   *)
Keeps ==
  /\ \A r \in Run : ((r \in index.ids \/ r \in dirs) /\ r \in runs) => r \in runs'
  /\ \A r \in runs' : r \in runs \/ r \in index.ids
  /\ \A r \in Run, k \in Key :
       (r \in index.ids /\ k \in plan[r].keys /\ <<r, k>> \in tasks) => <<r, k>> \in tasks'
  /\ \A r \in Run : (r \in index.ids /\ TasksDone(r)) => TasksDone(r)'
  /\ \A r \in Run, n \in Nat : (r \in index.ids /\ Has(r, n)) => Has(r, n)'
  /\ \A r \in flagged' : r \in flagged \/ r = index.active

(* The parts of Keeps, from what a step does to the rows. *)
LEMMA KeepsRows ==
  ASSUME TypeOK, StoreSame, runs' = runs, flagged' \subseteq flagged \cup {index.active},
         tasks' = tasks, events' = events
  PROVE  Keeps
<1>1. \A r \in Run : TasksDone(r) => TasksDone(r)'
  BY DEF TasksDone, StoreSame
<1>2. \A r \in Run, n \in Nat : Has(r, n) => Has(r, n)'
  BY DEF Has
<1> QED
  BY <1>1, <1>2 DEF Keeps

(* A pass that knows the store undoes nothing that others did for it. *)
LEMMA KeepsPass ==
  ASSUME TypeOK, Remembered, NEW p \in Pass, PassMoves(p),
         Begin(p) \/ Knows(pass[p])
  PROVE  Keeps
<1>0. StoreSame /\ tasks \subseteq Run \X Key /\ pass[p] \in PassType
  BY PassSeen DEF TypeOK
<1>1. CASE Begin(p)
  BY <1>0, <1>1, BeginEffect, KeepsRows
<1>2. CASE selectRuns(p) \/ clearActive(p) \/ QueryFails(p)
  BY <1>0, <1>2, SelectEffect, ClearEffect, FailEffect, KeepsRows
<1>3. CASE clearOnly(p) \/ markActive(p) \/ FlagFails(p)
  <2>1. pass[p].active = index.active
    <3>1. pass[p].pc # "idle"
      BY <1>3, EndsEffect
    <3> QED
      BY <3>1, IdleIs DEF Knows, Begin
  <2>2. flagged' \subseteq flagged \cup {index.active}
    BY <1>3, <2>1, EndsEffect
  <2> QED
    BY <1>0, <1>3, <2>2, EndsEffect, KeepsRows
<1>4. CASE upsertRun(p)
  <2>1. /\ runs' = runs \cup {pass[p].cur} /\ tasks' = tasks /\ events' = events
        /\ flagged' = flagged /\ pass[p].pc = "upsert"
    BY <1>4, UpsertEffect
  <2>2. pass[p].cur \in index.ids
    BY <2>1 DEF Knows, AtRun, Begin, Idle
  <2>3. \A r \in Run : TasksDone(r) => TasksDone(r)'
    BY <1>0, <2>1 DEF TasksDone, StoreSame
  <2>4. \A r \in Run, n \in Nat : Has(r, n) => Has(r, n)'
    BY <2>1 DEF Has
  <2> QED
    BY <2>1, <2>2, <2>3, <2>4 DEF Keeps
<1>5. CASE syncTasks(p)
  <2>1. /\ tasks' = tasks \cup ({pass[p].cur} \X pass[p].plan.keys)
        /\ runs' = runs /\ events' = events
        /\ flagged' = flagged /\ pass[p].pc = "tasks" /\ pass[p].cur \in Run
    BY <1>5, SyncTasksEffect
  <2>2. pass[p].plan = plan[pass[p].cur]
    BY <2>1 DEF Knows, Begin, Idle
  <2>3. \A r \in Run, k \in Key : <<r, k>> \in tasks' <=>
          (<<r, k>> \in tasks \/ (r = pass[p].cur /\ k \in plan[r].keys))
    BY <2>1, <2>2
  <2>4. \A r \in Run : TasksDone(r) => TasksDone(r)'
    BY <1>0, <2>3 DEF TasksDone, StoreSame
  <2>5. \A r \in Run, n \in Nat : Has(r, n) => Has(r, n)'
    BY <2>1 DEF Has
  <2> QED
    BY <2>1, <2>3, <2>4, <2>5 DEF Keeps
<1>6. CASE reapTasks(p)
  <2>1. /\ tasks' = {row \in tasks : row[1] = pass[p].cur => row[2] \in pass[p].plan.keys}
        /\ runs' = runs /\ events' = events
        /\ flagged' = flagged /\ pass[p].pc = "reapTasks" /\ pass[p].cur \in Run
    BY <1>6, ReapTasksEffect
  <2>2. pass[p].plan = plan[pass[p].cur]
    BY <2>1 DEF Knows, Begin, Idle
  <2>3. \A r \in Run, k \in Key : <<r, k>> \in tasks' <=>
          (<<r, k>> \in tasks /\ (r = pass[p].cur => k \in plan[r].keys))
    BY <2>1, <2>2
  <2>4. \A r \in Run : TasksDone(r) => TasksDone(r)'
    BY <1>0, <2>3 DEF TasksDone, StoreSame
  <2>5. \A r \in Run, n \in Nat : Has(r, n) => Has(r, n)'
    BY <2>1 DEF Has
  <2> QED
    BY <2>1, <2>3, <2>4, <2>5 DEF Keeps
<1>7. CASE insertEvents(p)
  <2>1. runs' = runs /\ tasks' = tasks /\ flagged' = flagged
    BY <1>7, InsertEffect
  <2>2. \A r \in Run : TasksDone(r) => TasksDone(r)'
    BY <1>0, <2>1 DEF TasksDone, StoreSame
  <2>3. \A r \in Run, n \in Nat : Has(r, n) => Has(r, n)'
    BY <1>7, HasMore
  <2> QED
    BY <2>1, <2>2, <2>3 DEF Keeps
<1>8. CASE deleteTasks(p) \/ deleteEvents(p) \/ deleteRuns(p)
  <2>1. pass[p].pc # "idle"
    BY <1>8, DeleteTasksEffect, DeleteEventsEffect, DeleteRunsEffect
  <2>2. \A r \in pass[p].stale : r \notin index.ids /\ r \notin dirs
    BY <2>1 DEF Knows, Begin, Idle
  <2>3. /\ runs' \subseteq runs /\ \A r \in runs : r \in runs' \/ r \in pass[p].stale
        /\ flagged' \subseteq flagged
        /\ \A r \in Run : r \notin pass[p].stale => events'[r] = events[r]
    BY <1>8, DeleteTasksEffect, DeleteEventsEffect, DeleteRunsEffect
  <2>4. \A r \in Run, k \in Key : r \notin pass[p].stale => (<<r, k>> \in tasks' <=> <<r, k>> \in tasks)
    <3>1. CASE deleteTasks(p)
      <4>1. tasks' = {row \in tasks : row[1] \notin pass[p].stale}
        BY <3>1, DeleteTasksEffect
      <4> QED
        BY <4>1
    <3>2. CASE deleteEvents(p) \/ deleteRuns(p)
      BY <3>2, DeleteEventsEffect, DeleteRunsEffect
    <3> QED
      BY <1>8, <3>1, <3>2
  <2>5. \A r \in Run : (r \in index.ids /\ TasksDone(r)) => TasksDone(r)'
    BY <1>0, <2>2, <2>4 DEF TasksDone, StoreSame
  <2>6. \A r \in Run, n \in Nat : (r \in index.ids /\ Has(r, n)) => Has(r, n)'
    BY <2>2, <2>3 DEF Has
  <2> QED
    BY <2>2, <2>3, <2>4, <2>5, <2>6 DEF Keeps
<1> QED
  BY <1>1, <1>2, <1>3, <1>4, <1>5, <1>6, <1>7, <1>8 DEF PassMoves, PassStep

(* What is done for a run stays done. *)
LEMMA KeepsDone ==
  ASSUME TypeOK, StoreSame, Keeps, replaced' = replaced, torn \subseteq torn',
         NEW r \in Run, r \in index.ids, RunDone(r)
  PROVE  RunDone(r)'
<1>1. r \in runs' /\ TasksDone(r)'
  BY DEF Keeps, RunDone
<1>2. PICK n : n = Lines(size[r])
  OBVIOUS
<1>3. n \in Nat /\ n = Lines(size'[r])
  <2>1. size[r] \in Nat /\ size' = size
    BY SyncAssumption DEF TypeOK, StoreSame
  <2> QED
    BY <1>2, <2>1, Halves
<1>4. Has(r, n) => Has(r, n)'
  BY <1>3 DEF Keeps
<1>5. LinesDone(r)'
  <2>1. CASE r \in replaced \/ r \in torn
    BY <2>1 DEF LinesDone
  <2>2. CASE Has(r, n)
    <3>1. Has(r, n)'
      BY <1>4, <2>2
    <3> QED
      BY <1>3, <3>1 DEF LinesDone, Has
  <2> QED
    BY <1>2, <2>1, <2>2 DEF RunDone, LinesDone
<1> QED
  BY <1>1, <1>5 DEF RunDone

(* What a clean pass has done stands whatever another does that knows the  *)
(* store.                                                                  *)
LEMMA HasDoneKept ==
  ASSUME TypeOK, Remembered, StoreSame, Keeps, replaced' = replaced, torn \subseteq torn',
         NEW q \in Pass, pass'[q] = pass[q], Knows(pass[q]), HasDone(pass[q]), index \in Index
  PROVE  HasDone(pass[q])'
<1> DEFINE s == pass[q]
<1>0. index' = index /\ dirs' = dirs /\ plan' = plan /\ size' = size /\ index.ids \subseteq Run
  BY DEF StoreSame, Index
<1>1. \A r \in Run : (r \in index.ids /\ r \in dirs /\ r \notin s.left /\ s.cur # r) => RunDone(r)'
  BY KeepsDone DEF HasDone
<1>2. s.pc \in {"tasks", "reapTasks", "insert"} => s.cur \in index.ids /\ s.cur \in runs'
  <2>1. ASSUME s.pc \in {"tasks", "reapTasks", "insert"} PROVE s.cur \in index.ids /\ s.cur \in runs'
    <3>1. s.cur \in index.ids /\ s.cur \in runs
      BY <2>1 DEF Knows, HasDone, AtRun
    <3> QED
      BY <1>0, <3>1 DEF Keeps
  <2> QED
    BY <2>1
<1>3. s.pc = "reapTasks" => \A k \in s.plan.keys : <<s.cur, k>> \in tasks'
  <2>1. ASSUME s.pc = "reapTasks" PROVE \A k \in s.plan.keys : <<s.cur, k>> \in tasks'
    <3>1. s.plan = plan[s.cur] /\ s.plan.keys \subseteq Key /\ s.cur \in Run
      BY <1>0, <1>2, <2>1 DEF Knows, TypeOK, PassType, Plan
    <3>2. \A k \in s.plan.keys : <<s.cur, k>> \in tasks
      BY <2>1 DEF HasDone
    <3> QED
      BY <1>2, <2>1, <3>1, <3>2 DEF Keeps
  <2> QED
    BY <2>1
<1>4. s.pc = "insert" => TasksDone(pass[q].cur)' /\ s.to = Lines(size[s.cur])
  BY <1>0, <1>2 DEF HasDone, Keeps
<1>5. s.pc \in {"delTasks", "delEvents", "delRuns"} =>
        \A r \in runs' : r \in index.ids \/ r \in dirs \/ r \in s.stale
  BY DEF HasDone, Keeps
<1>6. s.pc \in {"clear", "mark"} => \A r \in runs' : r \in index.ids \/ r \in dirs
  BY DEF HasDone, Keeps
<1>7. s.pc = "mark" => \A r \in flagged' : r = index.active
  BY DEF HasDone, Keeps
<1>8. s.pc \notin AtRun => s.left = {}
  BY DEF HasDone
<1>9. pass'[q] = s
  OBVIOUS
<1> HIDE DEF s
<1> QED
  BY <1>0, <1>1, <1>2, <1>3, <1>4, <1>5, <1>6, <1>7, <1>8, <1>9 DEF HasDone, AtRun

(* What lies before the offset of a run the index names is mirrored, since *)
(* nobody reaps it as long as a pass is clean.                             *)
LEMMA LinesKnown ==
  ASSUME TypeOK, LinesCovered, CleanKnows, NEW c \in Pass, Clean(pass[c]),
         NEW r \in Run, r \in index.ids, r \notin replaced, r \notin torn
  PROVE  /\ offset[r] <= size[r] /\ Has(r, Lines(offset[r]))
         /\ \A q \in Pass : Inserting(pass[q], r) => Has(r, pass[q].from)
<1>1. ~Reaped(r)
  BY DEF CleanKnows, Knows, Reaped
<1>2. Covered(r)
  BY DEF LinesCovered
<1> QED
  BY <1>1, <1>2 DEF Covered

(* A clean pass adds to what it has done. *)
LEMMA HasDonePass ==
  ASSUME TypeOK, Remembered, LinesCovered, CleanKnows, NEW p \in Pass, PassMoves(p), ~Begin(p),
         Clean(pass'[p]), HasDone(pass[p])
  PROVE  HasDone(pass[p])'
<1>1. Clean(pass[p])
  BY CleanBefore
<1>2. /\ index \in Index /\ index.ids \subseteq Run /\ mounted /\ Knows(pass[p])
      /\ OnDisk = dirs /\ dirs \subseteq Run
  BY <1>1, DiskType DEF CleanKnows, Clean, TypeOK, Index
<1>3. /\ StoreSame /\ Keeps /\ replaced' = replaced /\ torn \subseteq torn'
      /\ index' = index /\ dirs' = dirs /\ plan' = plan /\ size' = size
  BY <1>2, PassSeen, KeepsPass DEF StoreSame
<1>4. PICK c : c = pass[p].cur
  OBVIOUS
<1>5. \A r \in Run : (r \in index.ids /\ r \in dirs /\ r \notin pass[p].left /\ c # r) => RunDone(r)'
  BY <1>3, <1>4, KeepsDone DEF HasDone
<1>6. ASSUME NEW s, WentOn(s, pass'[p]), s.left = pass[p].left,
             (c \in dirs /\ c \in index.ids) => RunDone(c)'
      PROVE  HasDone(pass[p])'
  <2>1. PICK t : t = pass'[p]
    OBVIOUS
  <2>2. WentOn(s, t)
    BY <1>6, <2>1
  <2>3. \A r \in Run : (r \in index.ids /\ r \in dirs /\ r \notin t.left /\ t.cur # r) => RunDone(r)'
    <3> SUFFICES ASSUME NEW r \in Run, r \in index.ids, r \in dirs, r \notin t.left, t.cur # r
                 PROVE  RunDone(r)'
      OBVIOUS
    <3>1. r \notin pass[p].left
      BY <1>2, <1>6, <2>2 DEF WentOn
    <3>2. CASE r # c
      BY <1>5, <3>1, <3>2
    <3>3. CASE r = c
      BY <1>6, <3>3
    <3> QED
      BY <3>2, <3>3
  <2>4. t.pc \in {"upsert", "select"} /\ (t.pc = "select" => t.left = {})
    BY <1>2, <2>2 DEF WentOn
  <2> QED
    BY <1>3, <2>1, <2>3, <2>4 DEF HasDone, AtRun
<1>7. ASSUME Looked(p), pass[p].pc \in AtRun, c \in runs', events' = events, torn' = torn,
             c \in dirs => TasksDone(c)'
      PROVE  HasDone(pass[p])'
  <2>1. c \in index.ids /\ c \in Run /\ size[c] \in Nat /\ offset[c] \in Nat
    BY <1>2, <1>4, <1>7, SyncAssumption DEF Knows, TypeOK
  <2>2. CASE /\ pass'[p].pc = "insert" /\ pass'[p].cur = c /\ pass'[p].left = pass[p].left
             /\ c \in OnDisk /\ pass'[p].to = Lines(size[c])
    <3>1. PICK t : t = pass'[p]
      OBVIOUS
    <3>2. TasksDone(t.cur)' /\ t.cur \in runs' /\ t.to = Lines(size'[t.cur])
      BY <1>2, <1>3, <1>7, <2>2, <3>1
    <3>3. \A r \in Run : (r \in index.ids /\ r \in dirs /\ r \notin t.left /\ t.cur # r) => RunDone(r)'
      BY <1>5, <2>2, <3>1
    <3> QED
      BY <1>3, <2>2, <3>1, <3>2, <3>3 DEF HasDone, AtRun
  <2>3. CASE WentOn(pass[p], pass'[p]) /\ (c \in OnDisk => Lines(size[c]) <= Lines(Start(c)))
    <3>1. ASSUME c \in dirs, c \in index.ids PROVE RunDone(c)'
      <4>1. LinesDone(c)'
        <5>1. CASE c \in replaced \/ c \in torn
          BY <1>3, <5>1 DEF LinesDone
        <5>2. CASE c \notin replaced /\ c \notin torn
          <6>1. offset[c] <= size[c] /\ Has(c, Lines(offset[c]))
            BY <1>1, <2>1, <5>2, LinesKnown
          <6>2. Start(c) = offset[c]
            BY <2>1, <6>1 DEF Start
          <6>3. /\ Lines(size[c]) <= Lines(offset[c])
                /\ Lines(size[c]) \in Nat /\ Lines(offset[c]) \in Nat
            BY <1>2, <2>1, <2>3, <3>1, <6>2, Halves
          <6>4. Has(c, Lines(size[c]))
            BY <6>1, <6>3 DEF Has
          <6>5. Has(c, Lines(size[c]))'
            BY <1>3, <1>7, <6>4 DEF Has
          <6> QED
            BY <6>5 DEF LinesDone
        <5> QED
          BY <5>1, <5>2
      <4> QED
        BY <1>7, <3>1, <4>1 DEF RunDone
    <3> QED
      BY <1>6, <2>3, <3>1
  <2> QED
    BY <1>4, <1>7, <2>2, <2>3 DEF Looked
<1>8. ASSUME NEW pc \in {"clear", "mark", "delTasks", "delEvents", "delRuns"},
             Later(pass[p], pass'[p], pc), pass[p].pc \notin AtRun,
             pc \in {"delTasks", "delEvents", "delRuns"} =>
               \A r \in runs' : r \in index.ids \/ r \in dirs \/ r \in pass'[p].stale,
             pc \in {"clear", "mark"} => \A r \in runs' : r \in index.ids \/ r \in dirs,
             pc = "mark" => \A r \in flagged' : r = index.active
      PROVE  HasDone(pass[p])'
  <2>1. PICK t : t = pass'[p]
    OBVIOUS
  <2>2. t.pc = pc /\ t.left = {} /\ t.cur = c /\ pass[p].left = {}
    BY <1>4, <1>8, <2>1 DEF Later, HasDone
  <2>3. \A r \in Run : (r \in index.ids /\ r \in dirs /\ r \notin t.left /\ t.cur # r) => RunDone(r)'
    BY <1>5, <2>2
  <2>4. t.pc \notin AtRun
    BY <1>8, <2>2 DEF AtRun
  <2> QED
    BY <1>3, <1>8, <2>1, <2>2, <2>3, <2>4 DEF HasDone, AtRun
<1>9. CASE upsertRun(p)
  <2>1. /\ pass[p].pc = "upsert" /\ c \in Run /\ runs' = runs \cup {c}
        /\ events' = events /\ torn' = torn /\ pass[p].pc \in AtRun
    BY <1>4, <1>9, UpsertEffect DEF AtRun
  <2>2. CASE (c \in OnDisk => plan[c].kind = "unreadable") /\ Looked(p)
    <3>1. c \in dirs => TasksDone(c)'
      BY <1>2, <1>3, <2>2 DEF TasksDone
    <3> QED
      BY <1>7, <2>1, <2>2, <3>1
  <2>3. CASE pass'[p].pc = "tasks" /\ pass'[p].cur = c /\ pass'[p].left = pass[p].left
    <3>1. PICK t : t = pass'[p]
      OBVIOUS
    <3>2. \A r \in Run : (r \in index.ids /\ r \in dirs /\ r \notin t.left /\ t.cur # r) => RunDone(r)'
      BY <1>5, <2>3, <3>1
    <3> QED
      BY <1>3, <2>1, <2>3, <3>1, <3>2 DEF HasDone, AtRun
  <2> QED
    BY <1>4, <1>9, <2>2, <2>3, UpsertEffect
<1>10. CASE syncTasks(p)
  <2>1. /\ pass[p].pc = "tasks" /\ c \in Run /\ runs' = runs
        /\ tasks' = tasks \cup ({c} \X pass[p].plan.keys)
        /\ events' = events /\ torn' = torn /\ pass[p].pc \in AtRun
    BY <1>4, <1>10, SyncTasksEffect DEF AtRun
  <2>2. c \in runs' /\ pass[p].plan = plan[c]
    BY <1>2, <1>4, <2>1 DEF HasDone, Knows
  <2>3. CASE pass[p].plan.kind = "partial" /\ Looked(p)
    <3>1. TasksDone(c)'
      BY <1>3, <2>2, <2>3 DEF TasksDone
    <3> QED
      BY <1>7, <2>1, <2>2, <2>3, <3>1
  <2>4. CASE /\ pass'[p].pc = "reapTasks" /\ pass'[p].cur = c
             /\ pass'[p].left = pass[p].left /\ pass'[p].plan = pass[p].plan
    <3>1. PICK t : t = pass'[p]
      OBVIOUS
    <3>2. \A r \in Run : (r \in index.ids /\ r \in dirs /\ r \notin t.left /\ t.cur # r) => RunDone(r)'
      BY <1>5, <2>4, <3>1
    <3>3. \A k \in t.plan.keys : <<t.cur, k>> \in tasks'
      BY <2>1, <2>4, <3>1
    <3> QED
      BY <1>3, <2>2, <2>4, <3>1, <3>2, <3>3 DEF HasDone, AtRun
  <2> QED
    BY <1>4, <1>10, <2>3, <2>4, SyncTasksEffect
<1>11. CASE reapTasks(p)
  <2>1. /\ pass[p].pc = "reapTasks" /\ c \in Run /\ runs' = runs /\ Looked(p)
        /\ tasks' = {row \in tasks : row[1] = c => row[2] \in pass[p].plan.keys}
        /\ events' = events /\ torn' = torn /\ pass[p].pc \in AtRun
    BY <1>4, <1>11, ReapTasksEffect DEF AtRun
  <2>2. c \in runs' /\ pass[p].plan = plan[c] /\ \A k \in plan[c].keys : <<c, k>> \in tasks
    BY <1>2, <1>4, <2>1 DEF HasDone, Knows
  <2>3. \A k \in Key : <<c, k>> \in tasks' <=> k \in plan[c].keys
    BY <2>1, <2>2
  <2>4. TasksDone(c)'
    BY <1>3, <2>3 DEF TasksDone
  <2> QED
    BY <1>7, <2>1, <2>2, <2>4
<1>12. CASE insertEvents(p)
  <2>1. /\ pass[p].pc = "insert" /\ c \in Run /\ runs' = runs /\ torn' = torn /\ tasks' = tasks
    BY <1>4, <1>12, InsertEffect
  <2>2. PICK u \in PassType : WentOn(u, pass'[p]) /\ u.left = pass[p].left
    BY <1>12, InsertEffect
  <2>3. PICK a, b : a = pass[p].from /\ b = pass[p].to
    OBVIOUS
  <2>4. c \in runs /\ TasksDone(c) /\ b = Lines(size[c]) /\ c \in index.ids
    BY <1>2, <1>4, <2>1, <2>3 DEF HasDone, Knows, AtRun
  <2>5. TasksDone(c)'
    BY <1>3, <2>1, <2>4 DEF TasksDone
  <2>6. LinesDone(c)'
    <3>1. CASE c \in replaced \/ c \in torn
      BY <1>3, <3>1 DEF LinesDone
    <3>2. CASE c \notin replaced /\ c \notin torn
      <4>1. Has(c, a)
        BY <1>1, <1>4, <2>1, <2>3, <2>4, <3>2, LinesKnown DEF Inserting
      <4>2. Has(c, b)'
        BY <1>4, <1>12, <2>3, <4>1, HasMore
      <4>3. b = Lines(size'[c])
        BY <1>3, <2>4
      <4> QED
        BY <4>2, <4>3 DEF LinesDone, Has
    <3> QED
      BY <3>1, <3>2
  <2>7. RunDone(c)'
    BY <2>1, <2>4, <2>5, <2>6 DEF RunDone
  <2> QED
    BY <1>6, <2>2, <2>7
<1>13. CASE selectRuns(p)
  <2>1. /\ pass'[p].stale = runs \ (pass[p].ids \cup OnDisk) /\ runs' = runs
        /\ Later(pass[p], pass'[p], IF pass'[p].stale = {} THEN "clear" ELSE "delTasks")
        /\ pass[p].pc = "select"
    BY <1>13, SelectEffect
  <2>2. PICK pc \in {"clear", "mark", "delTasks", "delEvents", "delRuns"} :
          pc = IF pass'[p].stale = {} THEN "clear" ELSE "delTasks"
    OBVIOUS
  <2>3. \A r \in runs' : r \in index.ids \/ r \in dirs \/ r \in pass'[p].stale
    BY <1>2, <2>1 DEF Knows
  <2>4. pass[p].pc \notin AtRun /\ Later(pass[p], pass'[p], pc)
    BY <2>1, <2>2 DEF AtRun
  <2>5. pc \in {"clear", "mark"} => \A r \in runs' : r \in index.ids \/ r \in dirs
    BY <2>2, <2>3
  <2>6. pc # "mark"
    BY <2>2
  <2> QED
    BY <1>8, <2>3, <2>4, <2>5, <2>6
<1>14. CASE deleteTasks(p)
  <2>1. /\ pass[p].pc = "delTasks" /\ runs' = runs /\ pass'[p].stale = pass[p].stale
        /\ Later(pass[p], pass'[p], "delEvents") /\ pass[p].pc \notin AtRun
    BY <1>14, DeleteTasksEffect DEF AtRun
  <2>2. \A r \in runs' : r \in index.ids \/ r \in dirs \/ r \in pass'[p].stale
    BY <2>1 DEF HasDone
  <2> QED
    BY <1>8, <2>1, <2>2
<1>15. CASE deleteEvents(p)
  <2>1. /\ pass[p].pc = "delEvents" /\ runs' = runs /\ pass'[p].stale = pass[p].stale
        /\ Later(pass[p], pass'[p], "delRuns") /\ pass[p].pc \notin AtRun
    BY <1>15, DeleteEventsEffect DEF AtRun
  <2>2. \A r \in runs' : r \in index.ids \/ r \in dirs \/ r \in pass'[p].stale
    BY <2>1 DEF HasDone
  <2> QED
    BY <1>8, <2>1, <2>2
<1>16. CASE deleteRuns(p)
  <2>1. /\ pass[p].pc = "delRuns" /\ runs' = runs \ pass[p].stale
        /\ Later(pass[p], pass'[p], "clear") /\ pass[p].pc \notin AtRun
    BY <1>16, DeleteRunsEffect DEF AtRun
  <2>2. \A r \in runs' : r \in index.ids \/ r \in dirs
    BY <2>1 DEF HasDone
  <2> QED
    BY <1>8, <2>1, <2>2
<1>17. CASE clearActive(p)
  <2>1. /\ pass[p].pc = "clear" /\ runs' = runs /\ flagged' = {}
        /\ Later(pass[p], pass'[p], "mark") /\ pass[p].pc \notin AtRun
    BY <1>17, ClearEffect DEF AtRun
  <2>2. \A r \in runs' : r \in index.ids \/ r \in dirs
    BY <2>1 DEF HasDone
  <2> QED
    BY <1>8, <2>1, <2>2
<1>18. CASE clearOnly(p) \/ markActive(p) \/ FlagFails(p)
  BY <1>18, EndsEffect, IdleIs DEF Clean
<1>19. CASE QueryFails(p)
  BY <1>19, FailEffect DEF Clean
<1> QED
  BY <1>9, <1>10, <1>11, <1>12, <1>13, <1>14, <1>15, <1>16, <1>17, <1>18, <1>19
     DEF PassMoves, PassStep

(* Nothing of what the clean passes have done is undone. *)
LEMMA CleanDoneStep ==
  ASSUME TypeOK, StoreSeen, Remembered, LinesCovered, CleanKnows, CleanDone, [Next]_vars
  PROVE  CleanDone'
<1>1. ASSUME NEW p \in Pass, PassMoves(p) PROVE CleanDone'
  <2>0. /\ StoreSame /\ replaced' = replaced /\ torn \subseteq torn'
        /\ \A q \in Pass : q # p => pass'[q] = pass[q]
    BY <1>1, PassSeen DEF Moved
  <2>1. SUFFICES ASSUME NEW c \in Pass, Clean(pass'[c])
                 PROVE  HasDone(pass[c])'
    BY DEF CleanDone, Clean
  <2>2. CASE c # p
    <3>1. Clean(pass[c]) /\ HasDone(pass[c])
      BY <2>0, <2>1, <2>2 DEF CleanDone
    <3>2. index \in Index /\ \A q \in Pass : pass[q].pc # "idle" => Knows(pass[q])
      BY <3>1 DEF CleanKnows, TypeOK
    <3>3. Begin(p) \/ Knows(pass[p])
      BY <1>1, <3>2, Querying
    <3>4. Keeps
      BY <1>1, <3>3, KeepsPass
    <3>5. Knows(pass[c])
      BY <3>1, <3>2 DEF Clean
    <3> QED
      BY <2>0, <2>2, <3>1, <3>2, <3>4, <3>5, HasDoneKept
  <2>3. CASE c = p /\ Begin(p)
    <3>1. PICK s \in PassType : WentOn(s, pass'[p]) /\ s.left = index.ids
      BY <2>3, BeginEffect
    <3>2. mounted /\ OnDisk = dirs /\ index' = index /\ dirs' = dirs
      BY <2>0, <2>3, BeginEffect, DiskType DEF StoreSame
    <3>3. PICK t : t = pass'[p]
      OBVIOUS
    <3>4. \A r \in Run : (r \in index.ids /\ r \in dirs) => r \in t.left \/ t.cur = r
      BY <3>1, <3>2, <3>3 DEF WentOn
    <3>5. t.pc \in {"upsert", "select"} /\ (t.pc = "select" => t.left = {})
      BY <3>1, <3>2, <3>3 DEF WentOn
    <3> QED
      BY <2>3, <3>2, <3>3, <3>4, <3>5 DEF HasDone, AtRun
  <2>4. CASE c = p /\ ~Begin(p)
    <3>1. HasDone(pass[p])
      BY <1>1, <2>1, <2>4, CleanBefore DEF CleanDone
    <3> QED
      BY <1>1, <2>1, <2>4, <3>1, HasDonePass
  <2> QED
    BY <2>2, <2>3, <2>4
<1>2. CASE StoreMoves
  BY <1>2, StoreEffect, ChangeEffect DEF CleanDone, Clean
<1>3. CASE Restart
  BY <1>3, RestartEffect, IdleIs DEF CleanDone, Clean
<1>4. CASE UNCHANGED vars
  BY <1>4 DEF CleanDone, Clean, HasDone, RunDone, TasksDone, LinesDone, Has, vars, store, db, history,
              seen
<1> QED
  BY <1>1, <1>2, <1>3, <1>4, Steps

(* When a clean pass ends by itself, the mirror agrees with the store. *)
LEMMA AgreesEnds ==
  ASSUME TypeOK, Remembered, CleanKnows, CleanDone, flagged \subseteq runs,
         NEW p \in Pass, clearOnly(p) \/ markActive(p) \/ FlagFails(p), synced'
  PROVE  Agrees'
<1>1. /\ PassMoves(p) /\ pass'[p] = Idle /\ pass[p].pc \in {"clear", "mark"}
      /\ pass[p].clean /\ Running = {p}
      /\ UNCHANGED <<runs, tasks, events, torn>>
      /\ \/ pass[p].pc = "clear" /\ pass[p].active = None /\ flagged' = {}
         \/ pass[p].pc = "mark" /\ flagged' = flagged \cup ({pass[p].active} \cap runs)
  BY EndsEffect DEF PassMoves, PassStep
<1>2. /\ StoreSame /\ replaced' = replaced /\ \A q \in Pass : q # p => pass'[q] = pass[q]
  BY <1>1, PassSeen DEF Moved
<1>3. \A q \in Pass : pass'[q].pc = "idle"
  <2>1. \A q \in Pass : q # p => pass[q] = Idle
    BY <1>1 DEF Running
  <2> QED
    BY <1>1, <1>2, <2>1, IdleIs
<1>4. HasDone(pass[p]) /\ Knows(pass[p])
  BY <1>1 DEF CleanDone, CleanKnows, Clean
<1>5. pass[p].left = {} /\ pass[p].cur = None /\ \A r \in runs : r \in index.ids \/ r \in dirs
  BY <1>1, <1>4 DEF HasDone, AtRun, Remembered, Remembers
<1>6. \A r \in Run : (r \in index.ids /\ r \in dirs) => RunDone(r)
  BY <1>4, <1>5, SyncAssumption DEF HasDone
<1>7. \A r \in Run : RunDone(r) => RunDone(r)'
  BY <1>1, <1>2 DEF RunDone, TasksDone, LinesDone, Has, StoreSame
<1>8. flagged' = {index.active} \cap runs
  <2>1. pass[p].active = index.active /\ None \notin runs
    BY <1>4, SyncAssumption DEF Knows, TypeOK
  <2>2. pass[p].pc = "mark" => \A r \in flagged : r = index.active
    BY <1>4 DEF HasDone
  <2>3. CASE pass[p].pc = "clear"
    BY <1>1, <2>1, <2>3
  <2>4. CASE pass[p].pc = "mark"
    BY <1>1, <2>1, <2>2, <2>4
  <2> QED
    BY <1>1, <2>3, <2>4
<1> QED
  BY <1>1, <1>2, <1>3, <1>5, <1>6, <1>7, <1>8 DEF Agrees, StoreSame

(* And it does so until something changes. *)
LEMMA AgreesStep ==
  ASSUME TypeOK, StoreSeen, Remembered, CleanKnows, CleanDone, flagged \subseteq runs,
         synced => Agrees, [Next]_vars
  PROVE  synced' => Agrees'
<1>1. ASSUME NEW p \in Pass, PassMoves(p) PROVE synced' => Agrees'
  <2>1. CASE Begin(p)
    BY <2>1, BeginEffect
  <2>2. CASE clearOnly(p) \/ markActive(p) \/ FlagFails(p)
    BY <2>2, AgreesEnds
  <2>3. CASE upsertRun(p) \/ syncTasks(p) \/ reapTasks(p) \/ insertEvents(p)
    <3>1. synced' = synced
      BY <2>3, UpsertEffect, SyncTasksEffect, ReapTasksEffect, InsertEffect
    <3>2. pass[p].pc # "idle"
      BY <2>3, UpsertEffect, SyncTasksEffect, ReapTasksEffect, InsertEffect
    <3> QED
      BY <3>1, <3>2 DEF Agrees
  <2>4. CASE \/ selectRuns(p) \/ deleteTasks(p) \/ deleteEvents(p) \/ deleteRuns(p)
             \/ clearActive(p) \/ QueryFails(p)
    <3>1. synced' = synced
      BY <2>4, SelectEffect, DeleteTasksEffect, DeleteEventsEffect, DeleteRunsEffect, ClearEffect,
         FailEffect
    <3>2. pass[p].pc # "idle"
      BY <2>4, SelectEffect, DeleteTasksEffect, DeleteEventsEffect, DeleteRunsEffect, ClearEffect,
         FailEffect
    <3> QED
      BY <3>1, <3>2 DEF Agrees
  <2> QED
    BY <1>1, <2>1, <2>2, <2>3, <2>4 DEF PassMoves, PassStep
<1>2. CASE StoreMoves
  BY <1>2, StoreEffect, ChangeEffect
<1>3. CASE Restart
  BY <1>3, RestartEffect
<1>4. CASE UNCHANGED vars
  BY <1>4 DEF Agrees, RunDone, TasksDone, LinesDone, Has, vars, store, db, history, seen
<1> QED
  BY <1>1, <1>2, <1>3, <1>4, Steps

-----------------------------------------------------------------------------
(* The invariant, and what follows from it *)

(* The console starts with an empty database. *)
LEMMA InitIInv == Init => IInv
<1> SUFFICES ASSUME Init PROVE IInv
  OBVIOUS
<1>0. /\ dirs \subseteq Run /\ index = [ids |-> dirs, active |-> None]
      /\ mounted = TRUE /\ runs = {} /\ flagged = {} /\ tasks = {} /\ queue = <<>>
      /\ offset = [r \in Run |-> 0] /\ pass = [p \in Pass |-> Idle]
      /\ overlapped = FALSE /\ restarted = FALSE /\ replaced = {} /\ torn = {} /\ synced = FALSE
      /\ absent = Run \ dirs /\ unlisted = Run \ index.ids
      /\ unmounted = FALSE /\ dropped = {}
  BY DEF Init
<1>1. PICK e \in Seq(1..MaxLines) : e = <<>>
  BY EmptySeq
<1>2. events = [r \in Run |-> e] /\ \A r \in Run : events[r] = <<>>
  BY <1>1 DEF Init
<1>3. PICK planned \in {{}, dirs} :
        /\ plan = [r \in Run |-> IF r \in planned THEN [keys |-> Key, kind |-> "sound"] ELSE NoPlan]
        /\ size = [r \in Run |-> IF r \in planned THEN 2 ELSE 0]
  BY DEF Init
<1>4. [keys |-> Key, kind |-> "sound"] \in Plan
  BY DEF Plan
<1>5. plan \in [Run -> Plan]
  BY <1>3, <1>4, NothingYet
<1>6. \A p \in Pass : pass[p] = Idle
  BY <1>0
<1>7. size \in [Run -> 0..(2 * MaxLines)]
  <2>1. 0 \in 0..(2 * MaxLines) /\ 2 \in 0..(2 * MaxLines)
    BY SyncAssumption
  <2> QED
    BY <1>3, <2>1
<1>8. TypeOK
  <2>1. Idle \in PassType
    BY NothingYet, SyncAssumption DEF Idle, PassType, Pc
  <2>2. index \in Index
    BY <1>0 DEF Index
  <2>3. queue \in Seq(Pass)
    BY <1>0, EmptySeq
  <2>4. offset \in [Run -> 0..(2 * MaxLines)]
    BY <1>0, SyncAssumption
  <2>5. events \in [Run -> Seq(1..MaxLines)]
    BY <1>2
  <2>6. pass \in [Pass -> PassType]
    BY <1>0, <2>1
  <2>7. tasks \subseteq Run \X Key /\ runs \cup flagged \subseteq Run /\ mounted \in BOOLEAN
    BY <1>0
  <2> QED
    BY <1>0, <1>5, <1>7, <2>2, <2>3, <2>4, <2>5, <2>6, <2>7 DEF TypeOK
<1>9. StoreSeen
  <2>1. \A r \in Run, k \in Key : plan[r].kind = "unreadable" \/ k \in plan[r].keys
    BY <1>3 DEF NoPlan
  <2> QED
    BY <1>0, <2>1 DEF StoreSeen
<1>10. Remembered
  <2>1. Idle.from <= Idle.to
    BY DEF Idle
  <2> QED
    BY <1>6, <2>1, IdleIs DEF Remembered, Remembers, AtRun
<1>11. Alone /\ RowsBacked
  BY <1>0, <1>2, <1>6, IdleIs DEF Alone, RowsBacked, Backed
<1>12. \A r \in Run : offset[r] = 0 /\ Lines(offset[r]) = 0 /\ size[r] \in Nat /\ 0 <= size[r]
  BY <1>0, <1>7, SyncAssumption DEF Lines
<1>13. LinesCovered
  <2>1. \A r \in Run : Has(r, Lines(offset[r]))
    BY <1>12 DEF Has
  <2> QED
    BY <1>6, <1>12, <2>1, IdleIs DEF LinesCovered, Covered, Inserting
<1>14. LinesOrdered
  <2>1. \A r \in Run : Len(events[r]) = 0 /\ events[r] = Segment(0, Len(events[r]))
    BY <1>2, SegmentEmpty
  <2>2. \A r \in Run : offset[r] = 2 * Len(events[r])
    BY <1>12, <2>1
  <2> QED
    BY <1>6, <2>1, <2>2, IdleIs DEF LinesOrdered, Ordered
<1>15. CleanKnows /\ CleanDone
  BY <1>6, IdleIs DEF CleanKnows, CleanDone, Clean
<1> QED
  BY <1>0, <1>8, <1>9, <1>10, <1>11, <1>13, <1>14, <1>15 DEF IInv

(* Every step of the passes, of the store and of the console keeps it. *)
LEMMA StepIInv == IInv /\ [Next]_vars => IInv'
<1> SUFFICES ASSUME IInv, [Next]_vars PROVE IInv'
  OBVIOUS
<1>0. /\ TypeOK /\ StoreSeen /\ Remembered /\ flagged \subseteq runs /\ Alone /\ RowsBacked
      /\ LinesOrdered /\ LinesCovered /\ CleanKnows /\ CleanDone /\ (synced => Agrees)
  BY DEF IInv
<1>1. TypeOK'
  <2>1. CASE Restart
    BY <1>0, <2>1, RestartEffect DEF TypeOK, StoreSame
  <2>2. CASE UNCHANGED vars
    BY <1>0, <2>2 DEF TypeOK, vars, store, db
  <2> QED
    BY <1>0, <2>1, <2>2, TypePass, StoreEffect, Steps
<1>2. StoreSeen' /\ Remembered'
  BY <1>0, StoreSeenStep, RememberedStep
<1>3. flagged' \subseteq runs' /\ Alone' /\ RowsBacked'
  BY <1>0, FlagsStep, AloneStep, RowsStep
<1>4. LinesOrdered' /\ LinesCovered'
  BY <1>0, OrderedStep, CoveredStep
<1>5. CleanKnows' /\ CleanDone' /\ (synced' => Agrees')
  BY <1>0, CleanKnowsStep, CleanDoneStep, AgreesStep
<1> QED
  BY <1>1, <1>2, <1>3, <1>4, <1>5 DEF IInv

(* The invariant holds throughout: what the passes remember, when they     *)
(* overlap and when they do not, and what a pass over a still store has    *)
(* done.                                                                   *)
THEOREM Invariance == Spec => []IInv
<1>1. Init => IInv
  BY InitIInv
<1>2. IInv /\ [Next]_vars => IInv'
  BY StepIInv
<1> QED
  BY <1>1, <1>2, PTL DEF Spec

(* Every variable has its type throughout, the queue of queries included.  *)
THEOREM TypeCorrect == Spec => []TypeOK
<1>1. IInv => TypeOK
  BY DEF IInv
<1> QED
  BY <1>1, Invariance, PTL

(* Passes that do not overlap mirror each line of a log once and in order  *)
(* (insertEvents moves the offset only when the lines are in), and leave   *)
(* no task or event without its run (reapRuns deletes the run last).       *)
THEOREM EventsTheorem == Spec => []EventsInOrder
<1>1. IInv => EventsInOrder
  <2> SUFFICES ASSUME IInv, ~overlapped
               PROVE  /\ ~restarted => \A r \in Run \ (replaced \cup torn) :
                                         events[r] = Segment(0, Len(events[r]))
                      /\ Running = {} => \A r \in Run \ runs :
                                         events[r] = <<>> /\ ~\E row \in tasks : row[1] = r
    BY DEF EventsInOrder
  <2>1. ~restarted => \A r \in Run \ (replaced \cup torn) : events[r] = Segment(0, Len(events[r]))
    BY DEF IInv, LinesOrdered, Ordered
  <2>2. \A r \in Run \ runs : events[r] = <<>> /\ ~\E row \in tasks : row[1] = r
    BY DEF IInv, RowsBacked
  <2> QED
    BY <2>1, <2>2
<1> QED
  BY <1>1, Invariance, PTL

(* A pass that has seen a still store through leaves the mirror of it:     *)
(* whatever other passes began meanwhile, runs, tasks and the active flag  *)
(* are those of the store, and every complete line of the logs is there.   *)
THEOREM MirrorTheorem == Spec => []MirrorAgrees
<1>1. IInv => MirrorAgrees
  <2> SUFFICES ASSUME IInv, synced
               PROVE  /\ Mirrored \subseteq runs
                      /\ runs \subseteq index.ids \cup dirs
                      /\ \A r \in Mirrored : plan[r].kind = "sound" =>
                           {row \in tasks : row[1] = r} = {r} \X plan[r].keys
                      /\ flagged = {index.active} \cap runs
                      /\ \A r \in Mirrored \ (replaced \cup torn) :
                           \A i \in 1..Lines(size[r]) : \E j \in DOMAIN events[r] : events[r][j] = i
    BY DEF MirrorAgrees, IInv
  <2>0. TypeOK /\ Agrees
    BY DEF IInv
  <2>1. \A r \in Mirrored : r \in Run /\ RunDone(r)
    BY <2>0 DEF Mirrored, Agrees, TypeOK
  <2>2. Mirrored \subseteq runs
    BY <2>1 DEF RunDone
  <2>3. ASSUME NEW r \in Mirrored, plan[r].kind = "sound"
        PROVE  {row \in tasks : row[1] = r} = {r} \X plan[r].keys
    <3>1. \A k \in Key : <<r, k>> \in tasks <=> k \in plan[r].keys
      BY <2>1, <2>3 DEF RunDone, TasksDone
    <3>2. tasks \subseteq Run \X Key /\ plan[r].keys \subseteq Key
      BY <2>0, <2>1 DEF TypeOK, Plan
    <3>3. \A row \in tasks : row[1] = r => row \in {r} \X plan[r].keys
      <4> SUFFICES ASSUME NEW row \in tasks, row[1] = r PROVE row \in {r} \X plan[r].keys
        OBVIOUS
      <4>1. row = <<r, row[2]>> /\ row[2] \in Key
        BY <3>2
      <4> QED
        BY <3>1, <4>1
    <3>4. \A row \in {r} \X plan[r].keys : row \in tasks /\ row[1] = r
      BY <3>1, <3>2
    <3> QED
      BY <3>3, <3>4
  <2>4. runs \subseteq index.ids \cup dirs /\ flagged = {index.active} \cap runs
    BY <2>0 DEF Agrees
  <2>5. \A r \in Mirrored \ (replaced \cup torn) :
          \A i \in 1..Lines(size[r]) : \E j \in DOMAIN events[r] : events[r][j] = i
    BY <2>1 DEF RunDone, LinesDone, Has
  <2> QED
    BY <2>2, <2>3, <2>4, <2>5
<1> QED
  BY <1>1, Invariance, PTL

KeptStep ==
  /\ runs \cap AlwaysThere \subseteq runs'
  /\ \A row \in tasks \ dropped : row[1] \in AlwaysThere => row \in tasks'

(* A source that cannot be read never looks like an empty one: reapRuns    *)
(* and reapTasks delete no run that was always there and no task that no   *)
(* readable plan has been without, whatever overlaps, fails or goes away.  *)
THEOREM RowsTheorem == Spec => RealRowsKept
<1>1. IInv /\ [Next]_vars => [KeptStep]_vars
  <2> SUFFICES ASSUME IInv, [Next]_vars PROVE KeptStep \/ UNCHANGED vars
    BY DEF KeptStep
  <2>0. TypeOK /\ StoreSeen /\ Remembered /\ tasks \subseteq Run \X Key
    BY DEF IInv, TypeOK
  <2>1. ASSUME NEW p \in Pass, PassMoves(p) PROVE KeptStep
    <3>0. Remembers(pass[p]) /\ \A r \in pass[p].stale : r \notin AlwaysThere
      BY <2>0 DEF Remembered, Remembers, AlwaysThere, Gone
    <3>1. CASE Begin(p) \/ upsertRun(p) \/ insertEvents(p) \/ selectRuns(p) \/ clearActive(p)
      BY <3>1, <2>0, BeginEffect, UpsertEffect, InsertEffect, SelectEffect, ClearEffect DEF KeptStep
    <3>2. CASE syncTasks(p)
      BY <3>2, <2>0, SyncTasksEffect DEF KeptStep
    <3>3. CASE reapTasks(p)
      <4>1. /\ tasks' = {row \in tasks : row[1] = pass[p].cur => row[2] \in pass[p].plan.keys}
            /\ runs' = runs /\ pass[p].pc = "reapTasks"
        BY <2>0, <3>3, ReapTasksEffect
      <4>2. \A k \in Key : k \notin pass[p].plan.keys => <<pass[p].cur, k>> \in dropped
        BY <3>0, <4>1 DEF Remembers
      <4>3. \A row \in tasks \ dropped : row \in tasks'
        <5> SUFFICES ASSUME NEW row \in tasks, row \notin dropped, row[1] = pass[p].cur
                     PROVE  row[2] \in pass[p].plan.keys
          BY <4>1
        <5>1. row = <<pass[p].cur, row[2]>> /\ row[2] \in Key
          BY <2>0
        <5> QED
          BY <4>2, <5>1
      <4> QED
        BY <4>1, <4>3 DEF KeptStep
    <3>4. CASE deleteTasks(p)
      <4>1. tasks' = {row \in tasks : row[1] \notin pass[p].stale} /\ runs' = runs
        BY <2>0, <3>4, DeleteTasksEffect
      <4> QED
        BY <3>0, <4>1 DEF KeptStep
    <3>5. CASE deleteEvents(p) \/ deleteRuns(p)
      BY <3>0, <3>5, <2>0, DeleteEventsEffect, DeleteRunsEffect DEF KeptStep
    <3>6. CASE clearOnly(p) \/ markActive(p) \/ FlagFails(p) \/ QueryFails(p)
      BY <3>6, <2>0, EndsEffect, FailEffect DEF KeptStep
    <3> QED
      BY <2>1, <3>1, <3>2, <3>3, <3>4, <3>5, <3>6 DEF PassMoves, PassStep
  <2>2. CASE StoreMoves
    BY <2>0, <2>2, StoreEffect, ChangeEffect DEF KeptStep
  <2>3. CASE Restart
    BY <2>0, <2>3, RestartEffect DEF KeptStep
  <2> QED
    BY <2>1, <2>2, <2>3, Steps
<1>2. Spec => [][KeptStep]_vars
  BY <1>1, Invariance, PTL DEF Spec
<1> QED
  BY <1>2 DEF RealRowsKept, KeptStep

=============================================================================
