------------------------------ MODULE Registry ------------------------------
(***************************************************************************)
(* What the writers of index.json promise together (scripts/_log-event.mjs,*)
(* console/scripts/backfill-parents.mjs, fixture-sessions.mjs): each of    *)
(* them changes the registry of the sessions in one indivisible step, and  *)
(* only in its own respect.                                                *)
(*                                                                         *)
(* The promise can become void, and from then on an update may come out as *)
(* any other.  Even then a registry that cannot be trusted stays as it is, *)
(* and one that can does not become untrustworthy.                         *)
(***************************************************************************)
CONSTANTS
  Session, Status, Parent,
  Fixture,         \* the sessions the fixture tool makes and removes
  OldStatus, NoParent,     \* what it records of them
  Missing,         \* the parents on record that backfill may replace
  Desired,         \* ... and by what
  Absent, Corrupt

VARIABLES
  entries,         \* what is on record of each session
  void             \* whether the promise has become void

vars == <<entries, void>>

Entry == [status : Status \cup {OldStatus}, parent : Parent]
Index == UNION {[known -> Entry] : known \in SUBSET Session}

Init == entries \in {Absent, Corrupt} \cup Index /\ void = FALSE

(* No registry is one without sessions. *)
Known == IF entries = Absent THEN <<>> ELSE entries

SetStatus(s, st) ==
  /\ entries # Corrupt
  /\ entries' = [t \in DOMAIN Known \cup {s} |->
       IF t # s THEN Known[t]
       ELSE [status |-> st, parent |-> IF s \in DOMAIN Known THEN Known[s].parent ELSE NoParent]]

Fill(S) ==
  /\ entries \notin {Absent, Corrupt}
  /\ S # {} /\ \A s \in S : s \in DOMAIN entries /\ entries[s].parent \in Missing
  /\ entries' = [s \in DOMAIN entries |->
       IF s \in S THEN [entries[s] EXCEPT !.parent = Desired] ELSE entries[s]]

CreateFixtures ==
  /\ entries # Corrupt
  /\ entries' = [s \in DOMAIN Known \cup Fixture |->
       IF s \in Fixture THEN [status |-> OldStatus, parent |-> NoParent] ELSE Known[s]]

CleanFixtures ==
  /\ entries \notin {Absent, Corrupt}
  /\ entries' = [s \in DOMAIN entries \ Fixture |-> entries[s]]

(* Nothing holds any more but that an index is written over an index. *)
Lose ==
  /\ void
  /\ entries # Corrupt
  /\ entries' \in Index

Update ==
  \/ \E s \in Session, st \in Status : SetStatus(s, st)
  \/ \E S \in SUBSET Session : Fill(S)
  \/ CreateFixtures \/ CleanFixtures
  \/ Lose

Next == Update /\ void' \in {void, TRUE}

Spec == Init /\ [][Next]_vars

=============================================================================
