---------------------------- MODULE AtomicUpdate ----------------------------
(***************************************************************************)
(* What updateJsonAtomic (scripts/_locked-json.cjs) promises its callers:  *)
(* a call either applies its mutation to the current contents of the       *)
(* guarded file in one indivisible step, or leaves the file alone.         *)
(*                                                                         *)
(* The contents are the sequence of the mutations they reflect: any JSON   *)
(* value a mutate function computes is a function of that sequence.  The   *)
(* promise can become void, and nothing is promised from then on.          *)
(***************************************************************************)
EXTENDS Sequences

CONSTANT Proc      \* the calls, one per process

VARIABLES
  value,           \* the mutations the file reflects, oldest first
  outcome,         \* what each call reports: pending, written or unwritten
  void             \* whether the promise has become void

vars == <<value, outcome, void>>

Outcomes == {"pending", "written", "unwritten"}

Init ==
  /\ value = <<>>
  /\ outcome = [p \in Proc |-> "pending"]
  /\ void = FALSE

(* The mutation takes effect on the latest contents. *)
Apply(p) ==
  /\ outcome[p] = "pending"
  /\ value' = Append(value, p)
  /\ outcome' = [outcome EXCEPT ![p] = "written"]
  /\ UNCHANGED void

(* The call times out, skips its write, throws or crashes: nothing changes. *)
Refuse(p) ==
  /\ outcome[p] = "pending"
  /\ outcome' = [outcome EXCEPT ![p] = "unwritten"]
  /\ UNCHANGED <<value, void>>

(* Nothing holds any more. *)
Break ==
  /\ value' \in Seq(Proc)
  /\ outcome' \in [Proc -> Outcomes]
  /\ void' = TRUE

Next == Break \/ \E p \in Proc : Apply(p) \/ Refuse(p)

Spec == Init /\ [][Next]_vars

=============================================================================
