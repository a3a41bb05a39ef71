------------------------------- MODULE MCSync -------------------------------
(* Sync for TLC: interchangeable runs, task ids and passes.                *)
EXTENDS Sync, TLC

Symmetry == Permutations(Run) \cup Permutations(Key) \cup Permutations(Pass)

=============================================================================
