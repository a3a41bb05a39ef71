---------------------------- MODULE MCIndexTools ----------------------------
(* IndexTools for TLC: interchangeable callers. *)
EXTENDS IndexTools, TLC

Symmetry == Permutations(Caller) \cup Permutations(Tool)

=============================================================================
