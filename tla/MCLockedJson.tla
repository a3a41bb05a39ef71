---------------------------- MODULE MCLockedJson ----------------------------
(* LockedJson for TLC: the processes are interchangeable model values. *)
EXTENDS LockedJson, TLC

Symmetry == Permutations(Proc)

=============================================================================
