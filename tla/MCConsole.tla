----------------------------- MODULE MCConsole -----------------------------
(* Console for TLC: interchangeable requests, and consoles that are all    *)
(* told to bind the first port.                                            *)
EXTENDS Console, TLC

FirstPort == [c \in Console |-> 1]

SomeTables == <<"tasks">>

Symmetry == Permutations(Console) \cup Permutations(Request)

=============================================================================
