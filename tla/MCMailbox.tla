------------------------------ MODULE MCMailbox ------------------------------
(* Mailbox for TLC: interchangeable commands, requests and messages of the   *)
(* same origin.                                                              *)
EXTENDS Mailbox, TLC

Symmetry == Permutations(Replier) \cup Permutations(Reader)
              \cup Permutations(Posted) \cup Permutations(Message \ Posted)

=============================================================================
