----------------------------- MODULE MCLogEvent -----------------------------
(* LogEvent for TLC: interchangeable callers and sessions. *)
EXTENDS LogEvent, TLC

Symmetry == Permutations(Caller) \cup Permutations(Session)

=============================================================================
