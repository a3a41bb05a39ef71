----------------------------- MODULE MCWaveExec -----------------------------
(* WaveExec for TLC.                                                       *)
(*   t1 and t2 in the first wave, t2 after t1; t3 in the second, after t2  *)
EXTENDS WaveExec, TLC

CONSTANTS t1, t2, t3

TwoWaves  == (t1 :> 1 @@ t2 :> 1 @@ t3 :> 2)
TwoDeps   == (t1 :> {} @@ t2 :> {t1} @@ t3 :> {t2})

Symmetry == Permutations(Command)

=============================================================================
