------------------------------ MODULE MCViews ------------------------------
(* Views for TLC: short lines, small chunks, and two small plans.          *)
EXTENDS Views

Pending(wave) == [wave |-> wave, status |-> "pending"]

MCPlans == {<<Pending(1), Pending(2)>>, <<Pending(Null), Pending(2), Pending(2)>>}

=============================================================================
