------------------------- MODULE MCEnterpriseWorkers -------------------------
(* EnterpriseWorkers for TLC: model values for the attempts. *)
EXTENDS EnterpriseWorkers, TLC

Symmetry == Permutations(Attempts)
=============================================================================
