----------------------------- MODULE MCTurnTimer -----------------------------
(* The instances of TurnTimer that TLC checks.                             *)
EXTENDS TurnTimer, TLC

JobSymmetry == Permutations(JobId)
=============================================================================
