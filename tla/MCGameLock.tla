----------------------------- MODULE MCGameLock -----------------------------
(* The instance of GameLock that TLC checks.                               *)
EXTENDS GameLock, TLC

CallerSymmetry == Permutations(Caller)
=============================================================================
