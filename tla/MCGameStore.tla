---------------------------- MODULE MCGameStore ----------------------------
(* The instance of GameStore that TLC checks.                              *)
EXTENDS GameStore
=============================================================================
