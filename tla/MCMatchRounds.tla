---------------------------- MODULE MCMatchRounds ----------------------------
(* The instance of MatchRounds that TLC checks.                            *)
EXTENDS MatchRounds

MCCardPoints == {-1, 2}
=============================================================================
