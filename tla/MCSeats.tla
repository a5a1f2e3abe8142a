------------------------------- MODULE MCSeats -------------------------------
(* The instance of Seats that TLC checks.                                  *)
EXTENDS Seats, TLC

SeatsSymmetry == Permutations(JobId) \cup Permutations(Human) \cup Permutations(Team)
=============================================================================
