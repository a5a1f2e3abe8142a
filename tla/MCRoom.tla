------------------------------- MODULE MCRoom -------------------------------
(* The instances of Room that TLC checks.                                  *)
EXTENDS Room, TLC

RoomSymmetry == Permutations(JobId) \cup Permutations(Human)
=============================================================================
