------------------------------- MODULE MCGame -------------------------------
(* The instance of Game that TLC checks: boards of six cards.              *)
EXTENDS GameParity

MCCard == 1 .. 6

MCClues == {-1, 0, 1, 2}

MCClassicBoards ==
  {[types |-> <<"red", "red", "blue", "neutral", "assassin", "neutral">>,
    duetTypes |-> <<"red", "red", "blue", "neutral", "assassin", "neutral">>,
    firstTeam |-> "red"],
   [types |-> <<"blue", "blue", "red", "neutral", "assassin", "neutral">>,
    duetTypes |-> <<"blue", "blue", "red", "neutral", "assassin", "neutral">>,
    firstTeam |-> "blue"]}

MCDuetBoards ==
  {[types |-> <<"red", "red", "neutral", "assassin", "neutral", "neutral">>,
    duetTypes |-> <<"blue", "neutral", "blue", "neutral", "assassin", "neutral">>,
    firstTeam |-> "blue"]}
=============================================================================
