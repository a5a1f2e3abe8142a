----------------------------- MODULE GameParity -----------------------------
(***************************************************************************)
(* The live game (Lua scripts, module Game) and the engine that mirrors it *)
(* (module RevealEngine) side by side: what bots/harness/parity.ts samples *)
(* with seeded games.                                                      *)
(***************************************************************************)
EXTENDS Game

Engine == INSTANCE RevealEngine WITH Tokens <- TimerTokens

\* The game as the engine keeps it.  It has no pause, and returns an end
\* reason instead of storing it.
Seen ==
  [gameMode |-> gameMode, board |-> board, revealedBy |-> revealedBy,
   currentTurn |-> currentTurn, score |-> score, currentClue |-> currentClue,
   guessesUsed |-> guessesUsed, guessesAllowed |-> guessesAllowed,
   gameOver |-> gameOver, winner |-> winner, greenFound |-> greenFound,
   timerTokens |-> timerTokens]

\* The live game turned card c over.
TurnedOver(c) == revealedBy[c] = NoTeam /\ revealedBy'[c] # NoTeam

\* Live game and engine agree step by step, in every mode: each card the live
\* game turns over leaves the scores, turn, clue, guesses, tokens, winner and
\* reason of the end that revealEngine.ts computes, and so do new boards, clues
\* and handed over turns (createEngineGame, applyEngineClue, applyEngineEndTurn).
EngineAgrees ==
  [][/\ \A c \in Card : TurnedOver(c) =>
          /\ Engine!MayReveal(Seen, c)
          /\ Seen' = Engine!ApplyEngineReveal(Seen, c).game
          /\ gameOver' => endReason' = Engine!ApplyEngineReveal(Seen, c).endReason
     /\ ~Live /\ Live' =>
          Seen' = Engine!CreateEngineGame(gameMode', board')
     /\ Live /\ Live' /\ currentClue = NoClue /\ currentClue' # NoClue =>
          Seen' = Engine!ApplyEngineClue(Seen, currentTurn, currentClue'.number)
     /\ Live /\ Live' /\ revealedBy' = revealedBy /\ currentTurn' # currentTurn =>
          Seen' = Engine!ApplyEngineEndTurn(Seen)]_vars
=============================================================================
