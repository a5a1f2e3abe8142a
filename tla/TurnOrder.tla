----------------------------- MODULE TurnOrder -----------------------------
(***************************************************************************)
(* What every client and bot relies on about a game, without its board:    *)
(* turns alternate, a team guesses only between its own clue and the end   *)
(* of its turn, a game ends once.  Game implements it.                     *)
(***************************************************************************)
CONSTANT Team

VARIABLES
  phase,    \* "idle" no game, "clue" waiting for one, "guess", "over"
  turn      \* the team on turn

tvars == <<phase, turn>>

Phase == {"idle", "clue", "guess", "over"}

TOInit == phase = "idle" /\ turn \in Team

\* A game starts only when none is in progress.
Start == phase \in {"idle", "over"} /\ phase' = "clue" /\ turn' \in Team

GiveClue == phase = "clue" /\ phase' = "guess" /\ UNCHANGED turn

\* The turn goes to the other team, which must start with a clue of its own.
Pass ==
  /\ phase \in {"clue", "guess"}
  /\ phase' = "clue"
  /\ turn' \in Team \ {turn}

\* A guess (or a forfeit) ends the game; in duet the guess that makes the win
\* unreachable has already handed the turn over.
Finish ==
  /\ phase \in {"clue", "guess"}
  /\ phase' = "over"
  /\ turn' = turn \/ (phase = "guess" /\ turn' \in Team)

Close == phase \in {"clue", "guess", "over"} /\ phase' = "idle" /\ turn' \in Team

TONext == Start \/ GiveClue \/ Pass \/ Finish \/ Close

TOSpec == TOInit /\ [][TONext]_tvars
=============================================================================
