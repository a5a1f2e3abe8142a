----------------------------- MODULE StoredGame -----------------------------
(***************************************************************************)
(* What every other module takes for granted about a stored game: an       *)
(* operation reads the value and writes it back in one step.  GameStore    *)
(* implements it where the WATCH of a transaction is not disturbed.        *)
(***************************************************************************)
EXTENDS Naturals

CONSTANT Room

VARIABLE game    \* by room: which game it is, its stateVersion, gameOver

Game == [id : Nat, version : Nat, over : BOOLEAN]

SGInit == game = [r \in Room |-> [id |-> 0, version |-> 0, over |-> TRUE]]

\* A mutation of a game in progress, which it may end.
Play(r) ==
  /\ ~game[r].over
  /\ \E o \in BOOLEAN :
       game' = [game EXCEPT ![r].version = @ + 1, ![r].over = o]

\* finalizeMatchRound and resumeGame also change a game that is over.
Amend(r) == game' = [game EXCEPT ![r].version = @ + 1]

\* A new game replaces one that is over.
Replace(r) ==
  /\ game[r].over
  /\ game' = [game EXCEPT ![r] = [id |-> @.id + 1, version |-> 1, over |-> FALSE]]

SGNext == \E r \in Room : Play(r) \/ Amend(r) \/ Replace(r)

SGSpec == SGInit /\ [][SGNext]_game
=============================================================================
