---------------------------- MODULE RevealEngine ----------------------------
(***************************************************************************)
(* The rules of the game a second time: the in-memory engine that bots are *)
(* trained on (bots/engine.ts over services/game/revealEngine.ts), which   *)
(* shares no code with the Lua scripts of the live game.  A game is a      *)
(* record; an operation takes one game to the next.                        *)
(***************************************************************************)
EXTENDS GameRules

CONSTANTS Tokens,    \* DUET_BOARD_CONFIG.timerTokens
          NoClue     \* null in game.currentClue

Result(g, why) == [game |-> g, endReason |-> why]
NoEnd == "none"

Duet(g) == g.gameMode = "duet"

CreateEngineGame(m, b) ==
  [gameMode |-> m, board |-> b, revealedBy |-> [c \in Card |-> NoTeam],
   currentTurn |-> b.firstTeam, score |-> [t \in Team |-> 0],
   currentClue |-> NoClue, guessesUsed |-> 0, guessesAllowed |-> 0,
   gameOver |-> FALSE, winner |-> NoTeam, greenFound |-> 0,
   timerTokens |-> IF m = "duet" THEN Tokens ELSE 0]

ClampClueNumber(n) == IF n < -1 THEN -1 ELSE IF n > 9 THEN 9 ELSE n

ApplyEngineClue(g, t, n) ==
  [g EXCEPT !.currentClue = [team |-> t, number |-> ClampClueNumber(n)],
            !.guessesUsed = 0,
            !.guessesAllowed = IF ClampClueNumber(n) >= 1
                               THEN ClampClueNumber(n) + 1 ELSE 0]

\* validateRevealPreconditions.  The engine knows no pause.
MayReveal(g, c) ==
  /\ ~g.gameOver
  /\ g.currentClue # NoClue
  /\ g.guessesAllowed = 0 \/ g.guessesUsed < g.guessesAllowed
  /\ g.revealedBy[c] = NoTeam

CardFor(g, c) == IF Duet(g) /\ g.currentTurn = "blue" THEN g.board.duetTypes[c]
                                                      ELSE g.board.types[c]

\* A duet agent scores for the side that found it, a classic one for its colour.
ExecuteCardReveal(g, c) ==
  LET k == CardFor(g, c)
      found == k \in Team
      scorer == IF Duet(g) THEN g.currentTurn ELSE k
  IN [g EXCEPT !.revealedBy[c] = g.currentTurn,
               !.guessesUsed = @ + 1,
               !.score = IF found THEN [g.score EXCEPT ![scorer] = @ + 1] ELSE g.score,
               !.greenFound = IF found /\ Duet(g) THEN g.greenFound + 1 ELSE g.greenFound]

Switched(g) ==
  [g EXCEPT !.currentTurn = OtherTeam(@), !.currentClue = NoClue,
            !.guessesUsed = 0, !.guessesAllowed = 0]

Won(g, w) == [g EXCEPT !.gameOver = TRUE, !.winner = w]

OutOfGuesses(g) == g.guessesAllowed > 0 /\ g.guessesUsed >= g.guessesAllowed

TotalOf(g, t) == Cardinality(CardsOf(g.board.types, t))

IsDuetWinUnreachable(g) ==
  g.greenFound + Cardinality({c \in Greens(g.board) : g.revealedBy[c] = NoTeam})
    < Cardinality(Greens(g.board))

\* The classic outcome: assassin, then red's cards, then blue's, then the turn.
ClassicOutcome(g, k, t) ==
  CASE k = "assassin" -> Result(Won(g, OtherTeam(t)), "assassin")
    [] k # "assassin" /\ g.score["red"] >= TotalOf(g, "red") ->
         Result(Won(g, "red"), "completed")
    [] /\ k # "assassin" /\ g.score["red"] < TotalOf(g, "red")
       /\ g.score["blue"] >= TotalOf(g, "blue") -> Result(Won(g, "blue"), "completed")
    [] OTHER -> Result(IF k # t \/ OutOfGuesses(g) THEN Switched(g) ELSE g, NoEnd)

\* The duet guard runs after the turn was handed over.
Mut_Guarded(g) == Result(g, NoEnd)
Guarded(g) ==
  IF IsDuetWinUnreachable(g) THEN Result(Won(g, NoTeam), "unreachable")
                             ELSE Result(g, NoEnd)

DuetOutcome(g, k) ==
  LET left == IF g.timerTokens > 0 THEN g.timerTokens - 1 ELSE 0
      paid == [g EXCEPT !.timerTokens = left]
  IN CASE k = "assassin" -> Result(Won(g, NoTeam), "assassin")
       [] k # "assassin" /\ g.greenFound >= Cardinality(Greens(g.board)) ->
            Result(Won(g, "red"), "completed")
       [] k = "neutral" /\ g.greenFound < Cardinality(Greens(g.board)) ->
            IF left <= 0 THEN Result(Won(paid, NoTeam), "timerTokens")
                         ELSE Guarded(Switched(paid))
       [] OTHER -> Guarded(IF OutOfGuesses(g) THEN Switched(g) ELSE g)

ApplyEngineReveal(g, c) ==
  LET r == ExecuteCardReveal(g, c)
      k == CardFor(g, c)
  IN IF Duet(g) THEN DuetOutcome(r, k) ELSE ClassicOutcome(r, k, g.currentTurn)

ApplyEngineEndTurn(g) == Switched(g)
=============================================================================
