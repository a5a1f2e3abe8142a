-------------------------------- MODULE Game --------------------------------
(***************************************************************************)
(* One board of a room (the Redis value room:<code>:game) in each game     *)
(* mode.  Every operation of gameService.ts that changes it is one action: *)
(* reveal, clue and end of turn are single Lua scripts, the others are     *)
(* WATCH/MULTI transactions, so each is atomic on the value.  What a match *)
(* carries from board to board is in MatchRounds.                          *)
(*                                                                         *)
(* revealedBy[c] is the team of the reveal entry for card c in             *)
(* game.history, NoTeam while game.revealed[c] is false.                   *)
(*                                                                         *)
(* A definition Mut_X is X with a plausible bug.  No behaviour uses it: it *)
(* is put in the place of X to see the property fail that should notice.   *)
(***************************************************************************)
EXTENDS GameRules

CONSTANTS
  ClassicBoards,   \* the layouts generateBoardLayout can deal
  DuetBoards,      \* the layouts generateDuetBoard can deal
  Clues,           \* the clue numbers spymasters use
  TimerTokens,     \* DUET_BOARD_CONFIG.timerTokens
  NoClue           \* null in game.currentClue

ASSUME BoardsAssumption ==
  /\ \A b \in ClassicBoards : IsClassicLayout(b)
  /\ \A b \in DuetBoards : IsDuetLayout(b)
ASSUME CluesAssumption == Clues \subseteq ClueNumber
ASSUME TokensAssumption == TimerTokens \in Nat \ {0}

Clue == [team : Team, number : ClueNumber]
ASSUME NoClueAssumption == NoClue \notin Clue

Mode       == {"classic", "match", "duet"}
NoGame     == "none"
NoReason   == "none"
EndReason  == {"assassin", "completed", "timerTokens", "unreachable"}

VARIABLES
  gameMode,        \* NoGame while the key does not exist
  board,           \* types, duetTypes and the first team
  revealedBy,
  currentTurn,
  score,           \* redScore, blueScore
  currentClue,
  guessesUsed,
  guessesAllowed,
  gameOver,
  winner,
  endReason,
  paused,
  greenFound,
  timerTokens

boardVars   == <<gameMode, board>>
turnVars    == <<currentTurn, currentClue, guessesUsed, guessesAllowed>>
outcomeVars == <<gameOver, winner, endReason>>
countVars   == <<revealedBy, score, greenFound, timerTokens>>
vars == <<gameMode, board, revealedBy, currentTurn, score, currentClue,
          guessesUsed, guessesAllowed, gameOver, winner, endReason, paused,
          greenFound, timerTokens>>

Exists   == gameMode # NoGame
Live     == Exists /\ ~gameOver

\* revealCard.lua plays a match board as it plays a classic one.
Competitive == gameMode \in {"classic", "match"}

Revealed == {c \in Card : revealedBy[c] # NoTeam}

\* In duet the blue side reads the other face of the key card.
SeenBy(t, c) == IF gameMode = "duet" /\ t = "blue" THEN board.duetTypes[c]
                                                   ELSE board.types[c]

\* redTotal and blueTotal of a classic game.
Total(t) == Cardinality(CardsOf(board.types, t))

\* Agents found plus agents still hidden from at least one side.
DuetReachable == greenFound + Cardinality(Greens(board) \ Revealed)
GreenTotal    == Cardinality(Greens(board))

-----------------------------------------------------------------------------
(* Creation and deletion of the key                                        *)

\* No game: the components hold the values the first createGame overwrites.
Init ==
  /\ gameMode = NoGame
  /\ board \in ClassicBoards \cup DuetBoards
  /\ revealedBy = [c \in Card |-> NoTeam]
  /\ currentTurn = board.firstTeam
  /\ score = [t \in Team |-> 0]
  /\ currentClue = NoClue
  /\ guessesUsed = 0
  /\ guessesAllowed = 0
  /\ gameOver = FALSE
  /\ winner = NoTeam
  /\ endReason = NoReason
  /\ paused = FALSE
  /\ greenFound = 0
  /\ timerTokens = 0

BoardsOf(m) == IF m = "duet" THEN DuetBoards ELSE ClassicBoards

\* createGame refuses while a game is in progress.
CreateGame(m, b) ==
  /\ ~Live
  /\ b \in BoardsOf(m)
  /\ gameMode' = m
  /\ board' = b
  /\ revealedBy' = [c \in Card |-> NoTeam]
  /\ currentTurn' = b.firstTeam
  /\ score' = [t \in Team |-> 0]
  /\ currentClue' = NoClue
  /\ guessesUsed' = 0
  /\ guessesAllowed' = 0
  /\ gameOver' = FALSE
  /\ winner' = NoTeam
  /\ endReason' = NoReason
  /\ paused' = FALSE
  /\ greenFound' = 0
  /\ timerTokens' = IF m = "duet" THEN TimerTokens ELSE 0

\* cleanupGame, or the key's TTL: whatever the game's state, the key is gone.
CleanupGame ==
  /\ Exists
  /\ gameMode' = NoGame
  /\ revealedBy' = [c \in Card |-> NoTeam]
  /\ currentTurn' = board.firstTeam
  /\ score' = [t \in Team |-> 0]
  /\ currentClue' = NoClue
  /\ guessesUsed' = 0
  /\ guessesAllowed' = 0
  /\ gameOver' = FALSE
  /\ winner' = NoTeam
  /\ endReason' = NoReason
  /\ paused' = FALSE
  /\ greenFound' = 0
  /\ timerTokens' = 0
  /\ UNCHANGED board

-----------------------------------------------------------------------------
(* The pieces of a reveal                                                  *)

Mut_SwitchTurn_Clue ==
  /\ currentTurn' = OtherTeam(currentTurn)
  /\ guessesUsed' = 0
  /\ UNCHANGED <<currentClue, guessesAllowed>>
Mut_SwitchTurn_Guesses ==
  /\ currentTurn' = OtherTeam(currentTurn)
  /\ currentClue' = NoClue
  /\ UNCHANGED <<guessesUsed, guessesAllowed>>
SwitchTurn ==
  /\ currentTurn' = OtherTeam(currentTurn)
  /\ currentClue' = NoClue
  /\ guessesUsed' = 0
  /\ guessesAllowed' = 0

CountGuess ==
  /\ guessesUsed' = guessesUsed + 1
  /\ UNCHANGED <<currentTurn, currentClue, guessesAllowed>>

EndGame(w, why) ==
  /\ gameOver' = TRUE
  /\ winner' = w
  /\ endReason' = why

GoOn == UNCHANGED outcomeVars

\* The duet guard that runs after a reveal which left the game open.
Mut_EndIfUnreachable == GoOn
EndIfUnreachable ==
  IF DuetReachable' < GreenTotal THEN EndGame(NoTeam, "unreachable") ELSE GoOn

\* The turn ends on a card of another kind or with the last guess.
TurnPasses(missed) == missed \/ Exhausted(guessesUsed + 1, guessesAllowed)

\* Classic mode: the card's colour scores, whoever revealed it.
Mut_ClassicScore(t, k) ==
  IF k \in Team THEN [score EXCEPT ![t] = @ + 1] ELSE score
ClassicScore(t, k) ==
  IF k \in Team THEN [score EXCEPT ![k] = @ + 1] ELSE score

\* redScore >= redTotal, blueScore >= blueTotal
Mut_HasAll(s, t) == s[t] + 1 >= Total(t)
HasAll(s, t) == s[t] >= Total(t)

RevealClassic(t, k) ==
  /\ score' = ClassicScore(t, k)
  /\ UNCHANGED <<greenFound, timerTokens>>
  /\ \/ /\ k = "assassin"
        /\ CountGuess /\ EndGame(OtherTeam(t), "assassin")
     \/ \E w \in Team :
          /\ k # "assassin"
          /\ HasAll(score', w)
          /\ w = "blue" => ~HasAll(score', "red")
          /\ CountGuess /\ EndGame(w, "completed")
     \/ /\ k # "assassin"
        /\ \A w \in Team : ~HasAll(score', w)
        /\ IF TurnPasses(k # t) THEN SwitchTurn ELSE CountGuess
        /\ GoOn

\* math.max(timerTokens - 1, 0)
SpendToken(n) == IF n > 0 THEN n - 1 ELSE 0

\* Duet mode: any agent is a find of both, a bystander costs a token, and the
\* game is lost as soon as the remaining agents cannot complete it.
RevealDuet(t, k) ==
  /\ IF k \in Team
     THEN /\ score' = [score EXCEPT ![t] = @ + 1]
          /\ greenFound' = greenFound + 1
     ELSE UNCHANGED <<score, greenFound>>
  /\ \/ /\ k = "assassin"
        /\ CountGuess /\ EndGame(NoTeam, "assassin")
        /\ UNCHANGED timerTokens
     \/ /\ k # "assassin"
        /\ greenFound' >= GreenTotal
        /\ CountGuess /\ EndGame("red", "completed")
        /\ UNCHANGED timerTokens
     \/ /\ k = "neutral"
        /\ greenFound' < GreenTotal
        /\ timerTokens' = SpendToken(timerTokens)
        /\ IF timerTokens' = 0
           THEN CountGuess /\ EndGame(NoTeam, "timerTokens")
           ELSE SwitchTurn /\ EndIfUnreachable
     \/ /\ k \in Team
        /\ greenFound' < GreenTotal
        /\ IF Exhausted(guessesUsed + 1, guessesAllowed) THEN SwitchTurn
                                                         ELSE CountGuess
        /\ EndIfUnreachable
        /\ UNCHANGED timerTokens

-----------------------------------------------------------------------------
(* The operations                                                          *)

\* submitClue: the team on turn, once per turn.
SubmitClue(t, n) ==
  /\ Live /\ ~paused
  /\ currentTurn = t
  /\ currentClue = NoClue
  /\ currentClue' = [team |-> t, number |-> n]
  /\ guessesUsed' = 0
  /\ guessesAllowed' = GuessesFor(n)
  /\ UNCHANGED <<boardVars, countVars, outcomeVars, currentTurn, paused>>

\* revealCard: the team on turn, with a clue and a guess left, a hidden card.
RevealCard(t, c) ==
  /\ Live /\ ~paused
  /\ currentTurn = t
  /\ currentClue # NoClue
  /\ ~Exhausted(guessesUsed, guessesAllowed)
  /\ c \notin Revealed
  /\ UNCHANGED <<boardVars, paused>>
  /\ revealedBy' = [revealedBy EXCEPT ![c] = t]
  /\ \/ gameMode = "duet" /\ RevealDuet(t, SeenBy(t, c))
     \/ Competitive /\ RevealClassic(t, SeenBy(t, c))

\* endTurn: the team on turn, with or without a clue.
EndTurn(t) ==
  /\ Live /\ ~paused
  /\ currentTurn = t
  /\ SwitchTurn
  /\ UNCHANGED <<boardVars, countVars, outcomeVars, paused>>

\* forfeitGame: the other team wins, nobody in duet; no end reason is stored.
ForfeitGame(t) ==
  /\ Live /\ ~paused
  /\ gameOver' = TRUE
  /\ winner' = IF gameMode = "duet" THEN NoTeam ELSE OtherTeam(t)
  /\ UNCHANGED <<boardVars, countVars, turnVars, endReason, paused>>

AbandonGame ==
  /\ Live /\ ~paused
  /\ gameOver' = TRUE
  /\ winner' = NoTeam
  /\ UNCHANGED <<boardVars, countVars, turnVars, endReason, paused>>

PauseGame ==
  /\ Live
  /\ paused' = TRUE
  /\ UNCHANGED <<boardVars, countVars, turnVars, outcomeVars>>

\* resumeGame has no guard but the existence of the game.
ResumeGame ==
  /\ Exists
  /\ paused' = FALSE
  /\ UNCHANGED <<boardVars, countVars, turnVars, outcomeVars>>

Next ==
  \/ \E m \in Mode : \E b \in BoardsOf(m) : CreateGame(m, b)
  \/ CleanupGame
  \/ \E t \in Team, n \in Clues : SubmitClue(t, n)
  \/ \E t \in Team, c \in Card : RevealCard(t, c)
  \/ \E t \in Team : EndTurn(t)
  \/ \E t \in Team : ForfeitGame(t)
  \/ AbandonGame
  \/ PauseGame
  \/ ResumeGame

Spec == Init /\ [][Next]_vars

-----------------------------------------------------------------------------
(* Properties                                                              *)

TypeOK ==
  /\ gameMode \in Mode \cup {NoGame}
  /\ board \in Board
  /\ revealedBy \in [Card -> Team \cup {NoTeam}]
  /\ currentTurn \in Team
  /\ score \in [Team -> Nat]
  /\ currentClue \in Clue \cup {NoClue}
  /\ guessesUsed \in Nat
  /\ guessesAllowed \in Nat
  /\ gameOver \in BOOLEAN
  /\ winner \in Team \cup {NoTeam}
  /\ endReason \in EndReason \cup {NoReason}
  /\ paused \in BOOLEAN
  /\ greenFound \in Nat
  /\ timerTokens \in Nat

\* The revealed cards of colour k on a classic board.
Up(k) == {c \in Revealed : board.types[c] = k}

\* The cards team t turned over and saw as one of the types in K.
Turned(t, K) == {c \in Card : revealedBy[c] = t /\ SeenBy(t, c) \in K}

\* The clue on the table belongs to the team on turn and grants exactly its
\* number of guesses; without a clue nothing is granted and nothing was used.
\* While the game is on, a limited clue has a guess left (revealCard.lua hands
\* the turn over with the last one).
ClueMatchesTurn ==
  /\ currentClue = NoClue => guessesUsed = 0 /\ guessesAllowed = 0
  /\ currentClue # NoClue =>
       /\ currentClue.team = currentTurn
       /\ guessesAllowed = GuessesFor(currentClue.number)
       /\ ~gameOver => ~Exhausted(guessesUsed, guessesAllowed)

\* The counters the scripts increment never drift from the board they count:
\* classic scores count a colour whoever revealed it, duet scores count the
\* agents each side found, tokens count the bystanders turned over.
CountersMatchBoard ==
  /\ Competitive =>
       \A t \in Team : score[t] = Cardinality(Up(t))
  /\ gameMode = "duet" =>
       /\ \A t \in Team : score[t] = Cardinality(Turned(t, Team))
       /\ greenFound = score["red"] + score["blue"]
       /\ timerTokens = TimerTokens - Cardinality(Turned("red", {"neutral"}))
                                    - Cardinality(Turned("blue", {"neutral"}))

\* A game that is still on is undecided: no assassin is up, no team has all its
\* cards, and in duet a token is left and every agent is found or still hidden,
\* so the common win is reachable.  Nothing is recorded as its outcome.
LiveGameIsOpen ==
  Live =>
    /\ winner = NoTeam /\ endReason = NoReason
    /\ \A t \in Team : Turned(t, {"assassin"}) = {}
    /\ Competitive => \A t \in Team : score[t] < Total(t)
    /\ gameMode = "duet" => /\ greenFound < GreenTotal
                            /\ DuetReachable >= GreenTotal
                            /\ timerTokens > 0

\* The stored outcome can be read off the board: "completed" names the one
\* team whose cards are all up, "assassin" has an assassin up and gives a
\* classic game to the team that did not touch it, and duet is won exactly
\* when every agent was found.
OutcomeMatchesBoard ==
  gameOver =>
    /\ Competitive /\ endReason = "completed" =>
         /\ CardsOf(board.types, winner) \subseteq Revealed
         /\ ~(CardsOf(board.types, OtherTeam(winner)) \subseteq Revealed)
    /\ Competitive /\ endReason = "assassin" =>
         Turned(OtherTeam(winner), {"assassin"}) # {}
    /\ gameMode = "duet" =>
         /\ winner = "red" <=> greenFound = GreenTotal
         /\ winner # "blue"
         /\ endReason = "timerTokens" => timerTokens = 0
         /\ endReason = "unreachable" => DuetReachable < GreenTotal

\* A finished game is never paused, so ResumeGame, which does not look at
\* gameOver, cannot change one.
OverIsNotPaused == gameOver => ~paused

\* A finished game does not change any more; only a new key replaces it.
OverIsFinal ==
  [][gameOver => \/ UNCHANGED vars
                 \/ ~gameOver' /\ Revealed' = {} /\ currentClue' = NoClue]_vars

\* While a game is paused the board, the turn and the outcome stand still.
PausedStandsStill ==
  [][paused /\ gameMode' = gameMode =>
       UNCHANGED <<boardVars, countVars, turnVars, outcomeVars>>]_vars

\* The game, seen as its turns: the abstraction of TurnOrder.
Phase == CASE ~Exists                                  -> "idle"
           [] Exists /\ gameOver                       -> "over"
           [] Live /\ currentClue = NoClue             -> "clue"
           [] Live /\ currentClue # NoClue             -> "guess"

Turns == INSTANCE TurnOrder WITH phase <- Phase, turn <- currentTurn

\* Every operation is a step of TurnOrder or changes nothing in it: no turn is
\* skipped or taken twice, no guess happens outside a clue of the same team.
TurnsAlternate == Turns!TOSpec
=============================================================================
