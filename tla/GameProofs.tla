----------------------------- MODULE GameProofs -----------------------------
(***************************************************************************)
(* Proofs about Game, for every set of cards, every board and every clue:  *)
(* its invariants, its refinement of TurnOrder, and that the second set of *)
(* rules, RevealEngine, computes the same game.                            *)
(***************************************************************************)
EXTENDS GameParity, FiniteSetTheorems, TLAPS

USE DEF Competitive

-----------------------------------------------------------------------------
(* Type correctness                                                        *)

LEMMA BoardsAreBoards ==
  \A b \in ClassicBoards \cup DuetBoards : b \in Board
BY BoardsAssumption DEF IsClassicLayout, IsDuetLayout

LEMMA OtherTeamType == \A t \in Team : OtherTeam(t) \in Team /\ OtherTeam(t) # t
BY DEF OtherTeam, Team

LEMMA GuessesType == \A n \in ClueNumber : GuessesFor(n) \in Nat
BY DEF GuessesFor, ClueNumber

\* Whatever a reveal does to the turn, the turn keeps its types.
LEMMA TurnType ==
  ASSUME TypeOK, CountGuess \/ SwitchTurn
  PROVE  /\ currentTurn' \in Team /\ currentClue' \in Clue \cup {NoClue}
         /\ guessesUsed' \in Nat /\ guessesAllowed' \in Nat
<1>1. CASE CountGuess
  BY <1>1 DEF TypeOK, CountGuess
<1>2. CASE SwitchTurn
  BY <1>2, OtherTeamType DEF TypeOK, SwitchTurn
<1>3. QED BY <1>1, <1>2

\* What a reveal can record as the outcome.
LEMMA OutcomeType ==
  ASSUME TypeOK,
         \/ GoOn \/ EndIfUnreachable
         \/ \E w \in Team \cup {NoTeam}, why \in EndReason : EndGame(w, why)
  PROVE  /\ gameOver' \in BOOLEAN /\ winner' \in Team \cup {NoTeam}
         /\ endReason' \in EndReason \cup {NoReason}
BY DEF TypeOK, GoOn, EndIfUnreachable, EndGame, EndReason, outcomeVars

LEMMA DuetType ==
  ASSUME TypeOK, NEW t \in Team, NEW k \in CardType, RevealDuet(t, k)
  PROVE  /\ score' \in [Team -> Nat]
         /\ greenFound' \in Nat /\ timerTokens' \in Nat
         /\ CountGuess \/ SwitchTurn
         /\ \/ GoOn \/ EndIfUnreachable
            \/ \E w \in Team \cup {NoTeam}, why \in EndReason : EndGame(w, why)
<1>1. score' \in [Team -> Nat] /\ greenFound' \in Nat
  BY DEF TypeOK, RevealDuet
<1>2. timerTokens' \in Nat
  BY DEF TypeOK, RevealDuet, SpendToken
<1>3. CountGuess \/ SwitchTurn
  BY DEF RevealDuet
<1>4. \/ GoOn \/ EndIfUnreachable
      \/ \E w \in Team \cup {NoTeam}, why \in EndReason : EndGame(w, why)
  BY DEF RevealDuet, EndReason, Team
<1>5. QED BY <1>1, <1>2, <1>3, <1>4

LEMMA ClassicType ==
  ASSUME TypeOK, NEW t \in Team, NEW k \in CardType, RevealClassic(t, k)
  PROVE  /\ score' \in [Team -> Nat]
         /\ greenFound' \in Nat /\ timerTokens' \in Nat
         /\ CountGuess \/ SwitchTurn
         /\ \/ GoOn \/ EndIfUnreachable
            \/ \E w \in Team \cup {NoTeam}, why \in EndReason : EndGame(w, why)
<1>1. score' \in [Team -> Nat] /\ greenFound' \in Nat /\ timerTokens' \in Nat
  BY DEF TypeOK, RevealClassic, ClassicScore
<1>2. CountGuess \/ SwitchTurn
  BY DEF RevealClassic
<1>3. \/ GoOn
      \/ \E w \in Team \cup {NoTeam}, why \in EndReason : EndGame(w, why)
  BY OtherTeamType DEF RevealClassic, EndReason, Team
<1>4. QED BY <1>1, <1>2, <1>3

LEMMA SeenType ==
  ASSUME TypeOK, NEW t \in Team, NEW c \in Card
  PROVE  SeenBy(t, c) \in CardType
BY DEF TypeOK, SeenBy, Board

LEMMA RevealType ==
  ASSUME TypeOK, NEW t \in Team, NEW c \in Card, RevealCard(t, c)
  PROVE  TypeOK'
<1>1. \/ RevealDuet(t, SeenBy(t, c))
      \/ RevealClassic(t, SeenBy(t, c))
  BY DEF RevealCard
<1>2. /\ score' \in [Team -> Nat]
      /\ greenFound' \in Nat /\ timerTokens' \in Nat
      /\ CountGuess \/ SwitchTurn
      /\ \/ GoOn \/ EndIfUnreachable
         \/ \E w \in Team \cup {NoTeam}, why \in EndReason : EndGame(w, why)
  BY <1>1, SeenType, DuetType, ClassicType
<1>3. /\ currentTurn' \in Team /\ currentClue' \in Clue \cup {NoClue}
      /\ guessesUsed' \in Nat /\ guessesAllowed' \in Nat
  BY <1>2, TurnType
<1>4. /\ gameOver' \in BOOLEAN /\ winner' \in Team \cup {NoTeam}
      /\ endReason' \in EndReason \cup {NoReason}
  BY <1>2, OutcomeType
<1>5. QED BY <1>2, <1>3, <1>4 DEF TypeOK, RevealCard, boardVars

LEMMA InitType == Init => TypeOK
<1> SUFFICES ASSUME Init PROVE TypeOK
  OBVIOUS
<1>1. board \in Board
  BY BoardsAreBoards DEF Init
<1>2. board.firstTeam \in Team
  BY <1>1 DEF Board
<1>3. QED
  BY <1>1, <1>2 DEF Init, TypeOK

LEMMA NextType == TypeOK /\ [Next]_vars => TypeOK'
<1> SUFFICES ASSUME TypeOK, [Next]_vars PROVE TypeOK'
  OBVIOUS
<1>1. ASSUME NEW m \in Mode, NEW b \in BoardsOf(m), CreateGame(m, b)
      PROVE  TypeOK'
  <2>1. b \in Board
    BY <1>1, BoardsAreBoards DEF BoardsOf
  <2>2. b.firstTeam \in Team
    BY <2>1 DEF Board
  <2>3. QED
    BY <1>1, <2>1, <2>2, TokensAssumption DEF CreateGame, TypeOK, Mode
<1>2. CASE CleanupGame
  BY <1>2 DEF CleanupGame, TypeOK, Board
<1>3. ASSUME NEW t \in Team, NEW n \in Clues, SubmitClue(t, n)
      PROVE  TypeOK'
  BY <1>3, CluesAssumption, GuessesType
  DEF SubmitClue, TypeOK, Clue, boardVars, countVars, outcomeVars
<1>4. ASSUME NEW t \in Team, NEW c \in Card, RevealCard(t, c)
      PROVE  TypeOK'
  BY <1>4, RevealType
<1>5. ASSUME NEW t \in Team, EndTurn(t)
      PROVE  TypeOK'
  BY <1>5, OtherTeamType
  DEF EndTurn, SwitchTurn, TypeOK, boardVars, countVars, outcomeVars
<1>6. ASSUME NEW t \in Team, ForfeitGame(t)
      PROVE  TypeOK'
  BY <1>6, OtherTeamType
  DEF ForfeitGame, TypeOK, boardVars, countVars, turnVars
<1>7. CASE AbandonGame
  BY <1>7 DEF AbandonGame, TypeOK, boardVars, countVars, turnVars
<1>8. CASE PauseGame
  BY <1>8 DEF PauseGame, TypeOK, boardVars, countVars, turnVars, outcomeVars
<1>9. CASE ResumeGame
  BY <1>9 DEF ResumeGame, TypeOK, boardVars, countVars, turnVars, outcomeVars
<1>10. CASE UNCHANGED vars
  BY <1>10 DEF vars, TypeOK
<1>11. QED
  BY <1>1, <1>2, <1>3, <1>4, <1>5, <1>6, <1>7, <1>8, <1>9, <1>10 DEF Next

\* Every component of the stored game keeps its type, whatever the board.
THEOREM TypeCorrect == Spec => []TypeOK
BY InitType, NextType, PTL DEF Spec
-----------------------------------------------------------------------------
(* The inductive invariant.  TypeOK alone cannot show that the outcome fits *)
(* the board: that needs the counters to be the counts of the board, and    *)
(* that in turn needs a live game to have tokens left (SpendToken stops at  *)
(* zero) and to be undecided before each reveal.                            *)

SafeInv == /\ ClueMatchesTurn
           /\ OverIsNotPaused
           /\ CountersMatchBoard
           /\ LiveGameIsOpen
           /\ OutcomeMatchesBoard

IInv == TypeOK /\ SafeInv

-----------------------------------------------------------------------------
(* Counting cards                                                          *)

LEMMA CountType ==
  \A S \in SUBSET Card : IsFiniteSet(S) /\ Cardinality(S) \in Nat
BY CardAssumption, FS_Subset, FS_CardinalityType

LEMMA CountEmpty == Cardinality({}) = 0
BY FS_EmptySet

LEMMA CountPositive == \A S \in SUBSET Card : S # {} => Cardinality(S) > 0
BY CountType, FS_EmptySet

LEMMA CountAdd ==
  \A S \in SUBSET Card, c \in Card :
     c \notin S => Cardinality(S \cup {c}) = Cardinality(S) + 1
BY CountType, FS_AddElement

LEMMA CountFull ==
  \A S, T \in SUBSET Card :
     S \subseteq T /\ Cardinality(S) >= Cardinality(T) => S = T
<1> SUFFICES ASSUME NEW S \in SUBSET Card, NEW T \in SUBSET Card,
                    S \subseteq T, Cardinality(S) >= Cardinality(T)
             PROVE  S = T
  OBVIOUS
<1>1. IsFiniteSet(T) /\ Cardinality(T) \in Nat /\ Cardinality(S) \in Nat
  BY CountType
<1>2. Cardinality(S) <= Cardinality(T)
  BY <1>1, FS_Subset
<1>3. Cardinality(S) = Cardinality(T)
  BY <1>1, <1>2
<1>4. QED BY <1>1, <1>3, FS_Subset

-----------------------------------------------------------------------------
(* What a reveal does to the sets the counters count                       *)

LEMMA RevealedStep ==
  ASSUME TypeOK, NEW t \in Team, NEW c \in Card, RevealCard(t, c)
  PROVE  /\ Revealed' = Revealed \cup {c}
         /\ c \notin Revealed
         /\ Revealed \subseteq Card
         /\ UNCHANGED boardVars
BY DEF TypeOK, RevealCard, Revealed, Team, NoTeam

LEMMA UpStep ==
  ASSUME TypeOK, NEW t \in Team, NEW c \in Card, RevealCard(t, c), NEW k
  PROVE  /\ c \notin Up(k) /\ Up(k) \subseteq Card
         /\ Up(k)' = IF board.types[c] = k THEN Up(k) \cup {c} ELSE Up(k)
<1>1. Revealed' = Revealed \cup {c} /\ c \notin Revealed /\ Revealed \subseteq Card
      /\ board' = board
  BY RevealedStep DEF boardVars
<1>2. QED BY <1>1 DEF Up

LEMMA TurnedStep ==
  ASSUME TypeOK, NEW t \in Team, NEW c \in Card, RevealCard(t, c),
         NEW u \in Team, NEW K
  PROVE  /\ c \notin Turned(u, K) /\ Turned(u, K) \subseteq Card
         /\ Turned(u, K)' = IF u = t /\ SeenBy(t, c) \in K
                            THEN Turned(u, K) \cup {c} ELSE Turned(u, K)
<1>1. /\ revealedBy' = [revealedBy EXCEPT ![c] = t]
      /\ revealedBy \in [Card -> Team \cup {NoTeam}]
      /\ revealedBy[c] = NoTeam
      /\ gameMode' = gameMode /\ board' = board
  BY DEF RevealCard, TypeOK, Revealed, boardVars
<1>2. NoTeam \notin Team
  BY DEF Team, NoTeam
<1>3. c \notin Turned(u, K) /\ Turned(u, K) \subseteq Card
  BY <1>1, <1>2 DEF Turned
<1>4. \A d \in Card : SeenBy(u, d)' = SeenBy(u, d)
  BY <1>1 DEF SeenBy
<1>5. Turned(u, K)' = {d \in Card : revealedBy'[d] = u /\ SeenBy(u, d) \in K}
  BY <1>4 DEF Turned
<1>6. CASE u = t /\ SeenBy(t, c) \in K
  <2>1. {d \in Card : revealedBy'[d] = u /\ SeenBy(u, d) \in K}
          = Turned(u, K) \cup {c}
    BY <1>1, <1>6 DEF Turned
  <2>2. QED BY <1>3, <1>5, <1>6, <2>1
<1>7. CASE ~(u = t /\ SeenBy(t, c) \in K)
  <2>1. {d \in Card : revealedBy'[d] = u /\ SeenBy(u, d) \in K} = Turned(u, K)
    BY <1>1, <1>2, <1>7 DEF Turned
  <2>2. QED BY <1>3, <1>5, <1>7, <2>1
<1>8. QED BY <1>6, <1>7

-----------------------------------------------------------------------------
(* The counters, action by action                                          *)

\* The operations that leave the board and its counters alone.
Quiet == UNCHANGED <<boardVars, countVars>>

LEMMA NextCases ==
  ASSUME [Next]_vars
  PROVE  \/ \E m \in Mode : \E b \in BoardsOf(m) : CreateGame(m, b)
         \/ CleanupGame
         \/ \E t \in Team, c \in Card : RevealCard(t, c)
         \/ Quiet
BY DEF Next, vars, Quiet, SubmitClue, EndTurn, ForfeitGame, AbandonGame,
       PauseGame, ResumeGame, boardVars, countVars

LEMMA NothingTurned ==
  ASSUME revealedBy = [c \in Card |-> NoTeam]
  PROVE  /\ Revealed = {}
         /\ \A k : Up(k) = {}
         /\ \A u \in Team : \A K : Turned(u, K) = {}
<1>1. NoTeam \notin Team
  BY DEF Team, NoTeam
<1>2. Revealed = {}
  BY DEF Revealed
<1>3. QED BY <1>1, <1>2 DEF Up, Turned

LEMMA ClassicCounters ==
  ASSUME TypeOK, CountersMatchBoard, NEW t \in Team, NEW c \in Card,
         RevealCard(t, c), Competitive
  PROVE  \A u \in Team : score'[u] = Cardinality(Up(u))'
<1> SUFFICES ASSUME NEW u \in Team PROVE score'[u] = Cardinality(Up(u))'
  OBVIOUS
<1>1. score' = ClassicScore(t, board.types[c])
  BY DEF RevealCard, RevealClassic, SeenBy
<1>2. score[u] = Cardinality(Up(u)) /\ score \in [Team -> Nat]
  BY DEF CountersMatchBoard, TypeOK
<1>3. /\ c \notin Up(u) /\ Up(u) \subseteq Card
      /\ Up(u)' = IF board.types[c] = u THEN Up(u) \cup {c} ELSE Up(u)
  BY UpStep
<1>4. CASE board.types[c] = u
  <2>1. score'[u] = score[u] + 1
    BY <1>1, <1>2, <1>4 DEF ClassicScore
  <2>2. Cardinality(Up(u) \cup {c}) = Cardinality(Up(u)) + 1
    BY <1>3, CountAdd
  <2>3. QED BY <1>2, <1>3, <1>4, <2>1, <2>2
<1>5. CASE board.types[c] # u
  <2>1. score'[u] = score[u]
    BY <1>1, <1>2, <1>5 DEF ClassicScore
  <2>2. QED BY <1>2, <1>3, <1>5, <2>1
<1>6. QED BY <1>4, <1>5

\* |Turned(u, K)| grows by one when u is the team that reveals a card in K.
LEMMA TurnedCount ==
  ASSUME TypeOK, NEW t \in Team, NEW c \in Card, RevealCard(t, c),
         NEW u \in Team, NEW K
  PROVE  Cardinality(Turned(u, K))' =
           IF u = t /\ SeenBy(t, c) \in K THEN Cardinality(Turned(u, K)) + 1
                                         ELSE Cardinality(Turned(u, K))
<1>1. /\ c \notin Turned(u, K) /\ Turned(u, K) \subseteq Card
      /\ Turned(u, K)' = IF u = t /\ SeenBy(t, c) \in K
                         THEN Turned(u, K) \cup {c} ELSE Turned(u, K)
  BY TurnedStep
<1>2. Cardinality(Turned(u, K) \cup {c}) = Cardinality(Turned(u, K)) + 1
  BY <1>1, CountAdd
<1>3. QED BY <1>1, <1>2

\* While a duet is on, some agent is still to be found.
LEMMA OpenDuet ==
  ASSUME TypeOK, LiveGameIsOpen, Live, gameMode = "duet"
  PROVE  /\ greenFound < GreenTotal /\ ~(greenFound >= GreenTotal)
         /\ GreenTotal \in Nat /\ greenFound \in Nat
<1>1. Greens(board) \in SUBSET Card
  BY DEF Greens
<1>2. GreenTotal \in Nat
  BY <1>1, CountType DEF GreenTotal
<1>3. QED BY <1>2 DEF LiveGameIsOpen, TypeOK

LEMMA DuetCounters ==
  ASSUME TypeOK, CountersMatchBoard, LiveGameIsOpen,
         NEW t \in Team, NEW c \in Card, RevealCard(t, c), gameMode = "duet"
  PROVE  /\ \A u \in Team : score'[u] = Cardinality(Turned(u, Team))'
         /\ greenFound' = score'["red"] + score'["blue"]
         /\ timerTokens' = TimerTokens
                            - Cardinality(Turned("red", {"neutral"}))'
                            - Cardinality(Turned("blue", {"neutral"}))'
<1> DEFINE k == SeenBy(t, c)
<1>1. RevealDuet(t, k) /\ timerTokens > 0 /\ k \in CardType
  BY SeenType DEF RevealCard, LiveGameIsOpen
<1>2. /\ \A u \in Team : score[u] = Cardinality(Turned(u, Team))
      /\ greenFound = score["red"] + score["blue"]
      /\ timerTokens = TimerTokens - Cardinality(Turned("red", {"neutral"}))
                                   - Cardinality(Turned("blue", {"neutral"}))
      /\ score \in [Team -> Nat] /\ timerTokens \in Nat
  BY DEF CountersMatchBoard, TypeOK
<1>3. \A u \in Team :
        /\ Turned(u, {"neutral"}) \in SUBSET Card
        /\ Cardinality(Turned(u, {"neutral"})) \in Nat
  BY CountType DEF Turned
<1>4. "neutral" \notin Team /\ "red" \in Team /\ "blue" \in Team /\ "red" # "blue"
      /\ \A u \in Team : u = "red" \/ u = "blue"
  BY DEF Team
<1> HIDE DEF k
<1>5. CASE k \in Team
  <2>1. /\ score' = [score EXCEPT ![t] = @ + 1]
        /\ greenFound' = greenFound + 1 /\ timerTokens' = timerTokens
    BY <1>1, <1>4, <1>5 DEF RevealDuet
  <2>2. \A u \in Team :
           Cardinality(Turned(u, Team))' =
             IF u = t THEN Cardinality(Turned(u, Team)) + 1
                      ELSE Cardinality(Turned(u, Team))
    BY <1>5, TurnedCount DEF k
  <2>3. \A u \in Team :
           Cardinality(Turned(u, {"neutral"}))' = Cardinality(Turned(u, {"neutral"}))
    BY <1>4, <1>5, TurnedCount DEF k
  <2>4. \A u \in Team : score'[u] = Cardinality(Turned(u, Team))'
    BY <1>2, <2>1, <2>2
  <2>5. greenFound' = score'["red"] + score'["blue"]
    BY <1>2, <1>4, <2>1
  <2>6. QED BY <1>2, <1>4, <2>1, <2>3, <2>4, <2>5
<1>6. CASE k = "neutral"
  <2>1. UNCHANGED <<score, greenFound>>
    BY <1>1, <1>4, <1>6 DEF RevealDuet
  <2>2. \A u \in Team : Cardinality(Turned(u, Team))' = Cardinality(Turned(u, Team))
    BY <1>4, <1>6, TurnedCount DEF k
  <2>3. \A u \in Team :
           Cardinality(Turned(u, {"neutral"}))' =
             IF u = t THEN Cardinality(Turned(u, {"neutral"})) + 1
                      ELSE Cardinality(Turned(u, {"neutral"}))
    BY <1>4, <1>6, TurnedCount DEF k
  <2>4. ~(greenFound' >= GreenTotal)
    BY <2>1, OpenDuet DEF RevealCard
  <2>5. timerTokens' = SpendToken(timerTokens)
    BY <1>1, <1>4, <1>6, <2>4 DEF RevealDuet
  <2>6. timerTokens' = timerTokens - 1
    BY <1>1, <1>2, <2>5 DEF SpendToken
  <2>7. QED BY <1>2, <1>3, <1>4, <2>1, <2>2, <2>3, <2>6, TokensAssumption
<1>7. CASE k = "assassin"
  <2>1. UNCHANGED <<score, greenFound, timerTokens>> /\ k \notin Team
    BY <1>1, <1>7 DEF RevealDuet, Team
  <2>2. \A u \in Team : Cardinality(Turned(u, Team))' = Cardinality(Turned(u, Team))
    BY <2>1, TurnedCount DEF k
  <2>3. \A u \in Team :
           Cardinality(Turned(u, {"neutral"}))' = Cardinality(Turned(u, {"neutral"}))
    BY <1>7, TurnedCount DEF k
  <2>4. QED BY <1>2, <1>4, <2>1, <2>2, <2>3
<1>8. QED BY <1>1, <1>5, <1>6, <1>7 DEF CardType

LEMMA CreatedBoard ==
  ASSUME NEW m \in Mode, NEW b \in BoardsOf(m), CreateGame(m, b)
  PROVE  /\ Revealed' = {} /\ \A k : Up(k)' = {}
         /\ \A u \in Team : \A K : Turned(u, K)' = {}
<1>1. revealedBy' = [c \in Card |-> NoTeam]
  BY DEF CreateGame
<1>2. NoTeam \notin Team
  BY DEF Team, NoTeam
<1>3. Revealed' = {}
  BY <1>1 DEF Revealed
<1>4. QED BY <1>1, <1>2, <1>3 DEF Up, Turned

LEMMA CountersKept ==
  ASSUME IInv, [Next]_vars
  PROVE  CountersMatchBoard'
<1> USE DEF IInv, SafeInv
<1>1. ASSUME NEW m \in Mode, NEW b \in BoardsOf(m), CreateGame(m, b)
      PROVE  CountersMatchBoard'
  <2>1. /\ \A u \in Team : Cardinality(Up(u))' = 0
        /\ \A u \in Team : \A K : Cardinality(Turned(u, K))' = 0
    BY <1>1, CreatedBoard, CountEmpty
  <2>2. /\ gameMode' = m /\ score' = [t \in Team |-> 0] /\ greenFound' = 0
        /\ m = "duet" => timerTokens' = TimerTokens
    BY <1>1 DEF CreateGame
  <2>3. "red" \in Team /\ "blue" \in Team
    BY DEF Team
  <2>4. QED BY <2>1, <2>2, <2>3, TokensAssumption DEF CountersMatchBoard
<1>2. CASE CleanupGame
  BY <1>2 DEF CleanupGame, CountersMatchBoard, NoGame
<1>3. ASSUME NEW t \in Team, NEW c \in Card, RevealCard(t, c)
      PROVE  CountersMatchBoard'
  <2>1. gameMode' = gameMode
    BY <1>3 DEF RevealCard, boardVars
  <2>2. Competitive => \A u \in Team : score'[u] = Cardinality(Up(u))'
    BY <1>3, ClassicCounters
  <2>3. gameMode = "duet" =>
          /\ \A u \in Team : score'[u] = Cardinality(Turned(u, Team))'
          /\ greenFound' = score'["red"] + score'["blue"]
          /\ timerTokens' = TimerTokens
                             - Cardinality(Turned("red", {"neutral"}))'
                             - Cardinality(Turned("blue", {"neutral"}))'
    BY <1>3, DuetCounters
  <2>4. QED BY <2>1, <2>2, <2>3 DEF CountersMatchBoard
<1>4. CASE Quiet
  BY <1>4 DEF Quiet, boardVars, countVars, CountersMatchBoard, Up, Turned,
              Revealed, SeenBy
<1>5. QED BY <1>1, <1>2, <1>3, <1>4, NextCases

-----------------------------------------------------------------------------
(* The clue and the pause                                                  *)

\* A reveal counts one guess, ends the game or hands the turn over.
LEMMA RevealTurn ==
  ASSUME NEW t \in Team, NEW c \in Card, RevealCard(t, c)
  PROVE  \/ SwitchTurn
         \/ CountGuess /\ gameOver'
         \/ CountGuess /\ ~Exhausted(guessesUsed + 1, guessesAllowed)
<1>1. CASE RevealDuet(t, SeenBy(t, c))
  BY <1>1 DEF RevealDuet, EndGame
<1>2. CASE RevealClassic(t, SeenBy(t, c))
  BY <1>2 DEF RevealClassic, EndGame, TurnPasses
<1>3. QED BY <1>1, <1>2 DEF RevealCard

LEMMA ClueKept ==
  ASSUME IInv, [Next]_vars
  PROVE  ClueMatchesTurn'
<1> USE DEF IInv, SafeInv
<1>1. ASSUME NEW m \in Mode, NEW b \in BoardsOf(m), CreateGame(m, b)
      PROVE  ClueMatchesTurn'
  BY <1>1 DEF CreateGame, ClueMatchesTurn
<1>2. CASE CleanupGame
  BY <1>2 DEF CleanupGame, ClueMatchesTurn
<1>3. ASSUME NEW t \in Team, NEW n \in Clues, SubmitClue(t, n)
      PROVE  ClueMatchesTurn'
  <2>1. [team |-> t, number |-> n] \in Clue /\ n \in ClueNumber
    BY CluesAssumption DEF Clue
  <2>2. [team |-> t, number |-> n] # NoClue
    BY <2>1, NoClueAssumption
  <2>3. ~Exhausted(0, GuessesFor(n))
    BY <2>1 DEF Exhausted, GuessesFor, ClueNumber
  <2>4. QED BY <1>3, <2>2, <2>3 DEF SubmitClue, ClueMatchesTurn
<1>4. ASSUME NEW t \in Team, NEW c \in Card, RevealCard(t, c)
      PROVE  ClueMatchesTurn'
  <2>1. CASE SwitchTurn
    BY <2>1 DEF SwitchTurn, ClueMatchesTurn
  <2>2. CASE CountGuess /\ gameOver'
    BY <1>4, <2>2 DEF CountGuess, ClueMatchesTurn, RevealCard
  <2>3. CASE CountGuess /\ ~Exhausted(guessesUsed + 1, guessesAllowed)
    BY <1>4, <2>3 DEF CountGuess, ClueMatchesTurn, RevealCard
  <2>4. QED BY <1>4, <2>1, <2>2, <2>3, RevealTurn
<1>5. ASSUME NEW t \in Team, EndTurn(t)
      PROVE  ClueMatchesTurn'
  BY <1>5 DEF EndTurn, SwitchTurn, ClueMatchesTurn
<1>6. ASSUME NEW t \in Team, ForfeitGame(t)
      PROVE  ClueMatchesTurn'
  BY <1>6 DEF ForfeitGame, turnVars, ClueMatchesTurn
<1>7. CASE AbandonGame
  BY <1>7 DEF AbandonGame, turnVars, ClueMatchesTurn
<1>8. CASE PauseGame
  BY <1>8 DEF PauseGame, turnVars, outcomeVars, ClueMatchesTurn
<1>9. CASE ResumeGame
  BY <1>9 DEF ResumeGame, turnVars, outcomeVars, ClueMatchesTurn
<1>10. CASE UNCHANGED vars
  BY <1>10 DEF vars, ClueMatchesTurn
<1>11. QED
  BY <1>1, <1>2, <1>3, <1>4, <1>5, <1>6, <1>7, <1>8, <1>9, <1>10 DEF Next

LEMMA PauseKept ==
  ASSUME IInv, [Next]_vars
  PROVE  OverIsNotPaused'
<1> USE DEF IInv, SafeInv, OverIsNotPaused
<1>1. ASSUME NEW m \in Mode, NEW b \in BoardsOf(m), CreateGame(m, b)
      PROVE  OverIsNotPaused'
  BY <1>1 DEF CreateGame
<1>2. CASE CleanupGame
  BY <1>2 DEF CleanupGame
<1>3. ASSUME NEW t \in Team, NEW n \in Clues, SubmitClue(t, n)
      PROVE  OverIsNotPaused'
  BY <1>3 DEF SubmitClue, outcomeVars
<1>4. ASSUME NEW t \in Team, NEW c \in Card, RevealCard(t, c)
      PROVE  OverIsNotPaused'
  BY <1>4 DEF RevealCard
<1>5. ASSUME NEW t \in Team, EndTurn(t)
      PROVE  OverIsNotPaused'
  BY <1>5 DEF EndTurn, outcomeVars
<1>6. ASSUME NEW t \in Team, ForfeitGame(t)
      PROVE  OverIsNotPaused'
  BY <1>6 DEF ForfeitGame
<1>7. CASE AbandonGame
  BY <1>7 DEF AbandonGame
<1>8. CASE PauseGame
  BY <1>8 DEF PauseGame, Live, outcomeVars
<1>9. CASE ResumeGame
  BY <1>9 DEF ResumeGame
<1>10. CASE UNCHANGED vars
  BY <1>10 DEF vars
<1>11. QED
  BY <1>1, <1>2, <1>3, <1>4, <1>5, <1>6, <1>7, <1>8, <1>9, <1>10 DEF Next

-----------------------------------------------------------------------------
(* A live game is undecided                                                *)

\* The operations that leave the outcome alone too.
Still == UNCHANGED <<boardVars, countVars, outcomeVars>>

LEMMA OutcomeCases ==
  ASSUME [Next]_vars
  PROVE  \/ \E m \in Mode : \E b \in BoardsOf(m) : CreateGame(m, b)
         \/ CleanupGame
         \/ \E t \in Team, c \in Card : RevealCard(t, c)
         \/ \E t \in Team : ForfeitGame(t)
         \/ AbandonGame
         \/ Still
BY DEF Next, vars, Still, SubmitClue, EndTurn, PauseGame, ResumeGame,
       boardVars, countVars, outcomeVars

\* The boards dealt leave something to find for everyone.
LEMMA DealtBoard ==
  ASSUME NEW m \in Mode, NEW b \in BoardsOf(m)
  PROVE  /\ m # "duet" => \A u \in Team : Cardinality(CardsOf(b.types, u)) > 0
         /\ m = "duet" => Cardinality(Greens(b)) > 0
<1>1. CASE m = "duet"
  <2>1. IsDuetLayout(b)
    BY <1>1, BoardsAssumption DEF BoardsOf
  <2>2. Greens(b) # {} /\ Greens(b) \in SUBSET Card
    BY <2>1 DEF IsDuetLayout, Greens
  <2>3. QED BY <1>1, <2>2, CountPositive
<1>2. CASE m # "duet"
  <2>1. IsClassicLayout(b)
    BY <1>2, BoardsAssumption DEF BoardsOf
  <2>2. \A u : CardsOf(b.types, u) \in SUBSET Card
    BY DEF CardsOf
  <2>3. Cardinality(CardsOf(b.types, OtherTeam(b.firstTeam))) > 0
    BY <2>1, <2>2, CountPositive DEF IsClassicLayout
  <2>4. Cardinality(CardsOf(b.types, OtherTeam(b.firstTeam))) \in Nat
    BY <2>2, CountType
  <2>5. Cardinality(CardsOf(b.types, b.firstTeam)) > 0
    BY <2>1, <2>3, <2>4 DEF IsClassicLayout
  <2>6. b.firstTeam \in Team
    BY <2>1 DEF IsClassicLayout, Board
  <2>7. \A u \in Team : u = b.firstTeam \/ u = OtherTeam(b.firstTeam)
    BY <2>6 DEF OtherTeam, Team
  <2>8. QED BY <1>2, <2>3, <2>5, <2>7
<1>3. QED BY <1>1, <1>2 DEF Mode

\* The numbers the outcome is decided by.
LEMMA BoardCounts ==
  ASSUME TypeOK
  PROVE  /\ \A u \in Team : Total(u) \in Nat
         /\ GreenTotal \in Nat
         /\ Cardinality(Greens(board) \ Revealed) \in Nat
<1>1. \A u : CardsOf(board.types, u) \in SUBSET Card
  BY DEF CardsOf
<1>2. Greens(board) \in SUBSET Card /\ Greens(board) \ Revealed \in SUBSET Card
  BY DEF Greens
<1>3. QED BY <1>1, <1>2, CountType DEF Total, GreenTotal

\* A duet that goes on after a reveal can still be won.
LEMMA DuetStaysOpen ==
  ASSUME IInv, TypeOK', NEW t \in Team, NEW c \in Card, RevealCard(t, c),
         gameMode = "duet", ~gameOver'
  PROVE  /\ winner' = NoTeam /\ endReason' = NoReason
         /\ SeenBy(t, c) # "assassin"
         /\ greenFound' < GreenTotal
         /\ DuetReachable' >= GreenTotal
         /\ timerTokens' > 0
<1> DEFINE k == SeenBy(t, c)
<1>1. RevealDuet(t, k) /\ Live /\ winner = NoTeam /\ endReason = NoReason
      /\ timerTokens > 0
  BY DEF RevealCard, IInv, SafeInv, LiveGameIsOpen
<1>2. greenFound' \in Nat /\ timerTokens' \in Nat /\ GreenTotal \in Nat
      /\ Cardinality(Greens(board) \ Revealed)' \in Nat
  <2>1. (Greens(board) \ Revealed)' \in SUBSET Card
    BY DEF Greens
  <2>2. QED BY <2>1, BoardCounts, CountType DEF TypeOK, IInv
<1>3. EndIfUnreachable => ~(DuetReachable' < GreenTotal) /\ GoOn
  BY DEF EndIfUnreachable, EndGame
<1> HIDE DEF k
<1>4. /\ k # "assassin" /\ greenFound' < GreenTotal
      /\ EndIfUnreachable
      /\ timerTokens' = timerTokens \/ timerTokens' # 0
  BY <1>1 DEF RevealDuet, EndGame, Team
<1>5. DuetReachable' \in Nat
  BY <1>2 DEF DuetReachable
<1>6. DuetReachable' >= GreenTotal /\ winner' = NoTeam /\ endReason' = NoReason
  BY <1>1, <1>2, <1>3, <1>4, <1>5 DEF GoOn, outcomeVars
<1>7. timerTokens' > 0
  BY <1>1, <1>2, <1>4
<1>8. QED BY <1>4, <1>6, <1>7 DEF k

\* A classic game that goes on after a reveal has cards left for both teams.
LEMMA ClassicStaysOpen ==
  ASSUME IInv, TypeOK', NEW t \in Team, NEW c \in Card, RevealCard(t, c),
         Competitive, ~gameOver'
  PROVE  /\ winner' = NoTeam /\ endReason' = NoReason
         /\ SeenBy(t, c) # "assassin"
         /\ \A u \in Team : score'[u] < Total(u)
<1>1. RevealClassic(t, SeenBy(t, c)) /\ Live
      /\ winner = NoTeam /\ endReason = NoReason
  BY DEF RevealCard, IInv, SafeInv, LiveGameIsOpen
<1>2. \A u \in Team : ~HasAll(score', u)
  BY <1>1 DEF RevealClassic, EndGame
<1>3. SeenBy(t, c) # "assassin" /\ GoOn
  BY <1>1 DEF RevealClassic, EndGame
<1>4. \A u \in Team : score'[u] \in Nat /\ Total(u) \in Nat
  BY BoardCounts DEF TypeOK, IInv
<1>5. QED BY <1>1, <1>2, <1>3, <1>4 DEF HasAll, GoOn, outcomeVars

LEMMA OpenKept ==
  ASSUME IInv, [Next]_vars
  PROVE  LiveGameIsOpen'
<1>0. TypeOK /\ TypeOK' /\ LiveGameIsOpen
  BY NextType DEF IInv, SafeInv
<1>1. ASSUME NEW m \in Mode, NEW b \in BoardsOf(m), CreateGame(m, b)
      PROVE  LiveGameIsOpen'
  <2>1. /\ board' = b /\ gameMode' = m /\ score' = [t \in Team |-> 0]
        /\ greenFound' = 0
        /\ m = "duet" => timerTokens' = TimerTokens
        /\ winner' = NoTeam /\ endReason' = NoReason
    BY <1>1 DEF CreateGame
  <2>2. /\ Revealed' = {}
        /\ \A u \in Team : Turned(u, {"assassin"})' = {}
    BY <1>1, CreatedBoard
  <2>3. m # "duet" => \A u \in Team : score'[u] < Total(u)'
    BY <2>1, DealtBoard DEF Total
  <2>4. GreenTotal' = Cardinality(Greens(b)) /\ Cardinality(Greens(b)) \in Nat
    BY <2>1, CountType DEF GreenTotal, Greens
  <2>5. DuetReachable' = GreenTotal'
    <3>1. (Greens(board) \ Revealed)' = Greens(b)
      BY <2>1, <2>2
    <3>2. QED BY <2>1, <2>4, <3>1 DEF DuetReachable
  <2>6. m = "duet" => GreenTotal' > 0
    BY <2>4, DealtBoard
  <2>7. QED
    BY <2>1, <2>2, <2>3, <2>4, <2>5, <2>6, TokensAssumption DEF LiveGameIsOpen
<1>2. CASE CleanupGame
  BY <1>2 DEF CleanupGame, LiveGameIsOpen, Live, Exists
<1>3. ASSUME NEW t \in Team, NEW c \in Card, RevealCard(t, c)
      PROVE  LiveGameIsOpen'
  <2> SUFFICES ASSUME ~gameOver'
               PROVE  LiveGameIsOpen'
    BY DEF LiveGameIsOpen, Live
  <2>1. /\ gameMode' = gameMode /\ board' = board
        /\ \A u \in Team : Turned(u, {"assassin"}) = {}
    BY <1>0, <1>3 DEF RevealCard, boardVars, LiveGameIsOpen
  <2>2. GreenTotal' = GreenTotal /\ \A u \in Team : Total(u)' = Total(u)
    BY <2>1 DEF GreenTotal, Total
  <2>3. gameMode = "duet" \/ Competitive
    BY <1>3 DEF RevealCard
  <2>4. winner' = NoTeam /\ endReason' = NoReason /\ SeenBy(t, c) # "assassin"
    BY <1>0, <1>3, <2>3, DuetStaysOpen, ClassicStaysOpen
  <2>5. \A u \in Team : Turned(u, {"assassin"})' = {}
    BY <1>0, <1>3, <2>1, <2>4, TurnedStep
  <2>6. Competitive => \A u \in Team : score'[u] < Total(u)'
    BY <1>0, <1>3, <2>2, ClassicStaysOpen
  <2>7. gameMode = "duet" =>
          greenFound' < GreenTotal' /\ DuetReachable' >= GreenTotal'
          /\ timerTokens' > 0
    BY <1>0, <1>3, <2>2, DuetStaysOpen
  <2>8. QED BY <2>1, <2>4, <2>5, <2>6, <2>7 DEF LiveGameIsOpen
<1>4. ASSUME NEW t \in Team, ForfeitGame(t)
      PROVE  LiveGameIsOpen'
  BY <1>4 DEF ForfeitGame, LiveGameIsOpen, Live
<1>5. CASE AbandonGame
  BY <1>5 DEF AbandonGame, LiveGameIsOpen, Live
<1>6. CASE Still
  BY <1>0, <1>6 DEF Still, boardVars, countVars, outcomeVars, LiveGameIsOpen,
     Live, Exists, Turned, SeenBy, Revealed, Total, GreenTotal, DuetReachable
<1>7. QED BY <1>1, <1>2, <1>3, <1>4, <1>5, <1>6, OutcomeCases

-----------------------------------------------------------------------------
(* The outcome fits the board                                              *)

LEMMA ClassicOutcome ==
  ASSUME IInv, CountersMatchBoard', NEW t \in Team, NEW c \in Card,
         RevealCard(t, c), Competitive, gameOver'
  PROVE  OutcomeMatchesBoard'
<1> DEFINE k == SeenBy(t, c)
<1>1. /\ RevealClassic(t, k) /\ Competitive' /\ board' = board
      /\ Live /\ ~gameOver
  BY DEF RevealCard, boardVars, Live
<1>2. \A u \in Team : score[u] < Total(u) /\ score[u] \in Nat /\ Total(u) \in Nat
  BY <1>1, BoardCounts DEF IInv, SafeInv, LiveGameIsOpen, TypeOK
<1>3. \A u \in Team : score'[u] = Cardinality(Up(u))'
  BY <1>1 DEF CountersMatchBoard
<1>4. \A u \in Team : score'[u] >= Total(u) <=> (CardsOf(board.types, u) \subseteq Revealed)'
  <2>1. \A u : Total(u)' = Total(u)
    BY <1>1 DEF Total
  <2>2. TAKE u \in Team
  <2>3. Up(u)' \subseteq Card /\ Up(u)' \subseteq CardsOf(board.types, u)
    BY <1>1 DEF Up, Revealed, CardsOf
  <2>4. CardsOf(board.types, u) \in SUBSET Card
    BY DEF CardsOf
  <2>5. Cardinality(Up(u))' >= Total(u) => Up(u)' = CardsOf(board.types, u)
    BY <2>3, <2>4, CountFull DEF Total
  <2>6. (CardsOf(board.types, u) \subseteq Revealed)' => Up(u)' = CardsOf(board.types, u)
    BY <1>1 DEF Up, CardsOf, Revealed
  <2>7. Up(u)' = CardsOf(board.types, u) =>
          (CardsOf(board.types, u) \subseteq Revealed)'
    BY <1>1 DEF Up
  <2>8. Up(u)' = CardsOf(board.types, u) => Cardinality(Up(u))' >= Total(u)
    BY <1>2 DEF Total
  <2>9. QED BY <1>3, <2>5, <2>6, <2>7, <2>8
<1> HIDE DEF k
<1>5. CASE k = "assassin"
  <2>1. winner' = OtherTeam(t) /\ endReason' = "assassin"
    BY <1>1, <1>5 DEF RevealClassic, EndGame, Team, GoOn, outcomeVars
  <2>2. OtherTeam(winner') = t
    BY <2>1 DEF OtherTeam, Team
  <2>3. c \in Turned(t, {"assassin"})'
    BY <1>5, TurnedStep DEF IInv, k
  <2>4. QED BY <1>1, <2>1, <2>2, <2>3 DEF OutcomeMatchesBoard
<1>6. CASE k # "assassin"
  <2>1. PICK w \in Team : HasAll(score', w) /\ EndGame(w, "completed")
    BY <1>1, <1>6 DEF RevealClassic, GoOn, outcomeVars
  <2>2. winner' = w /\ endReason' = "completed" /\ score'[w] >= Total(w)
    BY <2>1 DEF EndGame, HasAll
  <2>3. score' = ClassicScore(t, k) /\ score \in [Team -> Nat]
    BY <1>1 DEF RevealClassic, IInv, TypeOK
  <2>4. k = w
    BY <1>2, <2>2, <2>3 DEF ClassicScore
  <2>5. OtherTeam(w) \in Team /\ OtherTeam(w) # w
    BY OtherTeamType
  <2>6. score'[OtherTeam(w)] = score[OtherTeam(w)]
    BY <2>3, <2>4, <2>5 DEF ClassicScore
  <2>7. ~(score'[OtherTeam(w)] >= Total(OtherTeam(w)))
    BY <1>2, <2>5, <2>6
  <2>8. QED BY <1>1, <1>4, <2>2, <2>5, <2>7 DEF OutcomeMatchesBoard
<1>7. QED BY <1>5, <1>6

LEMMA DuetOutcome ==
  ASSUME IInv, NEW t \in Team, NEW c \in Card,
         RevealCard(t, c), gameMode = "duet", gameOver'
  PROVE  OutcomeMatchesBoard'
<1> DEFINE k == SeenBy(t, c)
<1>1. /\ RevealDuet(t, k) /\ gameMode' = "duet" /\ board' = board
      /\ Live /\ ~gameOver
  BY DEF RevealCard, boardVars, Live
<1>2. /\ greenFound < GreenTotal /\ ~(greenFound >= GreenTotal)
      /\ GreenTotal \in Nat /\ greenFound \in Nat /\ GreenTotal' = GreenTotal
  BY <1>1, OpenDuet DEF IInv, SafeInv, GreenTotal
<1>3. "assassin" \notin Team /\ NoTeam # "red" /\ NoTeam # "blue"
  BY DEF Team, NoTeam
<1> HIDE DEF k
<1>4. CASE /\ k = "assassin"
           /\ EndGame(NoTeam, "assassin")
  <2>1. greenFound' = greenFound
    BY <1>1, <1>3, <1>4 DEF RevealDuet
  <2>2. QED BY <1>1, <1>2, <1>3, <1>4, <2>1 DEF EndGame, OutcomeMatchesBoard
<1>5. CASE greenFound' >= GreenTotal /\ EndGame("red", "completed")
  <2>1. greenFound' = greenFound \/ greenFound' = greenFound + 1
    BY <1>1 DEF RevealDuet
  <2>2. greenFound' = GreenTotal
    BY <1>2, <1>5, <2>1
  <2>3. QED BY <1>1, <1>2, <1>5, <2>2 DEF EndGame, OutcomeMatchesBoard
<1>6. CASE /\ greenFound' < GreenTotal /\ timerTokens' = 0
           /\ EndGame(NoTeam, "timerTokens")
  <2>1. greenFound' # GreenTotal
    BY <1>2, <1>6
  <2>2. QED BY <1>1, <1>2, <1>3, <1>6, <2>1 DEF EndGame, OutcomeMatchesBoard
<1>7. CASE greenFound' < GreenTotal /\ EndIfUnreachable
  <2>1. greenFound' # GreenTotal
    BY <1>2, <1>7
  <2>2. EndGame(NoTeam, "unreachable") /\ DuetReachable' < GreenTotal
    BY <1>1, <1>7 DEF EndIfUnreachable, GoOn, outcomeVars
  <2>3. QED BY <1>1, <1>2, <1>3, <2>1, <2>2 DEF EndGame, OutcomeMatchesBoard
<1>8. QED BY <1>1, <1>4, <1>5, <1>6, <1>7 DEF RevealDuet

LEMMA OutcomeKept ==
  ASSUME IInv, [Next]_vars
  PROVE  OutcomeMatchesBoard'
<1>0. CountersMatchBoard' /\ TypeOK /\ TypeOK'
  BY CountersKept, NextType DEF IInv
<1>1. ASSUME NEW m \in Mode, NEW b \in BoardsOf(m), CreateGame(m, b)
      PROVE  OutcomeMatchesBoard'
  BY <1>1 DEF CreateGame, OutcomeMatchesBoard
<1>2. CASE CleanupGame
  BY <1>2 DEF CleanupGame, OutcomeMatchesBoard
<1>3. ASSUME NEW t \in Team, NEW c \in Card, RevealCard(t, c)
      PROVE  OutcomeMatchesBoard'
  <2>1. CASE gameOver'
    BY <1>0, <1>3, <2>1, ClassicOutcome, DuetOutcome DEF RevealCard
  <2>2. QED BY <2>1 DEF OutcomeMatchesBoard
<1>4. ASSUME Live, UNCHANGED <<boardVars, countVars, endReason>>,
             gameMode = "duet" => winner' = NoTeam
      PROVE  OutcomeMatchesBoard'
  <2>1. endReason = NoReason /\ gameMode' = gameMode /\ endReason' = endReason
    BY <1>4 DEF IInv, SafeInv, LiveGameIsOpen, boardVars
  <2>2. ASSUME gameMode = "duet"
        PROVE  greenFound' # GreenTotal' /\ winner' # "red" /\ winner' # "blue"
    <3>1. greenFound < GreenTotal /\ GreenTotal \in Nat /\ greenFound \in Nat
      BY <1>4, <2>2, OpenDuet DEF IInv, SafeInv
    <3>2. greenFound' = greenFound /\ GreenTotal' = GreenTotal
      BY <1>4 DEF boardVars, countVars, GreenTotal
    <3>3. QED BY <1>4, <2>2, <3>1, <3>2 DEF NoTeam
  <2>3. QED BY <2>1, <2>2 DEF OutcomeMatchesBoard, NoReason
<1>5. ASSUME NEW t \in Team, ForfeitGame(t)
      PROVE  OutcomeMatchesBoard'
  BY <1>4, <1>5 DEF ForfeitGame
<1>6. CASE AbandonGame
  BY <1>4, <1>6 DEF AbandonGame
<1>7. CASE Still
  BY <1>7 DEF Still, boardVars, countVars, outcomeVars, IInv, SafeInv,
     OutcomeMatchesBoard, Turned, SeenBy, Revealed, GreenTotal, DuetReachable
<1>8. QED BY <1>1, <1>2, <1>3, <1>5, <1>6, <1>7, OutcomeCases

-----------------------------------------------------------------------------
(* The theorems                                                            *)

LEMMA IInvInit == Init => IInv
<1> SUFFICES ASSUME Init PROVE IInv
  OBVIOUS
<1>1. TypeOK
  BY InitType
<1>2. SafeInv
  BY DEF Init, SafeInv, ClueMatchesTurn, OverIsNotPaused, CountersMatchBoard,
         LiveGameIsOpen, OutcomeMatchesBoard, Live, Exists, NoGame
<1>3. QED BY <1>1, <1>2 DEF IInv

LEMMA IInvNext == IInv /\ [Next]_vars => IInv'
<1> SUFFICES ASSUME IInv, [Next]_vars PROVE IInv'
  OBVIOUS
<1>1. TypeOK'
  BY NextType DEF IInv
<1>2. SafeInv'
  BY ClueKept, PauseKept, CountersKept, OpenKept, OutcomeKept DEF SafeInv
<1>3. QED BY <1>1, <1>2 DEF IInv

LEMMA IInvHolds == Spec => []IInv
BY IInvInit, IInvNext, PTL DEF Spec

\* The counters of a stored game are the counts of its board.
THEOREM CountersCorrect == Spec => []CountersMatchBoard
<1>1. IInv => CountersMatchBoard
  BY DEF IInv, SafeInv
<1>2. QED BY <1>1, IInvHolds, PTL

\* The clue is the clue of the team on turn, with a guess left.
THEOREM ClueCorrect == Spec => []ClueMatchesTurn
<1>1. IInv => ClueMatchesTurn
  BY DEF IInv, SafeInv
<1>2. QED BY <1>1, IInvHolds, PTL

\* No game goes on that is already won or lost.
THEOREM LiveGamesAreOpen == Spec => []LiveGameIsOpen
<1>1. IInv => LiveGameIsOpen
  BY DEF IInv, SafeInv
<1>2. QED BY <1>1, IInvHolds, PTL

\* The stored winner and end reason are the ones the board shows.
THEOREM OutcomeCorrect == Spec => []OutcomeMatchesBoard
<1>1. IInv => OutcomeMatchesBoard
  BY DEF IInv, SafeInv
<1>2. QED BY <1>1, IInvHolds, PTL

\* A finished game is not written again until a new key replaces it.
THEOREM FinishedIsFinal == Spec => OverIsFinal
<1>1. ASSUME IInv, [Next]_vars, gameOver
      PROVE  UNCHANGED vars \/ (~gameOver' /\ Revealed' = {} /\ currentClue' = NoClue)
  <2>1. ~paused
    BY <1>1 DEF IInv, SafeInv, OverIsNotPaused
  <2>2. ASSUME NEW m \in Mode, NEW b \in BoardsOf(m), CreateGame(m, b)
        PROVE  ~gameOver' /\ Revealed' = {} /\ currentClue' = NoClue
    BY <2>2, CreatedBoard DEF CreateGame
  <2>3. ASSUME CleanupGame
        PROVE  ~gameOver' /\ Revealed' = {} /\ currentClue' = NoClue
    BY <2>3 DEF CleanupGame, Revealed, NoTeam
  <2>4. ASSUME ResumeGame
        PROVE  UNCHANGED vars
    BY <1>1, <2>1, <2>4 DEF ResumeGame, vars, boardVars, countVars, turnVars,
       outcomeVars, IInv, TypeOK
  <2>5. QED
    BY <1>1, <2>2, <2>3, <2>4
    DEF Next, SubmitClue, RevealCard, EndTurn, ForfeitGame, AbandonGame,
        PauseGame, Live
<1>2. QED BY <1>1, IInvHolds, PTL DEF Spec, OverIsFinal

\* Nothing but resume, or losing the key, touches a paused game.
THEOREM PausedIsFrozen == Spec => PausedStandsStill
<1>1. ASSUME IInv, [Next]_vars, paused, gameMode' = gameMode
      PROVE  UNCHANGED <<boardVars, countVars, turnVars, outcomeVars>>
  <2>1. ~gameOver
    BY <1>1 DEF IInv, SafeInv, OverIsNotPaused
  <2>2. ASSUME NEW m \in Mode, NEW b \in BoardsOf(m), CreateGame(m, b)
        PROVE  FALSE
    BY <1>1, <2>1, <2>2 DEF CreateGame, Live, Exists, Mode, NoGame
  <2>3. ASSUME CleanupGame
        PROVE  FALSE
    BY <1>1, <2>3 DEF CleanupGame, Exists
  <2>4. CASE UNCHANGED vars
    BY <2>4 DEF vars, boardVars, countVars, turnVars, outcomeVars
  <2>5. QED
    BY <1>1, <2>2, <2>3, <2>4
    DEF Next, SubmitClue, RevealCard, EndTurn, ForfeitGame, AbandonGame,
        PauseGame, ResumeGame
<1>2. QED BY <1>1, IInvHolds, PTL DEF Spec, PausedStandsStill

-----------------------------------------------------------------------------
(* Game implements TurnOrder                                               *)

\* Where the turn stands, read off the stored fields.
LEMMA PhaseOf ==
  /\ gameMode = NoGame => Phase = "idle"
  /\ gameMode # NoGame /\ gameOver => Phase = "over"
  /\ gameMode # NoGame /\ ~gameOver /\ currentClue = NoClue => Phase = "clue"
  /\ gameMode # NoGame /\ ~gameOver /\ currentClue # NoClue => Phase = "guess"
BY DEF Phase, Exists, Live

LEMMA NextPhaseOf ==
  /\ gameMode' = NoGame => Phase' = "idle"
  /\ gameMode' # NoGame /\ gameOver' => Phase' = "over"
  /\ gameMode' # NoGame /\ ~gameOver' /\ currentClue' = NoClue => Phase' = "clue"
  /\ gameMode' # NoGame /\ ~gameOver' /\ currentClue' # NoClue => Phase' = "guess"
BY DEF Phase, Exists, Live

LEMMA RevealIsTurnStep ==
  ASSUME IInv, TypeOK', NEW t \in Team, NEW c \in Card, RevealCard(t, c)
  PROVE  [Turns!TONext]_(Turns!tvars)
<1>1. /\ gameMode' = gameMode /\ gameMode # NoGame /\ ~gameOver
      /\ currentClue # NoClue /\ Phase = "guess"
  BY PhaseOf DEF RevealCard, Live, Exists, boardVars
<1>2. currentTurn \in Team /\ currentTurn' \in Team
  BY DEF IInv, TypeOK
<1>3. CASE gameOver'
  <2>1. Phase' = "over"
    BY <1>1, <1>3, NextPhaseOf
  <2>2. Turns!Finish
    BY <1>1, <1>2, <2>1 DEF Turns!Finish
  <2>3. QED BY <2>2 DEF Turns!TONext
<1>4. CASE ~gameOver' /\ SwitchTurn
  <2>1. Phase' = "clue" /\ currentTurn' \in Team \ {currentTurn}
    BY <1>1, <1>2, <1>4, NextPhaseOf, OtherTeamType DEF SwitchTurn
  <2>2. Turns!Pass
    BY <1>1, <2>1 DEF Turns!Pass
  <2>3. QED BY <2>2 DEF Turns!TONext
<1>5. CASE ~gameOver' /\ CountGuess
  <2>1. Phase' = Phase /\ currentTurn' = currentTurn
    BY <1>1, <1>5, NextPhaseOf DEF CountGuess
  <2>2. QED BY <2>1 DEF Turns!tvars
<1>6. QED BY <1>3, <1>4, <1>5, RevealTurn

LEMMA TurnStep ==
  ASSUME IInv, [Next]_vars
  PROVE  [Turns!TONext]_(Turns!tvars)
<1>0. TypeOK /\ TypeOK'
  BY NextType DEF IInv
<1>1. currentTurn \in Team /\ currentTurn' \in Team
  BY <1>0 DEF TypeOK
<1>2. ASSUME NEW m \in Mode, NEW b \in BoardsOf(m), CreateGame(m, b)
      PROVE  Turns!Start
  <2>1. Phase \in {"idle", "over"}
    BY <1>2, PhaseOf DEF CreateGame, Live, Exists
  <2>2. Phase' = "clue"
    BY <1>2, NextPhaseOf DEF CreateGame, Mode, NoGame
  <2>3. QED BY <1>1, <2>1, <2>2 DEF Turns!Start
<1>3. ASSUME CleanupGame
      PROVE  Turns!Close
  <2>1. Phase' = "idle"
    BY <1>3, NextPhaseOf DEF CleanupGame
  <2>2. Phase \in {"clue", "guess", "over"}
    BY <1>3, PhaseOf DEF CleanupGame, Exists
  <2>3. QED BY <1>1, <2>1, <2>2 DEF Turns!Close
<1>4. ASSUME NEW t \in Team, NEW n \in Clues, SubmitClue(t, n)
      PROVE  Turns!GiveClue
  <2>1. [team |-> t, number |-> n] # NoClue
    BY CluesAssumption, NoClueAssumption DEF Clue
  <2>2. Phase = "clue"
    BY <1>4, PhaseOf DEF SubmitClue, Live, Exists
  <2>3. Phase' = "guess" /\ currentTurn' = currentTurn
    BY <1>4, <2>1, NextPhaseOf DEF SubmitClue, Live, Exists, boardVars, outcomeVars
  <2>4. QED BY <2>2, <2>3 DEF Turns!GiveClue
<1>5. ASSUME NEW t \in Team, EndTurn(t)
      PROVE  Turns!Pass
  <2>1. Phase \in {"clue", "guess"}
    BY <1>5, PhaseOf DEF EndTurn, Live, Exists
  <2>2. Phase' = "clue" /\ currentTurn' = OtherTeam(currentTurn)
    BY <1>5, NextPhaseOf DEF EndTurn, SwitchTurn, Live, Exists, boardVars, outcomeVars
  <2>3. QED BY <1>1, <2>1, <2>2, OtherTeamType DEF Turns!Pass
<1>6. ASSUME Live, gameMode' = gameMode, gameOver', currentTurn' = currentTurn
      PROVE  Turns!Finish
  <2>1. Phase \in {"clue", "guess"}
    BY <1>6, PhaseOf DEF Live, Exists
  <2>2. Phase' = "over"
    BY <1>6, NextPhaseOf DEF Live, Exists
  <2>3. QED BY <1>6, <2>1, <2>2 DEF Turns!Finish
<1>7. ASSUME NEW t \in Team, ForfeitGame(t)
      PROVE  Turns!Finish
  BY <1>6, <1>7 DEF ForfeitGame, boardVars, turnVars
<1>8. ASSUME AbandonGame
      PROVE  Turns!Finish
  BY <1>6, <1>8 DEF AbandonGame, boardVars, turnVars
<1>9. ASSUME UNCHANGED <<gameMode, gameOver, currentClue, currentTurn>>
      PROVE  UNCHANGED Turns!tvars
  <2>1. Phase' = Phase
    BY <1>9 DEF Phase, Exists, Live
  <2>2. QED BY <1>9, <2>1 DEF Turns!tvars
<1>10. ASSUME PauseGame \/ ResumeGame \/ UNCHANGED vars
       PROVE  UNCHANGED Turns!tvars
  BY <1>9, <1>10 DEF PauseGame, ResumeGame, vars, boardVars, turnVars, outcomeVars
<1>11. ASSUME NEW t \in Team, NEW c \in Card, RevealCard(t, c)
       PROVE  [Turns!TONext]_(Turns!tvars)
  BY <1>0, <1>11, RevealIsTurnStep
<1>12. QED
  BY <1>2, <1>3, <1>4, <1>5, <1>7, <1>8, <1>10, <1>11 DEF Next, Turns!TONext

\* Turns alternate, guesses follow a clue of the same team, games end once:
\* every behaviour of Game is one of TurnOrder.
THEOREM Refinement == Spec => TurnsAlternate
<1>1. Init => Turns!TOInit
  <2> SUFFICES ASSUME Init PROVE Turns!TOInit
    OBVIOUS
  <2>1. Phase = "idle"
    BY PhaseOf DEF Init
  <2>2. currentTurn \in Team
    BY InitType DEF TypeOK
  <2>3. QED BY <2>1, <2>2 DEF Turns!TOInit
<1>2. IInv /\ [Next]_vars => [Turns!TONext]_(Turns!tvars)
  BY TurnStep
<1>3. QED
  BY <1>1, <1>2, IInvHolds, PTL DEF Spec, TurnsAlternate, Turns!TOSpec
-----------------------------------------------------------------------------
(* The engine computes the same game.  A game of the engine is written as a  *)
(* record of its twelve fields, and each operator of the engine as what it   *)
(* does to them.                                                             *)

EngineGame(m, b, rv, t, s, clue, used, allowed, over, w, green, tokens) ==
  [gameMode |-> m, board |-> b, revealedBy |-> rv, currentTurn |-> t, score |-> s,
   currentClue |-> clue, guessesUsed |-> used, guessesAllowed |-> allowed,
   gameOver |-> over, winner |-> w, greenFound |-> green, timerTokens |-> tokens]

\* The engine has its own copy of the words of GameRules.
LEMMA SameVocabulary ==
  /\ Engine!Team = Team /\ Engine!NoTeam = NoTeam
  /\ \A t : Engine!OtherTeam(t) = OtherTeam(t)
  /\ \A f, k : Engine!CardsOf(f, k) = CardsOf(f, k)
  /\ \A b : Engine!Greens(b) = Greens(b)
BY DEF Engine!Team, Team, Engine!NoTeam, NoTeam, Engine!OtherTeam, OtherTeam,
       Engine!CardsOf, CardsOf, Engine!Greens, Greens

LEMMA SameCount == \A S : Engine!Cardinality(S) = Cardinality(S)
BY Zenon DEF Engine!Cardinality, Cardinality

LEMMA EngineFields ==
  ASSUME NEW m, NEW b, NEW rv, NEW t, NEW s, NEW clue, NEW used, NEW allowed, NEW over, NEW w,
         NEW green, NEW tokens
  PROVE  LET g == EngineGame(m, b, rv, t, s, clue, used, allowed, over, w, green, tokens) IN
         /\ g.gameMode = m /\ g.board = b /\ g.revealedBy = rv /\ g.currentTurn = t
         /\ g.score = s /\ g.currentClue = clue /\ g.guessesUsed = used
         /\ g.guessesAllowed = allowed /\ g.gameOver = over /\ g.winner = w
         /\ g.greenFound = green /\ g.timerTokens = tokens
BY DEF EngineGame

\* One field at a time: what an update of a field does to the record.
LEMMA UpdateRevealedBy ==
  ASSUME NEW m, NEW b, NEW rv, NEW t, NEW s, NEW clue, NEW used, NEW allowed, NEW over, NEW w,
         NEW green, NEW tokens, NEW x
  PROVE  [EngineGame(m, b, rv, t, s, clue, used, allowed, over, w, green, tokens)
             EXCEPT !.revealedBy = x]
           = EngineGame(m, b, x, t, s, clue, used, allowed, over, w, green, tokens)
BY DEF EngineGame

LEMMA UpdateCurrentTurn ==
  ASSUME NEW m, NEW b, NEW rv, NEW t, NEW s, NEW clue, NEW used, NEW allowed, NEW over, NEW w,
         NEW green, NEW tokens, NEW x
  PROVE  [EngineGame(m, b, rv, t, s, clue, used, allowed, over, w, green, tokens)
             EXCEPT !.currentTurn = x]
           = EngineGame(m, b, rv, x, s, clue, used, allowed, over, w, green, tokens)
BY DEF EngineGame

LEMMA UpdateScore ==
  ASSUME NEW m, NEW b, NEW rv, NEW t, NEW s, NEW clue, NEW used, NEW allowed, NEW over, NEW w,
         NEW green, NEW tokens, NEW x
  PROVE  [EngineGame(m, b, rv, t, s, clue, used, allowed, over, w, green, tokens)
             EXCEPT !.score = x]
           = EngineGame(m, b, rv, t, x, clue, used, allowed, over, w, green, tokens)
BY DEF EngineGame

LEMMA UpdateCurrentClue ==
  ASSUME NEW m, NEW b, NEW rv, NEW t, NEW s, NEW clue, NEW used, NEW allowed, NEW over, NEW w,
         NEW green, NEW tokens, NEW x
  PROVE  [EngineGame(m, b, rv, t, s, clue, used, allowed, over, w, green, tokens)
             EXCEPT !.currentClue = x]
           = EngineGame(m, b, rv, t, s, x, used, allowed, over, w, green, tokens)
BY DEF EngineGame

LEMMA UpdateGuessesUsed ==
  ASSUME NEW m, NEW b, NEW rv, NEW t, NEW s, NEW clue, NEW used, NEW allowed, NEW over, NEW w,
         NEW green, NEW tokens, NEW x
  PROVE  [EngineGame(m, b, rv, t, s, clue, used, allowed, over, w, green, tokens)
             EXCEPT !.guessesUsed = x]
           = EngineGame(m, b, rv, t, s, clue, x, allowed, over, w, green, tokens)
BY DEF EngineGame

LEMMA UpdateGuessesAllowed ==
  ASSUME NEW m, NEW b, NEW rv, NEW t, NEW s, NEW clue, NEW used, NEW allowed, NEW over, NEW w,
         NEW green, NEW tokens, NEW x
  PROVE  [EngineGame(m, b, rv, t, s, clue, used, allowed, over, w, green, tokens)
             EXCEPT !.guessesAllowed = x]
           = EngineGame(m, b, rv, t, s, clue, used, x, over, w, green, tokens)
BY DEF EngineGame

LEMMA UpdateGameOver ==
  ASSUME NEW m, NEW b, NEW rv, NEW t, NEW s, NEW clue, NEW used, NEW allowed, NEW over, NEW w,
         NEW green, NEW tokens, NEW x
  PROVE  [EngineGame(m, b, rv, t, s, clue, used, allowed, over, w, green, tokens)
             EXCEPT !.gameOver = x]
           = EngineGame(m, b, rv, t, s, clue, used, allowed, x, w, green, tokens)
BY DEF EngineGame

LEMMA UpdateWinner ==
  ASSUME NEW m, NEW b, NEW rv, NEW t, NEW s, NEW clue, NEW used, NEW allowed, NEW over, NEW w,
         NEW green, NEW tokens, NEW x
  PROVE  [EngineGame(m, b, rv, t, s, clue, used, allowed, over, w, green, tokens)
             EXCEPT !.winner = x]
           = EngineGame(m, b, rv, t, s, clue, used, allowed, over, x, green, tokens)
BY DEF EngineGame

LEMMA UpdateGreenFound ==
  ASSUME NEW m, NEW b, NEW rv, NEW t, NEW s, NEW clue, NEW used, NEW allowed, NEW over, NEW w,
         NEW green, NEW tokens, NEW x
  PROVE  [EngineGame(m, b, rv, t, s, clue, used, allowed, over, w, green, tokens)
             EXCEPT !.greenFound = x]
           = EngineGame(m, b, rv, t, s, clue, used, allowed, over, w, x, tokens)
BY DEF EngineGame

LEMMA UpdateTimerTokens ==
  ASSUME NEW m, NEW b, NEW rv, NEW t, NEW s, NEW clue, NEW used, NEW allowed, NEW over, NEW w,
         NEW green, NEW tokens, NEW x
  PROVE  [EngineGame(m, b, rv, t, s, clue, used, allowed, over, w, green, tokens)
             EXCEPT !.timerTokens = x]
           = EngineGame(m, b, rv, t, s, clue, used, allowed, over, w, green, x)
BY DEF EngineGame

LEMMA EngineSwitches ==
  ASSUME NEW m, NEW b, NEW rv, NEW t, NEW s, NEW clue, NEW used, NEW allowed, NEW over, NEW w,
         NEW green, NEW tokens
  PROVE  Engine!Switched(EngineGame(m, b, rv, t, s, clue, used, allowed, over, w, green, tokens))
           = EngineGame(m, b, rv, OtherTeam(t), s, NoClue, 0, 0, over, w, green, tokens)
<1> DEFINE g == EngineGame(m, b, rv, t, s, clue, used, allowed, over, w, green, tokens)
<1>1. g.currentTurn = t
  BY EngineFields
<1> HIDE DEF g
<1>2. Engine!Switched(g)
        = [[[[g EXCEPT !.currentTurn = OtherTeam(g.currentTurn)] EXCEPT !.currentClue = NoClue]
               EXCEPT !.guessesUsed = 0] EXCEPT !.guessesAllowed = 0]
  BY SameVocabulary DEF Engine!Switched
<1> USE DEF g
<1>3. [g EXCEPT !.currentTurn = OtherTeam(g.currentTurn)]
        = EngineGame(m, b, rv, OtherTeam(t), s, clue, used, allowed, over, w, green, tokens)
  BY <1>1, UpdateCurrentTurn
<1>4. [EngineGame(m, b, rv, OtherTeam(t), s, clue, used, allowed, over, w, green, tokens)
          EXCEPT !.currentClue = NoClue]
        = EngineGame(m, b, rv, OtherTeam(t), s, NoClue, used, allowed, over, w, green, tokens)
  BY UpdateCurrentClue
<1>5. [EngineGame(m, b, rv, OtherTeam(t), s, NoClue, used, allowed, over, w, green, tokens)
          EXCEPT !.guessesUsed = 0]
        = EngineGame(m, b, rv, OtherTeam(t), s, NoClue, 0, allowed, over, w, green, tokens)
  BY UpdateGuessesUsed
<1>6. [EngineGame(m, b, rv, OtherTeam(t), s, NoClue, 0, allowed, over, w, green, tokens)
          EXCEPT !.guessesAllowed = 0]
        = EngineGame(m, b, rv, OtherTeam(t), s, NoClue, 0, 0, over, w, green, tokens)
  BY UpdateGuessesAllowed
<1>7. QED BY <1>2, <1>3, <1>4, <1>5, <1>6

\* TRUE under a name, which keeps it an ordinary value for the solver.
Over == TRUE

LEMMA EngineWins ==
  ASSUME NEW m, NEW b, NEW rv, NEW t, NEW s, NEW clue, NEW used, NEW allowed, NEW over, NEW w,
         NEW green, NEW tokens, NEW x
  PROVE  Engine!Won(EngineGame(m, b, rv, t, s, clue, used, allowed, over, w, green, tokens), x)
           = EngineGame(m, b, rv, t, s, clue, used, allowed, Over, x, green, tokens)
<1> DEFINE g == EngineGame(m, b, rv, t, s, clue, used, allowed, over, w, green, tokens)
<1> HIDE DEF g
<1>1. Engine!Won(g, x) = [[g EXCEPT !.gameOver = Over] EXCEPT !.winner = x]
  BY DEF Engine!Won, Over
<1>2. [g EXCEPT !.gameOver = Over]
        = EngineGame(m, b, rv, t, s, clue, used, allowed, Over, w, green, tokens)
  BY UpdateGameOver DEF g
<1>3. [EngineGame(m, b, rv, t, s, clue, used, allowed, Over, w, green, tokens) EXCEPT !.winner = x]
        = EngineGame(m, b, rv, t, s, clue, used, allowed, Over, x, green, tokens)
  BY UpdateWinner
<1>4. QED BY <1>1, <1>2, <1>3, Zenon DEF g

LEMMA EngineClues ==
  ASSUME NEW m, NEW b, NEW rv, NEW t, NEW s, NEW clue, NEW used, NEW allowed, NEW over, NEW w,
         NEW green, NEW tokens, NEW x, NEW n \in ClueNumber
  PROVE  Engine!ApplyEngineClue(EngineGame(m, b, rv, t, s, clue, used, allowed, over, w, green, tokens), x, n)
           = EngineGame(m, b, rv, t, s, [team |-> x, number |-> n], 0, GuessesFor(n), over, w, green, tokens)
<1> DEFINE g == EngineGame(m, b, rv, t, s, clue, used, allowed, over, w, green, tokens)
           new == [team |-> x, number |-> n]
<1> HIDE DEF g
<1>0. /\ Engine!ClampClueNumber(n) = n
      /\ (IF n >= 1 THEN n + 1 ELSE 0) = GuessesFor(n)
  BY DEF Engine!ClampClueNumber, ClueNumber, GuessesFor
<1>1. Engine!ApplyEngineClue(g, x, n)
        = [[[g EXCEPT !.currentClue = new] EXCEPT !.guessesUsed = 0]
             EXCEPT !.guessesAllowed = GuessesFor(n)]
  BY <1>0, Zenon DEF Engine!ApplyEngineClue
<1> HIDE DEF new
<1>2. [g EXCEPT !.currentClue = new]
        = EngineGame(m, b, rv, t, s, new, used, allowed, over, w, green, tokens)
  BY UpdateCurrentClue DEF g
<1>3. [EngineGame(m, b, rv, t, s, new, used, allowed, over, w, green, tokens) EXCEPT !.guessesUsed = 0]
        = EngineGame(m, b, rv, t, s, new, 0, allowed, over, w, green, tokens)
  BY UpdateGuessesUsed
<1>4. [EngineGame(m, b, rv, t, s, new, 0, allowed, over, w, green, tokens)
          EXCEPT !.guessesAllowed = GuessesFor(n)]
        = EngineGame(m, b, rv, t, s, new, 0, GuessesFor(n), over, w, green, tokens)
  BY UpdateGuessesAllowed
<1>5. QED BY <1>1, <1>2, <1>3, <1>4, Zenon DEF g, new

\* What a card scores, and whether it is an agent found.
Scored(m, t, k, s) == IF k \in Team THEN [s EXCEPT ![IF m = "duet" THEN t ELSE k] = @ + 1] ELSE s
Found(m, k, green) == IF k \in Team /\ m = "duet" THEN green + 1 ELSE green
Face(m, b, t, c)   == IF m = "duet" /\ t = "blue" THEN b.duetTypes[c] ELSE b.types[c]

LEMMA EngineTurnsOver ==
  ASSUME NEW m, NEW b, NEW rv, NEW t, NEW s, NEW clue, NEW used, NEW allowed, NEW over, NEW w,
         NEW green, NEW tokens, NEW c
  PROVE  Engine!ExecuteCardReveal(EngineGame(m, b, rv, t, s, clue, used, allowed, over, w, green, tokens), c)
           = EngineGame(m, b, [rv EXCEPT ![c] = t], t, Scored(m, t, Face(m, b, t, c), s), clue,
                        used + 1, allowed, over, w, Found(m, Face(m, b, t, c), green), tokens)
<1> DEFINE g == EngineGame(m, b, rv, t, s, clue, used, allowed, over, w, green, tokens)
           k == Face(m, b, t, c)
           up == [rv EXCEPT ![c] = t]
           one == used + 1
           scored == Scored(m, t, k, s)
           found == Found(m, k, green)
<1>1. /\ g.gameMode = m /\ g.board = b /\ g.revealedBy = rv /\ g.currentTurn = t /\ g.score = s
      /\ g.guessesUsed = used /\ g.greenFound = green
  BY EngineFields
<1> HIDE DEF g
<1>2. Engine!CardFor(g, c) = k /\ (Engine!Duet(g) <=> m = "duet")
  BY <1>1 DEF Engine!CardFor, Engine!Duet, Face
<1>3. Engine!ExecuteCardReveal(g, c)
        = [[[[g EXCEPT !.revealedBy = up] EXCEPT !.guessesUsed = one] EXCEPT !.score = scored]
             EXCEPT !.greenFound = found]
  BY <1>1, <1>2, SameVocabulary DEF Engine!ExecuteCardReveal, Scored, Found
<1> HIDE DEF up, one, scored, found
<1>4. [g EXCEPT !.revealedBy = up]
        = EngineGame(m, b, up, t, s, clue, used, allowed, over, w, green, tokens)
  BY UpdateRevealedBy DEF g
<1>5. [EngineGame(m, b, up, t, s, clue, used, allowed, over, w, green, tokens)
          EXCEPT !.guessesUsed = one]
        = EngineGame(m, b, up, t, s, clue, one, allowed, over, w, green, tokens)
  BY UpdateGuessesUsed
<1>6. [EngineGame(m, b, up, t, s, clue, one, allowed, over, w, green, tokens)
          EXCEPT !.score = scored]
        = EngineGame(m, b, up, t, scored, clue, one, allowed, over, w, green, tokens)
  BY UpdateScore
<1>7. [EngineGame(m, b, up, t, scored, clue, one, allowed, over, w, green, tokens) EXCEPT !.greenFound = found]
        = EngineGame(m, b, up, t, scored, clue, one, allowed, over, w, found, tokens)
  BY UpdateGreenFound
<1>8. QED BY <1>3, <1>4, <1>5, <1>6, <1>7, Zenon DEF g, k, up, one, scored, found

\* What the engine makes of a card once it is up, case by case.
LEMMA EngineClassicCases ==
  ASSUME NEW r, NEW k, NEW t,
         Engine!TotalOf(r, "red") \in Nat, Engine!TotalOf(r, "blue") \in Nat,
         r.score["red"] \in Nat, r.score["blue"] \in Nat
  PROVE  LET full(u) == r.score[u] >= Engine!TotalOf(r, u)
             o == Engine!ClassicOutcome(r, k, t) IN
         /\ k = "assassin" => o = Engine!Result(Engine!Won(r, Engine!OtherTeam(t)), "assassin")
         /\ k # "assassin" /\ full("red") => o = Engine!Result(Engine!Won(r, "red"), "completed")
         /\ k # "assassin" /\ ~full("red") /\ full("blue")
              => o = Engine!Result(Engine!Won(r, "blue"), "completed")
         /\ k # "assassin" /\ ~full("red") /\ ~full("blue")
              => o = Engine!Result(IF k # t \/ Engine!OutOfGuesses(r) THEN Engine!Switched(r) ELSE r,
                                   Engine!NoEnd)
BY DEF Engine!ClassicOutcome

LEMMA EngineDuetCases ==
  ASSUME NEW r, NEW k, NEW left, NEW paid,
         left = IF r.timerTokens > 0 THEN r.timerTokens - 1 ELSE 0,
         paid = [r EXCEPT !.timerTokens = left],
         Cardinality(Engine!Greens(r.board)) \in Nat, r.greenFound \in Nat
  PROVE  LET all == r.greenFound >= Cardinality(Engine!Greens(r.board))
             o == Engine!DuetOutcome(r, k) IN
         /\ k = "assassin" => o = Engine!Result(Engine!Won(r, Engine!NoTeam), "assassin")
         /\ k # "assassin" /\ all => o = Engine!Result(Engine!Won(r, "red"), "completed")
         /\ k = "neutral" /\ ~all
              => o = IF left <= 0 THEN Engine!Result(Engine!Won(paid, Engine!NoTeam), "timerTokens")
                                  ELSE Engine!Guarded(Engine!Switched(paid))
         /\ k # "assassin" /\ k # "neutral" /\ ~all
              => o = Engine!Guarded(IF Engine!OutOfGuesses(r) THEN Engine!Switched(r) ELSE r)
<1> DEFINE all == r.greenFound >= Cardinality(Engine!Greens(r.board))
           o == Engine!DuetOutcome(r, k)
<1>0. ~all <=> r.greenFound < Cardinality(Engine!Greens(r.board))
  OBVIOUS
<1>1. o = CASE k = "assassin" -> Engine!Result(Engine!Won(r, Engine!NoTeam), "assassin")
            [] k # "assassin" /\ all -> Engine!Result(Engine!Won(r, "red"), "completed")
            [] k = "neutral" /\ r.greenFound < Cardinality(Engine!Greens(r.board)) ->
                 IF left <= 0 THEN Engine!Result(Engine!Won(paid, Engine!NoTeam), "timerTokens")
                              ELSE Engine!Guarded(Engine!Switched(paid))
            [] OTHER -> Engine!Guarded(IF Engine!OutOfGuesses(r) THEN Engine!Switched(r) ELSE r)
  BY SameCount, Zenon DEF Engine!DuetOutcome
<1> HIDE DEF o
<1>2. QED BY <1>0, <1>1 DEF o

LEMMA EngineTotals ==
  ASSUME NEW m, NEW b, NEW rv, NEW t, NEW s, NEW clue, NEW used, NEW allowed, NEW over, NEW w,
         NEW green, NEW tokens, NEW u
  PROVE  Engine!TotalOf(EngineGame(m, b, rv, t, s, clue, used, allowed, over, w, green, tokens), u)
           = Cardinality(CardsOf(b.types, u))
<1> DEFINE r == EngineGame(m, b, rv, t, s, clue, used, allowed, over, w, green, tokens)
<1>1. r.board = b
  BY EngineFields
<1> HIDE DEF r
<1>2. Engine!TotalOf(r, u) = Cardinality(Engine!CardsOf(b.types, u))
  BY <1>1, SameCount, Zenon DEF Engine!TotalOf
<1>3. QED BY <1>2, SameVocabulary, Zenon DEF r

LEMMA EngineLimits ==
  ASSUME NEW m, NEW b, NEW rv, NEW t, NEW s, NEW clue, NEW used, NEW allowed, NEW over, NEW w,
         NEW green, NEW tokens
  PROVE  Engine!OutOfGuesses(EngineGame(m, b, rv, t, s, clue, used, allowed, over, w, green, tokens))
           <=> Exhausted(used, allowed)
<1> DEFINE r == EngineGame(m, b, rv, t, s, clue, used, allowed, over, w, green, tokens)
<1>1. r.guessesUsed = used /\ r.guessesAllowed = allowed
  BY EngineFields
<1> HIDE DEF r
<1>2. QED BY <1>1 DEF r, Engine!OutOfGuesses, Exhausted

LEMMA EngineReach ==
  ASSUME NEW m, NEW b, NEW rv, NEW t, NEW s, NEW clue, NEW used, NEW allowed, NEW over, NEW w,
         NEW green, NEW tokens
  PROVE  Engine!IsDuetWinUnreachable(EngineGame(m, b, rv, t, s, clue, used, allowed, over, w, green, tokens))
           <=> green + Cardinality({c \in Greens(b) : rv[c] = NoTeam}) < Cardinality(Greens(b))
<1> DEFINE r == EngineGame(m, b, rv, t, s, clue, used, allowed, over, w, green, tokens)
           down == {c \in Engine!Greens(r.board) : r.revealedBy[c] = Engine!NoTeam}
<1>1. r.board = b /\ r.revealedBy = rv /\ r.greenFound = green
  BY EngineFields
<1> HIDE DEF r
<1>2. Engine!IsDuetWinUnreachable(r)
        <=> r.greenFound + Cardinality(down) < Cardinality(Engine!Greens(r.board))
  BY SameCount, Zenon DEF Engine!IsDuetWinUnreachable
<1>3. Engine!Greens(r.board) = Greens(b)
  BY <1>1, SameVocabulary
<1>4. down = {c \in Greens(b) : rv[c] = NoTeam}
  BY <1>1, <1>3, SameVocabulary
<1> HIDE DEF down
<1>5. QED BY <1>1, <1>2, <1>3, <1>4, Zenon DEF r

LEMMA ResultFields ==
  ASSUME NEW g, NEW why
  PROVE  Engine!Result(g, why).game = g /\ Engine!Result(g, why).endReason = why
BY DEF Engine!Result

LEMMA SeenIsTheGame ==
  /\ Seen = EngineGame(gameMode, board, revealedBy, currentTurn, score, currentClue, guessesUsed,
                       guessesAllowed, gameOver, winner, greenFound, timerTokens)
  /\ Seen' = EngineGame(gameMode', board', revealedBy', currentTurn', score', currentClue',
                        guessesUsed', guessesAllowed', gameOver', winner', greenFound', timerTokens')
BY Zenon DEF Seen, EngineGame

\* The game of a reveal with the card up and its outcome still to be found.
WithCardUp ==
  EngineGame(gameMode, board, revealedBy', currentTurn, score', currentClue, guessesUsed + 1,
             guessesAllowed, gameOver, winner, greenFound', timerTokens)

LEMMA CardIsUp ==
  ASSUME TypeOK, NEW t \in Team, NEW c \in Card, RevealCard(t, c)
  PROVE  /\ Engine!ExecuteCardReveal(Seen, c) = WithCardUp
         /\ Engine!CardFor(Seen, c) = SeenBy(t, c)
         /\ Engine!Duet(Seen) <=> gameMode = "duet"
         /\ Seen.currentTurn = t
<1> DEFINE k == SeenBy(t, c)
           seen == EngineGame(gameMode, board, revealedBy, currentTurn, score, currentClue, guessesUsed,
                              guessesAllowed, gameOver, winner, greenFound, timerTokens)
<1>1. /\ Seen.gameMode = gameMode /\ Seen.board = board /\ Seen.currentTurn = currentTurn
  BY DEF Seen
<1>2. currentTurn = t /\ revealedBy' = [revealedBy EXCEPT ![c] = currentTurn]
  BY DEF RevealCard
<1>3. k = Face(gameMode, board, currentTurn, c)
  BY <1>2 DEF SeenBy, Face
<1>4. Engine!CardFor(Seen, c) = k /\ (Engine!Duet(Seen) <=> gameMode = "duet")
  BY <1>1, <1>3 DEF Engine!CardFor, Engine!Duet, Face
<1>5. score' = Scored(gameMode, currentTurn, k, score) /\ greenFound' = Found(gameMode, k, greenFound)
  <2>1. CASE gameMode = "duet" /\ RevealDuet(t, k)
    BY <2>1, <1>2 DEF RevealDuet, Scored, Found
  <2>2. CASE gameMode # "duet" /\ RevealClassic(t, k)
    BY <2>2 DEF RevealClassic, ClassicScore, Scored, Found
  <2>3. QED BY <2>1, <2>2 DEF RevealCard
<1> HIDE DEF k
<1>6. Engine!ExecuteCardReveal(seen, c)
        = EngineGame(gameMode, board, [revealedBy EXCEPT ![c] = currentTurn], currentTurn,
                     Scored(gameMode, currentTurn, Face(gameMode, board, currentTurn, c), score),
                     currentClue, guessesUsed + 1, guessesAllowed, gameOver, winner,
                     Found(gameMode, Face(gameMode, board, currentTurn, c), greenFound), timerTokens)
  BY EngineTurnsOver
<1>7. seen = Seen
  BY SeenIsTheGame, Zenon
<1> HIDE DEF seen
<1>8. QED BY <1>1, <1>2, <1>3, <1>4, <1>5, <1>6, <1>7, Zenon DEF WithCardUp, k

LEMMA ClassicRevealAgrees ==
  ASSUME IInv, TypeOK', NEW t \in Team, NEW c \in Card, RevealCard(t, c), gameMode # "duet"
  PROVE  LET o == Engine!ApplyEngineReveal(Seen, c) IN
         Seen' = o.game /\ (gameOver' => endReason' = o.endReason)
<1> DEFINE k == SeenBy(t, c)
           r == WithCardUp
           full(u) == r.score[u] >= Engine!TotalOf(r, u)
           o == Engine!ApplyEngineReveal(Seen, c)
           passes == k # t \/ Engine!OutOfGuesses(r)
<1>1. o = Engine!ClassicOutcome(r, k, t)
  BY CardIsUp, Zenon DEF Engine!ApplyEngineReveal, IInv
<1>2. /\ RevealClassic(t, k) /\ UNCHANGED boardVars /\ ~gameOver /\ currentTurn = t
  BY DEF RevealCard, Live
<1>3. /\ r.score = score' /\ \A u : Engine!TotalOf(r, u) = Total(u)
      /\ Engine!OutOfGuesses(r) <=> Exhausted(guessesUsed + 1, guessesAllowed)
  <2>1. r.score = score'
    BY EngineFields DEF WithCardUp
  <2>2. \A u : Engine!TotalOf(r, u) = Cardinality(CardsOf(board.types, u))
    BY EngineTotals DEF WithCardUp
  <2>3. Engine!OutOfGuesses(r) <=> Exhausted(guessesUsed + 1, guessesAllowed)
    BY EngineLimits DEF WithCardUp
  <2>4. QED BY <2>1, <2>2, <2>3, Zenon DEF Total
<1>4. \A u \in Team : (full(u) <=> HasAll(score', u)) /\ Total(u) \in Nat /\ score'[u] \in Nat
  BY <1>3, BoardCounts DEF HasAll, IInv, TypeOK
<1>5. passes <=> TurnPasses(k # t)
  BY <1>3 DEF TurnPasses
<1>6. /\ k = "assassin" => o = Engine!Result(Engine!Won(r, OtherTeam(t)), "assassin")
      /\ k # "assassin" /\ full("red") => o = Engine!Result(Engine!Won(r, "red"), "completed")
      /\ k # "assassin" /\ ~full("red") /\ full("blue")
           => o = Engine!Result(Engine!Won(r, "blue"), "completed")
      /\ k # "assassin" /\ ~full("red") /\ ~full("blue")
           => o = Engine!Result(IF passes THEN Engine!Switched(r) ELSE r, Engine!NoEnd)
  BY <1>1, <1>3, <1>4, SameVocabulary, EngineClassicCases DEF Team
<1> HIDE DEF o, k
<1>7. ASSUME NEW w, NEW why, CountGuess, EndGame(w, why), o = Engine!Result(Engine!Won(r, w), why)
      PROVE  Seen' = o.game /\ endReason' = o.endReason
  <2>1. Engine!Won(r, w) = EngineGame(gameMode, board, revealedBy', currentTurn, score', currentClue,
                                      guessesUsed + 1, guessesAllowed, Over, w, greenFound', timerTokens)
    BY EngineWins DEF WithCardUp
  <2>2. Seen' = Engine!Won(r, w)
    BY <1>2, <1>7, <2>1, SeenIsTheGame, Zenon DEF CountGuess, EndGame, boardVars, RevealClassic, Over
  <2>3. QED BY <1>7, <2>2, ResultFields, Zenon DEF EndGame
<1>8. ASSUME GoOn, k # "assassin", o = Engine!Result(IF passes THEN Engine!Switched(r) ELSE r, Engine!NoEnd),
             IF passes THEN SwitchTurn ELSE CountGuess
      PROVE  Seen' = o.game /\ ~gameOver'
  <2>1. Engine!Switched(r) = EngineGame(gameMode, board, revealedBy', OtherTeam(currentTurn), score', NoClue,
                                        0, 0, gameOver, winner, greenFound', timerTokens)
    BY EngineSwitches DEF WithCardUp
  <2>2. CASE passes
    BY <1>2, <1>8, <2>1, <2>2, SeenIsTheGame, ResultFields, Zenon
    DEF SwitchTurn, GoOn, outcomeVars, boardVars, RevealClassic
  <2>3. CASE ~passes
    <3>1. Seen' = r
      BY <1>2, <1>8, <2>3, SeenIsTheGame, Zenon
      DEF CountGuess, GoOn, outcomeVars, boardVars, RevealClassic, WithCardUp
    <3>2. o = Engine!Result(r, Engine!NoEnd) /\ ~gameOver'
      BY <1>2, <1>8, <2>3, Zenon DEF GoOn, outcomeVars
    <3>3. QED BY <3>1, <3>2, ResultFields, Zenon
  <2>4. QED BY <2>2, <2>3
<1> HIDE DEF passes, full
<1>9. QED
  <2>1. CASE k = "assassin" /\ CountGuess /\ EndGame(OtherTeam(t), "assassin")
    BY <1>6, <1>7, <2>1 DEF o
  <2>2. ASSUME NEW w \in Team, k # "assassin", HasAll(score', w), w = "blue" => ~HasAll(score', "red"),
               CountGuess, EndGame(w, "completed")
        PROVE  Seen' = o.game /\ endReason' = o.endReason
    BY <1>4, <1>6, <1>7, <2>2 DEF Team
  <2>3. CASE /\ k # "assassin" /\ \A w \in Team : ~HasAll(score', w)
             /\ (IF TurnPasses(k # t) THEN SwitchTurn ELSE CountGuess) /\ GoOn
    BY <1>4, <1>5, <1>6, <1>8, <2>3 DEF o, Team
  <2>4. QED BY <1>2, <2>1, <2>2, <2>3 DEF RevealClassic, k, o

LEMMA EngineGuards ==
  ASSUME TypeOK, NEW t \in Team, NEW c \in Card, RevealCard(t, c), NEW x, EndIfUnreachable,
         x = EngineGame(gameMode, board, revealedBy', currentTurn', score', currentClue', guessesUsed',
                        guessesAllowed', gameOver, winner, greenFound', timerTokens')
  PROVE  LET o == Engine!Guarded(x) IN
         Seen' = o.game /\ (gameOver' => endReason' = o.endReason)
<1> DEFINE o == Engine!Guarded(x)
           down == {d \in Greens(board) : revealedBy'[d] = NoTeam}
<1>1. UNCHANGED boardVars /\ ~gameOver
  BY DEF RevealCard, Live
<1>2. Engine!IsDuetWinUnreachable(x) <=> greenFound' + Cardinality(down) < Cardinality(Greens(board))
  BY EngineReach, Zenon
<1>3. down = Greens(board)' \ Revealed'
  BY <1>1 DEF Revealed, Greens, boardVars
<1> HIDE DEF down
<1>4. Engine!IsDuetWinUnreachable(x) <=> DuetReachable' < GreenTotal
  BY <1>2, <1>3, Zenon DEF DuetReachable, GreenTotal
<1>5. CASE DuetReachable' < GreenTotal
  <2>1. o = Engine!Result(Engine!Won(x, NoTeam), "unreachable")
    BY <1>4, <1>5, SameVocabulary, Zenon DEF Engine!Guarded
  <2>2. Engine!Won(x, NoTeam)
          = EngineGame(gameMode, board, revealedBy', currentTurn', score', currentClue', guessesUsed',
                       guessesAllowed', Over, NoTeam, greenFound', timerTokens')
    BY EngineWins
  <2>3. Seen' = Engine!Won(x, NoTeam) /\ endReason' = "unreachable"
    BY <1>1, <1>5, <2>2, SeenIsTheGame, Zenon DEF EndIfUnreachable, EndGame, boardVars, Over
  <2> DEFINE won == Engine!Won(x, NoTeam)
  <2> HIDE DEF won, o
  <2>4. o.game = won /\ o.endReason = "unreachable"
    BY <2>1, ResultFields DEF won
  <2>5. QED BY <2>3, <2>4, Zenon DEF won, o
<1>6. CASE ~(DuetReachable' < GreenTotal)
  <2>1. o = Engine!Result(x, Engine!NoEnd)
    BY <1>4, <1>6, Zenon DEF Engine!Guarded
  <2>2. Seen' = x /\ ~gameOver'
    BY <1>1, <1>6, SeenIsTheGame, Zenon DEF EndIfUnreachable, GoOn, boardVars, outcomeVars
  <2>3. o.game = x
    BY <2>1, ResultFields
  <2>4. QED BY <2>2, <2>3, Zenon
<1>7. QED BY <1>5, <1>6

LEMMA DuetRevealAgrees ==
  ASSUME IInv, TypeOK', NEW t \in Team, NEW c \in Card, RevealCard(t, c), gameMode = "duet"
  PROVE  LET o == Engine!ApplyEngineReveal(Seen, c) IN
         Seen' = o.game /\ (gameOver' => endReason' = o.endReason)
<1> DEFINE k == SeenBy(t, c)
           r == WithCardUp
           o == Engine!ApplyEngineReveal(Seen, c)
           left == SpendToken(timerTokens)
           paid == [r EXCEPT !.timerTokens = left]
           all == greenFound' >= GreenTotal
<1>1. o = Engine!DuetOutcome(r, k)
  BY CardIsUp, Zenon DEF Engine!ApplyEngineReveal, IInv
<1>2. /\ RevealDuet(t, k) /\ UNCHANGED boardVars /\ ~gameOver /\ currentTurn = t
  BY DEF RevealCard, Live, Competitive
<1>3. k \in CardType /\ greenFound' \in Nat /\ GreenTotal \in Nat /\ timerTokens \in Nat /\ left \in Nat
  BY SeenType, BoardCounts DEF IInv, TypeOK, SpendToken
<1>4. /\ r.board = board /\ r.greenFound = greenFound' /\ r.timerTokens = timerTokens
  BY EngineFields DEF WithCardUp
<1>5. Engine!OutOfGuesses(r) <=> Exhausted(guessesUsed + 1, guessesAllowed)
  BY EngineLimits DEF WithCardUp
<1>6. Cardinality(Engine!Greens(r.board)) = GreenTotal
  BY <1>4, SameVocabulary, Zenon DEF GreenTotal
<1>7. paid = EngineGame(gameMode, board, revealedBy', currentTurn, score', currentClue, guessesUsed + 1,
                        guessesAllowed, gameOver, winner, greenFound', left)
  BY UpdateTimerTokens DEF WithCardUp
<1> HIDE DEF r
<1>8. left = IF r.timerTokens > 0 THEN r.timerTokens - 1 ELSE 0
  BY <1>4 DEF SpendToken
<1> HIDE DEF paid, left, k, o
<1>9. /\ k = "assassin" => o = Engine!Result(Engine!Won(r, NoTeam), "assassin")
      /\ k # "assassin" /\ all => o = Engine!Result(Engine!Won(r, "red"), "completed")
      /\ k = "neutral" /\ ~all
           => o = IF left <= 0 THEN Engine!Result(Engine!Won(paid, NoTeam), "timerTokens")
                               ELSE Engine!Guarded(Engine!Switched(paid))
      /\ k # "assassin" /\ k # "neutral" /\ ~all
           => o = Engine!Guarded(IF Engine!OutOfGuesses(r) THEN Engine!Switched(r) ELSE r)
  <2>1. Cardinality(Engine!Greens(r.board)) \in Nat /\ r.greenFound \in Nat
    BY <1>3, <1>4, <1>6
  <2>2. r.greenFound >= Cardinality(Engine!Greens(r.board)) <=> all
    BY <1>4, <1>6
  <2>3. paid = [r EXCEPT !.timerTokens = left]
    BY DEF paid
  <2> HIDE DEF all
  <2>4. QED BY <1>1, <1>8, <2>1, <2>2, <2>3, SameVocabulary, EngineDuetCases
<1>10. ASSUME NEW x, NEW n, NEW w, NEW why, CountGuess, EndGame(w, why), n = timerTokens',
              x = EngineGame(gameMode, board, revealedBy', currentTurn, score', currentClue, guessesUsed + 1,
                             guessesAllowed, gameOver, winner, greenFound', n),
              o = Engine!Result(Engine!Won(x, w), why)
       PROVE  Seen' = o.game /\ (gameOver' => endReason' = o.endReason)
  <2>1. Engine!Won(x, w) = EngineGame(gameMode, board, revealedBy', currentTurn, score', currentClue,
                                      guessesUsed + 1, guessesAllowed, Over, w, greenFound', n)
    BY <1>10, EngineWins
  <2> DEFINE won == Engine!Won(x, w)
  <2>2. Seen' = won
    BY <1>2, <1>10, <2>1, SeenIsTheGame, Zenon DEF CountGuess, EndGame, boardVars, Over
  <2>3. endReason' = why
    BY <1>10 DEF EndGame
  <2> HIDE DEF won
  <2>4. o.game = won /\ o.endReason = why
    BY <1>10, ResultFields DEF won
  <2>5. QED BY <2>2, <2>3, <2>4, Zenon
<1>11. CASE k = "assassin" /\ CountGuess /\ EndGame(NoTeam, "assassin") /\ UNCHANGED timerTokens
  BY <1>9, <1>10, <1>11, Zenon DEF r, WithCardUp, o
<1>12. CASE k # "assassin" /\ all /\ CountGuess /\ EndGame("red", "completed") /\ UNCHANGED timerTokens
  BY <1>9, <1>10, <1>12, Zenon DEF r, WithCardUp, o
<1>13. CASE /\ k = "neutral" /\ ~all /\ timerTokens' = left
            /\ IF timerTokens' = 0 THEN CountGuess /\ EndGame(NoTeam, "timerTokens")
                                   ELSE SwitchTurn /\ EndIfUnreachable
  <2>1. CASE left = 0
    <3>1. o = Engine!Result(Engine!Won(paid, NoTeam), "timerTokens")
      BY <1>9, <1>13, <2>1
    <3>2. QED BY <1>7, <1>10, <1>13, <2>1, <3>1, Zenon DEF o
  <2>2. CASE left # 0
    <3>1. o = Engine!Guarded(Engine!Switched(paid))
      BY <1>3, <1>9, <1>13, <2>2
    <3>2. Engine!Switched(paid)
            = EngineGame(gameMode, board, revealedBy', OtherTeam(currentTurn), score', NoClue, 0, 0,
                         gameOver, winner, greenFound', left)
      BY <1>7, EngineSwitches
    <3>3. Engine!Switched(paid)
            = EngineGame(gameMode, board, revealedBy', currentTurn', score', currentClue', guessesUsed',
                         guessesAllowed', gameOver, winner, greenFound', timerTokens')
      BY <1>13, <2>2, <3>2, Zenon DEF SwitchTurn
    <3>4. QED BY <1>13, <2>2, <3>1, <3>3, EngineGuards, Zenon DEF o, IInv
  <2>3. QED BY <2>1, <2>2
<1>14. CASE /\ k \in Team /\ ~all
            /\ (IF Exhausted(guessesUsed + 1, guessesAllowed) THEN SwitchTurn ELSE CountGuess)
            /\ EndIfUnreachable /\ UNCHANGED timerTokens
  <2> DEFINE x == IF Engine!OutOfGuesses(r) THEN Engine!Switched(r) ELSE r
  <2>1. o = Engine!Guarded(x)
    BY <1>9, <1>14 DEF Team
  <2>2. Engine!Switched(r)
          = EngineGame(gameMode, board, revealedBy', OtherTeam(currentTurn), score', NoClue, 0, 0,
                       gameOver, winner, greenFound', timerTokens)
    BY EngineSwitches DEF r, WithCardUp
  <2>3. x = EngineGame(gameMode, board, revealedBy', currentTurn', score', currentClue', guessesUsed',
                       guessesAllowed', gameOver, winner, greenFound', timerTokens')
    <3>1. CASE Engine!OutOfGuesses(r)
      BY <1>5, <1>14, <2>2, <3>1, Zenon DEF SwitchTurn
    <3>2. CASE ~Engine!OutOfGuesses(r)
      BY <1>5, <1>14, <3>2, Zenon DEF CountGuess, r, WithCardUp
    <3>3. QED BY <3>1, <3>2
  <2> HIDE DEF x
  <2>4. QED BY <1>14, <2>1, <2>3, EngineGuards, Zenon DEF o, IInv
<1>15. QED
  <2>1. k \in Team => k # "assassin" /\ k # "neutral"
    BY DEF Team
  <2>2. RevealDuet(t, k)
    BY <1>2
  <2>3. greenFound' < GreenTotal <=> ~all
    BY <1>3
  <2>4. QED BY <1>11, <1>12, <1>13, <1>14, <2>2, <2>3 DEF RevealDuet, left

LEMMA RevealAgrees ==
  ASSUME IInv, TypeOK', NEW t \in Team, NEW c \in Card, RevealCard(t, c)
  PROVE  /\ Engine!MayReveal(Seen, c)
         /\ Seen' = Engine!ApplyEngineReveal(Seen, c).game
         /\ gameOver' => endReason' = Engine!ApplyEngineReveal(Seen, c).endReason
<1>1. Engine!MayReveal(Seen, c)
  <2>1. /\ Seen.gameOver = gameOver /\ Seen.currentClue = currentClue /\ Seen.revealedBy = revealedBy
        /\ Seen.guessesAllowed = guessesAllowed /\ Seen.guessesUsed = guessesUsed
    BY DEF Seen
  <2>2. ~gameOver /\ currentClue # NoClue /\ revealedBy[c] = NoTeam
    BY DEF RevealCard, Live, Revealed
  <2>3. guessesAllowed = 0 \/ guessesUsed < guessesAllowed
    BY DEF RevealCard, Exhausted, IInv, TypeOK
  <2>4. QED BY <2>1, <2>2, <2>3, SameVocabulary DEF Engine!MayReveal
<1>2. QED BY <1>1, ClassicRevealAgrees, DuetRevealAgrees, Zenon

\* What the engine's other operations do to the game it sees.
LEMMA BoardAgrees ==
  ASSUME NEW m \in Mode, NEW b \in BoardsOf(m), CreateGame(m, b)
  PROVE  Seen' = Engine!CreateEngineGame(gameMode', board')
BY SameVocabulary DEF CreateGame, Seen, Engine!CreateEngineGame

LEMMA ClueAgrees ==
  ASSUME IInv, NEW t \in Team, NEW n \in Clues, SubmitClue(t, n)
  PROVE  Seen' = Engine!ApplyEngineClue(Seen, currentTurn, currentClue'.number)
<1>1. n \in ClueNumber /\ currentClue'.number = n
  BY CluesAssumption DEF SubmitClue
<1> DEFINE seen == EngineGame(gameMode, board, revealedBy, currentTurn, score, currentClue, guessesUsed,
                              guessesAllowed, gameOver, winner, greenFound, timerTokens)
<1>2. Engine!ApplyEngineClue(seen, t, n)
        = EngineGame(gameMode, board, revealedBy, currentTurn, score, [team |-> t, number |-> n], 0,
                     GuessesFor(n), gameOver, winner, greenFound, timerTokens)
  BY <1>1, EngineClues
<1>3. seen = Seen
  BY SeenIsTheGame, Zenon
<1> HIDE DEF seen
<1>4. QED BY <1>1, <1>2, <1>3, SeenIsTheGame, Zenon
          DEF SubmitClue, boardVars, countVars, outcomeVars

LEMMA EndTurnAgrees ==
  ASSUME NEW t \in Team, EndTurn(t)
  PROVE  Seen' = Engine!ApplyEngineEndTurn(Seen)
<1> DEFINE seen == EngineGame(gameMode, board, revealedBy, currentTurn, score, currentClue, guessesUsed,
                              guessesAllowed, gameOver, winner, greenFound, timerTokens)
<1>1. Engine!Switched(seen)
        = EngineGame(gameMode, board, revealedBy, OtherTeam(currentTurn), score, NoClue, 0, 0,
                     gameOver, winner, greenFound, timerTokens)
  BY EngineSwitches
<1>2. seen = Seen
  BY SeenIsTheGame, Zenon
<1> HIDE DEF seen
<1>3. QED BY <1>1, <1>2, SeenIsTheGame, Zenon
          DEF EndTurn, SwitchTurn, boardVars, countVars, outcomeVars, Engine!ApplyEngineEndTurn

\* The rules exist twice.  Every step of the live game (the Lua scripts) is the
\* one revealEngine.ts computes, for any board, clues and number of tokens.
THEOREM EngineIsTheGame == Spec => EngineAgrees
<1> DEFINE Reveals == \A c \in Card : TurnedOver(c) =>
             /\ Engine!MayReveal(Seen, c)
             /\ Seen' = Engine!ApplyEngineReveal(Seen, c).game
             /\ gameOver' => endReason' = Engine!ApplyEngineReveal(Seen, c).endReason
           Deals == ~Live /\ Live' => Seen' = Engine!CreateEngineGame(gameMode', board')
           Cues == Live /\ Live' /\ currentClue = NoClue /\ currentClue' # NoClue =>
             Seen' = Engine!ApplyEngineClue(Seen, currentTurn, currentClue'.number)
           Passes == Live /\ Live' /\ revealedBy' = revealedBy /\ currentTurn' # currentTurn =>
             Seen' = Engine!ApplyEngineEndTurn(Seen)
<1>1. ASSUME IInv, TypeOK', [Next]_vars
      PROVE  Reveals /\ Deals /\ Cues /\ Passes
  <2>1. ASSUME NEW m \in Mode, NEW b \in BoardsOf(m), CreateGame(m, b)
        PROVE  Reveals /\ Deals /\ Cues /\ Passes
    BY <2>1, BoardAgrees DEF CreateGame, TurnedOver
  <2>2. CASE CleanupGame
    BY <2>2 DEF CleanupGame, TurnedOver, Live, Exists
  <2>3. ASSUME NEW t \in Team, NEW n \in Clues, SubmitClue(t, n)
        PROVE  Reveals /\ Deals /\ Cues /\ Passes
    BY <1>1, <2>3, ClueAgrees DEF SubmitClue, TurnedOver, countVars
  <2>4. ASSUME NEW t \in Team, NEW d \in Card, RevealCard(t, d)
        PROVE  Reveals /\ Deals /\ Cues /\ Passes
    <3>1. ASSUME NEW c \in Card, TurnedOver(c)
          PROVE  c = d
      BY <1>1, <2>4, <3>1 DEF RevealCard, TurnedOver, IInv, TypeOK
    <3>2. Reveals
      BY <1>1, <2>4, <3>1, RevealAgrees, Zenon
    <3>3. revealedBy' # revealedBy /\ Live /\ currentClue # NoClue
      BY <1>1, <2>4 DEF RevealCard, IInv, TypeOK, Revealed, Team, NoTeam
    <3>4. QED BY <3>2, <3>3
  <2>5. ASSUME NEW t \in Team, EndTurn(t)
        PROVE  Reveals /\ Deals /\ Cues /\ Passes
    BY <2>5, EndTurnAgrees DEF EndTurn, SwitchTurn, TurnedOver, countVars
  <2>6. CASE UNCHANGED <<countVars, turnVars>> /\ (gameMode' = gameMode) /\ (gameOver => gameOver')
    BY <2>6 DEF TurnedOver, countVars, turnVars, Live, Exists
  <2>7. CASE UNCHANGED vars
    BY <2>7 DEF vars, TurnedOver, Live, Exists
  <2>8. (\E t \in Team : ForfeitGame(t)) \/ AbandonGame \/ PauseGame \/ ResumeGame
          => UNCHANGED <<countVars, turnVars>> /\ (gameMode' = gameMode) /\ (gameOver => gameOver')
    BY DEF ForfeitGame, AbandonGame, PauseGame, ResumeGame, countVars, turnVars, boardVars, outcomeVars
  <2>9. QED BY <1>1, <2>1, <2>2, <2>3, <2>4, <2>5, <2>6, <2>7, <2>8 DEF Next
<1>2. ASSUME IInv, TypeOK', [Next]_vars
      PROVE  [/\ \A c \in Card : TurnedOver(c) =>
                   /\ Engine!MayReveal(Seen, c)
                   /\ Seen' = Engine!ApplyEngineReveal(Seen, c).game
                   /\ gameOver' => endReason' = Engine!ApplyEngineReveal(Seen, c).endReason
              /\ ~Live /\ Live' =>
                   Seen' = Engine!CreateEngineGame(gameMode', board')
              /\ Live /\ Live' /\ currentClue = NoClue /\ currentClue' # NoClue =>
                   Seen' = Engine!ApplyEngineClue(Seen, currentTurn, currentClue'.number)
              /\ Live /\ Live' /\ revealedBy' = revealedBy /\ currentTurn' # currentTurn =>
                   Seen' = Engine!ApplyEngineEndTurn(Seen)]_vars
  BY <1>1, <1>2, Zenon
<1>3. QED BY <1>2, IInvHolds, TypeCorrect, PTL DEF Spec, EngineAgrees
=============================================================================
