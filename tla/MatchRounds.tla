----------------------------- MODULE MatchRounds -----------------------------
(***************************************************************************)
(* The rounds of one match: what outlives a board in the stored game.      *)
(*                                                                         *)
(* A reveal or a forfeit that ends a round leaves a finalizer behind: the  *)
(* handler broadcasts the end, then calls finalizeMatchRound, which banks  *)
(* the round in a transaction of its own (lock reveal:<code>).  The host's *)
(* game:nextRound reads the game and later overwrites it whole, under      *)
(* another lock (game-create:<code>).  Nothing orders the two.  Within a   *)
(* round the board follows the rules of Game; here a reveal is its points  *)
(* and whether it ends the round.                                          *)
(***************************************************************************)
EXTENDS Integers, Sequences, FiniteSets

CONSTANTS
  Target,            \* MATCH_TARGET
  Margin,            \* MATCH_WIN_MARGIN
  Bonus,             \* ROUND_WIN_BONUS
  CardPoints,        \* the scores of cards, negative for traps
  BoardSize,         \* the cards of a board (bounds the reveals of a round)
  MaxBoards,         \* bound: the boards dealt in a match
  MaxFinalizers,     \* bound: the finalizers under way
  NoSnapshot

ASSUME RulesAssumption ==
  /\ Target \in Int /\ Margin \in Nat \ {0} /\ Bonus \in Nat
  /\ CardPoints \subseteq Int
  /\ BoardSize \in Nat /\ MaxBoards \in Nat /\ MaxFinalizers \in Nat

Team   == {"red", "blue"}
NoTeam == "none"
OtherTeam(t) == IF t = "red" THEN "blue" ELSE "red"
Scores == [Team -> Int]
Zero   == [t \in Team |-> 0]

\* An entry of roundHistory; total is redRoundScore and blueRoundScore.
Round == [number : Nat \ {0}, winner : Team \cup {NoTeam}, total : Scores]

\* The fields of the stored game that matter to the match.  start is the
\* snapshot roundStartRedMatchScore / roundStartBlueMatchScore, points what
\* revealedBy and cardScores say each team turned over this round, boards is the
\* length of firstTeamHistory.
Match == [round : Nat \ {0}, boards : Nat, score : Scores, start : Scores,
          points : Scores, reveals : Nat, over : BOOLEAN, winner : Team \cup {NoTeam},
          history : Seq(Round), matchOver : BOOLEAN,
          matchWinner : Team \cup {NoTeam}]
ASSUME SnapshotAssumption == NoSnapshot \notin Match

VARIABLES
  game,        \* the stored game
  creating,    \* what startNextRound read, NoSnapshot while nobody is in it
  finalizers,  \* handlers between the reveal (or forfeit) and its finalization
  earned,      \* history: card points of the match, abandoned rounds excluded
  calm         \* this match: no finalizer fails, and the host waits for them

vars == <<game, creating, finalizers, earned, calm>>

\* A new board: buildGameState with or without a carry-over.
NewRound(n, boards, score, history) ==
  [round |-> n, boards |-> boards, score |-> score, start |-> score,
   points |-> Zero, reveals |-> 0, over |-> FALSE, winner |-> NoTeam,
   history |-> history, matchOver |-> FALSE, matchWinner |-> NoTeam]

Banked(g) == g.history # <<>> /\ g.history[Len(g.history)].number = g.round

Init ==
  /\ game = NewRound(1, 1, Zero, <<>>)
  /\ creating = NoSnapshot
  /\ finalizers = 0
  /\ earned = Zero
  /\ calm \in BOOLEAN

-----------------------------------------------------------------------------
(* Playing and ending a round                                              *)

Add(s, t, n) == [s EXCEPT ![t] = @ + n]

\* Card points reach the match score with the reveal, whoever owns the card.
\* w is the winner if the reveal ends the round, NoTeam if it does not.
RevealCard(t, p, w) ==
  /\ ~game.over
  /\ game.reveals < BoardSize
  /\ w # NoTeam => finalizers < MaxFinalizers
  /\ game' = [game EXCEPT !.score = Add(@, t, p), !.points = Add(@, t, p),
                          !.reveals = @ + 1, !.winner = w, !.over = w # NoTeam]
  /\ earned' = Add(earned, t, p)
  /\ finalizers' = IF w # NoTeam THEN finalizers + 1 ELSE finalizers
  /\ UNCHANGED <<creating, calm>>

ForfeitGame(t) ==
  /\ ~game.over
  /\ finalizers < MaxFinalizers
  /\ game' = [game EXCEPT !.over = TRUE, !.winner = OtherTeam(t)]
  /\ finalizers' = finalizers + 1
  /\ UNCHANGED <<creating, earned, calm>>

\* The round is played again: its points are taken back, nobody finalizes it.
AbandonGame ==
  /\ ~game.over
  /\ game' = [game EXCEPT !.over = TRUE, !.winner = NoTeam, !.score = game.start]
  /\ earned' = [t \in Team |-> earned[t] - game.points[t]]
  /\ UNCHANGED <<creating, finalizers, calm>>

-----------------------------------------------------------------------------
(* Banking a round                                                         *)

BonusOf(g, t) == IF g.winner = t THEN Bonus ELSE 0

\* The match is decided: a team has reached the target with a lead of Margin.
Decided(s) ==
  /\ \E t \in Team : s[t] >= Target
  /\ \E t \in Team : s[t] - s[OtherTeam(t)] >= Margin

Leader(s) == IF s["red"] > s["blue"] THEN "red" ELSE "blue"

\* finalizeRound
Mut_FinalizeRound(g) ==
  LET score == [t \in Team |-> g.score[t] + g.points[t] + BonusOf(g, t)]
  IN  [g EXCEPT !.score = score,
                !.history = Append(@, [number |-> g.round, winner |-> g.winner,
                  total |-> [t \in Team |-> g.points[t] + BonusOf(g, t)]]),
                !.matchOver = @ \/ Decided(score),
                !.matchWinner = IF Decided(score) THEN Leader(score) ELSE @]
Mut_FinalizeRound_Early(g) ==
  LET score == [t \in Team |-> g.score[t] + BonusOf(g, t)]
  IN  [g EXCEPT !.score = score,
                !.history = Append(@, [number |-> g.round, winner |-> g.winner,
                  total |-> [t \in Team |-> g.points[t] + BonusOf(g, t)]]),
                !.matchOver = @ \/ Decided(g.score),
                !.matchWinner = IF Decided(g.score) THEN Leader(score) ELSE @]
FinalizeRound(g) ==
  LET score == [t \in Team |-> g.score[t] + BonusOf(g, t)]
  IN  [g EXCEPT !.score = score,
                !.history = Append(@, [number |-> g.round, winner |-> g.winner,
                  total |-> [t \in Team |-> g.points[t] + BonusOf(g, t)]]),
                !.matchOver = @ \/ Decided(score),
                !.matchWinner = IF Decided(score) THEN Leader(score) ELSE @]

\* Only a round that ended, and only once; the transaction checks both.
Mut_MayFinalize(g) == g.over /\ g.history = <<>>
MayFinalize(g) == g.over /\ ~Banked(g)

\* The finalizer does not know which round it was left behind by.
FinalizeMatchRound ==
  /\ finalizers > 0
  /\ finalizers' = finalizers - 1
  /\ game' = IF MayFinalize(game) THEN FinalizeRound(game) ELSE game
  /\ UNCHANGED <<creating, earned, calm>>

\* The lock or the transaction fails: the handler throws, the round stays
\* as it is.
FinalizerFails ==
  /\ ~calm
  /\ finalizers > 0
  /\ finalizers' = finalizers - 1
  /\ UNCHANGED <<game, creating, earned, calm>>

-----------------------------------------------------------------------------
(* The next board                                                          *)

HostMayAct == calm => finalizers = 0

\* startNextRound has the lock, has read the game and passed its checks.
ReadForNextRound ==
  /\ HostMayAct
  /\ creating = NoSnapshot
  /\ game.over /\ ~game.matchOver
  /\ creating' = game
  /\ UNCHANGED <<game, finalizers, earned, calm>>

\* It stores a board that carries over what it read, numbered by the history.
StoreNextRound ==
  /\ creating # NoSnapshot
  /\ creating.boards < MaxBoards
  /\ game' = NewRound(Len(creating.history) + 1, creating.boards + 1,
                      creating.score, creating.history)
  /\ creating' = NoSnapshot
  /\ UNCHANGED <<finalizers, earned, calm>>

\* Words, Redis or the lock fail: nothing is stored.
NextRoundFails ==
  /\ creating # NoSnapshot
  /\ creating' = NoSnapshot
  /\ UNCHANGED <<game, finalizers, earned, calm>>

\* game:start on a finished game begins another match.  createGame holds the
\* same lock; what it stores does not depend on what it read, so reading and
\* storing are one step.
CreateGame ==
  /\ HostMayAct
  /\ creating = NoSnapshot
  /\ game.over
  /\ game' = NewRound(1, 1, Zero, <<>>)
  /\ earned' = Zero
  /\ UNCHANGED <<creating, finalizers, calm>>

Next ==
  \/ \E t \in Team, p \in CardPoints, w \in Team \cup {NoTeam} : RevealCard(t, p, w)
  \/ \E t \in Team : ForfeitGame(t)
  \/ AbandonGame
  \/ FinalizeMatchRound
  \/ FinalizerFails
  \/ ReadForNextRound
  \/ StoreNextRound
  \/ NextRoundFails
  \/ CreateGame

Spec == Init /\ [][Next]_vars

\* A handler whose awaits resolve goes on: no finalizer is left waiting.
FairSpec == Spec /\ WF_vars(FinalizeMatchRound)

-----------------------------------------------------------------------------
(* Properties of every behaviour, whatever the order of the two            *)

TypeOK ==
  /\ game \in Match
  /\ creating \in Match \cup {NoSnapshot}
  /\ finalizers \in Nat
  /\ earned \in Scores
  /\ calm \in BOOLEAN

Numbered(g) ==
  /\ \A i \in DOMAIN g.history : g.history[i].number = i
  /\ g.round \in {Len(g.history), Len(g.history) + 1}
  /\ ~g.over => g.round = Len(g.history) + 1

\* Rounds are banked once each and in order, however many finalizers are
\* under way, and the board being played is the first one not banked.
RoundsNumbered == Numbered(game)

Wins(g, t) == {i \in DOMAIN g.history : g.history[i].winner = t}

Earned(g) ==
  \A t \in Team : g.score[t] = earned[t] + Bonus * Cardinality(Wins(g, t))

\* The match score is the card points of the rounds that were not abandoned
\* and one bonus for each banked win: no bonus twice, no card twice, none lost
\* when a board is replaced.
ScoreIsEarned == Earned(game)

\* An abandoned round leaves the score it began with, even if a finalizer of
\* an earlier round banks it.
AbandonedScoresNothing ==
  game.over /\ game.winner = NoTeam => game.score = game.start

\* The match is over exactly when a banked round left it decided, and the
\* winner is the one who leads.
MatchOverIsDecided ==
  /\ game.matchOver <=> Banked(game) /\ game.over /\ Decided(game.score)
  /\ game.matchOver =>
       /\ game.matchWinner \in Team
       /\ game.score[game.matchWinner]
            - game.score[OtherTeam(game.matchWinner)] >= Margin

-----------------------------------------------------------------------------
(* Properties of calm matches, where the finalizer is in time and succeeds *)

\* In a calm match a round that was won is banked: its finalizer comes, and the
\* next board does not replace the round before it is in the history.
WonRoundIsBanked == (calm /\ game.over /\ game.winner # NoTeam) ~> Banked(game)
=============================================================================
