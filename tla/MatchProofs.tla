----------------------------- MODULE MatchProofs -----------------------------
(***************************************************************************)
(* Proofs about MatchRounds for every card score, target, margin, bonus    *)
(* and number of finalizers, and in any order of finalizers and host: no   *)
(* proof uses calm.                                                        *)
(***************************************************************************)
EXTENDS MatchRounds, FiniteSetTheorems, TLAPS

-----------------------------------------------------------------------------
(* Operators on scores and games                                           *)

LEMMA TeamFacts ==
  /\ NoTeam \notin Team /\ "red" \in Team /\ "blue" \in Team
  /\ \A t \in Team : OtherTeam(t) \in Team /\ OtherTeam(t) # t
BY DEF Team, NoTeam, OtherTeam

LEMMA AddType ==
  ASSUME NEW s \in Scores, NEW t \in Team, NEW n \in Int
  PROVE  /\ Add(s, t, n) \in Scores
         /\ \A u \in Team : Add(s, t, n)[u] = s[u] + (IF u = t THEN n ELSE 0)
BY DEF Add, Scores

LEMMA NewRoundType ==
  ASSUME NEW n \in Nat \ {0}, NEW b \in Nat, NEW s \in Scores, NEW h \in Seq(Round)
  PROVE  NewRound(n, b, s, h) \in Match
BY DEF NewRound, Match, Zero, Scores

LEMMA BonusType ==
  ASSUME NEW g, NEW t \in Team
  PROVE  BonusOf(g, t) \in Int
BY RulesAssumption DEF BonusOf

LEMMA LeaderType == \A s : Leader(s) \in Team
BY DEF Leader, Team

LEMMA FinalizeType ==
  ASSUME NEW g \in Match
  PROVE  FinalizeRound(g) \in Match
<1> DEFINE score == [t \in Team |-> g.score[t] + BonusOf(g, t)]
           total == [t \in Team |-> g.points[t] + BonusOf(g, t)]
           entry == [number |-> g.round, winner |-> g.winner, total |-> total]
<1>1. score \in Scores /\ total \in Scores
  BY BonusType DEF Match, Scores
<1>2. entry \in Round
  BY <1>1 DEF Round, Match
<1>3. Append(g.history, entry) \in Seq(Round)
  BY <1>2 DEF Match
<1>4. (g.matchOver \/ Decided(score)) \in BOOLEAN
  BY DEF Decided
<1>5. (IF Decided(score) THEN Leader(score) ELSE g.matchWinner) \in Team \cup {NoTeam}
  BY LeaderType DEF Match
<1> HIDE DEF score, total
<1>6. FinalizeRound(g) = [g EXCEPT !.score = score, !.history = Append(@, entry),
                          !.matchOver = g.matchOver \/ Decided(score),
                          !.matchWinner = IF Decided(score) THEN Leader(score)
                                                            ELSE g.matchWinner]
  BY DEF FinalizeRound, score, total
<1> HIDE DEF entry
<1>7. QED BY <1>1, <1>3, <1>4, <1>5, <1>6 DEF Match

-----------------------------------------------------------------------------
(* Type correctness                                                        *)

LEMMA InitType == Init => TypeOK
<1> SUFFICES ASSUME Init PROVE TypeOK
  OBVIOUS
<1>1. Zero \in Scores
  BY DEF Zero, Scores
<1>2. <<>> \in Seq(Round) /\ 1 \in Nat \ {0}
  OBVIOUS
<1>3. NewRound(1, 1, Zero, <<>>) \in Match
  BY <1>1, <1>2, NewRoundType
<1>4. QED BY <1>1, <1>3 DEF Init, TypeOK

LEMMA NextType == TypeOK /\ [Next]_vars => TypeOK'
<1> SUFFICES ASSUME TypeOK, [Next]_vars PROVE TypeOK'
  OBVIOUS
<1> USE DEF TypeOK
<1>1. ASSUME NEW t \in Team, NEW p \in CardPoints, NEW w \in Team \cup {NoTeam},
             RevealCard(t, p, w)
      PROVE  TypeOK'
  <2>1. p \in Int /\ earned' \in Scores
    BY <1>1, AddType, RulesAssumption DEF RevealCard
  <2>2. Add(game.score, t, p) \in Scores /\ Add(game.points, t, p) \in Scores
    BY <2>1, AddType DEF Match
  <2>3. (w # NoTeam) \in BOOLEAN
    OBVIOUS
  <2>4. game.reveals + 1 \in Nat
    BY DEF Match
  <2> DEFINE over == w # NoTeam
  <2>5. game' = [game EXCEPT !.score = Add(game.score, t, p),
                             !.points = Add(game.points, t, p),
                             !.reveals = game.reveals + 1, !.winner = w, !.over = over]
    BY <1>1 DEF RevealCard
  <2> HIDE DEF over
  <2>6. game' \in Match
    BY <2>2, <2>3, <2>4, <2>5 DEF Match, over
  <2>7. QED BY <1>1, <2>1, <2>6 DEF RevealCard
<1>2. ASSUME NEW t \in Team, ForfeitGame(t)
      PROVE  TypeOK'
  <2>1. OtherTeam(t) \in Team
    BY TeamFacts
  <2>2. game' \in Match
    BY <1>2, <2>1 DEF ForfeitGame, Match
  <2>3. QED BY <1>2, <2>2 DEF ForfeitGame
<1>3. CASE AbandonGame
  <2>1. earned' \in Scores
    BY <1>3 DEF AbandonGame, Match, Scores
  <2>2. QED BY <1>3, <2>1 DEF AbandonGame, Match
<1>4. CASE FinalizeMatchRound
  BY <1>4, FinalizeType DEF FinalizeMatchRound
<1>5. CASE FinalizerFails
  BY <1>5 DEF FinalizerFails
<1>6. CASE ReadForNextRound
  BY <1>6 DEF ReadForNextRound
<1>7. CASE StoreNextRound
  <2>1. creating \in Match
    BY <1>7 DEF StoreNextRound
  <2>2. /\ Len(creating.history) + 1 \in Nat \ {0} /\ creating.boards + 1 \in Nat
        /\ creating.score \in Scores /\ creating.history \in Seq(Round)
    BY <2>1 DEF Match
  <2>3. game' \in Match
    BY <1>7, <2>2, NewRoundType DEF StoreNextRound
  <2>4. QED BY <1>7, <2>3 DEF StoreNextRound
<1>8. CASE NextRoundFails
  BY <1>8 DEF NextRoundFails
<1>9. CASE CreateGame
  <2>1. Zero \in Scores
    BY DEF Zero, Scores
  <2>2. <<>> \in Seq(Round) /\ 1 \in Nat \ {0}
    OBVIOUS
  <2>3. NewRound(1, 1, Zero, <<>>) \in Match
    BY <2>1, <2>2, NewRoundType
  <2>4. QED BY <1>9, <2>1, <2>3 DEF CreateGame
<1>10. CASE UNCHANGED vars
  BY <1>10 DEF vars
<1>11. QED
  BY <1>1, <1>2, <1>3, <1>4, <1>5, <1>6, <1>7, <1>8, <1>9, <1>10 DEF Next

\* The stored match, and any copy of it a handler holds, keeps its type.
THEOREM TypeCorrect == Spec => []TypeOK
BY InitType, NextType, PTL DEF Spec

-----------------------------------------------------------------------------
(* The inductive invariant.  What the properties say of the stored game     *)
(* must hold of the copy startNextRound carries over as well, and that copy *)
(* is only held while the game is over, so no card is scored meanwhile.     *)

MatchOverFits(g) ==
  /\ g.matchOver <=> Banked(g) /\ g.over /\ Decided(g.score)
  /\ g.matchOver =>
       /\ g.matchWinner \in Team
       /\ g.score[g.matchWinner] - g.score[OtherTeam(g.matchWinner)] >= Margin

ScoreFits(g) ==
  /\ ~g.over => \A t \in Team : g.score[t] = g.start[t] + g.points[t]
  /\ g.over /\ g.winner = NoTeam => g.score = g.start

IInv ==
  /\ TypeOK
  /\ Numbered(game) /\ Earned(game) /\ ScoreFits(game) /\ MatchOverFits(game)
  /\ creating # NoSnapshot =>
       game.over /\ Numbered(creating) /\ Earned(creating)

-----------------------------------------------------------------------------
(* What banking a round does                                               *)

LEMMA Entry ==
  ASSUME NEW g \in Match
  PROVE  LET f == FinalizeRound(g)
         IN  /\ f.round = g.round /\ f.over = g.over /\ f.winner = g.winner
             /\ f.start = g.start /\ f.points = g.points
             /\ \A t \in Team : f.score[t] = g.score[t] + BonusOf(g, t)
             /\ f.matchOver = (g.matchOver \/ Decided(f.score))
             /\ f.matchWinner = IF Decided(f.score) THEN Leader(f.score)
                                                    ELSE g.matchWinner
             /\ f.history \in Seq(Round) /\ Len(f.history) = Len(g.history) + 1
             /\ \A i \in 1 .. Len(g.history) : f.history[i] = g.history[i]
             /\ f.history[Len(g.history) + 1].number = g.round
             /\ f.history[Len(g.history) + 1].winner = g.winner
<1> DEFINE score == [t \in Team |-> g.score[t] + BonusOf(g, t)]
           total == [t \in Team |-> g.points[t] + BonusOf(g, t)]
           entry == [number |-> g.round, winner |-> g.winner, total |-> total]
           over  == g.matchOver \/ Decided(score)
           won   == IF Decided(score) THEN Leader(score) ELSE g.matchWinner
           h     == Append(g.history, entry)
<1>1. FinalizeRound(g) = [g EXCEPT !.score = score, !.history = h,
                          !.matchOver = over, !.matchWinner = won]
  BY DEF FinalizeRound
<1>2. total \in Scores
  BY BonusType DEF Match, Scores
<1>3. entry.number = g.round /\ entry.winner = g.winner
  OBVIOUS
<1>4. entry \in Round
  BY <1>2 DEF Round, Match
<1> HIDE DEF entry
<1>5. /\ h \in Seq(Round) /\ Len(h) = Len(g.history) + 1
      /\ \A i \in 1 .. Len(g.history) : h[i] = g.history[i]
      /\ h[Len(g.history) + 1] = entry
  BY <1>4 DEF Match
<1>6. \A t \in Team : score[t] = g.score[t] + BonusOf(g, t)
  OBVIOUS
<1> HIDE DEF score, over, won, h
<1>7. LET f == FinalizeRound(g)
      IN  /\ f.round = g.round /\ f.over = g.over /\ f.winner = g.winner
          /\ f.start = g.start /\ f.points = g.points
          /\ f.score = score /\ f.matchOver = over /\ f.matchWinner = won
          /\ f.history = h
  BY <1>1 DEF Match
<1>8. QED BY <1>3, <1>5, <1>6, <1>7 DEF over, won

LEMMA WinsType ==
  ASSUME NEW g \in Match, NEW t
  PROVE  /\ Wins(g, t) \subseteq 1 .. Len(g.history) /\ Len(g.history) \in Nat
         /\ IsFiniteSet(Wins(g, t)) /\ Cardinality(Wins(g, t)) \in Nat
<1>1. Len(g.history) \in Nat /\ DOMAIN g.history = 1 .. Len(g.history)
  BY DEF Match
<1>2. Wins(g, t) \subseteq 1 .. Len(g.history)
  BY <1>1 DEF Wins
<1>3. IsFiniteSet(1 .. Len(g.history))
  BY <1>1, FS_Interval
<1>4. QED BY <1>1, <1>2, <1>3, FS_Subset, FS_CardinalityType

LEMMA WinsStep ==
  ASSUME NEW g \in Match, NEW t
  PROVE  Cardinality(Wins(FinalizeRound(g), t)) =
           Cardinality(Wins(g, t)) + (IF g.winner = t THEN 1 ELSE 0)
<1> DEFINE f == FinalizeRound(g)
           n == Len(g.history)
<1>1. /\ f.history \in Seq(Round) /\ Len(f.history) = n + 1 /\ n \in Nat
      /\ \A i \in 1 .. n : f.history[i] = g.history[i]
      /\ f.history[n + 1].winner = g.winner
  BY Entry DEF Match
<1>2. DOMAIN f.history = 1 .. n + 1 /\ DOMAIN g.history = 1 .. n
  BY <1>1 DEF Match
<1>3. Wins(g, t) \subseteq 1 .. n /\ IsFiniteSet(Wins(g, t))
      /\ Cardinality(Wins(g, t)) \in Nat
  BY WinsType
<1> HIDE DEF f, n
<1>4. CASE g.winner = t
  <2>1. Wins(f, t) = Wins(g, t) \cup {n + 1}
    BY <1>1, <1>2, <1>4 DEF Wins
  <2>2. n + 1 \notin Wins(g, t)
    BY <1>1, <1>3
  <2>3. Cardinality(Wins(g, t) \cup {n + 1}) = Cardinality(Wins(g, t)) + 1
    BY <1>3, <2>2, FS_AddElement
  <2>4. QED BY <1>4, <2>1, <2>3 DEF f
<1>5. CASE g.winner # t
  <2>1. Wins(f, t) = Wins(g, t)
    BY <1>1, <1>2, <1>5 DEF Wins
  <2>2. QED BY <1>3, <1>5, <2>1 DEF f
<1>6. QED BY <1>4, <1>5

\* The leader of a decided match leads by the margin.
LEMMA LeaderLeads ==
  ASSUME NEW s \in Scores, Decided(s)
  PROVE  Leader(s) \in Team /\ s[Leader(s)] - s[OtherTeam(Leader(s))] >= Margin
<1>1. PICK t \in Team : s[t] - s[OtherTeam(t)] >= Margin
  BY DEF Decided
<1>2. s["red"] \in Int /\ s["blue"] \in Int /\ Margin \in Nat \ {0}
  BY RulesAssumption DEF Scores, Team
<1>3. CASE t = "red"
  BY <1>1, <1>2, <1>3 DEF Leader, OtherTeam, Team
<1>4. CASE t = "blue"
  BY <1>1, <1>2, <1>4 DEF Leader, OtherTeam, Team
<1>5. QED BY <1>3, <1>4 DEF Team

LEMMA BankingKeeps ==
  ASSUME NEW g \in Match, earned \in Scores, MayFinalize(g),
         Numbered(g), Earned(g), ScoreFits(g), MatchOverFits(g)
  PROVE  LET f == FinalizeRound(g)
         IN  Numbered(f) /\ Earned(f) /\ ScoreFits(f) /\ MatchOverFits(f)
<1> DEFINE f == FinalizeRound(g)
           n == Len(g.history)
<1>1. /\ f.round = g.round /\ f.over = g.over /\ f.winner = g.winner
      /\ f.start = g.start
      /\ \A t \in Team : f.score[t] = g.score[t] + BonusOf(g, t)
      /\ f.matchOver <=> Decided(f.score)
      /\ Decided(f.score) => f.matchWinner = Leader(f.score)
      /\ f.history \in Seq(Round) /\ Len(f.history) = n + 1
      /\ \A i \in 1 .. n : f.history[i] = g.history[i]
      /\ f.history[n + 1].number = g.round
  <2>1. ~g.matchOver
    BY DEF MatchOverFits, MayFinalize
  <2>2. /\ f.matchOver = (g.matchOver \/ Decided(f.score))
        /\ f.matchWinner = IF Decided(f.score) THEN Leader(f.score)
                                               ELSE g.matchWinner
    BY Entry
  <2>3. f.matchOver <=> Decided(f.score)
    BY <2>1, <2>2
  <2>4. Decided(f.score) => f.matchWinner = Leader(f.score)
    BY <2>2
  <2>5. QED BY <2>3, <2>4, Entry
<1>0. f \in Match /\ n \in Nat
  <2>1. f \in Match
    BY FinalizeType
  <2>2. n \in Nat
    BY DEF Match
  <2>3. QED BY <2>1, <2>2
<1>2. DOMAIN g.history = 1 .. n /\ DOMAIN f.history = 1 .. n + 1
  BY <1>0, <1>1 DEF Match
<1>3. g.over /\ g.round = n + 1
  <2>1. n # 0 => g.history[n].number = n
    BY <1>0, <1>2 DEF Numbered
  <2>2. g.history = <<>> => n = 0
    OBVIOUS
  <2>3. g.round \in {n, n + 1} /\ g.round # 0
    BY DEF Numbered, Match
  <2>4. g.over /\ ~(g.history # <<>> /\ g.history[n].number = g.round)
    BY DEF MayFinalize, Banked
  <2>5. QED BY <1>0, <2>1, <2>2, <2>3, <2>4
<1>4. Numbered(f)
  BY <1>0, <1>1, <1>2, <1>3 DEF Numbered
<1>5. \A t \in Team : Cardinality(Wins(g, t)) \in Nat
  BY WinsType
<1>6. \A t \in Team : Cardinality(Wins(f, t)) =
           Cardinality(Wins(g, t)) + (IF g.winner = t THEN 1 ELSE 0)
  BY WinsStep
<1>7. \A k \in Nat : Bonus * (k + 1) = Bonus * k + Bonus /\ Bonus * k \in Int
  BY RulesAssumption
<1>8. g.score \in Scores /\ f.score \in Scores
  BY <1>0 DEF Match
<1> HIDE DEF f, n
<1>9. Earned(f)
  <2> SUFFICES ASSUME NEW t \in Team
               PROVE  f.score[t] = earned[t] + Bonus * Cardinality(Wins(f, t))
    BY DEF Earned
  <2>1. g.score[t] = earned[t] + Bonus * Cardinality(Wins(g, t))
    BY DEF Earned
  <2>2. earned[t] \in Int /\ Bonus \in Nat
    BY RulesAssumption DEF Scores
  <2>3. CASE g.winner = t
    <3>1. Bonus * Cardinality(Wins(f, t)) = Bonus * Cardinality(Wins(g, t)) + Bonus
      BY <1>5, <1>6, <1>7, <2>3
    <3>2. f.score[t] = g.score[t] + Bonus
      BY <1>1, <2>3 DEF BonusOf
    <3>3. Bonus * Cardinality(Wins(g, t)) \in Int
      BY <1>5, <1>7
    <3>4. QED BY <2>1, <2>2, <3>1, <3>2, <3>3
  <2>4. CASE g.winner # t
    <3>1. Cardinality(Wins(f, t)) = Cardinality(Wins(g, t))
      BY <1>5, <1>6, <2>4
    <3>2. f.score[t] = g.score[t]
      BY <1>1, <1>8, <2>4 DEF BonusOf, Scores
    <3>3. QED BY <2>1, <3>1, <3>2
  <2>5. QED BY <2>3, <2>4
<1>10. ScoreFits(f)
  <2>1. ASSUME f.winner = NoTeam
        PROVE  f.score = f.start
    <3>1. \A t \in Team : f.score[t] = g.score[t]
      BY <1>1, <1>8, <2>1, TeamFacts DEF BonusOf, Scores
    <3>2. f.score = g.score
      BY <1>8, <3>1 DEF Scores
    <3>3. QED BY <1>1, <1>3, <2>1, <3>2 DEF ScoreFits
  <2>2. QED BY <1>1, <1>3, <2>1 DEF ScoreFits
<1>11. MatchOverFits(f)
  <2>1. Banked(f)
    BY <1>0, <1>1, <1>3 DEF Banked
  <2>2. f.matchOver <=> Decided(f.score)
    BY <1>1
  <2>3. f.over
    BY <1>1, <1>3
  <2>4. ASSUME Decided(f.score)
        PROVE  /\ f.matchWinner \in Team
               /\ f.score[f.matchWinner] - f.score[OtherTeam(f.matchWinner)] >= Margin
    <3>1. f.matchWinner = Leader(f.score)
      BY <1>1, <2>4
    <3>2. QED BY <1>8, <2>4, <3>1, LeaderLeads
  <2>5. QED BY <2>1, <2>2, <2>3, <2>4 DEF MatchOverFits
<1>12. QED BY <1>4, <1>9, <1>10, <1>11 DEF f

-----------------------------------------------------------------------------
(* The invariant, action by action                                         *)

\* A board in play is not banked.
LEMMA LiveIsNotBanked ==
  ASSUME NEW g \in Match, Numbered(g), g.round = Len(g.history) + 1
  PROVE  ~Banked(g)
<1>1. Len(g.history) \in Nat /\ DOMAIN g.history = 1 .. Len(g.history)
  BY DEF Match
<1>2. g.history # <<>> => Len(g.history) # 0
  BY DEF Match
<1>3. Len(g.history) # 0 => g.history[Len(g.history)].number = Len(g.history)
  BY <1>1 DEF Numbered
<1>4. QED BY <1>1, <1>2, <1>3 DEF Banked

\* What playing on, or ending a round, has to show: h is the game after it.
LEMMA PlayKeeps ==
  ASSUME NEW g \in Match, NEW h \in Match, Numbered(g), MatchOverFits(g), ~g.over,
         h.round = g.round, h.history = g.history, h.matchOver = g.matchOver
  PROVE  Numbered(h) /\ MatchOverFits(h) /\ \A t : Wins(h, t) = Wins(g, t)
<1>1. Numbered(h) /\ h.round = Len(h.history) + 1
  BY DEF Numbered
<1>2. ~Banked(h)
  BY <1>1, LiveIsNotBanked
<1>3. ~h.matchOver
  BY DEF MatchOverFits
<1>4. QED BY <1>1, <1>2, <1>3 DEF MatchOverFits, Wins

LEMMA NewRoundKeeps ==
  ASSUME NEW g \in Match, Numbered(g), NEW b \in Nat
  PROVE  LET h == NewRound(Len(g.history) + 1, b, g.score, g.history)
         IN  /\ Numbered(h) /\ ScoreFits(h) /\ MatchOverFits(h)
             /\ h.score = g.score /\ \A t : Wins(h, t) = Wins(g, t)
<1> DEFINE h == NewRound(Len(g.history) + 1, b, g.score, g.history)
<1>1. /\ h.round = Len(g.history) + 1 /\ h.history = g.history /\ h.score = g.score
      /\ h.start = g.score /\ h.points = Zero /\ ~h.over /\ ~h.matchOver
  BY DEF NewRound
<1>2. Len(g.history) + 1 \in Nat \ {0} /\ g.score \in Scores /\ g.history \in Seq(Round)
  BY DEF Match
<1>3. h \in Match
  BY <1>2, NewRoundType
<1> HIDE DEF h
<1>4. Numbered(h)
  BY <1>1 DEF Numbered
<1>5. ScoreFits(h)
  <2>1. \A t \in Team : g.score[t] = g.score[t] + 0
    BY <1>2 DEF Scores
  <2>2. \A t \in Team : h.points[t] = 0
    BY <1>1 DEF Zero
  <2>3. QED BY <1>1, <2>1, <2>2 DEF ScoreFits
<1>6. MatchOverFits(h)
  <2>1. ~Banked(h)
    BY <1>1, <1>3, <1>4, LiveIsNotBanked
  <2>2. QED BY <1>1, <2>1 DEF MatchOverFits
<1>7. \A t : Wins(h, t) = Wins(g, t)
  BY <1>1 DEF Wins
<1>8. QED BY <1>1, <1>4, <1>5, <1>6, <1>7 DEF h

LEMMA FirstRound ==
  LET h == NewRound(1, 1, Zero, <<>>)
  IN  Numbered(h) /\ ScoreFits(h) /\ MatchOverFits(h) /\ \A t \in Team :
        h.score[t] = 0 /\ Cardinality(Wins(h, t)) = 0
<1> DEFINE h == NewRound(1, 1, Zero, <<>>)
<1>1. /\ h.round = 1 /\ h.history = <<>> /\ h.score = Zero
      /\ h.start = Zero /\ h.points = Zero /\ ~h.over /\ ~h.matchOver
  BY DEF NewRound
<1>2. Len(<<>>) = 0 /\ DOMAIN <<>> = {} /\ \A t \in Team : Zero[t] = 0
  BY DEF Zero
<1> HIDE DEF h
<1>3. \A t : Wins(h, t) = {}
  <2>1. DOMAIN h.history = {}
    BY <1>1, <1>2
  <2>2. QED BY <2>1 DEF Wins
<1>4. Numbered(h)
  BY <1>1, <1>2 DEF Numbered
<1>5. ScoreFits(h) /\ MatchOverFits(h)
  BY <1>1, <1>2 DEF ScoreFits, MatchOverFits, Banked
<1>6. QED BY <1>1, <1>2, <1>3, <1>4, <1>5, FS_EmptySet DEF h

LEMMA RevealKeeps ==
  ASSUME IInv, TypeOK', NEW t \in Team, NEW p \in CardPoints,
         NEW w \in Team \cup {NoTeam}, RevealCard(t, p, w)
  PROVE  IInv'
<1> DEFINE over == w # NoTeam
           score == Add(game.score, t, p)
           points == Add(game.points, t, p)
<1>1. game \in Match /\ game' \in Match /\ earned \in Scores /\ p \in Int
      /\ ~game.over /\ creating' = creating
  BY RulesAssumption DEF IInv, TypeOK, RevealCard
<1>2. game' = [game EXCEPT !.score = score, !.points = points,
                           !.reveals = game.reveals + 1, !.winner = w, !.over = over]
      /\ earned' = Add(earned, t, p)
  BY DEF RevealCard
<1>3. over <=> w # NoTeam
  OBVIOUS
<1>4. \A u \in Team :
        /\ score[u] = game.score[u] + (IF u = t THEN p ELSE 0)
        /\ points[u] = game.points[u] + (IF u = t THEN p ELSE 0)
        /\ earned'[u] = earned[u] + (IF u = t THEN p ELSE 0)
  <2>1. game.score \in Scores /\ game.points \in Scores
    BY <1>1 DEF Match
  <2>2. \A u \in Team : score[u] = game.score[u] + (IF u = t THEN p ELSE 0)
    BY SMTT(30), <1>1, <2>1, AddType
  <2>3. \A u \in Team : points[u] = game.points[u] + (IF u = t THEN p ELSE 0)
    BY <1>1, <2>1, AddType
  <2>4. \A u \in Team : earned'[u] = earned[u] + (IF u = t THEN p ELSE 0)
    BY <1>1, <1>2, AddType
  <2>5. QED BY <2>2, <2>3, <2>4
<1> HIDE DEF over, score, points
<1>5. /\ game'.round = game.round /\ game'.history = game.history
      /\ game'.matchOver = game.matchOver /\ game'.score = score
      /\ game'.points = points /\ game'.start = game.start
      /\ game'.winner = w /\ game'.over = over
  BY <1>1, <1>2 DEF Match
<1>6. creating' = NoSnapshot
  BY <1>1 DEF IInv
<1>7. Numbered(game') /\ MatchOverFits(game') /\ \A u : Wins(game', u) = Wins(game, u)
  BY <1>1, <1>5, PlayKeeps DEF IInv
<1>8. \A u \in Team : game.score[u] \in Int /\ game.start[u] \in Int
                     /\ game.points[u] \in Int /\ earned[u] \in Int
  BY <1>1 DEF Match, Scores
<1>9. \A u \in Team : game'.score[u] = earned'[u] + Bonus * Cardinality(Wins(game', u))
  <2> SUFFICES ASSUME NEW u \in Team
               PROVE  game'.score[u] = earned'[u] + Bonus * Cardinality(Wins(game', u))
    OBVIOUS
  <2>1. game.score[u] = earned[u] + Bonus * Cardinality(Wins(game, u))
    BY DEF IInv, Earned
  <2>2. Bonus * Cardinality(Wins(game, u)) \in Int
    BY <1>1, WinsType, RulesAssumption
  <2>3. QED BY <1>1, <1>4, <1>5, <1>7, <1>8, <2>1, <2>2
<1>10. ScoreFits(game')
  <2>1. \A u \in Team : game.score[u] = game.start[u] + game.points[u]
    BY <1>1 DEF IInv, ScoreFits
  <2>2. \A u \in Team : score[u] = game.start[u] + points[u]
    BY <1>1, <1>4, <1>8, <2>1
  <2>3. QED BY <1>3, <1>5, <2>2 DEF ScoreFits
<1>11. QED BY <1>6, <1>7, <1>9, <1>10 DEF IInv, Earned

LEMMA ForfeitKeeps ==
  ASSUME IInv, TypeOK', NEW t \in Team, ForfeitGame(t)
  PROVE  IInv'
<1>1. game \in Match /\ game' \in Match /\ ~game.over /\ creating' = creating
      /\ earned' = earned
  BY DEF IInv, TypeOK, ForfeitGame
<1>2. /\ game'.round = game.round /\ game'.history = game.history
      /\ game'.matchOver = game.matchOver /\ game'.score = game.score
      /\ game'.winner = OtherTeam(t) /\ game'.over
  BY <1>1 DEF ForfeitGame, Match
<1>3. creating' = NoSnapshot
  BY <1>1 DEF IInv
<1>4. Numbered(game') /\ MatchOverFits(game') /\ \A u : Wins(game', u) = Wins(game, u)
  BY <1>1, <1>2, PlayKeeps DEF IInv
<1>5. ScoreFits(game')
  BY <1>2, TeamFacts DEF ScoreFits
<1>6. Earned(game)'
  BY <1>1, <1>2, <1>4 DEF IInv, Earned
<1>7. QED BY <1>3, <1>4, <1>5, <1>6 DEF IInv

LEMMA AbandonKeeps ==
  ASSUME IInv, TypeOK', AbandonGame
  PROVE  IInv'
<1>1. game \in Match /\ game' \in Match /\ earned \in Scores /\ ~game.over
      /\ creating' = creating /\ earned' = [t \in Team |-> earned[t] - game.points[t]]
  BY DEF IInv, TypeOK, AbandonGame
<1>2. /\ game'.round = game.round /\ game'.history = game.history
      /\ game'.matchOver = game.matchOver /\ game'.score = game.start
      /\ game'.start = game.start /\ game'.winner = NoTeam /\ game'.over
  BY <1>1 DEF AbandonGame, Match
<1>3. creating' = NoSnapshot
  BY <1>1 DEF IInv
<1>4. Numbered(game') /\ MatchOverFits(game') /\ \A u : Wins(game', u) = Wins(game, u)
  BY <1>1, <1>2, PlayKeeps DEF IInv
<1>5. ScoreFits(game')
  BY <1>2 DEF ScoreFits
<1>6. \A u \in Team : game'.score[u] = earned'[u] + Bonus * Cardinality(Wins(game', u))
  <2> SUFFICES ASSUME NEW u \in Team
               PROVE  game'.score[u] = earned'[u] + Bonus * Cardinality(Wins(game', u))
    OBVIOUS
  <2>1. /\ game.score[u] = earned[u] + Bonus * Cardinality(Wins(game, u))
        /\ game.score[u] = game.start[u] + game.points[u]
    BY <1>1 DEF IInv, Earned, ScoreFits
  <2>2. Bonus * Cardinality(Wins(game, u)) \in Int
    BY <1>1, WinsType, RulesAssumption
  <2>3. game.start[u] \in Int /\ game.points[u] \in Int /\ earned[u] \in Int
    BY <1>1 DEF Match, Scores
  <2>4. earned'[u] = earned[u] - game.points[u] /\ game'.score[u] = game.start[u]
    BY <1>1, <1>2
  <2>5. Bonus * Cardinality(Wins(game', u)) = Bonus * Cardinality(Wins(game, u))
    BY <1>4
  <2> DEFINE bonuses == Bonus * Cardinality(Wins(game, u))
  <2> HIDE DEF bonuses
  <2>6. /\ game.score[u] = earned[u] + bonuses /\ bonuses \in Int
        /\ game.score[u] = game.start[u] + game.points[u]
    BY <2>1, <2>2 DEF bonuses
  <2>7. game.start[u] = earned[u] - game.points[u] + bonuses
    BY <2>3, <2>6
  <2>8. QED BY <2>4, <2>5, <2>7 DEF bonuses
<1>7. Earned(game)'
  BY <1>6 DEF Earned
<1>8. QED BY <1>3, <1>4, <1>5, <1>7 DEF IInv

LEMMA FinalizeKeeps ==
  ASSUME IInv, TypeOK', FinalizeMatchRound
  PROVE  IInv'
<1>1. game \in Match /\ earned \in Scores /\ UNCHANGED <<creating, earned>>
  BY DEF IInv, TypeOK, FinalizeMatchRound
<1>2. game' = game \/ (MayFinalize(game) /\ game' = FinalizeRound(game))
  BY DEF FinalizeMatchRound
<1>3. /\ Numbered(game') /\ Earned(game') /\ ScoreFits(game') /\ MatchOverFits(game')
      /\ game'.over = game.over
  <2>1. CASE game' = game
    BY <2>1 DEF IInv, Earned
  <2>2. CASE MayFinalize(game) /\ game' = FinalizeRound(game)
    <3>1. Numbered(game) /\ Earned(game) /\ ScoreFits(game) /\ MatchOverFits(game)
      BY DEF IInv
    <3>2. FinalizeRound(game).over = game.over
      BY <1>1, Entry
    <3>3. /\ Numbered(FinalizeRound(game)) /\ Earned(FinalizeRound(game))
          /\ ScoreFits(FinalizeRound(game)) /\ MatchOverFits(FinalizeRound(game))
      BY <1>1, <2>2, <3>1, BankingKeeps
    <3>4. QED BY <2>2, <3>2, <3>3 DEF Earned
  <2>3. QED BY <1>2, <2>1, <2>2
<1>4. Earned(game)'
  BY <1>1, <1>3 DEF Earned
<1>5. creating' # NoSnapshot => Earned(creating)' /\ Numbered(creating)' /\ game'.over
  BY <1>1, <1>3 DEF IInv, Earned
<1>6. Numbered(game)' /\ ScoreFits(game)' /\ MatchOverFits(game)'
  BY <1>3 DEF Numbered, ScoreFits, MatchOverFits, Banked, Decided
<1>7. QED BY <1>4, <1>5, <1>6 DEF IInv

LEMMA StoreKeeps ==
  ASSUME IInv, TypeOK', StoreNextRound
  PROVE  IInv'
<1>1. /\ creating \in Match /\ creating # NoSnapshot /\ earned' = earned
      /\ creating' = NoSnapshot /\ creating.boards + 1 \in Nat
      /\ game' = NewRound(Len(creating.history) + 1, creating.boards + 1,
                          creating.score, creating.history)
  BY DEF IInv, TypeOK, StoreNextRound, Match
<1>2. Numbered(creating) /\ Earned(creating)
  BY <1>1 DEF IInv
<1>3. /\ Numbered(game') /\ ScoreFits(game') /\ MatchOverFits(game')
      /\ game'.score = creating.score
      /\ \A t : Wins(game', t) = Wins(creating, t)
  BY <1>1, <1>2, NewRoundKeeps
<1>4. Earned(game)'
  BY <1>1, <1>2, <1>3 DEF Earned
<1>5. QED BY <1>1, <1>3, <1>4 DEF IInv

LEMMA StartKeeps ==
  ASSUME TypeOK', creating' = NoSnapshot, earned' = Zero,
         game' = NewRound(1, 1, Zero, <<>>)
  PROVE  IInv'
<1>1. /\ Numbered(game') /\ ScoreFits(game') /\ MatchOverFits(game')
      /\ \A t \in Team : game'.score[t] = 0 /\ Cardinality(Wins(game', t)) = 0
  BY FirstRound
<1>2. \A t \in Team : earned'[t] = 0
  BY DEF Zero
<1>3. Bonus * 0 = 0
  BY RulesAssumption
<1>4. Earned(game)'
  BY <1>1, <1>2, <1>3 DEF Earned
<1>5. QED BY <1>1, <1>4 DEF IInv

LEMMA IInvInit == Init => IInv
<1> SUFFICES ASSUME Init PROVE IInv
  OBVIOUS
<1>1. TypeOK
  BY InitType
<1>2. /\ Numbered(game) /\ ScoreFits(game) /\ MatchOverFits(game)
      /\ \A t \in Team : game.score[t] = 0 /\ Cardinality(Wins(game, t)) = 0
  BY FirstRound DEF Init
<1>3. Bonus * 0 = 0 /\ \A t \in Team : earned[t] = 0
  BY RulesAssumption DEF Init, Zero
<1>4. Earned(game)
  BY <1>2, <1>3 DEF Earned
<1>5. QED BY <1>1, <1>2, <1>4 DEF IInv, Init

LEMMA IInvNext == IInv /\ [Next]_vars => IInv'
<1> SUFFICES ASSUME IInv, [Next]_vars PROVE IInv'
  OBVIOUS
<1>1. TypeOK'
  BY NextType DEF IInv
<1>2. CASE FinalizerFails \/ NextRoundFails \/ UNCHANGED vars
  BY <1>1, <1>2 DEF FinalizerFails, NextRoundFails, vars, IInv, Earned
<1>3. CASE ReadForNextRound
  BY <1>1, <1>3 DEF ReadForNextRound, IInv, Earned
<1>4. CASE CreateGame
  BY <1>1, <1>4, StartKeeps DEF CreateGame
<1>5. QED
  BY <1>1, <1>2, <1>3, <1>4, RevealKeeps, ForfeitKeeps, AbandonKeeps,
     FinalizeKeeps, StoreKeeps DEF Next

LEMMA IInvHolds == Spec => []IInv
BY IInvInit, IInvNext, PTL DEF Spec

\* Rounds are banked once each and in order, in any interleaving.
THEOREM RoundsAreNumbered == Spec => []RoundsNumbered
<1>1. IInv => RoundsNumbered
  BY DEF IInv, RoundsNumbered
<1>2. QED BY <1>1, IInvHolds, PTL

\* The match score is what was earned: card points and one bonus per banked win.
THEOREM ScoresAreEarned == Spec => []ScoreIsEarned
<1>1. IInv => ScoreIsEarned
  BY DEF IInv, ScoreIsEarned
<1>2. QED BY <1>1, IInvHolds, PTL

\* An abandoned round leaves the score it began with.
THEOREM AbandonIsScoreless == Spec => []AbandonedScoresNothing
<1>1. IInv => AbandonedScoresNothing
  BY DEF IInv, ScoreFits, AbandonedScoresNothing
<1>2. QED BY <1>1, IInvHolds, PTL

\* The match is over exactly when a banked round left it decided.
THEOREM MatchEndsWhenDecided == Spec => []MatchOverIsDecided
<1>1. IInv => MatchOverIsDecided
  BY DEF IInv, MatchOverFits, MatchOverIsDecided
<1>2. QED BY <1>1, IInvHolds, PTL
=============================================================================
