------------------------------ MODULE GameRules ------------------------------
(***************************************************************************)
(* The vocabulary of the board game shared by the other modules: teams,    *)
(* card types, boards and the numbers a clue stands for.                   *)
(* Sources: services/game/boardGenerator.ts, scripts/submitClue.lua,       *)
(* scripts/revealCard.lua, shared/gameRules.ts.                            *)
(***************************************************************************)
EXTENDS Integers, FiniteSets

CONSTANT Card          \* the positions of a board (0 .. BOARD_SIZE - 1)

ASSUME CardAssumption == IsFiniteSet(Card)

Team     == {"red", "blue"}
NoTeam   == "none"                     \* null where the code stores a team
CardType == Team \cup {"neutral", "assassin"}

OtherTeam(t) == IF t = "red" THEN "blue" ELSE "red"

\* A clue number: -1 is "unlimited", 0 the anti-clue, both with no guess limit.
ClueNumber == -1 .. 9

\* guessesAllowed for a clue number; 0 is the sentinel for "no limit".
GuessesFor(n) == IF n >= 1 THEN n + 1 ELSE 0

\* A limit of 0 never runs out.
Exhausted(used, allowed) == allowed > 0 /\ used >= allowed

(***************************************************************************)
(* A board is the key card seen from each side.  Outside duet both sides   *)
(* are the same card, and the second one is never read.                    *)
(***************************************************************************)
Board == [types : [Card -> CardType], duetTypes : [Card -> CardType],
          firstTeam : Team]

CardsOf(types, k) == {c \in Card : types[c] = k}

\* Cards that are an agent for at least one side of a duet board.
Greens(b) == {c \in Card : b.types[c] \in Team \/ b.duetTypes[c] \in Team}

\* What generateBoardLayout deals: the first team has one card more than the
\* other, and there is exactly one assassin.
IsClassicLayout(b) ==
  /\ b \in Board
  /\ Cardinality(CardsOf(b.types, b.firstTeam))
       = Cardinality(CardsOf(b.types, OtherTeam(b.firstTeam))) + 1
  /\ CardsOf(b.types, OtherTeam(b.firstTeam)) # {}
  /\ Cardinality(CardsOf(b.types, "assassin")) = 1

\* What generateDuetBoard deals: side A names its agents red, side B blue, and
\* an agent of one side is never an assassin of the other.
DuetPairs == {<<"red", "blue">>, <<"red", "neutral">>, <<"neutral", "blue">>,
              <<"assassin", "assassin">>, <<"assassin", "neutral">>,
              <<"neutral", "assassin">>, <<"neutral", "neutral">>}

IsDuetLayout(b) ==
  /\ b \in Board
  /\ \A c \in Card : <<b.types[c], b.duetTypes[c]>> \in DuetPairs
  /\ Greens(b) # {}
=============================================================================
