CONSTANTS
  Target = 4
  Margin = 2
  Bonus = 1
  CardPoints <- MCCardPoints
  BoardSize = 2
  MaxBoards = 3
  MaxFinalizers = 2
  NoSnapshot = NoSnapshot
SPECIFICATION FairSpec
INVARIANTS ScoreIsEarned MatchOverIsDecided
PROPERTIES WonRoundIsBanked
CHECK_DEADLOCK FALSE
