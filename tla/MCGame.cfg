CONSTANTS
  Card <- MCCard
  ClassicBoards <- MCClassicBoards
  DuetBoards <- MCDuetBoards
  Clues <- MCClues
  TimerTokens = 2
  NoClue = NoClue
SPECIFICATION Spec
INVARIANTS ClueMatchesTurn CountersMatchBoard LiveGameIsOpen OutcomeMatchesBoard
PROPERTIES TurnsAlternate EngineAgrees
