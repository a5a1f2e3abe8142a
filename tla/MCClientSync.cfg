CONSTANTS
  Card = {c1, c2}
  NoCard = NoCard
  MaxGames = 2
  MaxMoves = 2
  MaxMutes = 1
  MaxDrops = 2
  MaxAsks = 1
SPECIFICATION Spec
INVARIANTS InStep
PROPERTIES SeenStaysSeen Settles
CHECK_DEADLOCK FALSE
