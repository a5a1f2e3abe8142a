CONSTANTS
  Human = {h1, h2}
  Bot = {b1}
  JobId = {j1, j2}
  MaxSockets = 3
  MaxDrops = 1
  MaxTokens = 1
  MaxRooms = 2
  MaxRequests = 2
  Nobody = Nobody
SPECIFICATION Spec
SYMMETRY RoomSymmetry
INVARIANTS ReconnectSticks TokenAdmitsOnce OneHostFlag HostResolves EmptyRoomsGo NobodyLingers
CHECK_DEADLOCK FALSE
