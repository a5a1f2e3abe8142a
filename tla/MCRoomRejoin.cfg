CONSTANTS
  Human = {h1}
  Bot = {}
  JobId = {j1, j2}
  MaxSockets = 2
  MaxDrops = 1
  MaxTokens = 2
  MaxRooms = 1
  MaxRequests = 1
  Nobody = Nobody
SPECIFICATION Spec
SYMMETRY RoomSymmetry
INVARIANTS RejoinSticks
CHECK_DEADLOCK FALSE
