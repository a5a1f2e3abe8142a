CONSTANTS
  IP = {a1, a2}
  SocketId = {s1, s2, s3}
  MaxPerIP = 2
  MaxTracked = 1
  Batch = 0
  NoIP = NoIP
SPECIFICATION TrackerSpec
INVARIANTS CountsMatch
PROPERTIES LockoutEnds
CHECK_DEADLOCK FALSE
