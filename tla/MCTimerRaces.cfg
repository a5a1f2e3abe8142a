CONSTANTS
  Instance = {i1, i2}
  JobId = {j1, j2}
  Duration = 2
  Added = 1
  TtlBuffer = 2
  Stale = 3
  MaxTurns = 2
  MaxCalls = 3
  MaxFailures = 1
  Calls = {"endTurn", "start", "end", "pause", "resume", "timerPause", "timerResume", "timerStop", "addTime", "status"}
  HostWaits = FALSE
  Prompt = FALSE
  NoJob = NoJob
  NoTimer = NoTimer
  NoEntry = NoEntry
SPECIFICATION Spec
SYMMETRY JobSymmetry
INVARIANTS OneTurnPerTimer
PROPERTIES OnlyRunOutTimersExpire TurnLastsItsTime
CHECK_DEADLOCK FALSE
