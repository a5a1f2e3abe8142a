CONSTANTS
  Instance = {i1}
  JobId = {j1, j2}
  Duration = 2
  Added = 1
  TtlBuffer = 1
  Stale = 2
  MaxTurns = 3
  MaxCalls = 3
  MaxFailures = 1
  Calls = {"endTurn", "gameOver", "start", "end", "pause", "resume", "timerPause", "timerResume", "timerStop", "addTime", "status"}
  HostWaits = TRUE
  Prompt = TRUE
  NoJob = NoJob
  NoTimer = NoTimer
  NoEntry = NoEntry
SPECIFICATION FairSpec
INVARIANTS TimerIsArmed QuietTurnIsTimed
PROPERTIES TurnEnds
CHECK_DEADLOCK FALSE
