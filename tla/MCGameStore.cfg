CONSTANTS
  Room = {r1, r2}
  Process = {p1}
  JobId = {j1, j2}
  MaxTries = 2
  MaxJobs = 4
  Overruns = {"play", "amend", "create", "script"}
  Late = {"amend", "create"}
  NoJob = NoJob
SPECIFICATION FairSpec
PROPERTIES GamesAreAtomic CommitsOnWhatItRead JobsEnd
CHECK_DEADLOCK FALSE
