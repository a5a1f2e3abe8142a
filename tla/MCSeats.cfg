CONSTANTS
  Human = {h1, h2}
  Bot = {b1}
  JobId = {j1, j2}
  Roles = {"spymaster"}
  MaxGames = 1
  MaxRequests = 2
  Team = {red, blue}
  NoTeam = none
  Nobody = Nobody
SPECIFICATION Spec
SYMMETRY SeatsSymmetry
INVARIANTS OneHolder BoardStaysSecret StandInYields SeatedIsListed
PROPERTIES TeamsStayManned RefusedKeepsTeam
CHECK_DEADLOCK FALSE
