SPECIFICATION Spec
CONSTANTS
  maxClients = 2
  TimeLimit = 1
  MAX_INTERMISSION_TIME = 3
  ChatTimes = {0, 2, 9}
  Files <- MCFiles
  ValidMaps <- MCValidMaps
  hldm1 = "hldm1"
INVARIANTS TypeOK UnlimitedInTurn PlayersCounted IntermissionEnds
PROPERTIES MapSuitsPlayers IntermissionLasts
