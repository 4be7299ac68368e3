SPECIFICATION FairSpec
CONSTANTS
  MAX_PLAYERS = 2
  Players = {p, q}
  NoPlayer = NoPlayer
  hud_scores = TRUE
  MaxSlow = 1
  MaxJoins = 1
  MaxLevels = 1
  MaxPrints = 1
INVARIANTS TypeOK IdsOfOccupants OnlyAnswersHidden
PROPERTY EveryIdArrives
CHECK_DEADLOCK FALSE
