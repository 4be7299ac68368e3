SPECIFICATION FairSpec
CONSTANTS
  Ids = {i1, i2}
  MaxParts = 2
  Parts <- MCParts
  PartSize = 1391
  LastSize = 600
  MaxChanges = 1
  MaxInbox = 1
  MaxFaults = 1
  MaxBreaks = 1
INVARIANT TypeOK
PROPERTIES ParsesWholeAnswers TimerFollowsServer
