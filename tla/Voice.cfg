SPECIFICATION FairSpec
CONSTANTS
  Slots = {s1, s2}
  Clients = {ann, bob, carl}
  Muters = {ann}
  Bots = {bob, carl}
  NoOne = NoOne
  Rules <- MCRules
  MaxDown = 2
  MaxUp = 1
  MaxJoins = 3
  MaxChanges = 2
  MaxLevels = 1
  MaxEvents = 7
INVARIANTS TypeOK ClientKnowsWhatWasSent ClientSeesWhatTheEngineDoes
PROPERTIES MutesTakeHold NobodyStaysBlocked ModEnableArrives
