SPECIFICATION Spec
CONSTANTS
  maxClients = 3
  SpotClass <- MCSpotClass
  Modes = {0, 1, 4, 5}
  MayObserve = {1, 2}
INVARIANTS TypeOK PhysicsFollowTarget ObserversWatchPlayers PreviousUndoesNext SpectatorsKnown
