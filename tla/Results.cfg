SPECIFICATION Spec
CONSTANTS
  RowLength <- MCRowLength
  KeepDays = 0
  Grace = 1
  LastDay = 1
  MaxTyped = 1
INVARIANTS TypeOK DemosListed AutoDemoMarked
PROPERTIES OldDemosPurged
