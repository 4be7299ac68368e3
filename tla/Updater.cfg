SPECIFICATION FairSpec
CONSTANTS
  GameVersion <- MCGameVersion
  ReleaseLists <- MCReleaseLists
  ChangeLogLimit = 2
  MaxReleases = 3
  Pages = {about}
  MaxSlots = 3
INVARIANTS TypeOK LatestVersionReadSafe FoundIsComplete IdsNameTheirSlots
PROPERTIES ImplementsUpdateCheck CheckAnswers DeleteReturns
