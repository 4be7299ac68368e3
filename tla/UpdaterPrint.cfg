SPECIFICATION Spec
CONSTANTS
  GameVersion <- MCGameVersion
  ReleaseLists <- MCReleaseLists
  ChangeLogLimit = 2
  MaxReleases = 3
  Pages = {about}
  MaxSlots = 3
INVARIANT PrintsTheNewVersion
