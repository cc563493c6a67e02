SPECIFICATION Spec
CONSTANTS
  v1 = v1
  rc = rc
  linux = linux
  darwin = darwin
  Tags <- MCTags
  Prereleases <- MCPrereleases
  Platforms <- MCPlatforms
  UploadsAgain = TRUE
INVARIANTS
  TypeOK
  MainIsInstallable
  RevealedInOrder
PROPERTY
  RetriesComplete
CHECK_DEADLOCK FALSE
