CONSTANTS
  Ops <- TheCheck
  MaxVersion = 2
  Good <- AllReleases
  PublishDuringInstall = FALSE
  MaxChecks = 1
  MaxCrashes = 1
SPECIFICATION Spec
INVARIANT SingleCommitPoint
CHECK_DEADLOCK FALSE
