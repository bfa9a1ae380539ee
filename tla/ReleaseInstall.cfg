CONSTANTS
  Ops <- BothInstallers
  MaxVersion = 3
  Good <- FirstAndThird
  PublishDuringInstall = FALSE
  MaxChecks = 5
  MaxCrashes = 2
SPECIFICATION Spec
INVARIANTS TypeOK CurrentResolves RefusedUnreachable OneEngineKept
CHECK_DEADLOCK FALSE
