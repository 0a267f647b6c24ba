SPECIFICATION FairSpec
CONSTANTS
  MaxRuns = 4
  MaxFaults = 3
  MaxAsked = 1
  None = None
INVARIANTS
  TypeOK
  InstalledIsTrue
  InstallRepairs
  UninstallLeavesNothing
  InstalledIsRegistered
PROPERTIES
  UninstallTakesEffect
  FailureEndsTheService
CHECK_DEADLOCK FALSE
