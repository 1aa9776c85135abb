SPECIFICATION FairSpec
CONSTANTS
  Process = {"old", "new", "tool"}
  Release <- MCRelease
  MaxSteps = 2
  MaxRuns = 4
INVARIANTS MigratorInv
PROPERTIES UpToDate LockIsFreed
CHECK_DEADLOCK FALSE
