SPECIFICATION FairSpec
CONSTANTS
  w1 = w1
  w2 = w2
  Worker = {w1, w2}
  MaxMsg = 2
  BatchSize = 2
  MaxAttempts = 2
  MaxFaults = 2
  MaxOverruns = 1
  MaxStops = 1
INVARIANTS
  OutboxInv
  ClaimsAreExclusive
  DuplicatesHaveACause
PROPERTIES
  DeliversEventually
CHECK_DEADLOCK FALSE
