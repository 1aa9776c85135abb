SPECIFICATION FairSpec
CONSTANTS
  maxFailures = 2
  Op = {"s1", "s2", "c1"}
  Kind = {"start", "cancel"}
  KindOf <- MCKindOf
  Other = {"x1", "x2"}
  MaxAttempts = 2
  channelSize = 1
  batchSize = 2
  maxParallelOps = 1
INVARIANTS ClosedIsHealthy OpsConserved StopFlushes
PROPERTIES Processed
CHECK_DEADLOCK FALSE
