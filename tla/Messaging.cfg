SPECIFICATION FairSpec
CONSTANTS
  Event = {"order", "empty"}
  Empty = {"empty"}
  RetryCount <- MCRetryCount
  maxRetries = 2
  Partition = {0, 1}
  PartitionOf <- MCPartitionOf
  MaxLog = 2
  MaxOutbox = 1
  MaxStops = 1
  limit = 2
  MaxRuns = 1
INVARIANTS SkipsHaveACause WithinLimit FinishedIsComplete
PROPERTY ConsumedEventually
CHECK_DEADLOCK FALSE
