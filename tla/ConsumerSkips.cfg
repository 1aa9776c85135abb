SPECIFICATION Spec
CONSTANTS
  Event = {"order", "empty"}
  Empty = {"empty"}
  RetryCount <- MCRetryCount
  maxRetries = 2
  Partition = {0, 1}
  PartitionOf <- MCPartitionOf
  MaxLog = 2
  MaxOutbox = 0
  MaxStops = 0
  limit = 2
  MaxRuns = 0
INVARIANT UnmarkedComesBack
CHECK_DEADLOCK FALSE
