SPECIFICATION FairSpec
CONSTANTS
  IntLimit = 8
  MaxRpc = 2
  Key = {"k1"}
  NoKey = "nokey"
  Order = {"o1"}
  Payload <- MCPayload
  BatchSize = 1
  MaxTroubles = 1
INVARIANTS
  OncePerKey
  SameAnswer
  OneRequestPerKey
  OrderlyAcceptedIsStarted
  WaitedForSagas
PROPERTIES
  KeysSettle
CHECK_DEADLOCK FALSE
