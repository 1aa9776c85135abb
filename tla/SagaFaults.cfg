\* Two overlapping sagas, every answer of the services, one storage fault and one crash.
CONSTANTS
  c1 = c1
  c2 = c2
  c3 = c3
  c4 = c4
  Call = {c1, c2}
  Amount = 2
  RefundAmounts = {0, 1}
  ReserveResult = {"ok", "rejected", "timeout"}
  PayResult = {"ok", "declined", "timeout", "unexpected"}
  RefundResult = {"refunded", "rejected", "timeout", "unexpected"}
  MaxInFlight = 2
  MaxFaults = 1
  MaxCrashes = 1
SPECIFICATION FairSpec
CHECK_DEADLOCK FALSE
INVARIANTS
  SagaInv
  CopiesAreVersions
  NeverUncharged
  EventsAreTrue
  EventsAreComplete
PROPERTIES
  TerminalIsFinal
  CallsReturn
  StartSettles
