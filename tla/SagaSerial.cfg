\* Four sagas of one order, one after the other; every definite answer of the services.
CONSTANTS
  c1 = c1
  c2 = c2
  c3 = c3
  c4 = c4
  Call = {c1, c2, c3, c4}
  Amount = 2
  RefundAmounts = {0, 1, 3}
  ReserveResult = {"ok", "rejected"}
  PayResult = {"ok", "declined", "unexpected"}
  RefundResult = {"refunded", "rejected"}
  MaxInFlight = 1
  MaxFaults = 0
  MaxCrashes = 0
SPECIFICATION Spec
CHECK_DEADLOCK FALSE
INVARIANTS
  Compensated
  MoneyBalanced
PROPERTIES
  FollowsStateMachine
