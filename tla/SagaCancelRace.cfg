\* PayOrder and CancelOrder of one order overlap.
CONSTANTS
  c1 = c1
  c2 = c2
  c3 = c3
  c4 = c4
  Call = {c1, c2}
  Amount = 2
  RefundAmounts = {0}
  ReserveResult = {"ok"}
  PayResult = {"ok"}
  RefundResult = {"refunded"}
  MaxInFlight = 2
  MaxFaults = 0
  MaxCrashes = 0
SPECIFICATION Spec
CHECK_DEADLOCK FALSE
INVARIANTS
  Compensated
