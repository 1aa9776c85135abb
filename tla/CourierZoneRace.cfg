SPECIFICATION Spec
CONSTANTS
  Zone = {"z1", "z2"}
  Phone = {"71", "72"}
  ZoneOf <- MCZoneOf
  PhoneOf <- MCPhoneOf
  CourierId = {"c1", "c2"}
  Request <- MCRequest
  Known <- MCKnown
  MaxCouriersPerZone = 1
  MaxRpc = 2
  MaxFaults = 0
INVARIANT ZoneCapacity
CHECK_DEADLOCK FALSE
