SPECIFICATION FairSpec
CONSTANTS
  Zone = {"z1", "z2"}
  Phone = {"71", "72"}
  ZoneOf <- MCZoneOf
  PhoneOf <- MCPhoneOf
  CourierId = {"c1", "c2"}
  Request <- MCRequest
  Known <- MCKnown
  MaxCouriersPerZone = 1
  MaxRpc = 3
  MaxFaults = 1
INVARIANTS
  MemoryZoneCapacity
  SlotsConsistent
  PhonesUnique
  OnePrimaryZone
  SummariesAgree
PROPERTY CallsReturn
CHECK_DEADLOCK FALSE
