CONSTANTS
  Classes = {k1}
  Ranges = {r1, r2}
  Claims = {c1}
  SpecImmutable = TRUE
  None = None
  MaxIncarnations = 1
  MaxEdits = 1
  MaxFaults = 2
SPECIFICATION IpFairSpec
INVARIANTS IpTypeOK LeakHasCause PreparedIsReserved
PROPERTY TeardownCompletes
CHECK_DEADLOCK FALSE
