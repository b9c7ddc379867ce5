CONSTANTS
  Classes = {k1}
  Ranges = {r1}
  Claims = {c1}
  SpecImmutable = TRUE
  None = None
  MaxIncarnations = 1
  MaxEdits = 0
  MaxFaults = 0
SPECIFICATION IpSpec
INVARIANT AddressesReleasable
SYMMETRY ClaimSymmetry
CHECK_DEADLOCK FALSE
