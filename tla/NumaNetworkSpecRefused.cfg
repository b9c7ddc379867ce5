CONSTANTS
  Classes = {k1, k2}
  Ranges = {r1}
  Claims = {}
  SpecImmutable = TRUE
  None = None
  MaxIncarnations = 1
  MaxEdits = 1
  MaxFaults = 0
SPECIFICATION FairSpec
PROPERTY EventuallyTemplated
CHECK_DEADLOCK FALSE
