CONSTANTS
  Classes = {k1, k2}
  Ranges = {r1}
  Claims = {c1}
  SpecImmutable = TRUE
  None = None
  MaxIncarnations = 2
  MaxEdits = 1
  MaxFaults = 1
SPECIFICATION FairSpec
INVARIANT NetworkTypeOK
PROPERTIES TemplateForHeldNetwork ForeignTemplateKept EventuallyRestored EventuallyRemoved
CHECK_DEADLOCK FALSE
