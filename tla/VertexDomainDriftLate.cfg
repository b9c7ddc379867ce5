CONSTANTS
  f1 = f1
  f2 = f2
  Pods = {p1}
  FQDNs = {f1}
  Malformed = {}
  Templates <- Created
  Edits <- Unlabelled
  IPs = {a1}
  NumClaims = 1
  None = None
  MaxIncarnations = 2
  MaxFaults = 1
  MaxWipes = 0
SPECIFICATION DriftFairSpec
INVARIANT OrphanHasCause
PROPERTIES DeregistrationHasCause RegisteredUnlessTaken EventuallyCurrent
CHECK_DEADLOCK FALSE
