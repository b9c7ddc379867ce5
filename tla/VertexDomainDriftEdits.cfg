CONSTANTS
  f1 = f1
  f2 = f2
  Pods = {p1}
  FQDNs = {f1, f2}
  Malformed = {}
  Templates <- Created
  Edits <- Changed
  IPs = {a1, a2}
  NumClaims = 1
  None = None
  MaxIncarnations = 1
  MaxFaults = 1
  MaxWipes = 0
SPECIFICATION DriftFairSpec
INVARIANT OrphanHasCause
PROPERTIES RegisteredUnlessTaken DeletionUnblocked
CHECK_DEADLOCK FALSE
