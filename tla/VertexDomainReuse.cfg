CONSTANTS
  Pods = {p1}
  FQDNs = {f1, f2}
  Malformed = {f2}
  Templates <- MixedTemplate
  IPs = {a1, a2}
  NumClaims = 1
  None = None
  MaxIncarnations = 2
  MaxFaults = 1
  MaxWipes = 0
SPECIFICATION FairSpec
INVARIANTS TypeOK NoOrphanRecord RecordIsOwn
PROPERTIES ImplementsRegistry EventuallyRegistered EventuallyDeleted
CHECK_DEADLOCK FALSE
