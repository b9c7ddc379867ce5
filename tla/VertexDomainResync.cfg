CONSTANTS
  Pods = {p1}
  FQDNs = {f1}
  Malformed = {}
  Templates <- WebhookTemplate
  IPs = {a1, a2}
  NumClaims = 2
  None = None
  MaxIncarnations = 1
  MaxFaults = 1
  MaxWipes = 1
SPECIFICATION FairSpec
PROPERTIES ImplementsRegistry EventuallyCurrent
CHECK_DEADLOCK FALSE
