CONSTANTS
  Pods = {p1, p2}
  FQDNs = {f1}
  Malformed = {}
  Templates <- WebhookTemplate
  IPs = {a1}
  NumClaims = 1
  None = None
  MaxIncarnations = 1
  MaxFaults = 1
  MaxWipes = 0
SYMMETRY PodSymmetry
SPECIFICATION ReuseSpec
INVARIANTS RecordBacked
PROPERTIES NoPrematureDeregistration
CHECK_DEADLOCK FALSE
