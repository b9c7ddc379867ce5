CONSTANTS
  v1 = v1
  v2 = v2
  v3 = v3
  n1 = n1
  n2 = n2
  Vertices <- MCVertices
  Edges <- MCEdges
  Networks = {n1, n2}
  Annotations <- MCAnnotations
  MaxRevs = 2
  MaxChanges = 1
  MaxFaults = 1
SPECIFICATION FairSpec
INVARIANTS AdmissionTypeOK StoredIsInjected NoDuplicateClaims
PROPERTIES OnlyBoundClaimsAdded EventuallyAnswered DeletionPassesValidator
CHECK_DEADLOCK FALSE
