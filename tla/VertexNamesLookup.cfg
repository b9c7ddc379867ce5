CONSTANTS
  Vertices <- MCVertices
  Pipelines <- MCPipelines
  Annotations <- MCAnnotations
  Suffix <- MCSuffix
  Pods = {p1, p2}
  PodNames = {"p", "q"}
  IPs = {i1, i2}
SPECIFICATION Spec
INVARIANTS NamesTypeOK LookupExact TargetsReachPeers
SYMMETRY PodSymmetry
CHECK_DEADLOCK FALSE
