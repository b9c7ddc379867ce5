CONSTANTS
  v1 = v1
  v2 = v2
  v3 = v3
  n1 = n1
  n2 = n2
  Vertices <- MCVertices
  Edges <- MCEdges
  Networks = {n1}
  Annotations <- OneBinding
  MaxRevs = 1
  MaxChanges = 1
  MaxFaults = 0
SPECIFICATION FairSpec
PROPERTY DeletionCompletes
CHECK_DEADLOCK FALSE
