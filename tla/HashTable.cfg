\* Hashes that collide in the middle of the range, and at both its ends.
SPECIFICATION FairSpec
CONSTANTS
  k1 = k1
  k2 = k2
  k3 = k3
  v1 = v1
  v2 = v2
  Key = {k1, k2, k3}
  Value = {v1, v2}
  NULL = NULL
  Homes = {0, 1, 4, 5}
  NB_BUCKETS = 3
  BUCKET_SIZE = 2
  PROMOTED = TRUE
INVARIANTS TypeOK ProbeChain IterationExact
PROPERTIES ReturnedPointersStayValid OperationsReturn MapSpec
CHECK_DEADLOCK TRUE
