CONSTANTS
  n1 = n1
  n2 = n2
  NoHolder = NoHolder
  Callers = {n1, n2}
  Holders = {n1, n2}
  Node <- OnTwoNodes
  VersionOf <- UserVersion
  Atomic = TRUE
  Joining = FALSE
  MaxChange = 3
  MaxFence = 2
  Faults = {"crash", "network"}
SPECIFICATION BucketSpec
INVARIANTS BucketTypeOK  LatestHasBlob 
 
CHECK_DEADLOCK FALSE
