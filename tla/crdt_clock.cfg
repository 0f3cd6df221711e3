SPECIFICATION Spec
CONSTANTS
  N = 2
  RegKeys = {k1}
  CtrKeys = {}
  MaxValue = 1
  GrowOnly = FALSE
  DeltaLimit = 2
  Budget <- AllWrite
  Faults = {"restart","rollback"}
  MaxSeq = 1
  MaxWall = 2
  MaxLogical = 1
  MaxTotal = 0
  Calls = {c1}
INVARIANTS Convergence ClockAhead
PROPERTIES LocalWriteWins
