SPECIFICATION Spec
CONSTANTS
  N = 2
  RegKeys = {k1}
  CtrKeys = {k2}
  MaxValue = 1
  GrowOnly = FALSE
  DeltaLimit = 2
  Budget <- OneWriter
  Faults = {"restart"}
  MaxSeq = 2
  MaxWall = 1
  MaxLogical = 1
  MaxTotal = 2
  Calls = {c1}
INVARIANTS TypeOK Coverage Servable CountedOnce
PROPERTIES ImplementsOpSets
