SPECIFICATION FairSpec
CONSTANTS
  N = 2
  D = 2
  Allowed <- OneLacksLast
  Dials <- Mutual
  DeltaLimit = 1
  MaxRounds = 2
  Budget <- OneWriter
  MaxSeq = 2
  MaxCrashes = 1
  Faults = {"network", "compact"}
  
PROPERTIES CaughtUp ImplementsOpSets
