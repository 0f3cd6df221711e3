CONSTANTS
  h1 = h1
  h2 = h2
  NoHolder = NoHolder
  Callers = {h1, h2}
  Holders = {h1, h2}
  Jobs = {h1}
  Existing = TRUE
  Faults = {"expiry", "network", "crash"}
  MaxFence = 4
SPECIFICATION FairSpec
INVARIANTS NoReturn OneRunner
PROPERTIES FenceNeverFalls  OvertakenStops DrainEnds
CHECK_DEADLOCK FALSE
