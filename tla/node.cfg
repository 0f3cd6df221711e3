SPECIFICATION NodeSpec
CONSTANTS
  Letters = {"m1"}
  Workers = {w1, w2}
  MaxLetterFaults = 2
  LetterFaults = {"network", "crash", "move"}
  CallIds = {"c1", "c2"}
  Caller <- TwoWays
  MaxCallLosses = 1
  CallFaults = {"network", "restart"}
  Versions = {"v1", "v2", "bad"}
  Factory = "v1"
  Crashing = {"bad"}
  Hanging = {}
  Epoch <- NewerEpoch
  Clients = {k1, k2}
  Threshold = 2
  MaxFaults = 1
  Ids = {i1}
  Sessions = {s1, s2}
  Null = Null
  Owners = {"alice", "bob"}
  Starts = {"g1", "g2", "g3"}
  Loops = {"l1", "l2"}
  MaxViewers = 2
  MaxChurn = 5
  MaxChanges = 4
  MaxFailures = 2
INVARIANTS SidesAgree  ReservationHeld
PROPERTIES QueuedArrives RollbackComesUp StoppedDies  RowFollowsRegisters
CHECK_DEADLOCK FALSE
