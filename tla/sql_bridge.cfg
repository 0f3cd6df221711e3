SPECIFICATION BridgeSpec
CONSTANTS
  MaxChanges = 3
  MaxFailures = 0
INVARIANT EmittedOnce
CHECK_DEADLOCK FALSE
