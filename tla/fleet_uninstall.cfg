SPECIFICATION FleetSpec
CONSTANTS
  N = 3
  Apps = {1}
  Dials <- Mesh
  Runs <- Anywhere
  Ahead <- InStep
  Verified = {1, 2, 3}
  Starts = {"settled"}
  MaxEvents = 2
  FleetFaults = {}
  MaxTime = 12
PROPERTY OwnReportStands
CHECK_DEADLOCK FALSE
