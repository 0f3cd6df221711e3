SPECIFICATION FleetSpec
CONSTANTS
  N = 2
  Apps = {1}
  Dials <- Mesh
  Runs <- Anywhere
  Ahead <- InStep
  Verified = {1, 2}
  Starts = {"new", "settled"}
  MaxEvents = 2
  FleetFaults = {"wipe", "installer", "network"}
  MaxTime = 12
 
PROPERTIES OwnReportStands CountGrows FleetAgrees
CHECK_DEADLOCK FALSE
