SPECIFICATION DriveSpec
CONSTANTS
  MaxNodes = 3
  MaxRequests = 2
  StartFolders = {}
  Names = {"a", "b"}
  Requests = {t1, t2}
  DriveFaults = {}
PROPERTIES PurgeSparesLiveFiles
CHECK_DEADLOCK FALSE
