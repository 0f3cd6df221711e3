SPECIFICATION StorageSpec
CONSTANTS
  MaxNodes = 3
  MaxRequests = 2
  StartFolders <- TwoFiles
  Names = {"a", "b"}
  Requests = {t1, t2}
  DriveFaults = {"bucket", "crash"}
  Uploads = {"u1", "u2"}
  Length = 2
  Hashed = {"u1"}
  MaxIncomplete = 1
  Clients = {c1, c2}
  MaxPatches = 3
  UploadFaults = {"body", "crash", "sink"}
  Nonces = {"r1", "r2", "r3"}
  BlobOf <- BlobName
  Depositors = {d1, d2}
  MaxDeposits = 3
  Capacity = 1
  MaxPerHour = 2
  NonceCap = 2
  RelayFaults = {"restart"}
SYMMETRY Slots
INVARIANTS KeepsItsBytes OneAtATime HashedArrivesWhole AcceptedIsKept ReplayStoresOnce
CHECK_DEADLOCK FALSE
