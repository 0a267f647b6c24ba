SPECIFICATION TFairSpec
CONSTANTS
  Conns = {"c1"}
  Uploads <- U2
  Paths = {"p", "q"}
  Rids = {"r1", "r2"}
  Blocks = {"o", "x", "y"}
  ConnOf <- OneConn
  PathOf <- OwnPath
  CtrlRid <- OwnRid
  DataRid <- OwnRid
  Body <- Bodies
  SizeOf <- Sizes
  HashOf <- Hashes
  Valid <- AllValid
  Before <- Held
  Overlap = TRUE
  DiskFaults = FALSE
  None = None
  files <- TwoFiles
  Commands = {"SendDir"}
  MaxConcurrent = 2
  StreamLimit = 3
  OpenTries = 2
  Window = 1
  LocalFaults = TRUE
  NetFaults = FALSE
  Patient = TRUE
INVARIANTS
  ExitZeroMeansStored
PROPERTIES
  CommandReturns
CHECK_DEADLOCK FALSE
