SPECIFICATION TFairSpec
CONSTANTS
  Conns = {"c1"}
  Uploads <- U1
  Paths = {"p", "q"}
  Rids = {"r1", "r2"}
  Blocks = {"o", "x", "y"}
  ConnOf <- OneConn
  PathOf <- OwnPath
  CtrlRid <- OwnRid
  DataRid <- OwnRid
  Body <- Bodies
  SizeOf <- Sizes
  HashOf <- Hashes
  Valid <- AllValid
  Before <- Nothing
  Overlap = TRUE
  DiskFaults = TRUE
  None = None
  files <- OneFile
  Commands = {"SendFile"}
  MaxConcurrent = 2
  StreamLimit = 4
  OpenTries = 2
  Window = 1
  LocalFaults = FALSE
  NetFaults = FALSE
  Patient = FALSE
PROPERTIES
  CommandReturns
CHECK_DEADLOCK FALSE
