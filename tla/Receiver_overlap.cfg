SPECIFICATION Spec
CONSTANTS
  Conns = {"c1", "c2"}
  Paths = {"p", "q"}
  Rids = {"r1", "r2"}
  Blocks = {"o", "x", "y", "z"}
  Overlap = TRUE
  DiskFaults = FALSE
  None = None
  Uploads <- U2
  ConnOf <- AgainConn
  PathOf <- RetryPath
  CtrlRid <- TwinRid
  DataRid <- TwinRid
  Body <- AgainBody
  SizeOf <- AgainSize
  HashOf <- AgainHash
  Valid <- AllValid
  Before <- NoFiles
INVARIANTS
  AcknowledgedIsStored
CHECK_DEADLOCK FALSE
