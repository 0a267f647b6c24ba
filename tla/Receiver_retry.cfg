SPECIFICATION Spec
CONSTANTS
  Conns = {"c1", "c2"}
  Paths = {"p"}
  Rids = {"r1"}
  Blocks = {"o", "x", "y"}
  Overlap = FALSE
  DiskFaults = FALSE
  None = None
  Uploads <- U3
  ConnOf <- RetryConn
  PathOf <- RetryPath
  CtrlRid <- TwinRid
  DataRid <- RetryRid
  Body <- RetryBody
  SizeOf <- RetrySize
  HashOf <- RetryHash
  Valid <- AllValid
  Before <- RetryBefore
INVARIANTS
  TypeOK
  AcknowledgedIsStored
  FailureLeavesNoFile
  SkipIsExact
  OneReplier
PROPERTIES
  ImplementsStore
CHECK_DEADLOCK FALSE
