SPECIFICATION FairSpec
CONSTANTS
  Conns = {"c1"}
  Paths = {"p", "q"}
  Rids = {"r1", "r2"}
  Blocks = {"o", "x", "y", "z"}
  Overlap = FALSE
  DiskFaults = TRUE
  None = None
  Uploads <- U2
  ConnOf <- OneConn
  PathOf <- SharedPath
  CtrlRid <- SharedRid
  DataRid <- SharedRid
  Body <- SharedBody
  SizeOf <- SharedSize
  HashOf <- SharedHash
  Valid <- NamesValid
  Before <- RetryBefore
INVARIANTS
  ReceiptsGoHome
  FirstNameVouches
  LeftoverIsExplained
  UnopenedIsKept
PROPERTIES
  DataGoroutinesEnd
  WaitingEntryIsAnswered
  StreamsAreAccepted
  RejectionIsFinal
CHECK_DEADLOCK FALSE
