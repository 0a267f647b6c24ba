SPECIFICATION FairSpec
CONSTANTS
  ChanSize = 2
  FlushAt = 2
  MaxLogSize = 1
  MaxLines = 5
  MaxStarts = 5
  MaxFaults = 1
  None = None
INVARIANTS
  TypeOK
  OrderIsKept
  NoGaps
  TwoOldLogs
  LossIsBounded
PROPERTIES
  EverythingIsFlushed
CHECK_DEADLOCK FALSE
