SPECIFICATION FairSpec
CONSTANTS
  files <- Three
  Commands = {"SendDir", "SendFile"}
  MaxConcurrent = 2
  StreamLimit = 3
  OpenTries = 2
  Window = 1
  LengthOf <- SomeBlocks
  LocalFaults = TRUE
  NetFaults = TRUE
  Abandons = TRUE
  None = None
INVARIANTS
  TypeOK
  ExitTellsStreams
  NobodyLeftBehind
  EndMeansWhole
  StreamsRunOut
PROPERTIES
  SendReturns
CHECK_DEADLOCK FALSE
