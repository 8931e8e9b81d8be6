SPECIFICATION HostSpec
CONSTANTS
  RxFrames <- MCRxFrames
  PeerFrames <- MCFrames
  AppData <- NoData
  AppCloses <- NoCloses
  AppCalls = {}
  Callbacks = {"echo"}
  MaxControl = 5
  MaxMade = 0
  None = None
  MaxRx = 2
  ChunkLength = 16
  ReadMax = 64
  NoFrame = NoFrame
INVARIANTS
  EchoInOrder
PROPERTIES
  AnswersAreWritten
  FailureCloses
  HangUpEnds
CHECK_DEADLOCK FALSE
