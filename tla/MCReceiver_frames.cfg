SPECIFICATION RecvSpec
CONSTANTS
  RxFrames <- MCRxFrames
  PeerFrames <- MCFrames
  AppData <- NoData
  AppCloses <- Close1000
  AppCalls = {"close"}
  Callbacks = {"echo", "close"}
  MaxControl = 5
  MaxMade = 3
  None = None
  MaxRx = 3
  ChunkLength = 16
  ReadMax = 64
  NoFrame = NoFrame
INVARIANTS
  EveryFrameHandled
  StoredBytesFit
  IncompleteIsReported
  MinusOneExplained
PROPERTIES
  ConnectionSpec
CHECK_DEADLOCK FALSE
