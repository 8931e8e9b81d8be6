SPECIFICATION RecvSpec
CONSTANTS
  RxFrames <- FewRxFrames
  PeerFrames <- FewFrames
  AppData <- NoData
  AppCloses <- Close1000
  AppCalls = {"close"}
  Callbacks = {"default","close"}
  MaxControl = 5
  MaxMade = 3
  None = None
  MaxRx = 3
  ChunkLength = 16
  ReadMax = 64
  NoFrame = NoFrame
INVARIANT RawdataHolds
CHECK_DEADLOCK FALSE
