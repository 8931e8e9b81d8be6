SPECIFICATION MemSpec
CONSTANTS
  RxFrames <- MCFrames
  AppData <- OneByte
  AppCloses <- NoCloses
  AppCalls = {"text"}
  Callbacks = {"default", "echo"}
  MaxControl = 5
  MaxRx = 5
  MaxMade = 4
  None = None
INVARIANTS
  TypeOK
  FragmentState
  MessagesIntact
  PongsAnswerPings
  MemorySafe
  LinksAreFrames
  OneClose
CHECK_DEADLOCK FALSE
