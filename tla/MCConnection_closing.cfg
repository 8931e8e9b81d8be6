SPECIFICATION Spec
CONSTANTS
  RxFrames <- ClosingFrames
  AppData <- OneByte
  AppCloses <- AppCloses0
  AppCalls <- AllCalls
  Callbacks = {"default", "echo", "close", "fail"}
  MaxControl = 5
  MaxRx = 3
  MaxMade = 3
  None = None
INVARIANTS
  OutputWellFormed
  FlagsAgree
  StuckFrame
  CloseFramesLegal
  AnswerEchoesCode
PROPERTIES
  CloseIsFinal
  EndpointSpec
CHECK_DEADLOCK FALSE
