SPECIFICATION Spec
CONSTANTS
  RxFrames <- ClosingFrames
  AppData <- NoData
  AppCloses <- AppCloses0
  AppCalls <- CloseCalls
  Callbacks = {"default"}
  MaxControl = 5
  MaxRx = 3
  MaxMade = 4
  None = None
PROPERTIES
  IgnoredDataIsHarmless
CHECK_DEADLOCK FALSE
