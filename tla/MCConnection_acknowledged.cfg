SPECIFICATION Spec
CONSTANTS
  RxFrames <- LegalFrames
  AppData <- OneByte
  AppCloses <- AppCloses0
  AppCalls <- CloseCalls
  Callbacks = {"default"}
  MaxControl = 5
  MaxRx = 3
  MaxMade = 4
  None = None
PROPERTIES
  NothingAfterBothCloses
CHECK_DEADLOCK FALSE
