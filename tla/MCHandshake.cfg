SPECIFICATION Spec
CONSTANTS
  Requests <- MCRequests
  Width <- MCWidth
  Supported <- MCSupported
  MaxList = 8
  None = None
INVARIANTS
  ReplyAnswersRequest
  FailureLeavesNothing
  MemoryRight
CHECK_DEADLOCK FALSE
