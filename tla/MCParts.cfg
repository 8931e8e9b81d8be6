SPECIFICATION PartsSpec
CONSTANTS
  Clients = {c1, c2, c3, c4}
  Parent = Parent
  Listening = Listening
  None = None
  MaxFd = 2
  MaxProcesses = 3
INVARIANTS
  TypesOK
  OwnSocketOnly
  NoDescriptorLeaks
  DigestOfMessage
  AcceptOfKey
  Base64Correct
  StreamParses
  FrameFits
  BytesReversed
PROPERTIES
  ConnectionsEnd
  ClientsServed
  ResultTells
CHECK_DEADLOCK FALSE
