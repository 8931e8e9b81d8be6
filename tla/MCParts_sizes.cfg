SPECIFICATION PartsSpec
CONSTANTS
  Clients = {c1, c2, c3, c4}
  Parent = Parent
  Listening = Listening
  None = None
  MaxFd = 2
  MaxProcesses = 3
INVARIANT AnyFrameFits
CHECK_DEADLOCK FALSE
