SPECIFICATION Spec
CONSTANTS
  Byte <- MCByte
  GuestPorts = {1}
  ListenPorts = {}
  kDynamicPortsStart = 10
  CounterModulus = 3
  ChunkSize = 1
  QueueSize = 2
  BufAlloc = 1
  GuestListens = {1}
  HostConnects = {1}
  Hangups = TRUE
  Reboots = FALSE
  EarlySend = FALSE
  MaxStreams = 1
  MaxOpened = 4
  MaxWritten = 1
  MaxReplied = 0
  MaxTx = 2
PROPERTIES
  UnplugMeansHangUp
