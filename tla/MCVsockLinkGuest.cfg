SPECIFICATION Spec
CONSTANTS
  Byte <- MCByte
  GuestPorts = {1}
  ListenPorts = {5}
  kDynamicPortsStart = 10
  CounterModulus = 3
  ChunkSize = 1
  QueueSize = 2
  BufAlloc = 1
  GuestListens = {1}
  HostConnects = {}
  Hangups = TRUE
  Reboots = TRUE
  EarlySend = FALSE
  MaxStreams = 1
  MaxOpened = 6
  MaxWritten = 2
  MaxReplied = 1
  MaxTx = 2
PROPERTIES
  ImplementsChannel
