SPECIFICATION FairSpec
CONSTANTS
  Byte <- MCByte
  GuestPorts = {1}
  ListenPorts = {}
  kDynamicPortsStart = 10
  CounterModulus = 3
  ChunkSize = 1
  QueueSize = 1
  BufAlloc = 2
  GuestListens = {1}
  HostConnects = {1}
  Hangups = FALSE
  Reboots = FALSE
  EarlySend = FALSE
  MaxStreams = 2
  MaxOpened = 3
  MaxWritten = 4
  MaxReplied = 0
  MaxTx = 1
PROPERTIES
  Delivered
  Answered
  ImplementsChannel
