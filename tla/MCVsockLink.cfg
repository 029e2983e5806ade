SPECIFICATION Spec
CONSTANTS
  Byte <- MCByte
  GuestPorts = {1}
  ListenPorts = {}
  kDynamicPortsStart = 10
  CounterModulus = 2
  ChunkSize = 1
  QueueSize = 2
  BufAlloc = 1
  GuestListens = {1}
  HostConnects = {1}
  Hangups = TRUE
  Reboots = FALSE
  EarlySend = FALSE
  MaxStreams = 1
  MaxOpened = 6
  MaxWritten = 2
  MaxReplied = 1
  MaxTx = 2
INVARIANTS
  CreditRespected
  BytesIntact
CONSTRAINT PortsClean
