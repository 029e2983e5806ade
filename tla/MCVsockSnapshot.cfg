SPECIFICATION Spec
CONSTANTS
  b1 = b1
  Byte <- MCByte
  Writes = {}
  GuestPorts = {1}
  ListenPorts = {5}
  kDynamicPortsStart = 10
  CounterModulus = 1
  ChunkSize = 1
  QueueSize = 1
  BufAllocs = {0}
  FwdCnts = {0}
  Loadable = {TRUE, FALSE}
  MaxSaves = 1
  MaxRw = 0
  MaxStreams = 2
  MaxId = 2
  MaxOrphans = 1
  MaxBuffered = 0
INVARIANTS
  AssertsHoldUntilReset
  PortsUnique
  NoPortLeaks
PROPERTIES
  LoadAccountsForStreams
CONSTRAINT SavedThenLoaded
VIEW View
