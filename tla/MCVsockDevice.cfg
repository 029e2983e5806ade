SPECIFICATION Spec
CONSTANTS
  b1 = b1
  Byte <- MCByte
  Writes <- MCWrites
  GuestPorts = {1}
  ListenPorts = {5}
  kDynamicPortsStart = 10
  CounterModulus = 2
  ChunkSize = 1
  QueueSize = 1
  BufAllocs = {0, 1}
  FwdCnts = {0, 1}
  Loadable = {FALSE}
  MaxSaves = 0
  MaxRw = 1
  MaxStreams = 1
  MaxId = 1
  MaxOrphans = 2
  MaxBuffered = 1
INVARIANTS
  TypeOK
PROPERTIES
  OrphansInOrder
  EndIsAnnounced
VIEW View
