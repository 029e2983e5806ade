SPECIFICATION PartsSpec
CONSTANTS
  Parts = {"hangs"}
  l1 = l1
  Loopers = {l1}
  hangTimeout = 3
  hangCheckTimeout = 3
  Hangs = {l1}
  MaxPauses = 2
  Procs = {1, 2}
  Timeouts = {1}
  MaxAttempts = 2
  w1 = w1
  k1 = k1
  Timers = {a1, a2}
  Watches = {w1}
  Tasks = {k1}
  OneShots = {}
  RunDeadlines = {1}
  MaxNow = 1
  PeerCloses = TRUE
  WRITE_BUFFER_SIZE = 2
  MaxReceived = 1
  MaxCloses = 1
  MaxCallbacks = 2
  s1 = s1
  s2 = s2
  s3 = s3
  Subscribers = {s1, s2, s3}
  TicketModulus = 4
  Bits = 5
  DigitBits = 2
  Strings <- MCStrings
  MaxItems = 2
  RequestSizes = {1, 3}
  Devices = {"qemud", "pipe", "unknown"}
  FrameSizes = {0, 1, 3, 5}
  RefusedSizes = {3}
  MaxFrames = 3
  kSizeSize = 2
  HexRadix = 2
  ByteRadix = 4
  a1 = a1
  a2 = a2
  aw = aw
  TcpClients = {a1, a2}
  Awaiter = aw
  HostPorts = {1, 2}
  MaxInFlight = 2
  MaxEarly = 1
  MaxData = 2
  w2 = w2
  p1 = p1
  p2 = p2
  QWatches = {w1, w2}
  QEvents = {"read"}
  Posters = {p1, p2}
  Waiters = {p1}
  Capacity = 1
  DeletesOthers = FALSE
  Shutdowns = TRUE
  u1 = a1
  u2 = a2
  Users = {a1, a2}
  MaxDevices = 2
  Clients = {a1, a2}
  Texts = {"a", "b"}
  MaxConnects = 2
  MaxUpdates = 2
  Fingers = {1, 2, 3}
  NumPointers = 2
  NumButtons = 3
  Wheels = {2}
  Axes = {"x", "y"}
  Positions = {0, 1}
  SlotExpiration = 1
  SourceSets = {{"mouse"}, {"touch"}, {"multi-touch", "evdev"}}
  MaxTouches = 1
  MaxClock = 2
  Sensors = {0}
  Available = {0}
  Inertial = {0}
  Ignored = {2}
  Readings = {1, 2}
  Callers = {a1, a2}
PROPERTIES
  HangsCountedAreReal
CHECK_DEADLOCK FALSE
