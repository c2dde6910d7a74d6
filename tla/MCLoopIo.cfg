SPECIFICATION MCSpec
CONSTANTS
  NFrames = 3
  Sizes = {0, 1, 2, 4, 5}
  HeaderEnd = 3
  Strip = 2
  MaxFrame = 4
  BufSize = 8
  Timers = {t1, t2}
  NoTimer = NoTimer
  Durations = {1, 2}
  MaxTime = 2
  MaxCalls = 3
  ForeignReuse = FALSE
  TlsRoom = 4
  TlsRecords = {1, 3, 4}
  TlsPackets = {1, 3}
  TlsCount = 3
  Flights = 2
  KcpSpan = 8
  KcpTicks = {0, 1, 2}
  KcpInput = 3
  KcpSends = 2
  Fds = {3, 4}
  Backends = {"poll", "select", "epoll", "kqueue"}
  Chunk = 1
  MaxWakeups = 2
  MaxRoom = 3
INVARIANTS
  UnpackSafe TimersSafe SessionSafe WatcherSafe
PROPERTIES
  LoopLive
CHECK_DEADLOCK FALSE
