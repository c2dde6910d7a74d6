SPECIFICATION MCSpec
CONSTANTS
  HttpChannels = {1}
  Requests = {r1, r2}
  MaxRedirect = 1
  Lockers = {t1, t2, t3}
  NReaders = 3
  PoolCount = 3
  MaxChunks = 2
  Handles = {h1, h2, h3}
  Targets = {o1, o2}
  Users = {u1, u2}
  MaxRefs = 5
  MaxMade = 2
  PodValues = {1, 2}
  PodMax = 5
  Group = 3
  IntBytes = 2
  Extent = 5
  IntSamples <- MCInts
  Blobs <- MCBlobs
  MaxWrites = 3
  MaxSeekable = 1
  Chars = {1, 2}
  HayMax = 4
  NeedleMax = 2
  SizeMod = 16
  StrValues = {1, 2}
  StrMax = 3
  Hosts <- MCHosts
  Paths <- MCPaths
  Names = {1}
  Values = {1, 2}
  LastTime = 2
  UriPortMod = 6
  DefaultPort <- MCDefaultPort
  NWords = 6
  WordValues = {0, 1, 3}
  AllOnes = 3
  NOctets = 2
  OctetMax = 25
  Digits = {0, 2, 5, 6}
  TextMax = 6
  EpAddrs = {8, 9}
  EpPorts = {0, 2, 3}
  Zones = {0, 1}
  EpPeers <- MCPeers
  Objects = {x1, x2}
  Fds = {3, 4, 5}
  MaxGen = 4
  IoLen = 3
  IoTime = 2
  HostNumbers = {1, 2}
  HostMax = 2
  LocalMax = 2
  IntrMax = 3
  OptInts <- MCOptInts
  OptTexts = {"a", "b"}
  OptFlags = {"f"}
  OptPortMod = 8
  OptMaxStrip = 32
  OptCalls = 2
INVARIANTS
  HttpSafe LockSafe MemorySafe DataExact AddressExact CookiesExact OptionsExact
PROPERTIES
  LibraryLive RefinesRwLock DescriptorsSafe
CHECK_DEADLOCK FALSE
