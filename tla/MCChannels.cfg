SPECIFICATION MCSpec
CONSTANTS
  Servers = {"s1", "s2"}
  Peers = {"p1", "p2"}
  Routes <- MCRoutes
  Kinds <- MCKinds
  KRoute = TRUE
  Rekind = FALSE
  Loose = FALSE
  MaxConns = 2
  MaxArrivals = 2
  MaxCalls = 3
  Channels = {c1, c2}
  Names = {"a"}
  Ports = {1, 2}
  Rehost = FALSE
  MaxSets = 1
  MaxOpens = 2
  MaxStops = 1
  Remotes = {"a", "b"}
  Remote = "a"
  Groups = {"g", "h"}
  UdpQueueMax = 1
  UdpCallMax = 2
INVARIANTS
  ChannelsSafe ResolverSafe UpdateWhileAlive
PROPERTIES
  ChannelsLive
CHECK_DEADLOCK FALSE
