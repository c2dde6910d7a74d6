SPECIFICATION MCSpec
CONSTANTS EpAddrs = {8, 9} EpPorts = {0, 2, 3} Zones = {0, 1} EpPeers <- MCPeers4
INVARIANT RoutedToSender
