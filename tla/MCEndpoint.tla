---- MODULE MCEndpoint ----
EXTENDS Endpoint
MCPeers == [af : {4}, addr : {8, 9}, port : {2, 3}, scope : {0}] \cup [af : {6}, addr : {8, 9}, port : {2}, scope : {0, 1}]
MCPeers4 == [af : {4}, addr : {8, 9}, port : {2, 3}, scope : {0}]
MCSpec == EpInit /\ [][EpNext]_epvars
====
