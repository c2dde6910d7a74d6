SPECIFICATION KcpSpec
CONSTANTS
  KcpSpan = 8
  KcpTicks = {0, 1, 2, 3}
  KcpInput = 3
  KcpSends = 2
INVARIANTS ToldIsGiven 

CHECK_DEADLOCK FALSE
