SPECIFICATION HttpSpec
CONSTANTS
  HttpChannels = {1}
  Requests = {r1, r2}
  MaxRedirect = 0
PROPERTY EveryAnswered
CHECK_DEADLOCK FALSE
