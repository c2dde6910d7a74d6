SPECIFICATION FairSpec
CONSTANTS
  MaxStarts = 2
  HandlerStops = TRUE
  WorkerFails = TRUE
INVARIANT IdleIsQuiet
PROPERTIES JoinMakesIdle StopEnds
CHECK_DEADLOCK FALSE
