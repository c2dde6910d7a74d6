SPECIFICATION FairSpec
CONSTANTS
  MaxCalls = 4
  MaxConns = 4
  Slots = {s1, s2}
  OnIoThread = TRUE
  OtherWork = TRUE
  FdReuse = FALSE
INVARIANTS OneTransport TimerGuards OneAnswer OpenMeansConnected
PROPERTY OpenAnswered
