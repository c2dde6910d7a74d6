SPECIFICATION FairSpec
CONSTANTS
  MaxCalls = 2
  MaxConns = 2
  Slots = {s1, s2}
  OnIoThread = FALSE
  OtherWork = FALSE
  FdReuse = FALSE
PROPERTY OpenAnswered
