SPECIFICATION FairSpec
CONSTANTS
  MaxCalls = 3
  MaxConns = 3
  Slots = {s1, s2, s3}
  OnIoThread = FALSE
  OtherWork = TRUE
  FdReuse = TRUE
INVARIANTS EventProtocol AttemptQueued RequestQueued
PROPERTY AttemptEnds
