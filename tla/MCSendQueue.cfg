SPECIFICATION FairSpec
CONSTANTS
  MaxOps = 3
  OpSize = 2
  Room = 3
INVARIANTS NoSleepWithWork NoBusyPoll CompletionsInOrder BytesExact
PROPERTY Flushed
CHECK_DEADLOCK FALSE
