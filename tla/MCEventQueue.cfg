SPECIFICATION FairSpec
CONSTANTS
  Event = {a, b}
  MaxFired = 3
  MaxCount = 2
  MaxNest = 2
INVARIANTS NothingLost InOrder
PROPERTIES RefinesFifo EventuallyDelivered
