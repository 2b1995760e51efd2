SPECIFICATION FairSpec
CONSTANTS
  Keys = {k1, k2}
  Timeouts = {1, 2}
  MaxThreads = 3
INVARIANTS
  RunsAsItself
  OnePlace
  OwnKey
PROPERTIES
  WaitsEnd
\* All threads ended and no more are made.
CHECK_DEADLOCK FALSE
