\* One wait with the ticker, six versions and two faults of any kind.
SPECIFICATION FairSpec
CONSTANTS
  Waiters = {w1}
  Buffer = 2
  Window = 1
  Polling = TRUE
  MaxWrites = 6
  MaxFaults = 2
INVARIANT WatchInv
PROPERTY WaitEnds
CHECK_DEADLOCK FALSE
