\* Three chunks through small buffers, killed or let go at any time, drained or not.
SPECIFICATION MCSpec
CONSTANTS
  SubBuffer = 2
  OutBuffer = 1
  WireWindow = 1
  MaxChunks = 3
  Exit = Exit
INVARIANT ExecInv
PROPERTY SessionEnds
CHECK_DEADLOCK FALSE
