\* Two chunks, a write, a client that reads and one that does not.
SPECIFICATION MCSpec
CONSTANTS
  l1 = l1
  l2 = l2
  Listeners = {l1, l2}
  Readers = {l1}
  SubBuffer = 2
  OutBuffer = 1
  InBuffer = 1
  BufSize = 1
  Window = 1
  MaxChunks = 2
  MaxWrites = 1
  Close = Close
INVARIANT TerminalInv
PROPERTY TerminalEnds
CHECK_DEADLOCK FALSE
