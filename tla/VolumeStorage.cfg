\* The storage loop and a handler, a request that grows the Volume, the loss of
\* its data and a crash of Nocturne.
CONSTANTS
  c1 = c1
  loop = loop
  handler = handler
  Callers = {c1}
  Reconcilers = {loop, handler}
  MaxSize = 3
  MaxEdits = 0
  MaxLosses = 1
  MaxCrashes = 1
SPECIFICATION FairSpec
INVARIANT VolumeInv
PROPERTIES OnlyGrows NeverReprovisioned StorageFollowed
CHECK_DEADLOCK FALSE
