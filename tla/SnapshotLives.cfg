\* Two snapshots, one request at a time, two reconciliations, a start, a crash.
SPECIFICATION MCSpec
CONSTANTS
  s1 = s1
  s2 = s2
  c1 = c1
  handler = handler
  Snaps = {s1, s2}
  Callers = {c1}
  Reconcilers = {"loop", handler}
  Loop = "loop"
  MaxStarts = 1
  MaxCrash = 1
INVARIANTS SnapshotInv SerialRequests
PROPERTIES FinalIsKept SnapshotEnds
CHECK_DEADLOCK FALSE
