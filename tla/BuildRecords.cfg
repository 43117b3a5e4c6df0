\* Two builds, two requests, a failure, a crash.
SPECIFICATION MCSpec
CONSTANTS
  b1 = b1
  b2 = b2
  c1 = c1
  c2 = c2
  Builds = {b1, b2}
  Callers = {c1, c2}
  Edits = {"update", "delete"}
  MaxFaults = 1
  MaxCrashes = 1
SYMMETRY BuildSymmetry
INVARIANTS BuildInv CurrentStaysReady
CHECK_DEADLOCK FALSE
