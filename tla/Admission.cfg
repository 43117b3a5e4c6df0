\* Two requests at the same time, a limit of two active Workspaces.
SPECIFICATION MCSpec
CONSTANTS
  w1 = w1
  w2 = w2
  w3 = w3
  w4 = w4
  v1 = v1
  v2 = v2
  c1 = c1
  c2 = c2
  Workspaces = {w1, w2, w3, w4}
  Volumes = {v1, v2}
  Exclusive = {v1}
  OfTemplate = {w1, w2}
  Mounts <- SingleMounts
  Callers = {c1, c2}
  Ops = {"start", "update", "template", "delete"}
  SessionIds = {1, 2, 3, 4, 5, 6, 7}
  MaxActive = 2
  MaxFaults = 1
SYMMETRY CallerSymmetry
INVARIANTS AdmissionInv SessionsAgree SerialMounts
CHECK_DEADLOCK FALSE
