\* One start with a stop, a deletion, a crash, a restart or a failing call, fair.
SPECIFICATION MCSpec
CONSTANTS
  Watchers = {w1}
  Handlers = {h1}
  None = None
  Ephemeral = TRUE
  MaxRuns = 1
  MaxStops = 1
  MaxPasses = 0
  BoundPasses = FALSE
  MaxEvents = 1
  MaxReports = 1
  MaxCrashes = 1
  MaxPodRestarts = 1
  MaxFaults = 1
INVARIANT TypeOK
PROPERTIES StartRequestEnds StopRequestEnds ClosingEnds DeletedPodEnds
CHECK_DEADLOCK FALSE
