\* Two starts and a stop of one Workspace, or one start that is disturbed.
SPECIFICATION Spec
CONSTANTS
  Watchers = {w1, w2}
  Handlers = {h1}
  None = None
  Ephemeral = FALSE
  MaxRuns = 2
  MaxStops = 1
  MaxPasses = 1
  BoundPasses = TRUE
  MaxEvents = 1
  MaxReports = 1
  MaxCrashes = 1
  MaxPodRestarts = 1
  MaxFaults = 1
INVARIANTS OneWatcher CloseOnce OnlyRegisteredReports
PROPERTIES PendingStartKeepsSession StaleCopyStopsNothing
CONSTRAINT Explored
SYMMETRY Symmetry
CHECK_DEADLOCK FALSE
