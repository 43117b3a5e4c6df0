\* A repeated Prepare, a signal at any time, a step that fails, and tasks that
\* may hang, in a plain Workspace, one with AutoStop and a build.
CONSTANTS
  p1 = p1
  p2 = p2
  create = create
  serve = serve
  check = check
  dump = dump
  sync = sync
  Prepares = {p1, p2}
  Start <- StartTasks
  Stop <- StopTasks
  Background = {serve}
  Aborting = {create, serve, dump}
  MaxFaults = 1
SPECIFICATION FairSpec
INVARIANT TaskInv
PROPERTIES RunningIsReady PreStopRuns AgentEnds
CHECK_DEADLOCK FALSE
