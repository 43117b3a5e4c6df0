\* A Shutdown call, a TERM signal, a failure, a podman stop that fails, or the end of a one-shot Workspace.
SPECIFICATION MCSpec
CONSTANTS
  Callers = {c1}
  ShutdownCh = 1
  StatusCh = 1
  NoStatus = NoStatus
  MaxTerms = 1
  MaxFaults = 1
INVARIANT SupervisorInv
PROPERTIES ShutdownContractKept StopIsNoticed
CHECK_DEADLOCK FALSE
