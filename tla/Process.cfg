SPECIFICATION Spec
CONSTANTS
  NR_TASKS = 4
  MAX_PID = 4
  Pids = {2}
  MAX_GROUP = 2
  MAX_CALLS = 1
  SIGHUP = 1
  SIGKILL = 9
  SIGCHLD = 17
  Signals = {1, 17}
  Masks = {{17}}
  NULL = NULL
INVARIANTS FatherWaits WaiterTold
PROPERTY ImplementsTaskLife
CHECK_DEADLOCK FALSE
