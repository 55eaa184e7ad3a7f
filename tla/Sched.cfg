\* Two tasks beside the idle task: one gets signals, masks them and sets alarms, the
\* other changes its priority, from 1 to 2 and on to 3, for which a counter overflows.
SPECIFICATION Spec
CONSTANTS
  NR_TASKS = 3
  PRIORITY = 1
  LONG_MAX = 4
  MAX_NICE = 1
  NiceTasks = {2}
  MAX_ALARM = 1
  Signals = {14}
  SignalTasks = {1}
  SIGALRM = 14
  SIGKILL = 9
INVARIANT CounterBounded
PROPERTIES SwitchToReady IdleWhenNoneReady ReadyRuns SignalWakes AlarmRings
