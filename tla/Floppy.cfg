SPECIFICATION FloppySpec
CONSTANTS
  Drives = {0, 1}
  Tracks = {1, 2}
  MAX_TRACK = 1
  MAX_ERRORS = 2
  SPIN = 2
  SETTLE = 1
  OFF = 8
  ANSWER = 1
  MAX_TIMEOUTS = 1
  MAX_REQUESTS = 2
INVARIANTS InStep MotorRuns
CHECK_DEADLOCK FALSE
PROPERTY RequestsEnd
