\* Two tasks, three blocks, three entries (two of them for writes).
SPECIFICATION Spec
CONSTANTS
  Tasks = {t1, t2}
  NULL = NULL
  Blocks = {1, 2, 3}
  NR_REQUEST = 3
INVARIANTS  OneSweep
PROPERTIES RequestsServed
CHECK_DEADLOCK FALSE
