\* Two tasks, both ends open in each; a ring of 3 bytes that wraps twice; calls
\* longer than the ring.
SPECIFICATION PipeSpec
CONSTANTS
  Tasks = {t1, t2}
  NULL = NULL
  PAGE_SIZE = 3
  MaxCount = 3
  MaxBytes = 4
  MaxFaults = 1
INVARIANTS BytesAccounted NoLostWakeup
PROPERTIES EndsAfterClose
CHECK_DEADLOCK FALSE
