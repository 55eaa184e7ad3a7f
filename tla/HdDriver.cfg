\* One task that keeps requests for two blocks on the queue; block 1 is the last one
\* of the partition, so that a retry of its second sector is out of range.
SPECIFICATION HdSpec
CONSTANTS
  Tasks = {t1}
  NULL = NULL
  Blocks = {0, 1}
  NR_REQUEST = 3
  NR_SECTS = 4
  MAX_ERRORS = 3
  FileBlocks = {1}
INVARIANTS InterruptMatches NoLostUpdate SectorsInStep
PROPERTIES RequestsEnd
CHECK_DEADLOCK FALSE
