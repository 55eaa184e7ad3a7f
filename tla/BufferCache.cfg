\* Two tasks, one of them with breada, three blocks, two buffers: every buffer is in
\* use when a third block is asked for.
SPECIFICATION Spec
CONSTANTS
  Tasks = {t1, t2}
  NULL = NULL
  Blocks = {b1, b2, b3}
  NoBlock = NoBlock
  NR_BUFFERS = 2
  Kinds = {"getblk", "bread", "breada", "sync", "modify"}
  AheadTasks = {t1}
  TableFull = TRUE
INVARIANTS BuffersAccounted SleeperHasWaker
PROPERTY OnlyIdleReused
CHECK_DEADLOCK FALSE
SYMMETRY Symmetry
