\* Two tasks of one executable with a page of code that is only read, a page of data and
\* a page of heap in the same page table, that fork, load, share, store and make system
\* calls in too little memory, with counts up to 2.
SPECIFICATION Spec
CONSTANTS
  NR_TASKS = 2
  NR_PAGES = 6
  NR_TABLES = 2
  TABLE_PAGES = 3
  DATA_PAGES = 2
  MAX_COUNT = 2
  Executables = {e1}
  Used = {0, 1, 2}
  Stored = {1, 2}
  KernelTasks = {2}
  NULL = NULL
INVARIANTS MemMapCounts WritableIsPrivate Isolation
\* Once the tasks have died of too little memory, or after a fault, nothing happens.
CHECK_DEADLOCK FALSE
