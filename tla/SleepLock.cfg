\* Four tasks locking and waiting for one buffer, inode or super block.
SPECIFICATION LockSpec
CONSTANTS
  Tasks = {t1, t2, t3, t4}
  NULL = NULL
INVARIANTS NoStranded MutualExclusion WaiterAwake
PROPERTIES WakesEveryone
