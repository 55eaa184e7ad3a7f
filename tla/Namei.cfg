SPECIFICATION NameiSpec
CONSTANTS
  Tasks = {t1, t2}
  Names = {a, b}
  NR_INODES = 3
  NR_BLOCKS = 3
  PER_BLOCK = 1
  MAX_OPS = 4
  Ops = {"chdir", "chmod", "open", "creat", "excl", "mknod", "mkdir", "rmdir", "unlink", "link"}
INVARIANTS RefsAccounted 
SYMMETRY Symmetry
CHECK_DEADLOCK FALSE
