SPECIFICATION Spec
CONSTANTS
  Tasks = {t1, t2, t3}
  NR_INODE = 2
  NR_INODES = 2
  Written = {1}
INVARIANTS SlotsAccounted NoLostInode FreedAtLast
SYMMETRY Symmetry
CHECK_DEADLOCK FALSE
