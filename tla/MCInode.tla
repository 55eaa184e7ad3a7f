------------------------------ MODULE MCInode ------------------------------
(* Inode for TLC: tasks may be exchanged.                                    *)
EXTENDS Inode, TLC

Symmetry == Permutations(Tasks)
=============================================================================
