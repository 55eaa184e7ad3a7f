------------------------------ MODULE MCNamei ------------------------------
(* Namei for TLC: tasks and names may be exchanged.                         *)
EXTENDS Namei, TLC

Symmetry == Permutations(Tasks) \cup Permutations(Names)
=============================================================================
