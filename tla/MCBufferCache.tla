--------------------------- MODULE MCBufferCache ---------------------------
(* BufferCache for TLC: blocks are interchangeable (buffers are not,        *)
(* sync_dev goes over them in order).                                       *)
EXTENDS BufferCache, TLC

Symmetry == Permutations(Blocks)
=============================================================================
