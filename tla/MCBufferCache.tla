--------------------------- MODULE MCBufferCache ---------------------------
(* An instance of BufferCache for TLC: more blocks than buffers. *)
EXTENDS BufferCache
CONSTANTS p1, p2, n1, n2, n3, n4, v1, v2

Interchangeable ==
    Permutations(Procs) \cup Permutations(Blocks \ (LogBlocks \cup Indirect))
        \cup Permutations(Values)
=============================================================================
