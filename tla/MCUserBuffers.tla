--------------------------- MODULE MCUserBuffers ---------------------------
(* Three buffers: one on the list, one that the worker took and one that   *)
(* the user holds, or all in one place.                                    *)
EXTENDS UserBuffers, TLC

CONSTANTS b1, b2, b3

MCBuffers == {b1, b2, b3}
Symmetry == Permutations(MCBuffers)
=============================================================================
