---------------------------- MODULE MCEventGroup ----------------------------
(* Three bits, one of which nobody waits for, and a mask of two: the wait  *)
(* sleeps on the completion of bit 1 and has to notice bit 2 by polling.   *)
EXTENDS EventGroup

MCBits == 0 .. 2
MCMask == {1, 2}
=============================================================================
