----------------------------- MODULE MCArmFifo -----------------------------
(* A small instance: one thread, two entries, three slots, and a level that *)
(* wraps at 5.                                                              *)
EXTENDS ArmFifo

CONSTANTS worker, e0, e1

MCThreads == {worker}
MCEntries == {e0, e1}
=============================================================================
