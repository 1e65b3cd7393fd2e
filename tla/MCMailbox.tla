----------------------------- MODULE MCMailbox -----------------------------
(* Buffers are interchangeable where no liveness is checked. *)
EXTENDS Mailbox, TLC

BufferSymmetry == Permutations(Buffers)
=============================================================================
