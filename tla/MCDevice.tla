------------------------------ MODULE MCDevice ------------------------------
(* Both work items; the card is probed and removed without end. *)
EXTENDS Device, TLC

CONSTANTS irq_work, dma_work

MCWorks == {irq_work, dma_work}
=============================================================================
