--------------------------- MODULE MCDmaTransfer ---------------------------
(* The card's two engines: 0 moves data to the card, 1 to the host. *)
EXTENDS DmaTransfer

MCDirection == [c \in 0 .. 1 |-> IF c = 0 THEN "write" ELSE "read"]
=============================================================================
