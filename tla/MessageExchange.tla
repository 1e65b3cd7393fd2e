--------------------------- MODULE MessageExchange ---------------------------
(***************************************************************************)
(* What the mailboxes promise to the ARM and to the callers of the driver. *)
(* A message goes to the ARM whole, with the parameters that were set for  *)
(* it, and the next one only when the ARM took it.  A buffer that the ARM  *)
(* lends comes back in a message, once, in the order of the lending.  With *)
(* a slow ARM the host may give up on the oldest buffer instead.           *)
(***************************************************************************)
EXTENDS Sequences

CONSTANTS
  Buffers,   \* the buffers of the ARM
  Commands,  \* the messages that come with parameters
  Signals,   \* those that come without, and return no buffer
  DataOut(_),\* the message that returns a buffer
  Lossy,     \* whether the ARM may be too slow to be given its buffers
  None       \* no parameters

VARIABLES
  arm,   \* the buffers that the ARM has
  lent,  \* those that the host has, the oldest first
  sent   \* the message that waits for the ARM and its parameters, if any does

messageVars == <<arm, lent, sent>>

Init ==
  /\ arm = Buffers
  /\ lent = <<>>
  /\ sent = <<>>

Lend(b) ==
  /\ b \in arm
  /\ arm' = arm \ {b}
  /\ lent' = Append(lent, b)
  /\ UNCHANGED sent

Command(m) ==
  /\ sent = <<>>
  /\ sent' = <<m, m>>
  /\ UNCHANGED <<arm, lent>>

Signal(m) ==
  /\ sent = <<>>
  /\ sent' = <<m, None>>
  /\ UNCHANGED <<arm, lent>>

(* The oldest buffer goes back. *)
Return ==
  /\ sent = <<>> /\ lent # <<>>
  /\ sent' = <<DataOut(Head(lent)), None>>
  /\ lent' = Tail(lent)
  /\ UNCHANGED arm

(* The oldest buffer is forgotten. *)
Lose ==
  /\ Lossy /\ lent # <<>>
  /\ lent' = Tail(lent)
  /\ UNCHANGED <<arm, sent>>

(* The ARM takes the message, and with it the buffer. *)
Take ==
  /\ sent # <<>>
  /\ sent' = <<>>
  /\ arm' = arm \cup {b \in Buffers : sent[1] = DataOut(b)}
  /\ UNCHANGED lent

Next ==
  \/ \E b \in Buffers : Lend(b)
  \/ \E m \in Commands : Command(m)
  \/ \E m \in Signals : Signal(m)
  \/ Return \/ Lose \/ Take

Spec == Init /\ [][Next]_messageVars
=============================================================================
