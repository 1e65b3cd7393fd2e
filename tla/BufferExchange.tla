--------------------------- MODULE BufferExchange ---------------------------
(***************************************************************************)
(* What a task promises to the two sides that give it buffers.  The card   *)
(* lends it requests, the user offers it buffers, each in an order.  A     *)
(* stopped task gives requests back unserved.  A running task serves the   *)
(* oldest request with the oldest buffer and gives back what it has        *)
(* served, in order; on a channel of frames a request and a buffer go back *)
(* together.  Of the buffers it gives back unserved only those that are    *)
(* too small, each in its turn, and when a request is there to be served.  *)
(***************************************************************************)
EXTENDS Naturals, Sequences

CONSTANTS
  Tasks,     \* the tasks
  Channels,  \* the channels, each of one task
  Frames,    \* those that carry one frame per request and buffer
  ArmBufs,   \* the requests of the card, by channel
  UserBufs,  \* the buffers of the user, by channel
  Small,     \* those that are too small to be served
  TaskOf     \* the task of each channel

VARIABLES lent, offered, running

exchangeVars == <<lent, offered, running>>

Init ==
  /\ lent = [c \in Channels |-> <<>>]
  /\ offered = [c \in Channels |-> <<>>]
  /\ running = {}

Lend(c, b) ==
  /\ \A i \in DOMAIN lent[c] : lent[c][i] # b
  /\ lent' = [lent EXCEPT ![c] = Append(@, b)]
  /\ UNCHANGED <<offered, running>>

Offer(c, u) ==
  /\ \A i \in DOMAIN offered[c] : offered[c][i] # u
  /\ offered' = [offered EXCEPT ![c] = Append(@, u)]
  /\ UNCHANGED <<lent, running>>

Start(t) ==
  /\ running' = running \cup {t}
  /\ UNCHANGED <<lent, offered>>

(* A task that does not run gives back requests, the oldest first. *)
Refuse(t) ==
  /\ t \notin running
  /\ lent' = [c \in Channels |-> lent'[c]]
  /\ \A c \in Channels :
       \E n \in 0 .. IF TaskOf[c] = t THEN Len(lent[c]) ELSE 0 :
         lent'[c] = SubSeq(lent[c], n + 1, Len(lent[c]))
  /\ UNCHANGED <<offered, running>>

(* One that runs gives back a request, a buffer, or both of a channel. *)
Serve(c, request, buffer) ==
  /\ TaskOf[c] \in running
  /\ request => lent[c] # <<>>
  /\ buffer => offered[c] # <<>> /\ Head(offered[c]) \notin Small
  /\ c \in Frames => request = buffer
  /\ lent' = IF request THEN [lent EXCEPT ![c] = Tail(@)] ELSE lent
  /\ offered' = IF buffer THEN [offered EXCEPT ![c] = Tail(@)] ELSE offered
  /\ UNCHANGED running

Reject(c) ==
  /\ TaskOf[c] \in running
  /\ lent[c] # <<>>
  /\ offered[c] # <<>> /\ Head(offered[c]) \in Small
  /\ offered' = [offered EXCEPT ![c] = Tail(@)]
  /\ UNCHANGED <<lent, running>>

Next ==
  \/ \E t \in Tasks : Start(t) \/ Refuse(t)
  \/ \E c \in Channels :
    \/ \E b \in ArmBufs[c] : Lend(c, b)
    \/ \E u \in UserBufs[c] : Offer(c, u)
    \/ \E request, buffer \in BOOLEAN : Serve(c, request, buffer)
    \/ Reject(c)

Spec == Init /\ [][Next]_exchangeVars
=============================================================================
