---------------------------- MODULE BoundedQueue ----------------------------
(***************************************************************************)
(* What the FIFO of pending ARM requests promises: a queue of at most Size *)
(* entries, which each operation changes in one step.  Each thread owns    *)
(* the buffer it passes to the operation.                                  *)
(***************************************************************************)
EXTENDS Naturals, Sequences

CONSTANTS
  Threads, \* the threads that use the queue
  Entries, \* what they store
  Size     \* its capacity

VARIABLES
  queue,  \* the entries stored and not fetched, oldest first
  buffer, \* the entry that a thread stores or has fetched
  op,     \* the operation it called last, "get" or "set"
  ret     \* what that returned; "none" until it is decided

qvars == <<queue, buffer, op, ret>>

Init ==
  /\ queue = <<>>
  /\ buffer \in [Threads -> Entries]
  /\ op = [t \in Threads |-> "get"]
  /\ ret = [t \in Threads |-> "none"]

(* A thread calls an operation with an entry in its buffer. *)
Call(t) ==
  /\ \E o \in {"get", "set"} : op' = [op EXCEPT ![t] = o]
  /\ \E e \in Entries : buffer' = [buffer EXCEPT ![t] = e]
  /\ ret' = [ret EXCEPT ![t] = "none"]
  /\ UNCHANGED queue

Put(t) ==
  /\ op[t] = "set" /\ ret[t] = "none" /\ Len(queue) < Size
  /\ queue' = Append(queue, buffer[t])
  /\ ret' = [ret EXCEPT ![t] = "done"]
  /\ UNCHANGED <<buffer, op>>

Take(t) ==
  /\ op[t] = "get" /\ ret[t] = "none" /\ queue # <<>>
  /\ buffer' = [buffer EXCEPT ![t] = Head(queue)]
  /\ queue' = Tail(queue)
  /\ ret' = [ret EXCEPT ![t] = "done"]
  /\ UNCHANGED op

(* Nothing to fetch, or no room. *)
Refuse(t) ==
  /\ ret[t] = "none"
  /\ Len(queue) = IF op[t] = "get" THEN 0 ELSE Size
  /\ ret' = [ret EXCEPT ![t] = "refused"]
  /\ UNCHANGED <<queue, buffer, op>>

Next == \E t \in Threads : Call(t) \/ Put(t) \/ Take(t) \/ Refuse(t)

Spec == Init /\ [][Next]_qvars
=============================================================================
