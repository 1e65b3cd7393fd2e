----------------------------- MODULE DmaService -----------------------------
(***************************************************************************)
(* What a synchronous transfer promises to its caller and to the worker.   *)
(* A call fails before anything moves, for want of memory only, or it      *)
(* returns success: then its own data have moved, the worker was told so,  *)
(* and the engine is done with the caller's memory.  The worker hears of   *)
(* no direction in which nothing has moved.                                *)
(***************************************************************************)
CONSTANTS
  Dirs  \* the directions of a transfer

VARIABLES
  phase,  \* of the call: "idle", "begun", and then whether its data
          \* are "moving" or have "moved"
  dir,    \* its direction
  told,   \* the directions that the worker was told of and has not seen
  result  \* what the last call returned

serviceVars == <<phase, dir, told, result>>

Init ==
  /\ phase = "idle"
  /\ dir \in Dirs
  /\ told = {}
  /\ result = "none"

Begin(d) ==
  /\ phase = "idle"
  /\ phase' = "begun"
  /\ dir' = d
  /\ result' = "none"
  /\ UNCHANGED told

NoMemory ==
  /\ phase = "begun"
  /\ phase' = "idle"
  /\ result' = "nomem"
  /\ UNCHANGED <<dir, told>>

Start ==
  /\ phase = "begun"
  /\ phase' = "moving"
  /\ UNCHANGED <<dir, told, result>>

Move ==
  /\ phase = "moving"
  /\ phase' = "moved"
  /\ UNCHANGED <<dir, told, result>>

TellWorker ==
  /\ phase = "moved"
  /\ told' = told \cup {dir}
  /\ UNCHANGED <<phase, dir, result>>

Succeed ==
  /\ phase = "moved" /\ dir \in told
  /\ phase' = "idle"
  /\ result' = "ok"
  /\ UNCHANGED <<dir, told>>

WorkerLooks ==
  /\ phase = "idle"
  /\ told' = {}
  /\ UNCHANGED <<phase, dir, result>>

Next ==
  \/ \E d \in Dirs : Begin(d)
  \/ NoMemory \/ Start \/ Move \/ TellWorker \/ Succeed
  \/ WorkerLooks

Spec == Init /\ [][Next]_serviceVars
=============================================================================
