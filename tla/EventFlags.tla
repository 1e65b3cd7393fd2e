----------------------------- MODULE EventFlags -----------------------------
(***************************************************************************)
(* What an event group promises to the code that uses it, with no          *)
(* completions, no spinlock and no polling windows: a set of flags that    *)
(* anyone may raise or lower, and one caller that either takes every flag  *)
(* it asked for that is up, or gives up.  A caller that waits for a single *)
(* flag gives up only in a state in which that flag is down.  A wait for   *)
(* several flags polls, and may give up although one has just been raised, *)
(* provided it is not the first of them.                                   *)
(***************************************************************************)
EXTENDS Naturals

CONSTANTS
  Bits,     \* the event bits
  Mask,     \* the bits the caller waits for
  First,    \* the lowest of them
  MayGiveUp \* whether the wait has a timeout or can be interrupted

VARIABLES
  flags,   \* the events raised and not taken
  waiting, \* a wait is in progress
  outcome  \* what the last finished wait returned

fvars == <<flags, waiting, outcome>>

Outcomes == {"none", "success", "timeout", "interrupted"}

TypeOK ==
  /\ flags \subseteq Bits
  /\ waiting \in BOOLEAN
  /\ outcome \in Outcomes

Init ==
  /\ flags = {}
  /\ waiting = FALSE
  /\ outcome = "none"

Raise ==
  /\ \E m \in SUBSET Bits : flags' = flags \cup m
  /\ UNCHANGED <<waiting, outcome>>

Lower ==
  /\ \E m \in SUBSET Bits : flags' = flags \ m
  /\ UNCHANGED <<waiting, outcome>>

Call ==
  /\ ~waiting
  /\ waiting' = TRUE
  /\ outcome' = "none"
  /\ UNCHANGED flags

Take ==
  /\ waiting
  /\ flags \cap Mask # {}
  /\ flags' = flags \ Mask
  /\ waiting' = FALSE
  /\ outcome' = "success"

GiveUp ==
  /\ waiting
  /\ MayGiveUp
  /\ First \notin flags
  /\ waiting' = FALSE
  /\ outcome' \in {"timeout", "interrupted"}
  /\ UNCHANGED flags

Next == Raise \/ Lower \/ Call \/ Take \/ GiveUp

Spec == Init /\ [][Next]_fvars
=============================================================================
