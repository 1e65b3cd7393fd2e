----------------------------- MODULE EventGroup -----------------------------
(***************************************************************************)
(* The event groups of qposm.c, on which the worker thread sleeps and      *)
(* synchronous DMA waits.  A group is a word of event bits and one kernel  *)
(* completion per bit.  A wait looks at the bits under the group's         *)
(* spinlock and then sleeps on the completion of the FIRST bit of its mask *)
(* only, for at most one window of HZ/10; the other bits are noticed       *)
(* because the wait looks again after each window.                         *)
(*                                                                         *)
(* One thread waits on a group (the worker on m_EvtTask, the caller of a   *)
(* transfer on m_EvtSyncDma); any thread sets and clears bits.  Each       *)
(* action is one critical section of the spinlock, or one sleep.           *)
(***************************************************************************)
EXTENDS Naturals, FiniteSets

CONSTANTS
  Bits,     \* the event bits in use (bits of a 32-bit word)
  Mask,     \* the mask argument of the wait
  First,    \* wait_array[0], the lowest bit of the mask
  Windows,  \* the timeout in windows of HZ/10; 0 stands for "no timeout"
  Signals,  \* whether a signal can reach the waiting thread
  MaxDone   \* UINT_MAX, where complete() saturates

ASSUME BitsAssumption == Bits \subseteq Nat
ASSUME MaskAssumption ==
  Mask \subseteq Bits /\ First \in Mask /\ \A b \in Mask : First <= b
ASSUME WindowsAssumption == Windows \in Nat
ASSUME SignalsAssumption == Signals \in BOOLEAN
ASSUME MaxDoneAssumption == MaxDone \in Nat \ {0}

VARIABLES
  bits,    \* evt->bits
  done,    \* evt->events[i].completion.done
  pc,      \* where the waiting thread is in QPOSMWaitEvtgrp
  left,    \* timeout_jiffies, in windows
  ret      \* what the last finished wait returned

vars == <<bits, done, pc, left, ret>>

Timed == Windows > 0

(* Variant: the count is not saturated. *)
CompleteUnbounded(n) == n + 1

(* complete(): one more token, saturating; a waiter takes one, unless saturated. *)
Complete(n) == IF n < MaxDone THEN n + 1 ELSE n
Consume(n) == IF n < MaxDone THEN n - 1 ELSE n

TypeOK ==
  /\ bits \subseteq Bits
  /\ done \in [Bits -> 0 .. MaxDone]
  /\ pc \in {"idle", "check", "sleep", "reinit"}
  /\ left \in 0 .. Windows
  /\ ret \in {"none", "success", "timeout", "interrupted"}

(* QPOSMCreateEvtgrp: no bit set, every completion initialised. *)
QPOSMCreateEvtgrp ==
  /\ bits = {}
  /\ done = [b \in Bits |-> 0]

Init ==
  /\ QPOSMCreateEvtgrp
  /\ pc = "idle"
  /\ left = 0
  /\ ret = "none"

(* Variant: the bits are set and nobody is woken. *)
SetWithoutWaking(mask) ==
  /\ bits' = bits \cup mask
  /\ UNCHANGED <<done, pc, left, ret>>

(* QPOSMSetEvtgrp: a bit that is already set is not completed again. *)
QPOSMSetEvtgrp(mask) ==
  /\ bits' = bits \cup mask
  /\ done' = [b \in Bits |-> IF b \in mask \ bits THEN Complete(done[b]) ELSE done[b]]
  /\ UNCHANGED <<pc, left, ret>>

QPOSMClearEvtgrp(mask) ==
  /\ bits' = bits \ mask
  /\ done' = [b \in Bits |-> IF b \in mask THEN 0 ELSE done[b]]
  /\ UNCHANGED <<pc, left, ret>>

(* The call: nothing is looked at before the loop. *)
WaitCall ==
  /\ pc = "idle"
  /\ pc' = "check"
  /\ left' = Windows
  /\ ret' = "none"
  /\ UNCHANGED <<bits, done>>

(* Variant: only the bit that the thread slept on is taken. *)
TakeFirstOnly ==
  /\ pc = "check"
  /\ bits \cap Mask # {}
  /\ bits' = bits \ {First}
  /\ ret' = "success"
  /\ pc' = "idle"
  /\ UNCHANGED <<done, left>>

(* Variant: the bits outside the mask are taken too. *)
TakeEveryBit ==
  /\ pc = "check"
  /\ bits \cap Mask # {}
  /\ bits' = {}
  /\ ret' = "success"
  /\ pc' = "idle"
  /\ UNCHANGED <<done, left>>

(* Top of the loop, a masked bit is set: the masked bits are taken. *)
WaitTake ==
  /\ pc = "check"
  /\ bits \cap Mask # {}
  /\ bits' = bits \ Mask
  /\ ret' = "success"
  /\ pc' = "idle"
  /\ UNCHANGED <<done, left>>

(* Top of the loop, no masked bit is set: sleep on wait_array[0]. *)
WaitSleep ==
  /\ pc = "check"
  /\ bits \cap Mask = {}
  /\ pc' = "sleep"
  /\ UNCHANGED <<bits, done, left, ret>>

(* wait_for_completion_interruptible_timeout() consumed a token (ret > 0). *)
WaitWoken ==
  /\ pc = "sleep"
  /\ done[First] > 0
  /\ done' = [done EXCEPT ![First] = Consume(@)]
  /\ pc' = "reinit"
  /\ UNCHANGED <<bits, left, ret>>

(* The window ended without a token (ret == 0) and it was not the last. *)
WaitWindowEnds ==
  /\ pc = "sleep"
  /\ done[First] = 0
  /\ Timed => left > 1
  /\ left' = IF Timed THEN left - 1 ELSE left
  /\ pc' = "reinit"
  /\ UNCHANGED <<bits, done, ret>>

(* The last window ended: -ETIMEDOUT, without another look at the bits. *)
WaitTimeout ==
  /\ pc = "sleep"
  /\ done[First] = 0
  /\ Timed /\ left <= 1
  /\ ret' = "timeout"
  /\ pc' = "idle"
  /\ UNCHANGED <<bits, done, left>>

(* A signal ends the sleep of a thread that has one pending (ret < 0). *)
WaitInterrupted ==
  /\ pc = "sleep"
  /\ done[First] = 0
  /\ Signals
  /\ ret' = "interrupted"
  /\ pc' = "idle"
  /\ UNCHANGED <<bits, done, left>>

(* Variant: after the reinit the thread sleeps again without looking. *)
ReinitAndSleep ==
  /\ pc = "reinit"
  /\ done' = [done EXCEPT ![First] = 0]
  /\ pc' = "sleep"
  /\ UNCHANGED <<bits, left, ret>>

(* reinit_completion(wait_array[0]) at the bottom of the loop. *)
WaitReinit ==
  /\ pc = "reinit"
  /\ done' = [done EXCEPT ![First] = 0]
  /\ pc' = "check"
  /\ UNCHANGED <<bits, left, ret>>

Wait == WaitCall \/ WaitTake \/ WaitSleep \/ WaitWoken \/ WaitWindowEnds
          \/ WaitTimeout \/ WaitInterrupted \/ WaitReinit

Next ==
  \/ \E mask \in SUBSET Bits : QPOSMSetEvtgrp(mask)
  \/ \E mask \in SUBSET Bits : QPOSMClearEvtgrp(mask)
  \/ Wait

Spec == Init /\ [][Next]_vars

(* The worker calls again for as long as it lives, and the kernel runs it. *)
FairSpec == Spec /\ WF_vars(Wait)

-----------------------------------------------------------------------------
(* A thread that sleeps on the first bit of its mask while that bit is set *)
(* has a token waiting for it: QPOSMSetEvtgrp completes after it sets, and *)
(* the reinit at the bottom of the loop is followed by another look.       *)
NoLostWakeup == pc = "sleep" /\ First \in bits => done[First] > 0

(* A wait for one bit never reports a timeout while that bit is set: there *)
(* is no last look at the bits before -ETIMEDOUT, so this rests on the     *)
(* completion alone.                                                       *)
GaveUp == {"timeout", "interrupted"}
TimeoutMeansNoEvent ==
  [][ret' \in GaveUp /\ ret \notin GaveUp => First \notin bits]_vars

(* Every bit of the mask that is set is taken (or cleared by its owner):   *)
(* also the bits whose completion nobody sleeps on.                        *)
EveryEventTaken == \A b \in Mask : b \in bits ~> b \notin bits

(* The group with its completions and windows implements the abstract one. *)
Flags == INSTANCE EventFlags WITH
  flags   <- bits,
  waiting <- pc # "idle",
  outcome <- ret,
  MayGiveUp <- Timed \/ Signals

ImplementsEventFlags == Flags!Spec
=============================================================================
