-------------------------- MODULE EventGroupProofs --------------------------
(***************************************************************************)
(* Proofs about the event groups of qposm.c, for every set of bits, every  *)
(* mask, every timeout and every saturation bound of the completions.      *)
(***************************************************************************)
EXTENDS EventGroup, TLAPS

USE BitsAssumption, MaskAssumption, WindowsAssumption, SignalsAssumption,
    MaxDoneAssumption

(* Each variable keeps its type. *)
THEOREM TypeCorrect == Spec => []TypeOK
<1> USE DEF TypeOK
<1>1. Init => TypeOK
  BY DEF Init, QPOSMCreateEvtgrp
<1>2. TypeOK /\ [Next]_vars => TypeOK'
  <2> SUFFICES ASSUME TypeOK, [Next]_vars PROVE TypeOK'
    OBVIOUS
  <2>1. ASSUME NEW mask \in SUBSET Bits, QPOSMSetEvtgrp(mask) PROVE TypeOK'
    BY <2>1 DEF QPOSMSetEvtgrp, Complete
  <2>2. ASSUME NEW mask \in SUBSET Bits, QPOSMClearEvtgrp(mask) PROVE TypeOK'
    BY <2>2 DEF QPOSMClearEvtgrp
  <2>3. CASE WaitCall
    BY <2>3 DEF WaitCall
  <2>4. CASE WaitTake
    BY <2>4 DEF WaitTake
  <2>5. CASE WaitSleep
    BY <2>5 DEF WaitSleep
  <2>6. CASE WaitWoken
    BY <2>6 DEF WaitWoken, Consume
  <2>7. CASE WaitWindowEnds
    BY <2>7 DEF WaitWindowEnds, Timed
  <2>8. CASE WaitTimeout
    BY <2>8 DEF WaitTimeout
  <2>9. CASE WaitInterrupted
    BY <2>9 DEF WaitInterrupted
  <2>10. CASE WaitReinit
    BY <2>10 DEF WaitReinit
  <2>11. CASE UNCHANGED vars
    BY <2>11 DEF vars
  <2> QED
    BY <2>1, <2>2, <2>3, <2>4, <2>5, <2>6, <2>7, <2>8, <2>9, <2>10, <2>11
    DEF Next, Wait
<1> QED
  BY <1>1, <1>2, PTL DEF Spec

(* A sleeping waiter whose first bit is set has a token, so it wakes: the  *)
(* inductive step needs only the types, since a sleep begins with no       *)
(* masked bit set and a bit is completed in the step that sets it.         *)
THEOREM NeverLosesWakeup == Spec => []NoLostWakeup
<1>1. Init => NoLostWakeup
  BY DEF Init, QPOSMCreateEvtgrp, NoLostWakeup
<1>2. TypeOK /\ NoLostWakeup /\ [Next]_vars => NoLostWakeup'
  <2> SUFFICES ASSUME TypeOK, NoLostWakeup, [Next]_vars,
                      pc' = "sleep", First \in bits'
               PROVE  done'[First] > 0
    BY DEF NoLostWakeup
  <2> USE DEF TypeOK, NoLostWakeup
  <2>1. ASSUME NEW mask \in SUBSET Bits, QPOSMSetEvtgrp(mask) PROVE done'[First] > 0
    BY <2>1 DEF QPOSMSetEvtgrp, Complete
  <2>2. ASSUME NEW mask \in SUBSET Bits, QPOSMClearEvtgrp(mask) PROVE done'[First] > 0
    BY <2>2 DEF QPOSMClearEvtgrp
  <2>3. CASE WaitSleep
    BY <2>3 DEF WaitSleep
  <2>4. CASE WaitCall \/ WaitTake \/ WaitWoken \/ WaitWindowEnds \/ WaitTimeout
               \/ WaitInterrupted \/ WaitReinit
    BY <2>4 DEF WaitCall, WaitTake, WaitWoken, WaitWindowEnds, WaitTimeout,
                WaitInterrupted, WaitReinit
  <2>5. CASE UNCHANGED vars
    BY <2>5 DEF vars
  <2> QED
    BY <2>1, <2>2, <2>3, <2>4, <2>5 DEF Next, Wait
<1> QED
  BY <1>1, <1>2, TypeCorrect, PTL DEF Spec

(* No wait reports a timeout, or an interruption, while the bit it sleeps  *)
(* on is set.                                                              *)
THEOREM GivesUpOnlyWithoutEvent == Spec => TimeoutMeansNoEvent
<1>1. TypeOK /\ NoLostWakeup /\ [Next]_vars
        => [ret' \in GaveUp /\ ret \notin GaveUp => First \notin bits]_vars
  <2> SUFFICES ASSUME TypeOK, NoLostWakeup, Next,
                      ret' \in GaveUp, ret \notin GaveUp
               PROVE  First \notin bits
    BY DEF vars
  <2> USE DEF TypeOK, NoLostWakeup, GaveUp
  <2>1. ASSUME NEW mask \in SUBSET Bits,
               QPOSMSetEvtgrp(mask) \/ QPOSMClearEvtgrp(mask)
        PROVE  FALSE
    BY <2>1 DEF QPOSMSetEvtgrp, QPOSMClearEvtgrp
  <2>2. CASE WaitTimeout \/ WaitInterrupted
    BY <2>2 DEF WaitTimeout, WaitInterrupted
  <2>3. CASE WaitCall \/ WaitTake \/ WaitSleep \/ WaitWoken \/ WaitWindowEnds \/ WaitReinit
    BY <2>3 DEF WaitCall, WaitTake, WaitSleep, WaitWoken, WaitWindowEnds, WaitReinit
  <2> QED
    BY <2>1, <2>2, <2>3 DEF Next, Wait
<1> QED
  BY <1>1, TypeCorrect, NeverLosesWakeup, PTL DEF Spec, TimeoutMeansNoEvent

(* The group with its completions and polling windows implements the       *)
(* abstract flags: sleeping, waking and reinitialising are stutters.       *)
THEOREM Refinement == Spec => ImplementsEventFlags
<1> USE DEF Flags!fvars
<1>1. Init => Flags!Init
  BY DEF Init, QPOSMCreateEvtgrp, Flags!Init
<1>2. TypeOK /\ NoLostWakeup /\ [Next]_vars => [Flags!Next]_(Flags!fvars)
  <2> SUFFICES ASSUME TypeOK, NoLostWakeup, Next
               PROVE  Flags!Next \/ UNCHANGED Flags!fvars
    BY DEF vars
  <2> USE DEF TypeOK, NoLostWakeup
  <2>1. ASSUME NEW mask \in SUBSET Bits, QPOSMSetEvtgrp(mask) PROVE Flags!Raise
    BY <2>1 DEF QPOSMSetEvtgrp, Flags!Raise
  <2>2. ASSUME NEW mask \in SUBSET Bits, QPOSMClearEvtgrp(mask) PROVE Flags!Lower
    BY <2>2 DEF QPOSMClearEvtgrp, Flags!Lower
  <2>3. CASE WaitCall
    BY <2>3 DEF WaitCall, Flags!Next, Flags!Call
  <2>4. CASE WaitTake
    BY <2>4 DEF WaitTake, Flags!Next, Flags!Take
  <2>5. CASE WaitSleep \/ WaitWoken \/ WaitWindowEnds \/ WaitReinit
    BY <2>5 DEF WaitSleep, WaitWoken, WaitWindowEnds, WaitReinit
  <2>6. CASE WaitTimeout \/ WaitInterrupted
    <3>1. First \notin bits
      BY <2>6 DEF WaitTimeout, WaitInterrupted
    <3> QED
      BY <2>6, <3>1 DEF WaitTimeout, WaitInterrupted, Flags!Next, Flags!GiveUp
  <2> QED
    BY <2>1, <2>2, <2>3, <2>4, <2>5, <2>6 DEF Next, Wait, Flags!Next
<1> QED
  BY <1>1, <1>2, TypeCorrect, NeverLosesWakeup, PTL
  DEF Spec, ImplementsEventFlags, Flags!Spec
=============================================================================
