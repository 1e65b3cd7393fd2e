-------------------------- MODULE UserBuffersProofs --------------------------
(***************************************************************************)
(* Proofs about UserBuffers, for any number of buffers.                    *)
(*                                                                         *)
(* Who owns a buffer depends on how far the user's call has come: the      *)
(* invariant adds what the list and videobuf2 hold at each step of a start *)
(* and of a stop, and which pins are whole at each step of a start.        *)
(***************************************************************************)
EXTENDS UserBuffers, TLAPS

(* The list and videobuf2's state, along the calls. *)
CallInv ==
  /\ call \in {"init", "yuv", "yuvQueues", "pcm", "pcmQueues", "cleanup",
               "failed", "drop", "finish"} => streaming
  /\ call \in {"failed", "finish", "cancel"} => listed = {}
  /\ call = "cancel" => Active = {}

(* The pins, along a start. *)
PinInv ==
  /\ call \in {"yuv", "yuvQueues", "pcm", "pcmQueues", "cleanup", "failed"} => ~running
  /\ call = "yuvQueues" => "format" \in parts["yuv"]
  /\ call \in {"pcm", "pcmQueues"} => parts["yuv"] = Parts
  /\ call = "pcmQueues" => "format" \in parts["pcm"]
  /\ RunningHasPins

(* What of the type invariant concerns sets and functions. *)
DataTypes ==
  /\ state \in [Buffers -> {"dequeued", "queued", "active", "done"}]
  /\ listed \subseteq Buffers
  /\ lost \subseteq Buffers \ listed
  /\ desc \subseteq Buffers
  /\ framed \subseteq Pins
  /\ parts \in [Pins -> SUBSET Parts]
  /\ call \in Calls

BufferInv == DataTypes /\ ListedIsOwned /\ EveryBufferAccounted /\ CallInv

Inv == TypeOK /\ BufferInv /\ PinInv
-----------------------------------------------------------------------------
(* A call that streaming depends on is in progress for as long as it takes, *)
(* and videobuf2 counts as the driver's only what the driver was given.     *)
LEMMA BufferStep == ASSUME BufferInv, [Next]_vars PROVE BufferInv'
<1> USE DEF BufferInv, DataTypes, ListedIsOwned, EveryBufferAccounted, CallInv,
            Active, Calls, Goto, bufferVars, pinVars
<1>1. ASSUME NEW b \in Buffers, c985_ioctl_qbuf(b) PROVE BufferInv'
  <2>1. CASE streaming
    <3>1. /\ EnqueueInDriver(b) /\ state[b] = "dequeued" /\ call = "idle"
          /\ UNCHANGED <<streaming, running, pinVars, call>>
      BY <1>1, <2>1 DEF c985_ioctl_qbuf
    <3> QED
      BY <2>1, <3>1 DEF EnqueueInDriver, c985_buf_queue
  <2>2. CASE ~streaming
    BY <1>1, <2>2 DEF c985_ioctl_qbuf
  <2> QED
    BY <2>1, <2>2
<1>2. ASSUME NEW b \in Buffers, CMPEGOutChannel_GetBuffer(b) PROVE BufferInv'
  BY <1>2 DEF CMPEGOutChannel_GetBuffer
<1>3. ASSUME NEW b \in Buffers, Enqueue(b) PROVE BufferInv'
  BY <1>3 DEF Enqueue, EnqueueInDriver, c985_buf_queue
<1>4. CASE c985_ioctl_streamon \/ c985_ioctl_streamoff \/ Enqueued \/ StartInit
  BY <1>4 DEF c985_ioctl_streamon, c985_ioctl_streamoff, Enqueued, StartInit
<1>5. CASE CYUVOutPin_CYUVOutPin
  BY <1>5 DEF CYUVOutPin_CYUVOutPin, Constructed, Pins, Parts
<1>6. CASE CPCMOutPin_CPCMOutPin
  BY <1>6 DEF CPCMOutPin_CPCMOutPin, Constructed, Pins, Parts
<1>7. CASE CreateYuv \/ CreatePcm
  BY <1>7 DEF CreateYuv, CreatePcm, CDataPin_Create, Pins, Parts
<1>8. CASE c985_cleanup_on_error
  BY <1>8 DEF c985_cleanup_on_error
<1>9. CASE StreamonFails
  BY <1>9 DEF StreamonFails
<1>10. CASE StopDrops
  BY <1>10 DEF StopDrops
<1>11. CASE StopFinishes
  BY <1>11 DEF StopFinishes
<1>12. CASE Cancel
  BY <1>12 DEF Cancel
<1>13. CASE UNCHANGED vars
  BY <1>13 DEF vars
<1> QED
  BY <1>1, <1>2, <1>3, <1>4, <1>5, <1>6, <1>7, <1>8, <1>9, <1>10, <1>11, <1>12, <1>13
     DEF Next, StartStreaming, StopStreaming

(* Each start builds both pins from nothing before the encoder counts as    *)
(* running; whichever allocation fails, it does not.                        *)
LEMMA PinStep == ASSUME parts \in [Pins -> SUBSET Parts], PinInv, [Next]_vars PROVE PinInv'
<1> USE DEF PinInv, RunningHasPins, Goto, bufferVars, pinVars, Pins, Parts
<1>1. ASSUME NEW b \in Buffers, c985_ioctl_qbuf(b) PROVE PinInv'
  BY <1>1 DEF c985_ioctl_qbuf
<1>2. ASSUME NEW b \in Buffers, CMPEGOutChannel_GetBuffer(b) \/ Enqueue(b) PROVE PinInv'
  BY <1>2 DEF CMPEGOutChannel_GetBuffer, Enqueue
<1>3. CASE c985_ioctl_streamon \/ c985_ioctl_streamoff \/ Enqueued \/ StartInit
  BY <1>3 DEF c985_ioctl_streamon, c985_ioctl_streamoff, Enqueued, StartInit
<1>4. CASE CYUVOutPin_CYUVOutPin
  BY <1>4 DEF CYUVOutPin_CYUVOutPin, Constructed
<1>5. CASE CPCMOutPin_CPCMOutPin
  BY <1>5 DEF CPCMOutPin_CPCMOutPin, Constructed
<1>6. CASE CreateYuv
  BY <1>6 DEF CreateYuv, CDataPin_Create
<1>7. CASE CreatePcm
  BY <1>7 DEF CreatePcm, CDataPin_Create
<1>8. CASE c985_cleanup_on_error \/ StreamonFails
  BY <1>8 DEF c985_cleanup_on_error, StreamonFails
<1>9. CASE StopStreaming
  BY <1>9 DEF StopStreaming, StopDrops, StopFinishes, Cancel
<1>10. CASE UNCHANGED vars
  BY <1>10 DEF vars
<1> QED
  BY <1>1, <1>2, <1>3, <1>4, <1>5, <1>6, <1>7, <1>8, <1>9, <1>10 DEF Next, StartStreaming

LEMMA FlagStep ==
  ASSUME streaming \in BOOLEAN, running \in BOOLEAN, [Next]_vars
  PROVE  streaming' \in BOOLEAN /\ running' \in BOOLEAN
  BY Zenon DEF Next, StartStreaming, StopStreaming, c985_ioctl_qbuf,
     CMPEGOutChannel_GetBuffer, Enqueue, c985_ioctl_streamon, c985_ioctl_streamoff,
     Enqueued, StartInit, CYUVOutPin_CYUVOutPin, CPCMOutPin_CPCMOutPin, Constructed,
     CreateYuv, CreatePcm, CDataPin_Create, c985_cleanup_on_error, StreamonFails,
     StopDrops, StopFinishes, Cancel, vars, pinVars, bufferVars
-----------------------------------------------------------------------------
LEMMA InitInv == Init => Inv
<1> SUFFICES ASSUME Init PROVE Inv
  OBVIOUS
<1>1. BufferInv
  BY DEF Init, BufferInv, DataTypes, ListedIsOwned, EveryBufferAccounted, CallInv, Active,
         Calls, Pins, Parts
<1>2. PinInv
  BY DEF Init, PinInv, RunningHasPins
<1>3. TypeOK
  BY <1>1 DEF Init, TypeOK, BufferInv, DataTypes
<1> QED
  BY <1>1, <1>2, <1>3 DEF Inv

LEMMA StepInv == Inv /\ [Next]_vars => Inv'
<1> SUFFICES ASSUME Inv, [Next]_vars PROVE Inv'
  OBVIOUS
<1>1. BufferInv'
  BY BufferStep DEF Inv
<1>2. PinInv'
  BY PinStep DEF Inv, TypeOK
<1>3. streaming' \in BOOLEAN /\ running' \in BOOLEAN
  BY FlagStep DEF Inv, TypeOK
<1>4. TypeOK'
  BY <1>1, <1>3, Zenon DEF BufferInv, DataTypes, TypeOK
<1> QED
  BY <1>1, <1>2, <1>4 DEF Inv

LEMMA SpecInv == Spec => []Inv
  BY InitInv, StepInv, PTL DEF Spec

(* Every variable keeps its type, and no buffer is both listed and lost. *)
THEOREM TypeCorrect == Spec => []TypeOK
<1>1. Inv => TypeOK
  BY DEF Inv
<1> QED
  BY <1>1, SpecInv, PTL

(* The worker finds on buf_list only what the driver owns, described. *)
THEOREM WorkerTakesOwnedBuffers == Spec => []ListedIsOwned
<1>1. Inv => ListedIsOwned
  BY DEF Inv, BufferInv
<1> QED
  BY <1>1, SpecInv, PTL

(* No buffer is forgotten by a start that fails, a stop, or the worker. *)
THEOREM NoBufferForgotten == Spec => []EveryBufferAccounted
<1>1. Inv => EveryBufferAccounted
  BY DEF Inv, BufferInv
<1> QED
  BY <1>1, SpecInv, PTL

(* encoder_running says that both pins are whole. *)
THEOREM EncoderHasPins == Spec => []RunningHasPins
<1>1. Inv => RunningHasPins
  BY DEF Inv, PinInv
<1> QED
  BY <1>1, SpecInv, PTL
=============================================================================
