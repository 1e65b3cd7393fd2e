---------------------------- MODULE UserBuffers ----------------------------
(***************************************************************************)
(* The buffers of the video node on their way between the user, videobuf2, *)
(* the driver's buf_list and the worker thread, while streaming is started *)
(* and stopped (v4l2.c, pins.c, CMPEGOutChannel_GetBuffer of channel.c).   *)
(*                                                                         *)
(* The user's calls exclude one another: they hold v4l2_lock.  The worker  *)
(* holds nothing but buf_lock, and the encoder it works for may run        *)
(* whatever the video node does.  videobuf2 is external: it is modelled    *)
(* as far as the driver's operations depend on it.                         *)
(*                                                                         *)
(* Nothing completes a buffer: the worker takes one from the list, is      *)
(* given no descriptor for it, and has nothing to hand to CompleteBuffer.  *)
(***************************************************************************)
EXTENDS Naturals, FiniteSets

CONSTANTS
  Buffers \* the buffers that the user asked for

Pins == {"yuv", "pcm"}
Parts == {"format", "free", "request"}

Calls == {"idle", "enqueue", "init", "yuv", "yuvQueues", "pcm", "pcmQueues",
          "cleanup", "failed", "drop", "finish", "cancel"}

VARIABLES
  state,     \* of each buffer, as videobuf2 sees it
  listed,    \* those on buf_list; their order is left out
  lost,      \* those that the driver owns and has on no list
  desc,      \* those with a descriptor, a header and a queue entry
  streaming, \* videobuf2's start_streaming_called
  running,   \* encoder_running
  framed,    \* the pins whose descriptor has its AllocatorFraming
  parts,     \* what else is allocated of each pin
  call       \* where the user's call is

bufferVars == <<state, listed, lost, desc>>
pinVars == <<framed, parts>>
vars == <<bufferVars, streaming, running, pinVars, call>>

TypeOK ==
  /\ state \in [Buffers -> {"dequeued", "queued", "active", "done"}]
  /\ listed \subseteq Buffers
  /\ lost \subseteq Buffers \ listed
  /\ desc \subseteq Buffers
  /\ streaming \in BOOLEAN
  /\ running \in BOOLEAN
  /\ framed \subseteq Pins
  /\ parts \in [Pins -> SUBSET Parts]
  /\ call \in Calls

(* c985_v4l2_register; the pins are zeroed with the device. *)
Init ==
  /\ state = [b \in Buffers |-> "dequeued"]
  /\ listed = {}
  /\ lost = {}
  /\ desc = {}
  /\ streaming = FALSE
  /\ running = FALSE
  /\ framed = {}
  /\ parts = [p \in Pins |-> {}]
  /\ call = "idle"

Goto(c) == call' = c
Active == {b \in Buffers : state[b] = "active"}
-----------------------------------------------------------------------------
(* buf_queue: without memory for its descriptor a buffer is on no list, and *)
(* videobuf2 is not told.                                                   *)

c985_buf_queue(b) ==
  \E ok \in IF b \in desc THEN {TRUE} ELSE BOOLEAN :
    /\ listed' = IF ok THEN listed \cup {b} ELSE listed
    /\ desc' = IF ok THEN desc \cup {b} ELSE desc
    /\ lost' = IF ok THEN lost ELSE lost \cup {b}

EnqueueInDriver(b) ==
  /\ state' = [state EXCEPT ![b] = "active"]
  /\ c985_buf_queue(b)

c985_ioctl_qbuf(b) ==
  /\ call = "idle"
  /\ state[b] = "dequeued"
  /\ IF streaming
       THEN EnqueueInDriver(b)
       ELSE state' = [state EXCEPT ![b] = "queued"] /\ UNCHANGED <<listed, lost, desc>>
  /\ UNCHANGED <<streaming, running, pinVars, call>>

c985_ioctl_streamon ==
  /\ call = "idle"
  /\ ~streaming
  /\ Goto("enqueue")
  /\ UNCHANGED <<bufferVars, streaming, running, pinVars>>

(* vb2_start_streaming: all that is queued goes to the driver first. *)
Enqueue(b) ==
  /\ call = "enqueue"
  /\ state[b] = "queued"
  /\ EnqueueInDriver(b)
  /\ UNCHANGED <<streaming, running, pinVars, call>>

Enqueued ==
  /\ call = "enqueue"
  /\ \A b \in Buffers : state[b] # "queued"
  /\ streaming' = TRUE
  /\ Goto("init")
  /\ UNCHANGED <<bufferVars, running, pinVars>>
-----------------------------------------------------------------------------
(* start_streaming: two pins, each constructed and then created. *)

StartInit ==
  /\ call = "init"
  /\ running' = FALSE
  /\ Goto("yuv")
  /\ UNCHANGED <<bufferVars, streaming, pinVars>>

(* The constructors set the pin to zero: the memory of the last start is    *)
(* forgotten, not freed.  CBasePin_InitPin allocates the framing of a pin's *)
(* descriptor once; the format is allocated after it, or before.            *)
Constructed(p, has, next) ==
  /\ parts' = [parts EXCEPT ![p] = has]
  /\ Goto(next)
  /\ UNCHANGED <<bufferVars, streaming, running>>

CYUVOutPin_CYUVOutPin ==
  /\ call = "yuv"
  /\ \/ "yuv" \notin framed /\ Constructed("yuv", {}, "cleanup") /\ UNCHANGED framed
     \/ /\ framed' = framed \cup {"yuv"}
        /\ Constructed("yuv", {}, "cleanup") \/ Constructed("yuv", {"format"}, "yuvQueues")

CPCMOutPin_CPCMOutPin ==
  /\ call = "pcm"
  /\ \/ Constructed("pcm", {}, "cleanup") /\ UNCHANGED framed
     \/ "pcm" \notin framed /\ Constructed("pcm", {"format"}, "cleanup") /\ UNCHANGED framed
     \/ Constructed("pcm", {"format"}, "pcmQueues") /\ framed' = framed \cup {"pcm"}

(* Variant: the second allocation is not looked at. *)
CreateUnchecked(p) ==
  \/ UNCHANGED <<parts, running>> /\ Goto("cleanup")
  \/ /\ \E more \in {{"free"}, {"free", "request"}} : parts' = [parts EXCEPT ![p] = @ \cup more]
     /\ IF p = "yuv" THEN UNCHANGED running ELSE running' = TRUE
     /\ Goto(IF p = "yuv" THEN "pcm" ELSE "idle")

(* CDataPin_Create: both queues, or none. *)
CDataPin_Create(p) ==
  \/ UNCHANGED <<parts, running>> /\ Goto("cleanup")
  \/ /\ parts' = [parts EXCEPT ![p] = @ \cup {"free", "request"}]
     /\ IF p = "yuv" THEN UNCHANGED running ELSE running' = TRUE
     /\ Goto(IF p = "yuv" THEN "pcm" ELSE "idle")

CreateYuv ==
  /\ call = "yuvQueues"
  /\ CDataPin_Create("yuv")
  /\ UNCHANGED <<bufferVars, streaming, framed>>

CreatePcm ==
  /\ call = "pcmQueues"
  /\ CDataPin_Create("pcm")
  /\ UNCHANGED <<bufferVars, streaming, framed>>

(* Variant: the buffers stay on the list. *)
CleanupKeepingList ==
  /\ call = "cleanup"
  /\ running' = FALSE
  /\ state' = [b \in Buffers |-> IF b \in listed THEN "queued" ELSE state[b]]
  /\ desc' = desc \ listed
  /\ Goto("failed")
  /\ UNCHANGED <<listed, lost, streaming, pinVars>>

c985_cleanup_on_error ==
  /\ call = "cleanup"
  /\ running' = FALSE
  /\ state' = [b \in Buffers |-> IF b \in listed THEN "queued" ELSE state[b]]
  /\ desc' = desc \ listed
  /\ listed' = {}
  /\ Goto("failed")
  /\ UNCHANGED <<lost, streaming, pinVars>>

(* vb2_start_streaming takes back, with a warning, what the driver kept. *)
StreamonFails ==
  /\ call = "failed"
  /\ state' = [b \in Buffers |-> IF b \in Active THEN "queued" ELSE state[b]]
  /\ lost' = {}
  /\ streaming' = FALSE
  /\ Goto("idle")
  /\ UNCHANGED <<listed, desc, running, pinVars>>
-----------------------------------------------------------------------------
(* STREAMOFF, REQBUFS(0) and the last close: with or without streaming. *)

c985_ioctl_streamoff ==
  /\ call = "idle"
  /\ Goto(IF streaming THEN "drop" ELSE "cancel")
  /\ UNCHANGED <<bufferVars, streaming, running, pinVars>>

(* stop_streaming, under buf_lock: the list. *)
StopDrops ==
  /\ call = "drop"
  /\ desc' = desc \ listed
  /\ listed' = {}
  /\ Goto("finish")
  /\ UNCHANGED <<state, lost, streaming, running, pinVars>>

(* Variant: only what videobuf2 has queued is finished. *)
StopFinishesQueued ==
  /\ call = "finish"
  /\ state' = [b \in Buffers |-> IF state[b] = "queued" THEN "done" ELSE state[b]]
  /\ lost' = {}
  /\ Goto("cancel")
  /\ UNCHANGED <<listed, desc, streaming, running, pinVars>>

(* stop_streaming, without it: every buffer that videobuf2 counts as given. *)
StopFinishes ==
  /\ call = "finish"
  /\ state' = [b \in Buffers |-> IF state[b] \in {"active", "queued"} THEN "done" ELSE state[b]]
  /\ lost' = {}
  /\ Goto("cancel")
  /\ UNCHANGED <<listed, desc, streaming, running, pinVars>>

(* __vb2_queue_cancel: all is the user's again. *)
Cancel ==
  /\ call = "cancel"
  /\ state' = [b \in Buffers |-> "dequeued"]
  /\ streaming' = FALSE
  /\ Goto("idle")
  /\ UNCHANGED <<listed, lost, desc, running, pinVars>>
-----------------------------------------------------------------------------
(* Variant: the buffer stays on the list. *)
GetBufferListed(b) ==
  /\ b \in listed
  /\ lost' = lost \cup {b}
  /\ UNCHANGED <<state, listed, desc, streaming, running, pinVars, call>>

(* The worker, at each look at a request of the ARM for video: it has no    *)
(* place to keep the buffer, and takes another at the next look.            *)
CMPEGOutChannel_GetBuffer(b) ==
  /\ b \in listed
  /\ listed' = listed \ {b}
  /\ lost' = lost \cup {b}
  /\ UNCHANGED <<state, desc, streaming, running, pinVars, call>>

StartStreaming ==
  \/ Enqueued
  \/ \E b \in Buffers : Enqueue(b)
  \/ StartInit
  \/ CYUVOutPin_CYUVOutPin
  \/ CreateYuv
  \/ CPCMOutPin_CPCMOutPin
  \/ CreatePcm
  \/ c985_cleanup_on_error
  \/ StreamonFails

StopStreaming ==
  \/ StopDrops
  \/ StopFinishes
  \/ Cancel

Next ==
  \/ \E b \in Buffers : c985_ioctl_qbuf(b) \/ CMPEGOutChannel_GetBuffer(b)
  \/ c985_ioctl_streamon
  \/ c985_ioctl_streamoff
  \/ StartStreaming
  \/ StopStreaming

Spec == Init /\ [][Next]_vars
-----------------------------------------------------------------------------
(* What the worker finds on the list belongs to the driver, and has the     *)
(* descriptor that a consumer of the list reads.  A list that outlives a    *)
(* stream, or loses its buffers in the wrong order, lets the worker take    *)
(* memory that the user has back.                                           *)
ListedIsOwned == listed \subseteq Active \cap desc

(* No buffer is forgotten: one that videobuf2 counts as the driver's is on  *)
(* the list or is known to be lost, until the stop finishes it; and none is *)
(* left with the driver when it neither streams nor is in a call.           *)
EveryBufferAccounted ==
  /\ lost \subseteq Active
  /\ call # "finish" => Active \subseteq listed \cup lost
  /\ call = "idle" /\ ~streaming => Active = {} /\ listed = {}

(* The encoder counts as running only with both pins whole, however many    *)
(* starts failed before, and at whichever allocation.                       *)
RunningHasPins == running => \A p \in Pins : parts[p] = Parts
=============================================================================
