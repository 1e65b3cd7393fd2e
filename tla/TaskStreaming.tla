--------------------------- MODULE TaskStreaming ---------------------------
(***************************************************************************)
(* How the worker thread pairs the requests of the card's ARM with buffers *)
(* of the user and moves their data, one DMA transfer at a time and        *)
(* direction (ctask_process.c, ctask_io.c, the encoder's part of           *)
(* ctask_arm.c, the GetBuffer functions of channel.c).                     *)
(*                                                                         *)
(* A request of the ARM waits in the FIFO of its channel until the worker  *)
(* makes it the channel's ArmRequest; a buffer waits in the channel's      *)
(* request queue until it is the channel's UserBuffer.  With both, the     *)
(* worker builds and starts a transfer of at most m_dwMaxDMASize bytes,    *)
(* and accounts for it when the event of its direction arrives.            *)
(*                                                                         *)
(* A transfer is an engine that raises its event some time after it was    *)
(* started: the call that starts it also waits for it, or gives up, which  *)
(* is the subject of DmaTransfer.  The messages to the ARM are those of    *)
(* Mailbox.  CChannel_AddBuffer, which is to fill the request queue and    *)
(* raise THREAD_EVENT_PROCESS_DATA, is a stub in this repository: it is    *)
(* modelled from the queue and the event that the code here reads.         *)
(***************************************************************************)
EXTENDS Naturals, Sequences, FiniteSets, Functions

CONSTANTS
  NTasks,    \* 8: the size of m_TaskData
  NTypes,    \* 7: the data types of a task
  Channels,  \* the open channels, pairs of a task and a data type
  Direction, \* their directions
  AudioOut,  \* the channel of m_taskIdAESOut or m_taskIdPCMOut, None if neither is set
  KindsOf,   \* the kinds of request the ARM makes on each channel, see Kinds
  Getters,   \* the channels whose constructor set a GetBuffer that finds a descriptor
  Frames,    \* the channels of data type YUV: a frame per request and buffer
  Planar,    \* those whose requests are of type ARM_BUF_YUVRAS
  Planes,    \* the sizes of the Y, U and V planes of such a frame, in bytes
  ArmSize,   \* the size of a request on another channel, in bytes
  UserSize,  \* ulBufferSize of a buffer on another channel, in bytes
  MaxDMA,    \* m_dwMaxDMASize
  ArmBufs,   \* the requests the ARM has to lend on each channel
  UserBufs,  \* the buffers the user has to offer on each channel
  Small,     \* those of them with ulBufferSize below m_dwFrameSize of their channel
  None       \* no request, no buffer, no transfer

Directions == {"read", "write"}
Tasks == 0 .. NTasks - 1
Types == 0 .. NTypes - 1
TaskOf == [c \in Channels |-> c[1]]

AllArmBufs == UNION {ArmBufs[c] : c \in Channels}
AllUserBufs == UNION {UserBufs[c] : c \in Channels}

(* A request ends its buffer (0x10000 in the buffer's flags), or leaves it  *)
(* to be filled by the next (0x10000 clear, or 0x80000 set and the request  *)
(* wrapped around), or is the last of the stream, and empty.                *)
Kinds == {"more", "end", "last"}

ASSUME SizesAssumption ==
  /\ NTasks \in Nat \ {0} /\ NTypes \in Nat \ {0}
  /\ ArmSize \in Nat \ {0} /\ UserSize \in Nat \ {0} /\ MaxDMA \in Nat \ {0}
  /\ Planes \in [1 .. 3 -> Nat]
ASSUME ChannelsAssumption ==
  /\ Channels \subseteq Tasks \X Types
  /\ Direction \in [Channels -> Directions]
  /\ Getters \subseteq Channels
  /\ Planar \subseteq Frames /\ Frames \subseteq Channels
  /\ \A c \in Channels \ Frames : UserBufs[c] \cap Small = {}
ASSUME AudioAssumption ==
  AudioOut # None => AudioOut \in Channels \ Frames /\ Direction[AudioOut] = "read"
ASSUME KindsAssumption ==
  \A c \in Channels : KindsOf[c] \subseteq IF c \in Frames THEN {"end"} ELSE Kinds

Messages == [chan : Channels, buf : AllArmBufs, kind : Kinds]
Requests == [buf : AllArmBufs, kind : Kinds, done : [1 .. 3 -> Nat]]
UserBuffers == [buf : AllUserBufs \ Small, offset : Nat]
Transfers == [chan : Channels, length : Nat]
Scans == [audio : BOOLEAN, task : Tasks, type : Types]
Events == {"arm", "read", "write", "data"}

ASSUME NoneAssumption ==
  /\ None \notin Messages /\ None \notin Requests /\ None \notin UserBuffers
  /\ None \notin Transfers /\ None \notin Scans

VARIABLES
  message,   \* the ARM's message: a channel and a request, None once acknowledged
  ended,     \* the channels whose last request the ARM has sent
  queue,     \* m_pDataRequestQueue of each channel
  fifo,      \* pArmMsgFifo
  arm,       \* ArmRequest, None when its valid field is 0
  user,      \* UserBuffer, None when its pBufDesc is NULL
  pending,   \* m_pPending of each direction
  engine,    \* whether a transfer of a direction runs
  state,     \* m_State of each task
  events,    \* the bits of m_EvtTask
  todo,      \* those that the worker took and has not handled
  scan,      \* where it is in CTask_ProcessDataStreaming, None when it is not
  startTask, \* m_StartID of the task object: the task to look at first
  startType  \* m_StartID of each task: the data type to look at first

cardVars == <<message, ended, engine>>
dataVars == <<queue, fifo, arm, user, pending>>
workerVars == <<todo, scan, startTask, startType>>
vars == <<cardVars, dataVars, workerVars, state, events>>

TypeOK ==
  /\ message \in Messages \cup {None}
  /\ ended \subseteq Channels
  /\ queue \in [Channels -> Seq(AllUserBufs)]
  /\ fifo \in [Channels -> Seq(Requests)]
  /\ arm \in [Channels -> Requests \cup {None}]
  /\ user \in [Channels -> UserBuffers \cup {None}]
  /\ pending \in [Directions -> Transfers \cup {None}]
  /\ engine \in [Directions -> BOOLEAN]
  /\ state \in [Tasks -> {"idle", "run"}]
  /\ events \subseteq Events
  /\ todo \subseteq Events
  /\ scan \in Scans \cup {None}
  /\ startTask \in Tasks
  /\ startType \in [Tasks -> Types]

Init ==
  /\ message = None
  /\ ended = {}
  /\ queue = [c \in Channels |-> <<>>]
  /\ fifo = [c \in Channels |-> <<>>]
  /\ arm = [c \in Channels |-> None]
  /\ user = [c \in Channels |-> None]
  /\ pending = [d \in Directions |-> None]
  /\ engine = [d \in Directions |-> FALSE]
  /\ state = [t \in Tasks |-> "idle"]
  /\ events = {}
  /\ todo = {}
  /\ scan = None
  /\ startTask = 0
  /\ startType = [t \in Tasks |-> 0]

Busy(d) == pending[d] # None
Request(b, kind) == [buf |-> b, kind |-> kind, done |-> [p \in 1 .. 3 |-> 0]]
Start == [audio |-> AudioOut # None, task |-> 0, type |-> 0]

(* The bytes that a request asks for, plane by plane. *)
Wanted(c, r) ==
  IF c \in Planar THEN Planes
  ELSE [p \in 1 .. 3 |-> IF p = 1 /\ r.kind # "last" THEN ArmSize ELSE 0]
-----------------------------------------------------------------------------
(* The card, the user and a caller. *)

(* The requests the host holds: the message, the FIFO and ArmRequest. *)
Lent(c) ==
  (IF arm[c] = None THEN <<>> ELSE <<arm[c].buf>>)
    \o [i \in DOMAIN fifo[c] |-> fifo[c][i].buf]
    \o (IF message # None /\ message.chan = c THEN <<message.buf>> ELSE <<>>)

(* The buffers that the user waits for. *)
Offered(c) == (IF user[c] = None THEN <<>> ELSE <<user[c].buf>>) \o queue[c]

ArmPosts(c, b, kind) ==
  /\ message = None
  /\ b \notin Range(Lent(c)) /\ c \notin ended
  /\ message' = [chan |-> c, buf |-> b, kind |-> kind]
  /\ ended' = IF kind = "last" THEN ended \cup {c} ELSE ended
  /\ events' = events \cup {"arm"}
  /\ UNCHANGED <<engine, dataVars, workerVars, state>>

AddBuffer(c, u) ==
  /\ u \notin Range(Offered(c))
  /\ queue' = [queue EXCEPT ![c] = Append(@, u)]
  /\ events' = events \cup {"data"}
  /\ UNCHANGED <<cardVars, fifo, arm, user, pending, workerVars, state>>

EngineDone(d) ==
  /\ engine[d]
  /\ engine' = [engine EXCEPT ![d] = FALSE]
  /\ events' = events \cup {d}
  /\ UNCHANGED <<message, ended, dataVars, workerVars, state>>

(* The messages of the call are in Mailbox: here, that it succeeds. *)
CEncoderTask_Start(t) ==
  /\ state[t] = "idle"
  /\ state' = [state EXCEPT ![t] = "run"]
  /\ UNCHANGED <<cardVars, dataVars, workerVars, events>>
-----------------------------------------------------------------------------
(* The worker takes events and handles them in this order. *)

WaitEvents ==
  /\ todo = {} /\ scan = None /\ events # {}
  /\ todo' = events
  /\ events' = {}
  /\ UNCHANGED <<cardVars, dataVars, scan, startTask, startType, state>>

Before(e) ==
  CASE e = "arm" -> {} [] e = "read" -> {"arm"} [] e = "write" -> {"arm", "read"}
    [] e = "data" -> {"arm", "read", "write"}

Handles(e) ==
  /\ scan = None /\ e \in todo /\ todo \cap Before(e) = {}
  /\ todo' = todo \ {e}

ScanFromStart == scan' = Start

(* Variant: the request in hand goes back whatever the task's state. *)
CompleteThenQueue ==
  /\ Handles("arm")
  /\ LET c == message.chan
         running == state[c[1]] = "run"
     IN /\ fifo' = [fifo EXCEPT ![c] =
                      IF running THEN Append(@, Request(message.buf, message.kind)) ELSE <<>>]
        /\ arm' = [arm EXCEPT ![c] = None]
        /\ IF running THEN ScanFromStart ELSE UNCHANGED scan
  /\ message' = None
  /\ UNCHANGED <<ended, engine, queue, user, pending, startTask, startType, state, events>>

(* Queue the request and acknowledge it, then stream; the requests of a    *)
(* task that does not run go back at once.                                 *)
ProcessArmMessage ==
  /\ Handles("arm")
  /\ LET c == message.chan
         running == state[c[1]] = "run"
     IN /\ fifo' = [fifo EXCEPT ![c] =
                      IF running THEN Append(@, Request(message.buf, message.kind)) ELSE <<>>]
        /\ arm' = IF running THEN arm ELSE [arm EXCEPT ![c] = None]
        /\ IF running THEN ScanFromStart ELSE UNCHANGED scan
  /\ message' = None
  /\ UNCHANGED <<ended, engine, queue, user, pending, startTask, startType, state, events>>

(* What CTask_CompleteArm and CTask_CompleteUser leave of a request and a   *)
(* buffer: all of a frame moved; or all of a request, or the buffer full.   *)
Complete(c, a, u) ==
  LET whole == a.done = Wanted(c, a)
      full == u.offset = UserSize
      gone == IF c \in Frames THEN whole ELSE full \/ (whole /\ a.kind # "more")
  IN [arm |-> IF whole THEN None ELSE a, user |-> IF gone THEN None ELSE u]

Leaves(c, result) ==
  /\ arm' = [arm EXCEPT ![c] = result.arm]
  /\ user' = [user EXCEPT ![c] = result.user]

(* The plane that the next byte of a frame belongs to; V once all is moved. *)
Plane(done, wanted) ==
  IF done[1] # wanted[1] THEN 1 ELSE IF done[2] # wanted[2] THEN 2 ELSE 3

(* CTask_CompleteData: credit the transfer, free the direction, complete   *)
(* what is complete, and stream on.                                        *)
CompleteData(d) ==
  /\ Handles(d)
  /\ Busy(d)
  /\ LET c == pending[d].chan
         n == pending[d].length
         p == IF c \in Planar THEN Plane(arm[c].done, Planes) ELSE 1
     IN Leaves(c, Complete(c, [arm[c] EXCEPT !.done[p] = @ + n],
                              [user[c] EXCEPT !.offset = @ + n]))
  /\ pending' = [pending EXCEPT ![d] = None]
  /\ ScanFromStart
  /\ UNCHANGED <<cardVars, queue, fifo, startTask, startType, state, events>>

ProcessData ==
  /\ Handles("data")
  /\ ScanFromStart
  /\ UNCHANGED <<cardVars, dataVars, startTask, startType, state, events>>
-----------------------------------------------------------------------------
(* CTask_ProcessDataStreaming: the audio output, then every task and every   *)
(* data type of it, each counted from an m_StartID that CTask_SendIoBlock   *)
(* moves meanwhile.  The audio output comes up again among the others.      *)

ScanTask == IF scan.audio THEN AudioOut[1] ELSE (startTask + scan.task) % NTasks

ScanChannel ==
  IF scan.audio THEN AudioOut ELSE <<ScanTask, (startType[ScanTask] + scan.type) % NTypes>>

ScanAfterAudio == scan' = [scan EXCEPT !.audio = FALSE]

ScanNextTask ==
  scan' = IF scan.task + 1 = NTasks THEN None
          ELSE [audio |-> FALSE, task |-> scan.task + 1, type |-> 0]

(* Variant: the last data type of a task is not looked at. *)
ScanNextTypeButLast ==
  IF scan.audio THEN ScanAfterAudio
  ELSE IF scan.type + 2 >= NTypes THEN ScanNextTask
  ELSE scan' = [scan EXCEPT !.type = @ + 1]

ScanNextType ==
  IF scan.audio THEN ScanAfterAudio
  ELSE IF scan.type + 1 = NTypes THEN ScanNextTask
  ELSE scan' = [scan EXCEPT !.type = @ + 1]

(* An idle task gives all its requests back. *)
ScanIdleTask ==
  /\ scan # None /\ ~scan.audio
  /\ state[ScanTask] = "idle"
  /\ arm' = [c \in Channels |-> IF c[1] = ScanTask THEN None ELSE arm[c]]
  /\ fifo' = [c \in Channels |-> IF c[1] = ScanTask THEN <<>> ELSE fifo[c]]
  /\ ScanNextTask
  /\ UNCHANGED <<cardVars, queue, user, pending, todo, startTask, startType, state, events>>

ScanSkip ==
  /\ scan # None
  /\ \/ state[ScanTask] = "run" /\ (ScanChannel \in Channels => Busy(Direction[ScanChannel]))
     \/ scan.audio /\ state[ScanTask] = "idle"
  /\ ScanNextType
  /\ UNCHANGED <<cardVars, dataVars, todo, startTask, startType, state, events>>

Visits(c) ==
  /\ scan # None
  /\ state[ScanTask] = "run"
  /\ c = ScanChannel /\ c \in Channels
  /\ ~Busy(Direction[c])

(* Variant: the request in hand is replaced by the next. *)
FetchAlways(c) == fifo[c] # <<>>

(* CFifo_GetFifo, when no request is in hand. *)
Fetches(c) == arm[c] = None /\ fifo[c] # <<>>
RequestOf(c) == IF Fetches(c) THEN Head(fifo[c]) ELSE arm[c]

(* GetBuffer of the channel, when a request is in hand and no buffer: the   *)
(* oldest buffer is taken from the request queue, and given back to the     *)
(* user at once when it is smaller than the frame.                          *)
Dequeues(c) == c \in Getters /\ RequestOf(c) # None /\ user[c] = None /\ queue[c] # <<>>
Gets(c) == Dequeues(c) /\ Head(queue[c]) \notin Small
BufferOf(c) == IF Gets(c) THEN [buf |-> Head(queue[c]), offset |-> 0] ELSE user[c]

Takes(c) ==
  /\ fifo' = IF Fetches(c) THEN [fifo EXCEPT ![c] = Tail(@)] ELSE fifo
  /\ queue' = IF Dequeues(c) THEN [queue EXCEPT ![c] = Tail(@)] ELSE queue

Ready(c) == RequestOf(c) # None /\ BufferOf(c) # None

(* No request, or GetBuffer returned 0: on to the next, without another try. *)
ScanWait(c) ==
  /\ Visits(c) /\ ~Ready(c)
  /\ Takes(c)
  /\ Leaves(c, [arm |-> RequestOf(c), user |-> BufferOf(c)])
  /\ ScanNextType
  /\ UNCHANGED <<cardVars, pending, todo, startTask, startType, state, events>>

Least(a, b) == IF a < b THEN a ELSE b

(* What CTask_BuildIoBlock and CTask_BuildIoBlockYUVRAS find left to move:  *)
(* of a plane of the frame; of the request, as far as the buffer has room.  *)
Available(c, a, u) ==
  LET p == IF c \in Planar THEN Plane(a.done, Planes) ELSE 1
      left == Wanted(c, a)[p] - a.done[p]
  IN IF c \in Planar THEN left ELSE Least(left, UserSize - u.offset)

(* Nothing to move: complete what is complete, and do not stream on. *)
ScanComplete(c) ==
  /\ Visits(c) /\ Ready(c)
  /\ Available(c, RequestOf(c), BufferOf(c)) = 0
  /\ Takes(c)
  /\ Leaves(c, Complete(c, RequestOf(c), BufferOf(c)))
  /\ ScanNextType
  /\ UNCHANGED <<cardVars, pending, todo, startTask, startType, state, events>>

(* Variant: the number of data types is forgotten. *)
RotateTooFar(c) ==
  /\ startType' = [startType EXCEPT ![c[1]] = c[2] + 1]
  /\ startTask' = (c[1] + 1) % NTasks

(* Variant: the same channel is served first again. *)
RotateNothing(c) == UNCHANGED <<startTask, startType>>

(* After the audio output the order stays as it is. *)
Rotate(c) ==
  IF c = AudioOut THEN UNCHANGED <<startTask, startType>>
  ELSE /\ startType' = [startType EXCEPT ![c[1]] = (c[2] + 1) % NTypes]
       /\ startTask' = (c[1] + 1) % NTasks

(* CTask_BuildIoBlock and CTask_SendIoBlock; with both directions busy the  *)
(* scan is over.                                                            *)
ScanSend(c) ==
  /\ Visits(c) /\ Ready(c)
  /\ LET available == Available(c, RequestOf(c), BufferOf(c))
         d == Direction[c]
     IN /\ available > 0
        /\ pending' = [pending EXCEPT ![d] = [chan |-> c, length |-> Least(available, MaxDMA)]]
        /\ engine' = [engine EXCEPT ![d] = TRUE]
        /\ IF \A e \in Directions \ {d} : Busy(e) THEN scan' = None ELSE ScanNextType
  /\ Takes(c)
  /\ Leaves(c, [arm |-> RequestOf(c), user |-> BufferOf(c)])
  /\ Rotate(c)
  /\ UNCHANGED <<message, ended, todo, state, events>>

Worker ==
  \/ WaitEvents
  \/ ProcessArmMessage
  \/ \E d \in Directions : CompleteData(d)
  \/ ProcessData
  \/ ScanIdleTask
  \/ ScanSkip
  \/ \E c \in Channels : ScanWait(c) \/ ScanComplete(c) \/ ScanSend(c)

Environment ==
  \/ \E c \in Channels : \E kind \in KindsOf[c], b \in ArmBufs[c] : ArmPosts(c, b, kind)
  \/ \E c \in Channels : \E u \in UserBufs[c] : AddBuffer(c, u)
  \/ \E t \in Tasks : CEncoderTask_Start(t)
  \/ \E d \in Directions : EngineDone(d)

Next == Worker \/ Environment

Spec == Init /\ [][Next]_vars

(* The worker thread runs, a transfer ends at last, and the user offers     *)
(* each buffer again.  The ARM may stop asking.                             *)
Fairness ==
  /\ WF_vars(Worker)
  /\ \A d \in Directions : WF_vars(EngineDone(d))
  /\ \A c \in Channels : \A u \in UserBufs[c] : WF_vars(AddBuffer(c, u))

FairSpec == Spec /\ Fairness
-----------------------------------------------------------------------------
(* A transfer that is under way has a request and a buffer of its channel   *)
(* behind it, in its direction, of a task that runs, and goes past the end  *)
(* of neither: nothing completes them while the engine may still write.     *)
TransferIsCovered ==
  \A d \in Directions : Busy(d) =>
    LET c == pending[d].chan
    IN /\ Direction[c] = d /\ state[c[1]] = "run"
       /\ arm[c] # None /\ user[c] # None
       /\ pending[d].length \in 1 .. Least(Available(c, arm[c], user[c]), MaxDMA)

(* The channels that the worker can serve: one with a GetBuffer, that is    *)
(* offered no buffer that GetBuffer gives back and then looks no further,   *)
(* whose planar frames are not empty, and whose buffers hold a packed       *)
(* frame.  On any other channel the scan may stop over a request and a      *)
(* buffer; in the repository only YUV-in channels have a GetBuffer that     *)
(* finds a descriptor, and planar frames are empty, as nothing sets         *)
(* m_lWidth and m_lHeight.                                                  *)
Served ==
  {c \in Getters :
     /\ UserBufs[c] \cap Small = {}
     /\ c \in Planar => \E p \in 1 .. 3 : Planes[p] # 0
     /\ c \in Frames \ Planar => ArmSize <= UserSize}

(* Nothing is left behind: when the worker is about to sleep with no event  *)
(* pending and no transfer running, no channel that it can serve, of a      *)
(* running task, has both a request and a buffer.  No event would come to   *)
(* serve them.                                                              *)
NothingLeftBehind ==
  scan = None /\ todo = {} /\ events = {} /\ (\A d \in Directions : ~engine[d]) =>
    \A c \in Served : state[c[1]] = "run" =>
      Lent(c) = <<>> \/ Offered(c) = <<>>

(* Every request on a channel that can be served is returned in the end,    *)
(* whatever the other channels of its direction do: the start of the scan   *)
(* rotates.  The audio output is left out of it, and may keep the others of *)
(* its direction waiting.                                                   *)
EveryRequestReturns ==
  \A c \in Served : \A b \in ArmBufs[c] : b \in Range(Lent(c)) ~> b \notin Range(Lent(c))

(* The worker keeps the promise of BufferExchange to card and user.         *)
Exchange == INSTANCE BufferExchange WITH
  lent <- [c \in Channels |-> Lent(c)],
  offered <- [c \in Channels |-> Offered(c)],
  running <- {t \in Tasks : state[t] = "run"}

ImplementsExchange == Exchange!Spec
=============================================================================
