------------------------ MODULE TaskStreamingProofs ------------------------
(***************************************************************************)
(* Proofs about TaskStreaming, for any channels, sizes and buffers.        *)
(*                                                                         *)
(* TransferIsCovered holds by induction together with the types: whatever  *)
(* completes a request belongs to a channel whose direction is free, or to *)
(* a task that does not run.  The types need to know that an event of the  *)
(* ARM stands for a message that is still there.                           *)
(*                                                                         *)
(* NothingLeftBehind needs to know what brings the worker back to a        *)
(* channel that has both a request and a buffer.  AwaitedInv says it: a    *)
(* message, an event, a transfer, or a scan that the channel is still      *)
(* ahead of.  A look that finds both and starts no transfer would leave    *)
(* the channel with none of these: OpenInv shows that, where the worker    *)
(* can serve the channel, this is only the last request of a stream, which *)
(* nothing follows.  For packed frames it takes PairInv: such a request    *)
(* and its buffer are filled together, from their beginnings.              *)
(*                                                                         *)
(* The refinement of BufferExchange takes one lemma per kind of step: what *)
(* a look at a channel or a finished transfer leaves of the sequences of   *)
(* requests and buffers is the sequence or its tail, and only for the      *)
(* channel of a task that runs; what goes back unserved is a beginning.    *)
(***************************************************************************)
EXTENDS TaskStreaming, SequenceTheorems, TLAPS

MessageThere ==
  /\ "arm" \in events \cup todo => message # None
  /\ ~("arm" \in events /\ "arm" \in todo)

CardInv ==
  /\ message \in Messages \cup {None}
  /\ ended \subseteq Channels
  /\ events \subseteq Events
  /\ todo \subseteq Events
  /\ MessageThere

ScanInv ==
  /\ scan \in Scans \cup {None}
  /\ startTask \in Tasks
  /\ startType \in [Tasks -> Types]

StateInv == state \in [Tasks -> {"idle", "run"}]
EngineInv == engine \in [Directions -> BOOLEAN]

DataTypes ==
  /\ queue \in [Channels -> Seq(AllUserBufs)]
  /\ fifo \in [Channels -> Seq(Requests)]
  /\ arm \in [Channels -> Requests \cup {None}]
  /\ user \in [Channels -> UserBuffers \cup {None}]
  /\ pending \in [Directions -> Transfers \cup {None}]

(* TransferIsCovered, of one direction. *)
Covered(d) ==
  Busy(d) =>
    LET c == pending[d].chan
    IN /\ Direction[c] = d /\ state[c[1]] = "run"
       /\ arm[c] # None /\ user[c] # None
       /\ pending[d].length \in 1 .. Least(Available(c, arm[c], user[c]), MaxDMA)

DataInv == DataTypes /\ TransferIsCovered

Inv == CardInv /\ ScanInv /\ StateInv /\ EngineInv /\ DataInv
-----------------------------------------------------------------------------
(* The parts that need no more than themselves. *)

LEMMA CardStep == ASSUME CardInv, [Next]_vars PROVE CardInv'
<1> USE NoneAssumption
    DEF CardInv, MessageThere, Events, Directions, cardVars, dataVars, workerVars
<1>1. ASSUME NEW c \in Channels, NEW kind \in KindsOf[c], NEW b \in ArmBufs[c],
             ArmPosts(c, b, kind)
      PROVE  CardInv'
  <2>1. [chan |-> c, buf |-> b, kind |-> kind] \in Messages
    BY KindsAssumption DEF Messages, AllArmBufs, Kinds
  <2> QED
    BY <1>1, <2>1 DEF ArmPosts
<1>2. CASE \E c \in Channels : \E u \in UserBufs[c] : AddBuffer(c, u)
  BY <1>2 DEF AddBuffer
<1>3. CASE \E t \in Tasks : CEncoderTask_Start(t)
  BY <1>3 DEF CEncoderTask_Start
<1>4. CASE \E d \in Directions : EngineDone(d)
  BY <1>4 DEF EngineDone
<1>5. CASE WaitEvents
  BY <1>5 DEF WaitEvents
<1>6. CASE ProcessArmMessage
  BY <1>6 DEF ProcessArmMessage, Handles
<1>7. CASE \E d \in Directions : CompleteData(d)
  BY <1>7 DEF CompleteData, Handles
<1>8. CASE ProcessData
  BY <1>8 DEF ProcessData, Handles
<1>9. CASE ScanIdleTask \/ ScanSkip
  BY <1>9 DEF ScanIdleTask, ScanSkip
<1>10. CASE \E c \in Channels : ScanWait(c) \/ ScanComplete(c) \/ ScanSend(c)
  BY <1>10 DEF ScanWait, ScanComplete, ScanSend
<1>11. CASE UNCHANGED vars
  BY <1>11 DEF vars
<1> QED
  BY <1>1, <1>2, <1>3, <1>4, <1>5, <1>6, <1>7, <1>8, <1>9, <1>10, <1>11
     DEF Next, Worker, Environment

LEMMA StateStep == ASSUME StateInv, [Next]_vars PROVE StateInv'
<1> USE DEF StateInv
<1>1. CASE \E t \in Tasks : CEncoderTask_Start(t)
  BY <1>1 DEF CEncoderTask_Start
<1>2. CASE UNCHANGED state
  BY <1>2
<1> QED
  BY <1>1, <1>2 DEF Next, Worker, Environment, ArmPosts, AddBuffer, EngineDone, WaitEvents,
     ProcessArmMessage, CompleteData, ProcessData, ScanIdleTask, ScanSkip, ScanWait,
     ScanComplete, ScanSend, vars

LEMMA EngineStep == ASSUME EngineInv, [Next]_vars PROVE EngineInv'
<1> USE DEF EngineInv, cardVars
<1>1. ASSUME NEW d \in Directions, EngineDone(d) PROVE EngineInv'
  BY <1>1 DEF EngineDone
<1>2. ASSUME NEW c \in Channels, ScanSend(c) PROVE EngineInv'
  BY <1>2, ChannelsAssumption DEF ScanSend
<1>3. CASE UNCHANGED engine
  BY <1>3
<1> QED
  BY <1>1, <1>2, <1>3 DEF Next, Worker, Environment, ArmPosts, AddBuffer, CEncoderTask_Start,
     WaitEvents, ProcessArmMessage, CompleteData, ProcessData, ScanIdleTask, ScanSkip,
     ScanWait, ScanComplete, vars

LEMMA ModInRange == ASSUME NEW n \in Nat \ {0}, NEW k \in Nat PROVE k % n \in 0 .. n - 1
  OBVIOUS

(* The scan counts within bounds, and each transfer moves where it starts. *)
LEMMA NextTask == ASSUME ScanInv, scan # None, ScanNextTask PROVE scan' \in Scans \cup {None}
<1>1. scan.task \in 0 .. NTasks - 1
  BY DEF ScanInv, Scans, Tasks
<1>2. CASE scan.task + 1 = NTasks
  BY <1>2 DEF ScanNextTask
<1>3. CASE scan.task + 1 # NTasks
  <2>1. scan.task + 1 \in Tasks /\ 0 \in Types
    BY <1>1, <1>3, SizesAssumption DEF Tasks, Types
  <2> QED
    BY <1>3, <2>1 DEF ScanNextTask, Scans
<1> QED
  BY <1>2, <1>3

LEMMA NextType == ASSUME ScanInv, scan # None, ScanNextType PROVE scan' \in Scans \cup {None}
<1>1. scan \in Scans /\ scan.type \in 0 .. NTypes - 1
  BY DEF ScanInv, Scans, Types
<1>2. CASE scan.audio
  BY <1>1, <1>2 DEF ScanNextType, ScanAfterAudio, Scans
<1>3. CASE ~scan.audio /\ scan.type + 1 = NTypes
  BY <1>3, NextTask DEF ScanNextType
<1>4. CASE ~scan.audio /\ scan.type + 1 # NTypes
  <2>1. scan.type + 1 \in Types
    BY <1>1, <1>4, SizesAssumption DEF Types
  <2> QED
    BY <1>1, <1>4, <2>1 DEF ScanNextType, Scans
<1> QED
  BY <1>2, <1>3, <1>4

LEMMA RotateTypes ==
  ASSUME ScanInv, NEW c \in Channels, Rotate(c)
  PROVE  startTask' \in Tasks /\ startType' \in [Tasks -> Types]
<1>1. c[1] \in Nat /\ c[2] \in Nat /\ c[1] \in Tasks
  BY ChannelsAssumption, SizesAssumption DEF Tasks, Types
<1>2. (c[2] + 1) % NTypes \in Types
  <2>1. c[2] + 1 \in Nat /\ NTypes \in Nat \ {0}
    BY <1>1, SizesAssumption
  <2> QED
    BY <2>1, ModInRange DEF Types
<1>3. (c[1] + 1) % NTasks \in Tasks
  <2>1. c[1] + 1 \in Nat /\ NTasks \in Nat \ {0}
    BY <1>1, SizesAssumption
  <2> QED
    BY <2>1, ModInRange DEF Tasks
<1> QED
  BY <1>1, <1>2, <1>3 DEF ScanInv, Rotate

LEMMA ScanStep == ASSUME ScanInv, [Next]_vars PROVE ScanInv'
<1>0. Start \in Scans
  BY SizesAssumption DEF Start, Scans, Tasks, Types
<1>1. ASSUME NEW c \in Channels, ScanSend(c) PROVE ScanInv'
  BY <1>1, RotateTypes, NextType DEF ScanInv, ScanSend, Visits
<1>2. CASE ScanIdleTask
  BY <1>2, NextTask DEF ScanInv, ScanIdleTask
<1>3. CASE ScanSkip \/ \E c \in Channels : ScanWait(c) \/ ScanComplete(c)
  BY <1>3, NextType DEF ScanInv, ScanSkip, ScanWait, ScanComplete, Visits
<1>4. CASE ProcessArmMessage \/ ProcessData \/ \E d \in Directions : CompleteData(d)
  BY <1>4, <1>0 DEF ScanInv, ProcessArmMessage, ProcessData, CompleteData, ScanFromStart
<1>5. CASE UNCHANGED <<scan, startTask, startType>>
  BY <1>5 DEF ScanInv
<1> QED
  BY <1>1, <1>2, <1>3, <1>4, <1>5 DEF Next, Worker, Environment, ArmPosts, AddBuffer,
     CEncoderTask_Start, EngineDone, WaitEvents, workerVars, vars
-----------------------------------------------------------------------------
(* Requests and buffers. *)

LEMMA WantedTypes ==
  ASSUME NEW c, NEW r PROVE Wanted(c, r) \in [1 .. 3 -> Nat]
  BY SizesAssumption DEF Wanted

LEMMA AvailableType ==
  ASSUME NEW c, NEW a \in Requests, NEW u \in UserBuffers
  PROVE  Available(c, a, u) \in Int
  BY WantedTypes, SizesAssumption DEF Available, Plane, Least, Requests, UserBuffers

LEMMA CompleteTypes ==
  ASSUME NEW c, NEW a \in Requests, NEW u \in UserBuffers
  PROVE  /\ Complete(c, a, u).arm \in Requests \cup {None}
         /\ Complete(c, a, u).user \in UserBuffers \cup {None}
  BY DEF Complete

LEMMA TakenTypes ==
  ASSUME DataTypes, NEW c \in Channels
  PROVE  /\ RequestOf(c) \in Requests \cup {None}
         /\ BufferOf(c) \in UserBuffers \cup {None}
<1>1. RequestOf(c) \in Requests \cup {None}
  BY HeadTailProperties DEF DataTypes, RequestOf, Fetches
<1>2. CASE Gets(c)
  <2>1. Head(queue[c]) \in AllUserBufs \ Small
    BY <1>2, HeadTailProperties DEF DataTypes, Gets, Dequeues
  <2> QED
    BY <1>1, <1>2, <2>1 DEF BufferOf, UserBuffers
<1>3. CASE ~Gets(c)
  BY <1>1, <1>3 DEF BufferOf, DataTypes
<1> QED
  BY <1>2, <1>3

LEMMA TakesTypes ==
  ASSUME DataTypes, NEW c \in Channels, Takes(c)
  PROVE  fifo' \in [Channels -> Seq(Requests)] /\ queue' \in [Channels -> Seq(AllUserBufs)]
<1>1. Fetches(c) => Tail(fifo[c]) \in Seq(Requests)
  BY HeadTailProperties DEF DataTypes, Fetches
<1>2. Dequeues(c) => Tail(queue[c]) \in Seq(AllUserBufs)
  BY HeadTailProperties DEF DataTypes, Dequeues
<1> QED
  BY <1>1, <1>2 DEF DataTypes, Takes

LEMMA LeavesTypes ==
  ASSUME DataTypes, NEW c \in Channels, NEW r, Leaves(c, r),
         r.arm \in Requests \cup {None}, r.user \in UserBuffers \cup {None}
  PROVE  arm' \in [Channels -> Requests \cup {None}] /\ user' \in [Channels -> UserBuffers \cup {None}]
  BY DEF DataTypes, Leaves

(* A transfer stays covered when nothing of its channel changes. *)
LEMMA CoveredStays ==
  ASSUME NEW d \in Directions, Covered(d), pending'[d] = pending[d],
         Busy(d) => LET c == pending[d].chan
                    IN /\ arm'[c] = arm[c] /\ user'[c] = user[c]
                       /\ state[c[1]] = "run" => state'[c[1]] = "run"
  PROVE  Covered(d)'
  BY DEF Covered, Busy, Available, Wanted, Plane, Least

LEMMA CoversAll == (TransferIsCovered <=> \A d \in Directions : Covered(d))
                   /\ (TransferIsCovered' <=> \A d \in Directions : Covered(d)')
  BY DEF TransferIsCovered, Covered

(* What is done to one channel leaves the transfers of the others alone. *)
LEMMA OthersStay ==
  ASSUME DataInv, NEW c \in Channels, NEW r, Leaves(c, r), UNCHANGED state,
         NEW d \in Directions, pending'[d] = pending[d], Busy(d) => pending[d].chan # c
  PROVE  Covered(d)'
<1>1. Covered(d)
  BY CoversAll DEF DataInv
<1>2. Busy(d) => pending[d].chan \in Channels
  BY DEF DataInv, DataTypes, Busy, Transfers
<1> QED
  BY <1>1, <1>2, CoveredStays DEF Leaves, DataInv, DataTypes
-----------------------------------------------------------------------------
LEMMA ScanData ==
  ASSUME DataInv, NEW c \in Channels, ScanWait(c) \/ ScanComplete(c)
  PROVE  DataInv'
<1>1. PICK r : /\ Leaves(c, r)
               /\ r.arm \in Requests \cup {None} /\ r.user \in UserBuffers \cup {None}
  BY TakenTypes, CompleteTypes DEF DataInv, ScanWait, ScanComplete, Ready
<1>2. Takes(c) /\ Visits(c) /\ UNCHANGED <<pending, state>>
  BY DEF ScanWait, ScanComplete
<1>3. DataTypes'
  BY <1>1, <1>2, TakesTypes, LeavesTypes DEF DataInv, DataTypes
<1>4. ASSUME NEW d \in Directions PROVE Covered(d)'
  <2>1. Busy(d) => pending[d].chan # c
    BY <1>2, CoversAll DEF DataInv, Covered, Visits
  <2> QED
    BY <1>1, <1>2, <2>1, OthersStay
<1> QED
  BY <1>3, <1>4, CoversAll DEF DataInv

LEMMA SendData == ASSUME DataInv, NEW c \in Channels, ScanSend(c) PROVE DataInv'
<1> DEFINE a == RequestOf(c)
           u == BufferOf(c)
           available == Available(c, a, u)
           d == Direction[c]
<1>1. a \in Requests /\ u \in UserBuffers /\ d \in Directions
  BY TakenTypes, ChannelsAssumption DEF DataInv, ScanSend, Ready
<1>2. available \in Nat \ {0}
  BY <1>1, AvailableType DEF ScanSend
<1>3. Least(available, MaxDMA) \in 1 .. Least(available, MaxDMA)
  BY <1>2, SizesAssumption DEF Least
<1>4. /\ pending' = [pending EXCEPT ![d] = [chan |-> c, length |-> Least(available, MaxDMA)]]
      /\ Takes(c) /\ Visits(c) /\ Leaves(c, [arm |-> a, user |-> u]) /\ UNCHANGED state
  BY DEF ScanSend
<1>5. [chan |-> c, length |-> Least(available, MaxDMA)] \in Transfers
  BY <1>3 DEF Transfers
<1>6. DataTypes'
  <2>1. pending' \in [Directions -> Transfers \cup {None}]
    BY <1>1, <1>4, <1>5 DEF DataInv, DataTypes
  <2>2. /\ arm' \in [Channels -> Requests \cup {None}]
        /\ user' \in [Channels -> UserBuffers \cup {None}]
    BY <1>1, <1>4, LeavesTypes DEF DataInv
  <2> QED
    BY <1>4, <2>1, <2>2, TakesTypes DEF DataInv, DataTypes
<1>7. ASSUME NEW e \in Directions PROVE Covered(e)'
  <2>1. CASE e = d
    <3>1. pending'[e] = [chan |-> c, length |-> Least(available, MaxDMA)]
      BY <1>1, <1>4, <2>1 DEF DataInv, DataTypes
    <3>2. arm'[c] = a /\ user'[c] = u /\ a # None /\ u # None
      BY <1>1, <1>4, NoneAssumption DEF DataInv, DataTypes, Leaves
    <3>3. state'[c[1]] = "run"
      <4>1. c[1] = ScanTask
        BY <1>4 DEF Visits, ScanChannel, ScanTask
      <4> QED
        BY <1>4, <4>1 DEF Visits
    <3> QED
      BY <1>3, <2>1, <3>1, <3>2, <3>3 DEF Covered, Available, Wanted, Plane, Least
  <2>2. CASE e # d
    <3>1. pending'[e] = pending[e]
      BY <1>1, <1>4, <2>2 DEF DataInv, DataTypes
    <3>2. Busy(e) => pending[e].chan # c
      BY <2>2, CoversAll DEF DataInv, Covered
    <3> QED
      BY <1>4, <3>1, <3>2, OthersStay
  <2> QED
    BY <2>1, <2>2
<1> QED
  BY <1>6, <1>7, CoversAll DEF DataInv

LEMMA CompletedData == ASSUME DataInv, NEW d \in Directions, CompleteData(d) PROVE DataInv'
<1> DEFINE c == pending[d].chan
           n == pending[d].length
           p == IF c \in Planar THEN Plane(arm[c].done, Planes) ELSE 1
           a == [arm[c] EXCEPT !.done[p] = @ + n]
           u == [user[c] EXCEPT !.offset = @ + n]
<1>1. c \in Channels /\ n \in Nat /\ Covered(d) /\ Busy(d)
  BY CoversAll DEF DataInv, DataTypes, CompleteData, Busy, Transfers
<1>2. arm[c] \in Requests /\ user[c] \in UserBuffers
  BY <1>1 DEF DataInv, DataTypes, Covered
<1>3. a \in Requests /\ u \in UserBuffers
  <2>1. p \in 1 .. 3
    BY DEF Plane
  <2> QED
    BY <1>1, <1>2, <2>1 DEF Requests, UserBuffers
<1>4. /\ Leaves(c, Complete(c, a, u)) /\ UNCHANGED <<state, fifo, queue>>
      /\ pending' = [pending EXCEPT ![d] = None]
  BY DEF CompleteData
<1>5. DataTypes'
  <2>1. /\ arm' \in [Channels -> Requests \cup {None}]
        /\ user' \in [Channels -> UserBuffers \cup {None}]
    BY <1>1, <1>3, <1>4, CompleteTypes, LeavesTypes DEF DataInv
  <2> QED
    BY <1>4, <2>1 DEF DataInv, DataTypes
<1>6. ASSUME NEW e \in Directions PROVE Covered(e)'
  <2>1. CASE e = d
    BY <1>4, <2>1 DEF Covered, Busy, DataInv, DataTypes
  <2>2. CASE e # d
    <3>1. pending'[e] = pending[e]
      BY <1>4, <2>2 DEF DataInv, DataTypes
    <3>2. Busy(e) => pending[e].chan # c
      BY <1>1, <2>2, CoversAll DEF DataInv, Covered
    <3> QED
      BY <1>1, <1>4, <3>1, <3>2, OthersStay
  <2> QED
    BY <2>1, <2>2
<1> QED
  BY <1>5, <1>6, CoversAll DEF DataInv

(* Requests are taken away only from a task that does not run. *)
LEMMA ArmMessageData == ASSUME DataInv, CardInv, StateInv, ProcessArmMessage PROVE DataInv'
<1> DEFINE c == message.chan
           running == state[c[1]] = "run"
<1>1. message \in Messages
  BY DEF CardInv, MessageThere, ProcessArmMessage, Handles
<1>2. Request(message.buf, message.kind) \in Requests /\ c \in Channels
  BY <1>1 DEF Messages, Requests, Request
<1>3. /\ fifo' = [fifo EXCEPT ![c] =
                    IF running THEN Append(@, Request(message.buf, message.kind)) ELSE <<>>]
      /\ arm' = IF running THEN arm ELSE [arm EXCEPT ![c] = None]
      /\ UNCHANGED <<queue, user, pending, state>>
  BY DEF ProcessArmMessage
<1>4. DataTypes'
  <2>1. Append(fifo[c], Request(message.buf, message.kind)) \in Seq(Requests)
    BY <1>2, AppendProperties DEF DataInv, DataTypes
  <2>2. fifo' \in [Channels -> Seq(Requests)]
    BY <1>2, <1>3, <2>1 DEF DataInv, DataTypes
  <2> QED
    BY <1>2, <1>3, <2>2 DEF DataInv, DataTypes
<1>5. ASSUME NEW d \in Directions PROVE Covered(d)'
  <2>1. Covered(d)
    BY CoversAll DEF DataInv
  <2>2. Busy(d) => pending[d].chan \in Channels
    BY DEF DataInv, DataTypes, Busy, Transfers
  <2>3. Busy(d) => arm'[pending[d].chan] = arm[pending[d].chan]
    BY <1>2, <1>3, <2>1, <2>2 DEF Covered, DataInv, DataTypes
  <2> QED
    BY <1>3, <2>1, <2>3, CoveredStays
<1> QED
  BY <1>4, <1>5, CoversAll DEF DataInv

LEMMA IdleTaskData == ASSUME DataInv, ScanIdleTask PROVE DataInv'
<1>1. DataTypes'
  BY EmptySeq DEF DataInv, DataTypes, ScanIdleTask
<1>2. ASSUME NEW d \in Directions PROVE Covered(d)'
  <2>1. Covered(d)
    BY CoversAll DEF DataInv
  <2>2. Busy(d) => pending[d].chan \in Channels
    BY DEF DataInv, DataTypes, Busy, Transfers
  <2>3. Busy(d) => arm'[pending[d].chan] = arm[pending[d].chan]
    BY <2>1, <2>2 DEF Covered, ScanIdleTask
  <2> QED
    BY <2>1, <2>3, CoveredStays DEF ScanIdleTask
<1> QED
  BY <1>1, <1>2, CoversAll DEF DataInv

LEMMA OutsideData ==
  ASSUME DataInv, StateInv,
         \/ \E c \in Channels : \E u \in UserBufs[c] : AddBuffer(c, u)
         \/ \E t \in Tasks : CEncoderTask_Start(t)
         \/ UNCHANGED <<dataVars, state>>
  PROVE  DataInv'
<1>1. DataTypes'
  <2>1. ASSUME NEW c \in Channels, NEW u \in UserBufs[c], AddBuffer(c, u) PROVE DataTypes'
    <3>1. Append(queue[c], u) \in Seq(AllUserBufs)
      BY AppendProperties DEF DataInv, DataTypes, AllUserBufs
    <3> QED
      BY <2>1, <3>1 DEF AddBuffer, DataInv, DataTypes
  <2> QED
    BY <2>1 DEF CEncoderTask_Start, dataVars, DataInv, DataTypes
<1>2. ASSUME NEW d \in Directions PROVE Covered(d)'
  <2>1. Covered(d)
    BY CoversAll DEF DataInv
  <2>2. UNCHANGED <<arm, user, pending>>
    BY DEF AddBuffer, CEncoderTask_Start, dataVars
  <2>3. \A t \in Tasks : state[t] = "run" => state'[t] = "run"
    BY DEF AddBuffer, CEncoderTask_Start, StateInv
  <2>4. Busy(d) => pending[d].chan[1] \in Tasks
    BY ChannelsAssumption DEF DataInv, DataTypes, Busy, Transfers
  <2> QED
    BY <2>1, <2>2, <2>3, <2>4, CoveredStays
<1> QED
  BY <1>1, <1>2, CoversAll DEF DataInv

LEMMA DataStep == ASSUME DataInv, CardInv, StateInv, [Next]_vars PROVE DataInv'
<1>1. CASE \E c \in Channels : ScanWait(c) \/ ScanComplete(c) \/ ScanSend(c)
  BY <1>1, ScanData, SendData
<1>2. CASE \E d \in Directions : CompleteData(d)
  BY <1>2, CompletedData
<1>3. CASE ProcessArmMessage \/ ScanIdleTask
  BY <1>3, ArmMessageData, IdleTaskData
<1>4. CASE \E c \in Channels : \E u \in UserBufs[c] : AddBuffer(c, u)
  BY <1>4, OutsideData
<1>5. CASE \E t \in Tasks : CEncoderTask_Start(t)
  BY <1>5, OutsideData
<1>6. CASE UNCHANGED <<dataVars, state>>
  BY <1>6, OutsideData
<1> QED
  BY <1>1, <1>2, <1>3, <1>4, <1>5, <1>6
     DEF Next, Worker, Environment, ArmPosts, EngineDone, WaitEvents, ProcessData, ScanSkip,
         vars, dataVars
-----------------------------------------------------------------------------
LEMMA InitInv == Init => Inv
<1> SUFFICES ASSUME Init PROVE Inv
  OBVIOUS
<1>1. CardInv /\ StateInv /\ EngineInv
  BY DEF Init, CardInv, MessageThere, StateInv, EngineInv
<1>2. ScanInv
  BY SizesAssumption DEF Init, ScanInv, Tasks, Types
<1>3. DataInv
  <2>1. DataTypes
    BY EmptySeq DEF Init, DataTypes
  <2>2. \A d \in Directions : Covered(d)
    BY DEF Init, Covered, Busy
  <2> QED
    BY <2>1, <2>2, CoversAll DEF DataInv
<1> QED
  BY <1>1, <1>2, <1>3 DEF Inv

LEMMA StepInv == Inv /\ [Next]_vars => Inv'
  BY CardStep, ScanStep, StateStep, EngineStep, DataStep DEF Inv

LEMMA SpecInv == Spec => []Inv
  BY InitInv, StepInv, PTL DEF Spec

(* Every variable keeps its type: the scan stays within the tasks and data  *)
(* types, and no message is handled that is not there.                      *)
THEOREM TypeCorrect == Spec => []TypeOK
<1>1. Inv => TypeOK
  BY DEF Inv, CardInv, ScanInv, StateInv, EngineInv, DataInv, DataTypes, TypeOK
<1> QED
  BY <1>1, SpecInv, PTL

(* No request or buffer is completed while a transfer of it is under way,   *)
(* and no transfer is longer than what is left of either.                   *)
THEOREM TransfersAreCovered == Spec => []TransferIsCovered
<1>1. Inv => TransferIsCovered
  BY DEF Inv, DataInv
<1> QED
  BY <1>1, SpecInv, PTL
-----------------------------------------------------------------------------
(* The refinement.  What is lent on a channel is the request in hand, the   *)
(* FIFO and the message, one after the other.                               *)
First(r) == IF r = None THEN <<>> ELSE <<r.buf>>
Bufs(s) == [i \in DOMAIN s |-> s[i].buf]
Posted(c) == IF message # None /\ message.chan = c THEN <<message.buf>> ELSE <<>>

LEMMA TailOfCons ==
  ASSUME NEW S, NEW e \in S, NEW t \in Seq(S)
  PROVE  <<e>> \o t # <<>> /\ Head(<<e>> \o t) = e /\ Tail(<<e>> \o t) = t
<1>1. <<e>> \in Seq(S) /\ Len(<<e>>) = 1 /\ Len(t) \in Nat
  OBVIOUS
<1>2. /\ <<e>> \o t \in Seq(S) /\ Len(<<e>> \o t) = Len(t) + 1
      /\ \A i \in 1 .. Len(t) + 1 : (<<e>> \o t)[i] = IF i <= 1 THEN e ELSE t[i - 1]
  BY <1>1, ConcatProperties
<1>3. <<e>> \o t # <<>>
  BY <1>1, <1>2
<1>4. /\ Tail(<<e>> \o t) \in Seq(S) /\ Len(Tail(<<e>> \o t)) = Len(t)
      /\ Head(<<e>> \o t) = (<<e>> \o t)[1]
      /\ \A i \in 1 .. Len(t) : Tail(<<e>> \o t)[i] = (<<e>> \o t)[i + 1]
  BY <1>1, <1>2, <1>3, HeadTailProperties
<1>5. \A i \in 1 .. Len(t) : (<<e>> \o t)[i + 1] = t[i]
  BY <1>1, <1>2
<1>6. (<<e>> \o t)[1] = e
  BY <1>1, <1>2
<1> QED
  BY <1>3, <1>4, <1>5, <1>6, SeqEqual

LEMMA TailOfConcat ==
  ASSUME NEW S, NEW e \in S, NEW t \in Seq(S), NEW u \in Seq(S)
  PROVE  (<<e>> \o t) \o u # <<>> /\ Tail((<<e>> \o t) \o u) = t \o u
<1>1. (<<e>> \o t) \o u = <<e>> \o (t \o u)
  <2>1. <<e>> \in Seq(S)
    OBVIOUS
  <2> QED
    BY <2>1, ConcatAssociative
<1>2. t \o u \in Seq(S)
  BY ConcatProperties
<1> QED
  BY <1>1, <1>2, TailOfCons

LEMMA HeadThenTail ==
  ASSUME NEW S, NEW s \in Seq(S), s # <<>>
  PROVE  <<Head(s)>> \o Tail(s) = s
<1>1. /\ Head(s) \in S /\ Tail(s) \in Seq(S) /\ Len(Tail(s)) = Len(s) - 1 /\ Len(s) \in Nat
      /\ \A i \in 1 .. Len(Tail(s)) : Tail(s)[i] = s[i + 1]
  BY HeadTailProperties
<1>2. <<Head(s)>> \in Seq(S) /\ Len(<<Head(s)>>) = 1 /\ 1 + Len(Tail(s)) = Len(s)
  BY <1>1
<1>3. /\ <<Head(s)>> \o Tail(s) \in Seq(S) /\ Len(<<Head(s)>> \o Tail(s)) = Len(s)
      /\ \A i \in 1 .. Len(s) : (<<Head(s)>> \o Tail(s))[i] = IF i <= 1 THEN Head(s) ELSE Tail(s)[i - 1]
  BY <1>1, <1>2, ConcatProperties
<1>4. \A i \in 1 .. Len(s) : (<<Head(s)>> \o Tail(s))[i] = s[i]
  <2> TAKE i \in 1 .. Len(s)
  <2>1. CASE i = 1
    BY <1>3, <2>1
  <2>2. CASE i # 1
    <3>1. i - 1 \in 1 .. Len(Tail(s)) /\ (i - 1) + 1 = i
      BY <1>1, <2>2
    <3> QED
      BY <1>1, <1>3, <3>1
  <2> QED
    BY <2>1, <2>2
<1> QED
  BY <1>3, <1>4, SeqEqual

LEMMA BufsTypes ==
  ASSUME NEW s \in Seq(Requests)
  PROVE  Bufs(s) \in Seq(AllArmBufs) /\ Len(Bufs(s)) = Len(s)
<1>1. DOMAIN s = 1 .. Len(s) /\ Len(s) \in Nat /\ s \in [1 .. Len(s) -> Requests]
  BY LenProperties
<1>2. \A i \in 1 .. Len(s) : s[i].buf \in AllArmBufs
  BY <1>1 DEF Requests
<1>3. Bufs(s) = [i \in 1 .. Len(s) |-> s[i].buf]
  BY <1>1 DEF Bufs
<1> QED
  BY <1>1, <1>2, <1>3

LEMMA BufsOfTail ==
  ASSUME NEW s \in Seq(Requests), s # <<>>
  PROVE  Bufs(s) = <<Head(s).buf>> \o Bufs(Tail(s))
<1>1. Tail(s) \in Seq(Requests) /\ Head(s) \in Requests
  BY HeadTailProperties
<1>2. Len(Tail(s)) = Len(s) - 1 /\ Len(s) \in Nat /\ \A i \in 1 .. Len(Tail(s)) : Tail(s)[i] = s[i + 1]
  BY HeadTailProperties
<1>3. Head(s).buf \in AllArmBufs
  BY <1>1 DEF Requests
<1>4. <<Head(s).buf>> \in Seq(AllArmBufs) /\ Len(<<Head(s).buf>>) = 1
  BY <1>3
<1>5. Bufs(Tail(s)) \in Seq(AllArmBufs) /\ Len(Bufs(Tail(s))) = Len(s) - 1
  BY <1>1, <1>2, BufsTypes
<1> DEFINE t == <<Head(s).buf>> \o Bufs(Tail(s))
<1>6. /\ t \in Seq(AllArmBufs) /\ Len(t) = Len(s)
      /\ \A i \in 1 .. Len(s) : t[i] = IF i <= 1 THEN Head(s).buf ELSE Bufs(Tail(s))[i - 1]
  <2>1. Len(Bufs(Tail(s))) = Len(s) - 1 /\ Len(s) \in Nat
    BY <1>2, <1>5
  <2>2. 1 + Len(Bufs(Tail(s))) = Len(s)
    BY <2>1
  <2> QED
    BY <1>4, <1>5, <2>2, ConcatProperties
<1>7. \A i \in 1 .. Len(s) : Bufs(s)[i] = IF i <= 1 THEN Head(s).buf ELSE Bufs(Tail(s))[i - 1]
  <2> TAKE i \in 1 .. Len(s)
  <2>1. Bufs(s)[i] = s[i].buf
    BY DEF Bufs
  <2>2. CASE i = 1
    BY <2>1, <2>2
  <2>3. CASE i # 1
    <3>1. i - 1 \in 1 .. Len(Tail(s)) /\ (i - 1) + 1 = i
      BY <1>2, <2>3
    <3>2. Tail(s)[i - 1] = s[i]
      BY <1>2, <3>1
    <3>3. Bufs(Tail(s))[i - 1] = Tail(s)[i - 1].buf
      BY <1>1, <3>1 DEF Bufs
    <3> QED
      BY <2>1, <2>3, <3>1, <3>2, <3>3
  <2> QED
    BY <2>2, <2>3
<1> HIDE DEF t
<1>8. Bufs(s) = t
  BY <1>6, <1>7, BufsTypes, SeqEqual
<1> QED
  BY <1>8 DEF t

LEMMA BufsOfAppend ==
  ASSUME NEW s \in Seq(Requests), NEW r \in Requests
  PROVE  Bufs(Append(s, r)) = Bufs(s) \o <<r.buf>>
<1> DEFINE t == Append(s, r)
<1>1. /\ t \in Seq(Requests) /\ Len(t) = Len(s) + 1 /\ Len(s) \in Nat
      /\ \A i \in 1 .. Len(s) : t[i] = s[i]
      /\ t[Len(s) + 1] = r
  BY AppendProperties
<1>2. r.buf \in AllArmBufs
  BY DEF Requests
<1>3. <<r.buf>> \in Seq(AllArmBufs) /\ Len(<<r.buf>>) = 1
  BY <1>2
<1>4. /\ Bufs(s) \o <<r.buf>> \in Seq(AllArmBufs) /\ Len(Bufs(s) \o <<r.buf>>) = Len(s) + 1
      /\ \A i \in 1 .. Len(s) + 1 : (Bufs(s) \o <<r.buf>>)[i] =
           IF i <= Len(s) THEN Bufs(s)[i] ELSE <<r.buf>>[i - Len(s)]
  BY <1>3, BufsTypes, ConcatProperties
<1> HIDE DEF t
<1>5. \A i \in 1 .. Len(s) + 1 : Bufs(t)[i] = IF i <= Len(s) THEN Bufs(s)[i] ELSE r.buf
  <2> TAKE i \in 1 .. Len(s) + 1
  <2>1. Bufs(t)[i] = t[i].buf
    BY <1>1 DEF Bufs
  <2>2. CASE i <= Len(s)
    <3>1. i \in 1 .. Len(s) /\ i \in DOMAIN s
      BY <2>2
    <3> QED
      BY <1>1, <2>1, <2>2, <3>1 DEF Bufs
  <2>3. CASE i = Len(s) + 1
    BY <1>1, <2>1, <2>3
  <2> QED
    BY <1>1, <2>2, <2>3
<1>6. \A i \in 1 .. Len(s) + 1 : Bufs(t)[i] = (Bufs(s) \o <<r.buf>>)[i]
  <2> TAKE i \in 1 .. Len(s) + 1
  <2>1. CASE i <= Len(s)
    BY <1>4, <1>5, <2>1
  <2>2. CASE i = Len(s) + 1
    BY <1>1, <1>4, <1>5, <2>2
  <2>3. i <= Len(s) \/ i = Len(s) + 1
    BY <1>1
  <2> QED
    BY <2>1, <2>2, <2>3
<1>7. Bufs(t) \in Seq(AllArmBufs) /\ Len(Bufs(t)) = Len(s) + 1
  BY <1>1, BufsTypes
<1>8. Bufs(t) = Bufs(s) \o <<r.buf>>
  BY <1>1, <1>4, <1>6, <1>7, SeqEqual
<1> QED
  BY <1>8 DEF t

-----------------------------------------------------------------------------
LEMMA LentTypes ==
  ASSUME DataTypes, CardInv, NEW c \in Channels
  PROVE  /\ First(arm[c]) \in Seq(AllArmBufs) /\ Bufs(fifo[c]) \in Seq(AllArmBufs)
         /\ Posted(c) \in Seq(AllArmBufs) /\ Lent(c) \in Seq(AllArmBufs)
         /\ Lent(c) = (First(arm[c]) \o Bufs(fifo[c])) \o Posted(c)
<1>1. First(arm[c]) \in Seq(AllArmBufs)
  <2>1. arm[c] \in Requests \cup {None}
    BY DEF DataTypes
  <2> QED
    BY <2>1, EmptySeq DEF First, Requests
<1>2. Bufs(fifo[c]) \in Seq(AllArmBufs)
  BY BufsTypes DEF DataTypes
<1>3. Posted(c) \in Seq(AllArmBufs)
  BY EmptySeq DEF CardInv, Posted, Messages
<1>4. Lent(c) = (First(arm[c]) \o Bufs(fifo[c])) \o Posted(c)
  BY DEF Lent, First, Bufs, Posted
<1> QED
  BY <1>1, <1>2, <1>3, <1>4, ConcatProperties

LEMMA OfferedTypes ==
  ASSUME DataTypes, NEW c \in Channels
  PROVE  /\ First(user[c]) \in Seq(AllUserBufs) /\ queue[c] \in Seq(AllUserBufs)
         /\ Offered(c) \in Seq(AllUserBufs) /\ Offered(c) = First(user[c]) \o queue[c]
<1>1. First(user[c]) \in Seq(AllUserBufs)
  <2>1. user[c] \in UserBuffers \cup {None}
    BY DEF DataTypes
  <2> QED
    BY <2>1, EmptySeq DEF First, UserBuffers
<1>2. queue[c] \in Seq(AllUserBufs)
  BY DEF DataTypes
<1>3. Offered(c) = First(user[c]) \o queue[c]
  BY DEF Offered, First
<1> QED
  BY <1>1, <1>2, <1>3, ConcatProperties

(* Making a request or a buffer the one in hand changes neither sequence. *)
LEMMA RequestKept ==
  ASSUME DataTypes, NEW c \in Channels, Takes(c)
  PROVE  /\ First(RequestOf(c)) \o Bufs(fifo'[c]) = First(arm[c]) \o Bufs(fifo[c])
         /\ fifo'[c] \in Seq(Requests) /\ RequestOf(c) \in Requests \cup {None}
<1>1. fifo[c] \in Seq(Requests)
  BY DEF DataTypes
<1>2. CASE Fetches(c)
  <2>1. fifo[c] # <<>> /\ arm[c] = None /\ RequestOf(c) = Head(fifo[c]) /\ fifo'[c] = Tail(fifo[c])
    BY <1>2 DEF Takes, Fetches, RequestOf, DataTypes
  <2>2. Head(fifo[c]) \in Requests /\ Tail(fifo[c]) \in Seq(Requests)
    BY <1>1, <2>1, HeadTailProperties
  <2>3. First(Head(fifo[c])) = <<Head(fifo[c]).buf>> /\ First(arm[c]) = <<>>
    BY <2>1, <2>2, NoneAssumption DEF First
  <2>4. First(RequestOf(c)) \o Bufs(fifo'[c]) = Bufs(fifo[c])
    BY <1>1, <2>1, <2>3, BufsOfTail
  <2>5. Bufs(fifo[c]) = First(arm[c]) \o Bufs(fifo[c])
    BY <1>1, <2>3, BufsTypes, ConcatEmptySeq
  <2> QED
    BY <2>1, <2>2, <2>4, <2>5
<1>3. CASE ~Fetches(c)
  BY <1>1, <1>3 DEF Takes, RequestOf, DataTypes
<1> QED
  BY <1>2, <1>3

Rejects(c) == Dequeues(c) /\ Head(queue[c]) \in Small

LEMMA BufferKept ==
  ASSUME DataTypes, NEW c \in Channels, Takes(c), ~Rejects(c)
  PROVE  /\ First(BufferOf(c)) \o queue'[c] = First(user[c]) \o queue[c]
         /\ queue'[c] \in Seq(AllUserBufs) /\ BufferOf(c) \in UserBuffers \cup {None}
<1>1. queue[c] \in Seq(AllUserBufs)
  BY DEF DataTypes
<1>2. CASE Gets(c)
  <2>1. queue[c] # <<>> /\ user[c] = None /\ queue'[c] = Tail(queue[c])
    BY <1>2 DEF Takes, Gets, Dequeues, DataTypes
  <2>2. Head(queue[c]) \in AllUserBufs \ Small /\ Tail(queue[c]) \in Seq(AllUserBufs)
    BY <1>1, <1>2, <2>1, HeadTailProperties DEF Gets
  <2>3. BufferOf(c) = [buf |-> Head(queue[c]), offset |-> 0]
    BY <1>2 DEF BufferOf
  <2>4. BufferOf(c) \in UserBuffers /\ BufferOf(c).buf = Head(queue[c])
    BY <2>2, <2>3 DEF UserBuffers
  <2>5. First(BufferOf(c)) = <<Head(queue[c])>> /\ First(user[c]) = <<>>
    BY <2>1, <2>4, NoneAssumption DEF First
  <2>6. <<Head(queue[c])>> \o Tail(queue[c]) = queue[c]
    BY <1>1, <2>1, HeadThenTail
  <2>7. queue[c] = <<>> \o queue[c]
    BY <1>1, ConcatEmptySeq
  <2> QED
    BY <2>1, <2>2, <2>4, <2>5, <2>6, <2>7
<1>3. CASE ~Gets(c)
  <2>1. ~Dequeues(c)
    BY <1>3 DEF Gets, Rejects
  <2> QED
    BY <1>1, <1>3, <2>1 DEF Takes, BufferOf, DataTypes
<1> QED
  BY <1>2, <1>3

Moves(c, r) ==
  /\ r.arm \in Requests \cup {None} /\ r.user \in UserBuffers \cup {None}
  /\ r.arm # None => RequestOf(c) # None /\ r.arm.buf = RequestOf(c).buf
  /\ r.user # None => BufferOf(c) # None /\ r.user.buf = BufferOf(c).buf

Returned(c, r) == RequestOf(c) # None /\ r.arm = None
Filled(c, r) == BufferOf(c) # None /\ r.user = None

(* What a look at a channel leaves behind: the sequences, or their tails. *)
LEMMA ArmMoves ==
  ASSUME DataTypes, CardInv, NEW c \in Channels, NEW r, Takes(c), Leaves(c, r), Moves(c, r),
         UNCHANGED message
  PROVE  /\ Returned(c, r) => Lent(c) # <<>> /\ Lent(c)' = Tail(Lent(c))
         /\ ~Returned(c, r) => Lent(c)' = Lent(c)
<1>1. /\ arm'[c] = r.arm /\ RequestOf(c) \in Requests \cup {None} /\ Bufs(fifo'[c]) \in Seq(AllArmBufs)
      /\ Posted(c) \in Seq(AllArmBufs)
  BY RequestKept, LentTypes, BufsTypes DEF Leaves, DataTypes
<1>2. Lent(c) = (First(RequestOf(c)) \o Bufs(fifo'[c])) \o Posted(c)
  BY LentTypes, RequestKept
<1>3. Lent(c)' = (First(r.arm) \o Bufs(fifo'[c])) \o Posted(c)
  BY <1>1 DEF Lent, First, Bufs, Posted
<1>4. CASE Returned(c, r)
  <2>1. First(RequestOf(c)) = <<RequestOf(c).buf>> /\ RequestOf(c).buf \in AllArmBufs
    BY <1>1, <1>4 DEF Returned, First, Requests
  <2>2. First(r.arm) \o Bufs(fifo'[c]) = Bufs(fifo'[c])
    BY <1>1, <1>4, ConcatEmptySeq DEF Returned, First
  <2> QED
    BY <1>1, <1>2, <1>3, <1>4, <2>1, <2>2, TailOfConcat
<1>5. CASE ~Returned(c, r)
  BY <1>1, <1>2, <1>3, <1>5 DEF Returned, Moves, First
<1> QED
  BY <1>4, <1>5

LEMMA UserMoves ==
  ASSUME DataTypes, NEW c \in Channels, NEW r, Takes(c), ~Rejects(c), Leaves(c, r), Moves(c, r)
  PROVE  /\ Filled(c, r) => /\ Offered(c) # <<>> /\ Head(Offered(c)) \notin Small
                            /\ Offered(c)' = Tail(Offered(c))
         /\ ~Filled(c, r) => Offered(c)' = Offered(c)
<1>1. /\ user'[c] = r.user /\ BufferOf(c) \in UserBuffers \cup {None} /\ queue'[c] \in Seq(AllUserBufs)
  BY BufferKept DEF Leaves, DataTypes
<1>2. Offered(c) = First(BufferOf(c)) \o queue'[c]
  BY OfferedTypes, BufferKept
<1>3. Offered(c)' = First(r.user) \o queue'[c]
  BY <1>1 DEF Offered, First
<1>4. CASE Filled(c, r)
  <2>1. First(BufferOf(c)) = <<BufferOf(c).buf>> /\ BufferOf(c).buf \in AllUserBufs \ Small
    BY <1>1, <1>4 DEF Filled, First, UserBuffers
  <2>2. First(r.user) \o queue'[c] = queue'[c]
    BY <1>1, <1>4, ConcatEmptySeq DEF Filled, First
  <2>3. /\ <<BufferOf(c).buf>> \o queue'[c] # <<>>
        /\ Head(<<BufferOf(c).buf>> \o queue'[c]) = BufferOf(c).buf
        /\ Tail(<<BufferOf(c).buf>> \o queue'[c]) = queue'[c]
    BY <1>1, <2>1, TailOfCons
  <2> QED
    BY <1>2, <1>3, <1>4, <2>1, <2>2, <2>3
<1>5. CASE ~Filled(c, r)
  BY <1>1, <1>2, <1>3, <1>5 DEF Filled, Moves, First
<1> QED
  BY <1>4, <1>5

(* A buffer that is too small is the first of those offered, and goes. *)
LEMMA UserRejects ==
  ASSUME DataTypes, NEW c \in Channels, Takes(c), Rejects(c), Leaves(c, [arm |-> RequestOf(c), user |-> BufferOf(c)])
  PROVE  Offered(c) # <<>> /\ Head(Offered(c)) \in Small /\ Offered(c)' = Tail(Offered(c))
<1>1. /\ queue[c] \in Seq(AllUserBufs) /\ queue[c] # <<>> /\ user[c] = None
      /\ queue'[c] = Tail(queue[c]) /\ user'[c] = None
  BY DEF Rejects, Dequeues, Gets, BufferOf, Takes, Leaves, DataTypes
<1>2. Tail(queue[c]) \in Seq(AllUserBufs)
  BY <1>1, HeadTailProperties
<1>3. Offered(c) = <<>> \o queue[c] /\ Offered(c)' = <<>> \o queue'[c]
  BY <1>1 DEF Offered
<1>4. Offered(c) = queue[c] /\ Offered(c)' = Tail(queue[c])
  BY <1>1, <1>2, <1>3, ConcatEmptySeq
<1> QED
  BY <1>1, <1>4 DEF Rejects
-----------------------------------------------------------------------------
(* The other channels see nothing of it. *)
LEMMA OthersKeep ==
  ASSUME DataTypes, NEW c \in Channels, NEW r, Takes(c), Leaves(c, r), UNCHANGED message,
         NEW e \in Channels \ {c}
  PROVE  Lent(e)' = Lent(e) /\ Offered(e)' = Offered(e)
<1>1. arm'[e] = arm[e] /\ user'[e] = user[e] /\ fifo'[e] = fifo[e] /\ queue'[e] = queue[e]
  BY DEF DataTypes, Takes, Leaves
<1> QED
  BY <1>1 DEF Lent, Offered

LEMMA Serves ==
  ASSUME DataTypes, CardInv, NEW c \in Channels, NEW r, Takes(c), ~Rejects(c), Leaves(c, r),
         Moves(c, r),
         UNCHANGED <<message, state>>, state[c[1]] = "run",
         c \in Frames => (Returned(c, r) <=> Filled(c, r))
  PROVE  \E request, buffer \in BOOLEAN : Exchange!Serve(c, request, buffer)
<1> DEFINE lent == [e \in Channels |-> Lent(e)]
           offered == [e \in Channels |-> Offered(e)]
           q == Returned(c, r)
           b == Filled(c, r)
<1>1. q \in BOOLEAN /\ b \in BOOLEAN
  BY DEF Returned, Filled
<1>2. TaskOf[c] \in {t \in Tasks : state[t] = "run"}
  BY ChannelsAssumption DEF TaskOf
<1>3. /\ q => lent[c] # <<>>
      /\ lent' = IF q THEN [lent EXCEPT ![c] = Tail(@)] ELSE lent
  <2>1. \A e \in Channels \ {c} : Lent(e)' = Lent(e)
    BY OthersKeep
  <2>2. (q => Lent(c) # <<>> /\ Lent(c)' = Tail(Lent(c))) /\ (~q => Lent(c)' = Lent(c))
    BY ArmMoves
  <2>3. lent' = [e \in Channels |-> Lent(e)']
    OBVIOUS
  <2> HIDE DEF q
  <2> QED
    BY <2>1, <2>2, <2>3
<1>4. /\ b => offered[c] # <<>> /\ Head(offered[c]) \notin Small
      /\ offered' = IF b THEN [offered EXCEPT ![c] = Tail(@)] ELSE offered
  <2>1. \A e \in Channels \ {c} : Offered(e)' = Offered(e)
    BY OthersKeep
  <2>2. /\ b => /\ Offered(c) # <<>> /\ Head(Offered(c)) \notin Small
                /\ Offered(c)' = Tail(Offered(c))
        /\ ~b => Offered(c)' = Offered(c)
    BY UserMoves
  <2>3. offered' = [e \in Channels |-> Offered(e)']
    OBVIOUS
  <2> HIDE DEF b
  <2> QED
    BY <2>1, <2>2, <2>3
<1>5. c \in Frames => q = b
  BY <1>1
<1>6. {t \in Tasks : state[t] = "run"}' = {t \in Tasks : state[t] = "run"}
  OBVIOUS
<1> HIDE DEF q, b
<1>7. Exchange!Serve(c, q, b)
  BY <1>2, <1>3, <1>4, <1>5, <1>6 DEF Exchange!Serve
<1> QED
  BY <1>1, <1>7

LEMMA SmallGoesBack ==
  ASSUME DataTypes, CardInv, NEW c \in Channels, NEW r, Takes(c), Rejects(c), Leaves(c, r),
         r = [arm |-> RequestOf(c), user |-> BufferOf(c)],
         UNCHANGED <<message, state>>, state[c[1]] = "run"
  PROVE  Exchange!Reject(c)
<1> DEFINE lent == [e \in Channels |-> Lent(e)]
           offered == [e \in Channels |-> Offered(e)]
<1>1. TaskOf[c] \in {t \in Tasks : state[t] = "run"}
  BY ChannelsAssumption DEF TaskOf
<1>2. RequestOf(c) \in Requests /\ BufferOf(c) \in UserBuffers \cup {None}
  BY TakenTypes DEF Rejects, Dequeues
<1>3. Moves(c, r) /\ ~Returned(c, r)
  BY <1>2, NoneAssumption DEF Moves, Returned
<1>4. lent' = lent
  <2>1. \A e \in Channels \ {c} : Lent(e)' = Lent(e)
    BY OthersKeep
  <2>2. Lent(c)' = Lent(c)
    BY <1>3, ArmMoves
  <2> QED
    BY <2>1, <2>2
<1>5. Lent(c) # <<>>
  <2>1. Bufs(fifo'[c]) \in Seq(AllArmBufs) /\ Posted(c) \in Seq(AllArmBufs)
    BY RequestKept, BufsTypes, LentTypes
  <2>2. Lent(c) = (First(RequestOf(c)) \o Bufs(fifo'[c])) \o Posted(c)
    BY LentTypes, RequestKept
  <2>3. First(RequestOf(c)) = <<RequestOf(c).buf>> /\ RequestOf(c).buf \in AllArmBufs
    BY <1>2, NoneAssumption DEF First, Requests
  <2> QED
    BY <2>1, <2>2, <2>3, TailOfConcat
<1>6. /\ offered[c] # <<>> /\ Head(offered[c]) \in Small
      /\ offered' = [offered EXCEPT ![c] = Tail(@)]
  <2>1. \A e \in Channels \ {c} : Offered(e)' = Offered(e)
    BY OthersKeep
  <2>2. Offered(c) # <<>> /\ Head(Offered(c)) \in Small /\ Offered(c)' = Tail(Offered(c))
    BY UserRejects
  <2>3. offered' = [e \in Channels |-> Offered(e)']
    OBVIOUS
  <2> QED
    BY <2>1, <2>2, <2>3
<1>7. {t \in Tasks : state[t] = "run"}' = {t \in Tasks : state[t] = "run"}
  OBVIOUS
<1> QED
  BY <1>1, <1>4, <1>5, <1>6, <1>7 DEF Exchange!Reject

(* A look at a channel, and a transfer accounted for. *)
LEMMA LookServes ==
  ASSUME Inv, NEW c \in Channels, ScanWait(c) \/ ScanComplete(c) \/ ScanSend(c)
  PROVE  \/ \E request, buffer \in BOOLEAN : Exchange!Serve(c, request, buffer)
         \/ Exchange!Reject(c)
<1> DEFINE taken == [arm |-> RequestOf(c), user |-> BufferOf(c)]
           done == Complete(c, RequestOf(c), BufferOf(c))
<1>1. DataTypes /\ CardInv
  BY DEF Inv, DataInv
<1>2. Takes(c) /\ Visits(c) /\ UNCHANGED <<message, state>>
  BY DEF ScanWait, ScanComplete, ScanSend, cardVars
<1>3. state[c[1]] = "run"
  <2>1. c[1] = ScanTask
    BY <1>2 DEF Visits, ScanChannel, ScanTask
  <2> QED
    BY <1>2, <2>1 DEF Visits
<1>4. RequestOf(c) \in Requests \cup {None} /\ BufferOf(c) \in UserBuffers \cup {None}
  BY <1>1, TakenTypes
<1>5. CASE Leaves(c, taken)
  <2>1. Moves(c, taken) /\ ~Returned(c, taken) /\ ~Filled(c, taken)
    BY <1>4 DEF Moves, Returned, Filled
  <2>2. CASE Rejects(c)
    BY <1>1, <1>2, <1>3, <1>5, <2>2, SmallGoesBack
  <2>3. CASE ~Rejects(c)
    BY <1>1, <1>2, <1>3, <1>5, <2>1, <2>3, Serves
  <2> QED
    BY <2>2, <2>3
<1>6. CASE Ready(c) /\ Leaves(c, done)
  <2>0. ~Rejects(c)
    BY <1>6 DEF Rejects, Dequeues, Gets, Ready, BufferOf
  <2>1. RequestOf(c) \in Requests /\ BufferOf(c) \in UserBuffers
    BY <1>4, <1>6 DEF Ready
  <2>2. Moves(c, done)
    BY <2>1, NoneAssumption DEF Moves, Complete
  <2>3. c \in Frames => (Returned(c, done) <=> Filled(c, done))
    BY <2>1, NoneAssumption DEF Returned, Filled, Complete
  <2> QED
    BY <1>1, <1>2, <1>3, <1>6, <2>0, <2>2, <2>3, Serves
<1> QED
  BY <1>5, <1>6 DEF ScanWait, ScanComplete, ScanSend

LEMMA TransferServes ==
  ASSUME Inv, NEW d \in Directions, CompleteData(d)
  PROVE  \E c \in Channels : \E request, buffer \in BOOLEAN : Exchange!Serve(c, request, buffer)
<1>1. DataTypes /\ CardInv /\ DataInv
  BY DEF Inv, DataInv
<1>2. PICK c \in Channels : c = pending[d].chan
  BY <1>1 DEF DataTypes, CompleteData, Busy, Transfers
<1> DEFINE n == pending[d].length
           p == IF c \in Planar THEN Plane(arm[c].done, Planes) ELSE 1
           a == [arm[c] EXCEPT !.done[p] = @ + n]
           u == [user[c] EXCEPT !.offset = @ + n]
           r == Complete(c, a, u)
<1>3. /\ arm[c] \in Requests /\ user[c] \in UserBuffers /\ n \in Nat
      /\ state[c[1]] = "run"
  <2>1. n \in Nat /\ Covered(d) /\ Busy(d)
    BY <1>1, CoversAll DEF DataInv, DataTypes, CompleteData, Busy, Transfers
  <2> QED
    BY <1>1, <1>2, <2>1 DEF DataTypes, Covered
<1>4. /\ a \in Requests /\ a.buf = arm[c].buf
      /\ u \in UserBuffers /\ u.buf = user[c].buf
  <2>1. p \in 1 .. 3
    BY DEF Plane
  <2> QED
    BY <1>3, <2>1 DEF Requests, UserBuffers
<1>5. RequestOf(c) = arm[c] /\ BufferOf(c) = user[c] /\ ~Fetches(c) /\ ~Dequeues(c)
  BY <1>3, NoneAssumption DEF RequestOf, BufferOf, Fetches, Gets, Dequeues
<1>6. Takes(c) /\ Leaves(c, r) /\ UNCHANGED <<message, state>>
  BY <1>2, <1>5 DEF Takes, CompleteData, cardVars
<1>7. /\ r.arm = None \/ r.arm = a
      /\ r.user = None \/ r.user = u
      /\ c \in Frames => (r.arm = None <=> r.user = None)
  <2> HIDE DEF a, u
  <2> QED
    BY <1>4, NoneAssumption DEF Complete
<1> HIDE DEF a, u, r
<1>8. Moves(c, r)
  BY <1>3, <1>4, <1>5, <1>7, NoneAssumption DEF Moves
<1>9. c \in Frames => (Returned(c, r) <=> Filled(c, r))
  BY <1>3, <1>5, <1>7, NoneAssumption DEF Returned, Filled
<1>10. ~Rejects(c)
  BY <1>5 DEF Rejects
<1> QED
  BY <1>1, <1>3, <1>6, <1>8, <1>9, <1>10, Serves
-----------------------------------------------------------------------------
(* What goes back unserved: a beginning of what is lent. *)
LEMMA DropFirst ==
  ASSUME NEW S, NEW s \in Seq(S), NEW t \in Seq(S)
  PROVE  SubSeq(s \o t, Len(s) + 1, Len(s \o t)) = t
<1> DEFINE w == s \o t
           m == Len(s) + 1
           n == Len(w)
           v == SubSeq(w, m, n)
<1>1. /\ Len(s) \in Nat /\ Len(t) \in Nat /\ n = Len(s) + Len(t) /\ w \in Seq(S)
      /\ \A i \in 1 .. n : w[i] = IF i <= Len(s) THEN s[i] ELSE t[i - Len(s)]
  BY ConcatProperties
<1>2. \A i \in m .. n : w[i] \in S
  BY <1>1
<1> HIDE DEF w
<1>3. /\ v \in Seq(S) /\ Len(v) = (IF m <= n THEN n - m + 1 ELSE 0)
      /\ \A i \in 1 .. n - m + 1 : v[i] = w[m + i - 1]
  BY <1>1, <1>2, SubSeqProperties
<1>4. Len(v) = Len(t) /\ n - m + 1 = Len(t)
  BY <1>1, <1>3
<1>5. \A i \in 1 .. Len(t) : v[i] = t[i]
  <2> TAKE i \in 1 .. Len(t)
  <2>1. m + i - 1 = Len(s) + i /\ Len(s) + i \in 1 .. n /\ ~(Len(s) + i <= Len(s)) /\ Len(s) + i - Len(s) = i
    BY <1>1
  <2> QED
    BY <1>1, <1>3, <1>4, <2>1
<1> HIDE DEF v
<1>6. v = t
  BY <1>3, <1>4, <1>5, SeqEqual
<1> QED
  BY <1>6 DEF v, w

LEMMA IdleRefuses ==
  ASSUME Inv, ScanIdleTask
  PROVE  \E t \in Tasks : Exchange!Refuse(t)
<1> DEFINE t == ScanTask
           lent == [c \in Channels |-> Lent(c)]
<1>1. DataTypes /\ CardInv /\ ScanInv
  BY DEF Inv, DataInv
<1>2. t \in Tasks
  <2>1. startTask + scan.task \in Nat /\ NTasks \in Nat \ {0}
    BY <1>1, SizesAssumption DEF ScanInv, ScanIdleTask, Scans, Tasks
  <2>2. t = (startTask + scan.task) % NTasks
    BY DEF ScanIdleTask, ScanTask
  <2> QED
    BY <2>1, <2>2, ModInRange DEF Tasks
<1>3. state[t] = "idle" /\ UNCHANGED <<message, queue, user, state>>
  BY DEF ScanIdleTask, cardVars
<1>4. ASSUME NEW c \in Channels
      PROVE  \E n \in 0 .. IF TaskOf[c] = t THEN Len(Lent(c)) ELSE 0 :
               Lent(c)' = SubSeq(Lent(c), n + 1, Len(Lent(c)))
  <2> DEFINE s == First(arm[c]) \o Bufs(fifo[c])
  <2>1. /\ s \in Seq(AllArmBufs) /\ Posted(c) \in Seq(AllArmBufs)
        /\ Lent(c) = s \o Posted(c) /\ Lent(c) \in Seq(AllArmBufs)
    BY <1>1, LentTypes, ConcatProperties
  <2>2. CASE c[1] = t
    <3>1. arm'[c] = None /\ fifo'[c] = <<>>
      BY <2>2 DEF ScanIdleTask
    <3>2. Lent(c)' = (<<>> \o <<>>) \o Posted(c)
      <4>1. [i \in DOMAIN fifo'[c] |-> fifo'[c][i].buf] = <<>>
        BY <3>1
      <4> QED
        BY <1>3, <3>1, <4>1 DEF Lent, Posted
    <3>3. (<<>> \o <<>>) \o Posted(c) = Posted(c)
      BY <2>1, EmptySeq, ConcatEmptySeq
    <3>4. Len(s) \in 0 .. Len(Lent(c))
      BY <2>1, ConcatProperties, LenProperties
    <3>5. Posted(c) = SubSeq(Lent(c), Len(s) + 1, Len(Lent(c)))
      BY <2>1, DropFirst
    <3> HIDE DEF s
    <3> QED
      BY <2>2, <3>2, <3>3, <3>4, <3>5 DEF TaskOf
  <2>3. CASE c[1] # t
    <3>1. arm'[c] = arm[c] /\ fifo'[c] = fifo[c]
      BY <2>3 DEF ScanIdleTask
    <3>2. Lent(c)' = Lent(c)
      BY <1>3, <3>1 DEF Lent
    <3>3. Lent(c) = SubSeq(Lent(c), 0 + 1, Len(Lent(c)))
      BY <2>1, SubSeqFull
    <3>4. 0 \in 0 .. IF TaskOf[c] = t THEN Len(Lent(c)) ELSE 0
      BY <2>3 DEF TaskOf
    <3> QED
      BY <3>2, <3>3, <3>4
  <2> QED
    BY <2>2, <2>3
<1>5. lent' = [c \in Channels |-> Lent(c)']
  OBVIOUS
<1>6. [c \in Channels |-> Offered(c)]' = [c \in Channels |-> Offered(c)]
  BY <1>3 DEF Offered
<1>7. {e \in Tasks : state[e] = "run"}' = {e \in Tasks : state[e] = "run"}
  BY <1>3
<1>8. Exchange!Refuse(t)
  <2> HIDE DEF t
  <2> QED
    BY <1>3, <1>4, <1>5, <1>6, <1>7 DEF Exchange!Refuse
<1> QED
  BY <1>2, <1>8

LEMMA MessageQueuedOrRefused ==
  ASSUME Inv, ProcessArmMessage
  PROVE  \/ UNCHANGED Exchange!exchangeVars
         \/ \E t \in Tasks : Exchange!Refuse(t)
<1>1. DataTypes /\ CardInv /\ StateInv
  BY DEF Inv, DataInv
<1>2. message \in Messages /\ message' = None /\ UNCHANGED <<queue, user, state>>
  BY <1>1 DEF CardInv, MessageThere, ProcessArmMessage, Handles
<1>3. PICK c \in Channels : c = message.chan
  BY <1>2 DEF Messages
<1> DEFINE t == c[1]
           request == Request(message.buf, message.kind)
           lent == [e \in Channels |-> Lent(e)]
<1>4. /\ t \in Tasks
      /\ request \in Requests /\ request.buf = message.buf /\ message.buf \in AllArmBufs
  BY <1>2, ChannelsAssumption DEF Messages, Requests, Request
<1>5. \A e \in Channels : Posted(e) = (IF e = c THEN <<message.buf>> ELSE <<>>) /\ Posted(e)' = <<>>
  BY <1>3, <1>2, NoneAssumption DEF Posted
<1>6. ASSUME NEW e \in Channels \ {c} PROVE Lent(e)' = Lent(e)
  <2>1. arm'[e] = arm[e] /\ fifo'[e] = fifo[e]
    BY <1>3, <1>1, <1>4 DEF ProcessArmMessage, DataTypes
  <2> QED
    BY <1>3, <1>2, <2>1, NoneAssumption DEF Lent
<1>7. [e \in Channels |-> Offered(e)]' = [e \in Channels |-> Offered(e)]
  BY <1>2 DEF Offered
<1>8. {e \in Tasks : state[e] = "run"}' = {e \in Tasks : state[e] = "run"}
  BY <1>2
<1>9. lent' = [e \in Channels |-> Lent(e)']
  OBVIOUS
<1>10. CASE state[t] = "run"
  <2>1. arm'[c] = arm[c] /\ fifo'[c] = Append(fifo[c], request)
    BY <1>3, <1>1, <1>4, <1>10 DEF ProcessArmMessage, DataTypes
  <2>2. /\ First(arm[c]) \in Seq(AllArmBufs) /\ Bufs(fifo[c]) \in Seq(AllArmBufs)
        /\ <<message.buf>> \in Seq(AllArmBufs) /\ fifo[c] \in Seq(Requests)
        /\ Lent(c) = (First(arm[c]) \o Bufs(fifo[c])) \o <<message.buf>>
    BY <1>1, <1>4, <1>5, LentTypes DEF DataTypes
  <2>3. Bufs(Append(fifo[c], request)) = Bufs(fifo[c]) \o <<message.buf>>
    <3> HIDE DEF request
    <3> QED
      BY <1>4, <2>2, BufsOfAppend
  <2>4. Lent(c)' = (First(arm[c]) \o Bufs(Append(fifo[c], request))) \o <<>>
    <3> HIDE DEF request
    <3> QED
      BY <1>2, <2>1 DEF Lent, First, Bufs
  <2>5. Bufs(fifo[c]) \o <<message.buf>> \in Seq(AllArmBufs)
    BY <2>2, ConcatProperties
  <2>6. First(arm[c]) \o (Bufs(fifo[c]) \o <<message.buf>>) \in Seq(AllArmBufs)
    BY <2>2, <2>5, ConcatProperties
  <2>7. First(arm[c]) \o (Bufs(fifo[c]) \o <<message.buf>>) = Lent(c)
    BY <2>2, ConcatAssociative
  <2>8. Lent(c)' = Lent(c)
    BY <2>3, <2>4, <2>6, <2>7, ConcatEmptySeq
  <2>9. lent' = lent
    <3>1. \A e \in Channels : Lent(e)' = Lent(e)
      BY <1>6, <2>8
    <3> QED
      BY <1>9, <3>1
  <2> QED
    BY <1>7, <1>8, <2>9 DEF Exchange!exchangeVars
<1>11. CASE state[t] # "run"
  <2>1. arm'[c] = None /\ fifo'[c] = <<>>
    BY <1>3, <1>1, <1>4, <1>11 DEF ProcessArmMessage, DataTypes
  <2>2. Lent(c)' = <<>>
    <3>1. [i \in DOMAIN fifo'[c] |-> fifo'[c][i].buf] = <<>>
      BY <2>1
    <3>2. Lent(c)' = (<<>> \o <<>>) \o <<>>
      BY <1>2, <2>1, <3>1 DEF Lent
    <3> QED
      BY <3>2, EmptySeq, ConcatEmptySeq
  <2>3. ASSUME NEW e \in Channels
        PROVE  \E n \in 0 .. IF TaskOf[e] = t THEN Len(Lent(e)) ELSE 0 :
                 Lent(e)' = SubSeq(Lent(e), n + 1, Len(Lent(e)))
    <3>1. Lent(e) \in Seq(AllArmBufs) /\ Len(Lent(e)) \in Nat
      BY <1>1, LentTypes
    <3>2. CASE e = c
      <4>1. SubSeq(Lent(e), Len(Lent(e)) + 1, Len(Lent(e))) = <<>>
        BY <3>1, SubSeqEmpty
      <4>2. Len(Lent(e)) \in 0 .. IF TaskOf[e] = t THEN Len(Lent(e)) ELSE 0
        BY <3>1, <3>2 DEF TaskOf
      <4> QED
        BY <2>2, <3>2, <4>1, <4>2
    <3>3. CASE e # c
      <4>1. Lent(e) = SubSeq(Lent(e), 0 + 1, Len(Lent(e)))
        BY <3>1, SubSeqFull
      <4>2. 0 \in 0 .. IF TaskOf[e] = t THEN Len(Lent(e)) ELSE 0
        BY <3>1
      <4> QED
        BY <1>6, <3>3, <4>1, <4>2
    <3> QED
      BY <3>2, <3>3
  <2>4. Exchange!Refuse(t)
    <3> HIDE DEF t
    <3> QED
      BY <1>7, <1>8, <1>9, <1>11, <2>3 DEF Exchange!Refuse
  <2> QED
    BY <1>4, <2>4
<1> QED
  BY <1>10, <1>11
-----------------------------------------------------------------------------
(* The other side of the exchange. *)
LEMMA PostLends ==
  ASSUME Inv, NEW c \in Channels, NEW kind \in KindsOf[c], NEW b \in ArmBufs[c], ArmPosts(c, b, kind)
  PROVE  Exchange!Lend(c, b)
<1> DEFINE lent == [e \in Channels |-> Lent(e)]
<1>1. DataTypes /\ CardInv
  BY DEF Inv, DataInv
<1>2. /\ message = None /\ message' = [chan |-> c, buf |-> b, kind |-> kind]
      /\ UNCHANGED <<queue, fifo, arm, user, state>> /\ b \notin Range(Lent(c))
  BY DEF ArmPosts, dataVars
<1>3. b \in AllArmBufs /\ message' \in Messages
  BY <1>2, KindsAssumption DEF AllArmBufs, Messages, Kinds
<1>4. ASSUME NEW e \in Channels
      PROVE  Lent(e)' = IF e = c THEN Append(Lent(e), b) ELSE Lent(e)
  <2> DEFINE s == First(arm[e]) \o Bufs(fifo[e])
  <2>1. s \in Seq(AllArmBufs) /\ Lent(e) = s \o Posted(e)
    BY <1>1, LentTypes, ConcatProperties
  <2>2. Posted(e) = <<>> /\ Posted(e)' = IF e = c THEN <<b>> ELSE <<>>
    BY <1>2, <1>3, NoneAssumption DEF Posted
  <2>3. Lent(e) = s
    BY <2>1, <2>2, ConcatEmptySeq
  <2>4. Lent(e)' = s \o IF e = c THEN <<b>> ELSE <<>>
    BY <1>2, <2>2 DEF Lent, First, Bufs, Posted
  <2> HIDE DEF s
  <2>5. Append(s, b) = s \o <<b>>
    BY <1>3, <2>1, AppendIsConcat
  <2> QED
    BY <2>1, <2>3, <2>4, <2>5, ConcatEmptySeq
<1>5. lent' = [lent EXCEPT ![c] = Append(@, b)]
  <2>1. lent' = [e \in Channels |-> Lent(e)']
    OBVIOUS
  <2> QED
    BY <1>4, <2>1
<1>6. [e \in Channels |-> Offered(e)]' = [e \in Channels |-> Offered(e)]
  BY <1>2 DEF Offered
<1>7. {e \in Tasks : state[e] = "run"}' = {e \in Tasks : state[e] = "run"}
  BY <1>2
<1>8. \A i \in DOMAIN lent[c] : lent[c][i] # b
  BY <1>2 DEF Range
<1> QED
  BY <1>5, <1>6, <1>7, <1>8 DEF Exchange!Lend

LEMMA AppendToConcat ==
  ASSUME NEW S, NEW s \in Seq(S), NEW t \in Seq(S), NEW e \in S
  PROVE  s \o Append(t, e) = Append(s \o t, e)
<1>1. <<e>> \in Seq(S) /\ s \o t \in Seq(S)
  BY ConcatProperties
<1>2. Append(t, e) = t \o <<e>> /\ Append(s \o t, e) = (s \o t) \o <<e>>
  BY <1>1, AppendIsConcat
<1> QED
  BY <1>1, <1>2, ConcatAssociative

LEMMA AddOffers ==
  ASSUME Inv, NEW c \in Channels, NEW u \in UserBufs[c], AddBuffer(c, u)
  PROVE  Exchange!Offer(c, u)
<1> DEFINE offered == [e \in Channels |-> Offered(e)]
<1>1. DataTypes
  BY DEF Inv, DataInv
<1>2. /\ queue' = [queue EXCEPT ![c] = Append(@, u)] /\ u \notin Range(Offered(c))
      /\ UNCHANGED <<message, fifo, arm, user, state>> /\ u \in AllUserBufs
  BY DEF AddBuffer, cardVars, AllUserBufs
<1>3. ASSUME NEW e \in Channels
      PROVE  Offered(e)' = IF e = c THEN Append(Offered(e), u) ELSE Offered(e)
  <2>1. /\ First(user[e]) \in Seq(AllUserBufs) /\ queue[e] \in Seq(AllUserBufs)
        /\ Offered(e) \in Seq(AllUserBufs) /\ Offered(e) = First(user[e]) \o queue[e]
    BY <1>1, OfferedTypes
  <2>2. queue'[e] = IF e = c THEN Append(queue[e], u) ELSE queue[e]
    BY <1>1, <1>2 DEF DataTypes
  <2>3. Offered(e)' = First(user[e]) \o queue'[e]
    BY <1>2 DEF Offered, First
  <2>4. First(user[e]) \o Append(queue[e], u) = Append(First(user[e]) \o queue[e], u)
    <3>1. ASSUME NEW f \in Seq(AllUserBufs), NEW q \in Seq(AllUserBufs)
          PROVE  f \o Append(q, u) = Append(f \o q, u)
      BY <1>2, AppendToConcat
    <3> QED
      BY <2>1, <3>1
  <2> QED
    BY <2>1, <2>2, <2>3, <2>4
<1>4. offered' = [offered EXCEPT ![c] = Append(@, u)]
  <2>1. offered' = [e \in Channels |-> Offered(e)']
    OBVIOUS
  <2> QED
    BY <1>3, <2>1
<1>5. [e \in Channels |-> Lent(e)]' = [e \in Channels |-> Lent(e)]
  BY <1>2 DEF Lent
<1>6. {e \in Tasks : state[e] = "run"}' = {e \in Tasks : state[e] = "run"}
  BY <1>2
<1>7. \A i \in DOMAIN offered[c] : offered[c][i] # u
  BY <1>2 DEF Range
<1> QED
  BY <1>4, <1>5, <1>6, <1>7 DEF Exchange!Offer

LEMMA StartStarts ==
  ASSUME Inv, NEW t \in Tasks, CEncoderTask_Start(t)
  PROVE  Exchange!Start(t)
<1>1. state' = [state EXCEPT ![t] = "run"] /\ UNCHANGED <<message, queue, fifo, arm, user>>
  BY DEF CEncoderTask_Start, cardVars, dataVars
<1>2. {e \in Tasks : state[e] = "run"}' = {e \in Tasks : state[e] = "run"} \cup {t}
  BY <1>1 DEF Inv, StateInv
<1>3. [e \in Channels |-> Lent(e)]' = [e \in Channels |-> Lent(e)]
  BY <1>1 DEF Lent
<1>4. [e \in Channels |-> Offered(e)]' = [e \in Channels |-> Offered(e)]
  BY <1>1 DEF Offered
<1> QED
  BY <1>2, <1>3, <1>4 DEF Exchange!Start

LEMMA Stutters ==
  ASSUME UNCHANGED <<message, queue, fifo, arm, user, state>>
  PROVE  UNCHANGED Exchange!exchangeVars
<1>1. [e \in Channels |-> Lent(e)]' = [e \in Channels |-> Lent(e)]
  BY DEF Lent
<1>2. [e \in Channels |-> Offered(e)]' = [e \in Channels |-> Offered(e)]
  BY DEF Offered
<1>3. {e \in Tasks : state[e] = "run"}' = {e \in Tasks : state[e] = "run"}
  OBVIOUS
<1> QED
  BY <1>1, <1>2, <1>3 DEF Exchange!exchangeVars

LEMMA StepExchanges ==
  ASSUME Inv, [Next]_vars
  PROVE  [Exchange!Next]_(Exchange!exchangeVars)
<1>1. CASE \E c \in Channels : \E kind \in KindsOf[c], b \in ArmBufs[c] : ArmPosts(c, b, kind)
  BY <1>1, PostLends DEF Exchange!Next
<1>2. CASE \E c \in Channels : \E u \in UserBufs[c] : AddBuffer(c, u)
  BY <1>2, AddOffers DEF Exchange!Next
<1>3. CASE \E t \in Tasks : CEncoderTask_Start(t)
  BY <1>3, StartStarts DEF Exchange!Next
<1>4. CASE ProcessArmMessage
  BY <1>4, MessageQueuedOrRefused DEF Exchange!Next
<1>5. CASE ScanIdleTask
  BY <1>5, IdleRefuses DEF Exchange!Next
<1>6. CASE \E d \in Directions : CompleteData(d)
  BY <1>6, TransferServes DEF Exchange!Next
<1>7. CASE \E c \in Channels : ScanWait(c) \/ ScanComplete(c) \/ ScanSend(c)
  BY <1>7, LookServes DEF Exchange!Next
<1>8. CASE UNCHANGED <<message, queue, fifo, arm, user, state>>
  BY <1>8, Stutters
<1> QED
  BY <1>1, <1>2, <1>3, <1>4, <1>5, <1>6, <1>7, <1>8
     DEF Next, Worker, Environment, EngineDone, WaitEvents, ProcessData, ScanSkip, cardVars,
         dataVars, vars

LEMMA InitExchange == Init => Exchange!Init
<1> SUFFICES ASSUME Init PROVE Exchange!Init
  OBVIOUS
<1>1. ASSUME NEW c \in Channels PROVE Lent(c) = <<>> /\ Offered(c) = <<>>
  <2>1. [i \in DOMAIN fifo[c] |-> fifo[c][i].buf] = <<>>
    BY DEF Init
  <2>2. Lent(c) = (<<>> \o <<>>) \o <<>> /\ Offered(c) = <<>> \o <<>>
    BY <2>1 DEF Init, Lent, Offered
  <2> QED
    BY <2>2, EmptySeq, ConcatEmptySeq
<1>2. {t \in Tasks : state[t] = "run"} = {}
  BY DEF Init
<1> QED
  BY <1>1, <1>2 DEF Exchange!Init

(* Each step of the worker serves the oldest request with the oldest buffer *)
(* of one channel, gives the oldest buffer back when it is too small, gives *)
(* back what an idle task holds, or changes nothing that card or user can   *)
(* see: no request or buffer is lost, returned twice or overtaken, and a    *)
(* frame and its buffer go back together.                                   *)
THEOREM ExchangeImplemented == Spec => ImplementsExchange
<1>1. Inv /\ [Next]_vars => [Exchange!Next]_(Exchange!exchangeVars)
  BY StepExchanges
<1> QED
  BY <1>1, InitExchange, SpecInv, PTL DEF Spec, ImplementsExchange, Exchange!Spec
-----------------------------------------------------------------------------
(* Nothing is left behind.  A request in hand is never past what it asks    *)
(* for, and has all of it only when that is nothing; a buffer in hand, of   *)
(* which the code keeps the offset against the size, is not past its end,   *)
(* nor at it.  A packed frame alone may fill its buffer and keep it.        *)
Nothing == [p \in 1 .. 3 |-> 0]

Open(c, a) ==
  /\ \A p \in 1 .. 3 : a.done[p] <= Wanted(c, a)[p]
  /\ a.done = Wanted(c, a) => Wanted(c, a) = Nothing

HasRoom(c, u) ==
  /\ c \notin Planar => u.offset <= UserSize
  /\ c \notin Frames => u.offset # UserSize

InHandOpen(c) ==
  /\ arm[c] # None => Open(c, arm[c])
  /\ \A i \in 1 .. Len(fifo[c]) : Open(c, fifo[c][i])
  /\ user[c] # None => HasRoom(c, user[c])

(* Nothing follows the last request of a stream, and a task that does not   *)
(* run has no requests in hand.                                             *)
IsPosted(c) == message # None /\ message.chan = c

LastIsLast(c) ==
  /\ IsPosted(c) /\ message.kind = "last" => c \in ended
  /\ arm[c] # None /\ arm[c].kind = "last" => c \in ended /\ fifo[c] = <<>> /\ ~IsPosted(c)
  /\ \A i \in 1 .. Len(fifo[c]) :
       fifo[c][i].kind = "last" => c \in ended /\ i = Len(fifo[c]) /\ ~IsPosted(c)

IdleHasNone(c) == state[c[1]] = "idle" => arm[c] = None /\ fifo[c] = <<>>

OpenInv == \A c \in Channels : InHandOpen(c) /\ LastIsLast(c) /\ IdleHasNone(c)

(* A packed frame and its buffer are filled together.  The buffers that     *)
(* wait are of their channel.                                               *)
Packed == Frames \ Planar

Abreast(c) ==
  /\ user[c] # None => arm[c] # None /\ user[c].offset = arm[c].done[1]
  /\ user[c] = None /\ arm[c] # None => arm[c].done[1] = 0
  /\ \A i \in 1 .. Len(fifo[c]) : fifo[c][i].done[1] = 0

PairInv ==
  /\ \A c \in Packed : Abreast(c)
  /\ \A c \in Channels : queue[c] \in Seq(UserBufs[c])

(* A message and a transfer have an event coming. *)
EventInv ==
  /\ message # None => "arm" \in events \cup todo
  /\ \A d \in Directions : Busy(d) => engine[d] \/ d \in events \cup todo

(* How far x is from where a scan of n starts, and whether the scan has yet *)
(* to come to a channel.                                                    *)
Distance(x, start, n) == IF x >= start THEN x - start ELSE x + n - start

ToCome(c) ==
  LET task == Distance(c[1], startTask, NTasks)
  IN \/ scan.task < task
     \/ scan.task = task /\ scan.type <= Distance(c[2], startType[c[1]], NTypes)

(* Something will bring the scan to the channel: a message of a task that   *)
(* runs, an event, a transfer, or the scan itself.                          *)
Awaited(c) ==
  \/ message # None /\ state[message.chan[1]] = "run"
  \/ (events \cup todo) \cap {"read", "write", "data"} # {}
  \/ \E d \in Directions : Busy(d)
  \/ scan # None /\ ToCome(c)

Waits(c) == c \in Served /\ state[c[1]] = "run" /\ Lent(c) # <<>> /\ Offered(c) # <<>>

AwaitedInv == \A c \in Channels : Waits(c) => Awaited(c)

ScanBegins == scan # None /\ scan.audio => scan.task = 0 /\ scan.type = 0

LeftInv == Inv /\ OpenInv /\ PairInv /\ EventInv /\ ScanBegins /\ AwaitedInv
-----------------------------------------------------------------------------
LEMMA NoneOpen == ASSUME NEW c, NEW a, a.done = Nothing PROVE Open(c, a)
<1>1. Wanted(c, a) \in [1 .. 3 -> Nat]
  BY WantedTypes
<1> QED
  BY <1>1 DEF Open, Nothing

(* What a look at a channel or a finished transfer leaves. *)
LeavesOpen(c, r) ==
  /\ r.arm # None => Open(c, r.arm) /\ RequestOf(c) # None /\ r.arm.kind = RequestOf(c).kind
  /\ r.user # None => HasRoom(c, r.user)

LEMMA LengthZero == ASSUME NEW S, NEW s \in Seq(S), Len(s) = 0 PROVE s = <<>>
  BY EmptySeq

LEMMA TakesLast ==
  ASSUME DataTypes, NEW c \in Channels, InHandOpen(c), LastIsLast(c), Takes(c)
  PROVE  /\ RequestOf(c) # None => Open(c, RequestOf(c))
         /\ BufferOf(c) # None => HasRoom(c, BufferOf(c))
         /\ \A i \in 1 .. Len(fifo'[c]) : Open(c, fifo'[c][i])
         /\ RequestOf(c) # None /\ RequestOf(c).kind = "last" =>
              c \in ended /\ fifo'[c] = <<>> /\ ~IsPosted(c)
         /\ \A i \in 1 .. Len(fifo'[c]) :
              fifo'[c][i].kind = "last" => c \in ended /\ i = Len(fifo'[c]) /\ ~IsPosted(c)
<1>1. fifo[c] \in Seq(Requests)
  BY DEF DataTypes
<1>2. BufferOf(c) # None => HasRoom(c, BufferOf(c))
  <2>1. CASE Gets(c)
    <3>1. BufferOf(c).offset = 0 /\ UserSize \in Nat \ {0}
      BY <2>1, SizesAssumption DEF BufferOf
    <3> QED
      BY <3>1 DEF HasRoom
  <2>2. CASE ~Gets(c)
    BY <2>2 DEF BufferOf, InHandOpen
  <2> QED
    BY <2>1, <2>2
<1>3. CASE Fetches(c)
  <2>1. fifo[c] # <<>> /\ RequestOf(c) = Head(fifo[c]) /\ fifo'[c] = Tail(fifo[c])
    BY <1>3 DEF Takes, Fetches, RequestOf, DataTypes
  <2>2. /\ Head(fifo[c]) = fifo[c][1] /\ Len(fifo[c]) \in Nat /\ Len(fifo[c]) >= 1
        /\ Tail(fifo[c]) \in Seq(Requests) /\ Len(Tail(fifo[c])) = Len(fifo[c]) - 1
        /\ \A i \in 1 .. Len(Tail(fifo[c])) : Tail(fifo[c])[i] = fifo[c][i + 1]
    BY <1>1, <2>1, HeadTailProperties
  <2>3. 1 \in 1 .. Len(fifo[c])
    BY <2>2
  <2>4. Open(c, RequestOf(c))
    BY <2>1, <2>2, <2>3 DEF InHandOpen
  <2>5. \A i \in 1 .. Len(fifo'[c]) : fifo'[c][i] = fifo[c][i + 1] /\ i + 1 \in 1 .. Len(fifo[c])
    BY <2>1, <2>2
  <2>6. RequestOf(c).kind = "last" => c \in ended /\ fifo'[c] = <<>> /\ ~IsPosted(c)
    <3>1. RequestOf(c).kind = "last" => c \in ended /\ 1 = Len(fifo[c]) /\ ~IsPosted(c)
      BY <2>1, <2>2, <2>3 DEF LastIsLast
    <3>2. 1 = Len(fifo[c]) => Tail(fifo[c]) = <<>>
      <4>1. 1 = Len(fifo[c]) => Len(Tail(fifo[c])) = 0
        BY <2>2
      <4>2. Tail(fifo[c]) \in Seq(Requests)
        BY <2>2
      <4> QED
        BY <4>1, <4>2, LengthZero, Zenon
    <3> QED
      BY <2>1, <3>1, <3>2
  <2>7. ASSUME NEW i \in 1 .. Len(fifo'[c]), fifo'[c][i].kind = "last"
        PROVE  c \in ended /\ i = Len(fifo'[c]) /\ ~IsPosted(c)
    <3>1. c \in ended /\ i + 1 = Len(fifo[c]) /\ ~IsPosted(c)
      BY <2>5, <2>7 DEF LastIsLast
    <3> QED
      BY <2>1, <2>2, <3>1
  <2> QED
    BY <1>2, <2>4, <2>5, <2>6, <2>7 DEF InHandOpen
<1>4. CASE ~Fetches(c)
  <2>1. RequestOf(c) = arm[c] /\ fifo'[c] = fifo[c]
    BY <1>4 DEF Takes, RequestOf
  <2> QED
    BY <1>2, <2>1 DEF InHandOpen, LastIsLast
<1> QED
  BY <1>3, <1>4

LEMMA LookKeepsOpen ==
  ASSUME DataTypes, OpenInv, NEW c \in Channels, NEW r, Takes(c), Leaves(c, r), LeavesOpen(c, r),
         UNCHANGED <<message, ended, state>>, state[c[1]] = "run"
  PROVE  OpenInv'
<1>1. arm'[c] = r.arm /\ user'[c] = r.user
  BY DEF Leaves, DataTypes
<1>2. InHandOpen(c)' /\ LastIsLast(c)' /\ IdleHasNone(c)'
  <2>1. InHandOpen(c) /\ LastIsLast(c)
    BY DEF OpenInv
  <2>2. InHandOpen(c)'
    BY <1>1, <2>1, TakesLast DEF InHandOpen, LeavesOpen, Open, HasRoom
  <2>3. LastIsLast(c)'
    BY <1>1, <2>1, TakesLast DEF LastIsLast, LeavesOpen, IsPosted
  <2> QED
    BY <2>2, <2>3 DEF IdleHasNone
<1>3. ASSUME NEW e \in Channels \ {c}
      PROVE  InHandOpen(e)' /\ LastIsLast(e)' /\ IdleHasNone(e)'
  <2>1. arm'[e] = arm[e] /\ user'[e] = user[e] /\ fifo'[e] = fifo[e]
    BY DEF DataTypes, Takes, Leaves
  <2>2. InHandOpen(e) /\ LastIsLast(e) /\ IdleHasNone(e)
    BY DEF OpenInv
  <2> QED
    BY <2>1, <2>2 DEF InHandOpen, LastIsLast, IdleHasNone, Open, HasRoom, IsPosted
<1> QED
  BY <1>2, <1>3 DEF OpenInv

LEMMA VisitedRuns == ASSUME NEW c \in Channels, Visits(c) PROVE state[c[1]] = "run"
<1>1. c[1] = ScanTask
  BY DEF Visits, ScanChannel, ScanTask
<1> QED
  BY <1>1 DEF Visits

LEMMA CompleteOpen ==
  ASSUME NEW c \in Channels, NEW a \in Requests, NEW u \in UserBuffers,
         RequestOf(c) # None, a.kind = RequestOf(c).kind,
         \A p \in 1 .. 3 : a.done[p] <= Wanted(c, a)[p],
         c \notin Planar => u.offset <= UserSize
  PROVE  LeavesOpen(c, Complete(c, a, u))
<1> DEFINE r == Complete(c, a, u)
<1>1. r.arm # None => r.arm = a /\ a.done # Wanted(c, a)
  BY DEF Complete
<1>2. r.user # None => r.user = u /\ (c \notin Frames => u.offset # UserSize)
  BY DEF Complete
<1>3. u.offset \in Nat /\ UserSize \in Nat
  BY SizesAssumption DEF UserBuffers
<1> HIDE DEF r
<1>4. r.arm # None => Open(c, r.arm)
  BY <1>1 DEF Open
<1>5. r.user # None => HasRoom(c, r.user)
  BY <1>2, <1>3 DEF HasRoom
<1>6. LeavesOpen(c, r)
  BY <1>1, <1>4, <1>5 DEF LeavesOpen
<1> QED
  BY <1>6 DEF r

LEMMA LookOpen ==
  ASSUME Inv, OpenInv, NEW c \in Channels, ScanWait(c) \/ ScanComplete(c) \/ ScanSend(c)
  PROVE  OpenInv'
<1> DEFINE taken == [arm |-> RequestOf(c), user |-> BufferOf(c)]
           done == Complete(c, RequestOf(c), BufferOf(c))
<1>1. DataTypes
  BY DEF Inv, DataInv
<1>2. Takes(c) /\ Visits(c) /\ UNCHANGED <<message, ended, state>>
  BY DEF ScanWait, ScanComplete, ScanSend, cardVars
<1>3. /\ RequestOf(c) # None => Open(c, RequestOf(c))
      /\ BufferOf(c) # None => HasRoom(c, BufferOf(c))
  BY <1>1, <1>2, TakesLast DEF OpenInv
<1>4. CASE Leaves(c, taken)
  <2>1. LeavesOpen(c, taken)
    BY <1>3 DEF LeavesOpen
  <2> HIDE DEF taken
  <2> QED
    BY <1>1, <1>2, <1>4, <2>1, VisitedRuns, LookKeepsOpen
<1>5. CASE Ready(c) /\ Leaves(c, done)
  <2>1. RequestOf(c) \in Requests /\ BufferOf(c) \in UserBuffers
    BY <1>1, <1>5, TakenTypes DEF Ready
  <2>2. \A p \in 1 .. 3 : RequestOf(c).done[p] <= Wanted(c, RequestOf(c))[p]
    BY <1>3, <1>5 DEF Ready, Open
  <2>3. c \notin Planar => BufferOf(c).offset <= UserSize
    BY <1>3, <1>5 DEF Ready, HasRoom
  <2>4. LeavesOpen(c, done)
    BY <1>5, <2>1, <2>2, <2>3, CompleteOpen DEF Ready
  <2> HIDE DEF done
  <2> QED
    BY <1>1, <1>2, <1>5, <2>4, VisitedRuns, LookKeepsOpen
<1> QED
  BY <1>4, <1>5 DEF ScanWait, ScanComplete, ScanSend

(* What a transfer is credited with was asked for, and fits the buffer. *)
LEMMA CreditFits ==
  ASSUME NEW c \in Channels, NEW a \in Requests, NEW u \in UserBuffers, NEW n \in Nat,
         Open(c, a), HasRoom(c, u), n <= Available(c, a, u),
         NEW p, p = IF c \in Planar THEN Plane(a.done, Planes) ELSE 1
  PROVE  LET b == [a EXCEPT !.done[p] = @ + n]
         IN /\ \A q \in 1 .. 3 : b.done[q] <= Wanted(c, b)[q]
            /\ c \notin Planar => u.offset + n <= UserSize
<1> DEFINE b == [a EXCEPT !.done[p] = @ + n]
<1>1. p \in 1 .. 3
  BY DEF Plane
<1>2. a.done \in [1 .. 3 -> Nat] /\ Wanted(c, a) \in [1 .. 3 -> Nat]
  BY WantedTypes DEF Requests
<1>3. b.done = [a.done EXCEPT ![p] = @ + n] /\ b.kind = a.kind
  BY DEF Requests
<1>4. Wanted(c, b) = Wanted(c, a)
  BY <1>3 DEF Wanted
<1>5. u.offset \in Nat /\ UserSize \in Nat
  BY SizesAssumption DEF UserBuffers
<1>6. n <= Wanted(c, a)[p] - a.done[p] /\ (c \notin Planar => n <= UserSize - u.offset)
  <2>1. Available(c, a, u) =
          IF c \in Planar THEN Wanted(c, a)[p] - a.done[p]
          ELSE Least(Wanted(c, a)[p] - a.done[p], UserSize - u.offset)
    BY DEF Available
  <2>2. Wanted(c, a)[p] \in Nat /\ a.done[p] \in Nat
    BY <1>1, <1>2
  <2> QED
    BY <1>5, <2>1, <2>2 DEF Least
<1> HIDE DEF b
<1>7. \A q \in 1 .. 3 : b.done[q] <= Wanted(c, b)[q]
  BY <1>1, <1>2, <1>3, <1>4, <1>6 DEF Open
<1>8. c \notin Planar => u.offset + n <= UserSize
  BY <1>5, <1>6
<1> QED
  BY <1>7, <1>8 DEF b

LEMMA CompletedOpen ==
  ASSUME Inv, OpenInv, NEW d \in Directions, CompleteData(d)
  PROVE  OpenInv'
<1>1. DataTypes /\ DataInv
  BY DEF Inv, DataInv
<1>2. PICK c \in Channels : c = pending[d].chan
  BY <1>1 DEF DataTypes, CompleteData, Busy, Transfers
<1> DEFINE n == pending[d].length
           p == IF c \in Planar THEN Plane(arm[c].done, Planes) ELSE 1
           a == [arm[c] EXCEPT !.done[p] = @ + n]
           u == [user[c] EXCEPT !.offset = @ + n]
           r == Complete(c, a, u)
<1>3. n \in Nat /\ Covered(d) /\ Busy(d)
  BY <1>1, CoversAll DEF DataInv, DataTypes, CompleteData, Busy, Transfers
<1>4. /\ arm[c] \in Requests /\ user[c] \in UserBuffers /\ state[c[1]] = "run"
      /\ arm[c] # None /\ user[c] # None
      /\ n \in 1 .. Least(Available(c, arm[c], user[c]), MaxDMA)
  BY <1>1, <1>2, <1>3 DEF DataTypes, Covered
<1>5. n <= Available(c, arm[c], user[c])
  <2>1. Available(c, arm[c], user[c]) \in Int /\ MaxDMA \in Nat
    BY <1>4, AvailableType, SizesAssumption
  <2> QED
    BY <1>3, <1>4, <2>1 DEF Least
<1>6. Open(c, arm[c]) /\ HasRoom(c, user[c])
  BY <1>4 DEF OpenInv, InHandOpen
<1>7. p \in 1 .. 3 /\ p = IF c \in Planar THEN Plane(arm[c].done, Planes) ELSE 1
  BY DEF Plane
<1>8. /\ a \in Requests /\ a.kind = arm[c].kind
      /\ u \in UserBuffers /\ u.offset = user[c].offset + n
  BY <1>3, <1>4, <1>7 DEF Requests, UserBuffers
<1>9. /\ \A q \in 1 .. 3 : a.done[q] <= Wanted(c, a)[q]
      /\ c \notin Planar => u.offset <= UserSize
  <2> HIDE DEF n, p
  <2> QED
    BY <1>3, <1>4, <1>5, <1>6, <1>7, <1>8, CreditFits
<1>10. RequestOf(c) = arm[c] /\ ~Fetches(c) /\ ~Dequeues(c)
  BY <1>4 DEF RequestOf, Fetches, Dequeues
<1>11. Takes(c) /\ Leaves(c, r) /\ UNCHANGED <<message, ended, state>>
  BY <1>2, <1>10 DEF Takes, CompleteData, cardVars
<1>12. LeavesOpen(c, r)
  <2> HIDE DEF a, u
  <2> QED
    BY <1>4, <1>8, <1>9, <1>10, CompleteOpen
<1> HIDE DEF r
<1> QED
  BY <1>1, <1>4, <1>11, <1>12, LookKeepsOpen

LEMMA MessageOpen == ASSUME Inv, OpenInv, ProcessArmMessage PROVE OpenInv'
<1>1. DataTypes /\ CardInv /\ StateInv
  BY DEF Inv, DataInv
<1>2. message \in Messages /\ message' = None /\ UNCHANGED <<ended, user, state>>
  BY <1>1 DEF CardInv, MessageThere, ProcessArmMessage, Handles
<1>3. PICK c \in Channels : c = message.chan
  BY <1>2 DEF Messages
<1> DEFINE request == Request(message.buf, message.kind)
<1>4. IsPosted(c) /\ \A e \in Channels : ~IsPosted(e)'
  BY <1>2, <1>3, NoneAssumption DEF IsPosted
<1>5. ASSUME NEW e \in Channels \ {c}
      PROVE  InHandOpen(e)' /\ LastIsLast(e)' /\ IdleHasNone(e)'
  <2>1. arm'[e] = arm[e] /\ user'[e] = user[e] /\ fifo'[e] = fifo[e]
    BY <1>1, <1>2, <1>3 DEF DataTypes, ProcessArmMessage
  <2>2. InHandOpen(e) /\ LastIsLast(e) /\ IdleHasNone(e)
    BY DEF OpenInv
  <2> QED
    BY <1>2, <1>4, <2>1, <2>2 DEF InHandOpen, LastIsLast, IdleHasNone, Open, HasRoom
<1>6. InHandOpen(c) /\ LastIsLast(c) /\ c[1] \in Tasks
  BY ChannelsAssumption DEF OpenInv
<1>7. CASE state[c[1]] = "run"
  <2>1. arm'[c] = arm[c] /\ fifo'[c] = Append(fifo[c], request) /\ user'[c] = user[c]
    BY <1>1, <1>2, <1>3, <1>7 DEF DataTypes, ProcessArmMessage
  <2>2. request \in Requests /\ request.done = Nothing /\ request.kind = message.kind
    BY <1>2 DEF Messages, Requests, Request, Nothing
  <2>3. Open(c, request)
    BY <2>2, NoneOpen
  <2> HIDE DEF request
  <2>4. fifo[c] \in Seq(Requests)
    BY <1>1 DEF DataTypes
  <2>5. /\ Len(fifo'[c]) = Len(fifo[c]) + 1 /\ Len(fifo[c]) \in Nat
        /\ \A i \in 1 .. Len(fifo[c]) : fifo'[c][i] = fifo[c][i]
        /\ fifo'[c][Len(fifo[c]) + 1] = request
    BY <2>1, <2>2, <2>4, AppendProperties
  <2>6. InHandOpen(c)'
    <3>1. \A i \in 1 .. Len(fifo'[c]) : Open(c, fifo'[c][i])
      BY <1>6, <2>3, <2>5 DEF InHandOpen
    <3> QED
      BY <1>6, <2>1, <3>1 DEF InHandOpen, Open, HasRoom
  <2>7. LastIsLast(c)'
    <3>1. ASSUME NEW i \in 1 .. Len(fifo'[c]), fifo'[c][i].kind = "last"
          PROVE  c \in ended /\ i = Len(fifo'[c])
      BY <1>4, <1>6, <2>2, <2>5, <3>1 DEF LastIsLast
    <3>2. arm[c] # None => arm[c].kind # "last"
      BY <1>4, <1>6 DEF LastIsLast
    <3> QED
      BY <1>2, <1>4, <2>1, <3>1, <3>2 DEF LastIsLast
  <2> QED
    BY <1>2, <1>5, <1>7, <2>6, <2>7 DEF OpenInv, IdleHasNone
<1>8. CASE state[c[1]] # "run"
  <2>1. arm'[c] = None /\ fifo'[c] = <<>> /\ user'[c] = user[c]
    BY <1>1, <1>2, <1>3, <1>8 DEF DataTypes, ProcessArmMessage
  <2>2. 1 .. Len(fifo'[c]) = {}
    BY <2>1
  <2> QED
    BY <1>4, <1>5, <1>6, <2>1, <2>2 DEF OpenInv, InHandOpen, LastIsLast, IdleHasNone, HasRoom
<1> QED
  BY <1>7, <1>8

LEMMA IdleTaskOpen == ASSUME Inv, OpenInv, ScanIdleTask PROVE OpenInv'
<1>1. DataTypes
  BY DEF Inv, DataInv
<1>2. UNCHANGED <<message, ended, user, state>>
  BY DEF ScanIdleTask, cardVars
<1> SUFFICES ASSUME NEW c \in Channels
             PROVE  InHandOpen(c)' /\ LastIsLast(c)' /\ IdleHasNone(c)'
  BY DEF OpenInv
<1>3. InHandOpen(c) /\ LastIsLast(c) /\ IdleHasNone(c)
  BY DEF OpenInv
<1>4. CASE c[1] = ScanTask
  <2>1. arm'[c] = None /\ fifo'[c] = <<>> /\ 1 .. Len(fifo'[c]) = {}
    BY <1>4 DEF ScanIdleTask
  <2> QED
    BY <1>2, <1>3, <2>1 DEF InHandOpen, LastIsLast, IdleHasNone, IsPosted, HasRoom
<1>5. CASE c[1] # ScanTask
  <2>1. arm'[c] = arm[c] /\ fifo'[c] = fifo[c]
    BY <1>5 DEF ScanIdleTask
  <2> QED
    BY <1>2, <1>3, <2>1 DEF InHandOpen, LastIsLast, IdleHasNone, IsPosted, Open, HasRoom
<1> QED
  BY <1>4, <1>5

LEMMA PostOpen ==
  ASSUME Inv, OpenInv, NEW c \in Channels, NEW kind \in KindsOf[c], NEW b \in ArmBufs[c],
         ArmPosts(c, b, kind)
  PROVE  OpenInv'
<1>1. /\ message = None /\ message' = [chan |-> c, buf |-> b, kind |-> kind] /\ c \notin ended
      /\ ended' = IF kind = "last" THEN ended \cup {c} ELSE ended
      /\ UNCHANGED <<fifo, arm, user, state>>
  BY DEF ArmPosts, dataVars
<1> SUFFICES ASSUME NEW e \in Channels
             PROVE  InHandOpen(e)' /\ LastIsLast(e)' /\ IdleHasNone(e)'
  BY DEF OpenInv
<1>2. InHandOpen(e) /\ LastIsLast(e) /\ IdleHasNone(e)
  BY DEF OpenInv
<1>3. InHandOpen(e)' /\ IdleHasNone(e)'
  BY <1>1, <1>2 DEF InHandOpen, IdleHasNone, Open, HasRoom
<1>4. IsPosted(e)' => e = c
  BY <1>1 DEF IsPosted
<1>5. LastIsLast(e)'
  BY <1>1, <1>2, <1>4 DEF LastIsLast
<1> QED
  BY <1>3, <1>5

LEMMA OpenStep == ASSUME Inv, OpenInv, [Next]_vars PROVE OpenInv'
<1>1. CASE \E c \in Channels : ScanWait(c) \/ ScanComplete(c) \/ ScanSend(c)
  BY <1>1, LookOpen
<1>2. CASE \E d \in Directions : CompleteData(d)
  BY <1>2, CompletedOpen
<1>3. CASE ProcessArmMessage \/ ScanIdleTask
  BY <1>3, MessageOpen, IdleTaskOpen
<1>4. CASE \E c \in Channels : \E kind \in KindsOf[c], b \in ArmBufs[c] : ArmPosts(c, b, kind)
  BY <1>4, PostOpen
<1>5. CASE \E t \in Tasks : CEncoderTask_Start(t)
  <2>1. UNCHANGED <<message, ended, fifo, arm, user>> /\ \A t \in Tasks : state'[t] = "idle" => state[t] = "idle"
    BY <1>5 DEF CEncoderTask_Start, cardVars, dataVars, Inv, StateInv
  <2>2. \A c \in Channels : c[1] \in Tasks
    BY ChannelsAssumption
  <2> QED
    BY <2>1, <2>2 DEF OpenInv, InHandOpen, LastIsLast, IdleHasNone, IsPosted, Open, HasRoom
<1>6. CASE UNCHANGED <<message, ended, fifo, arm, user, state>>
  BY <1>6 DEF OpenInv, InHandOpen, LastIsLast, IdleHasNone, IsPosted, Open, HasRoom
<1> QED
  BY <1>1, <1>2, <1>3, <1>4, <1>5, <1>6
     DEF Next, Worker, Environment, AddBuffer, EngineDone, WaitEvents, ProcessData, ScanSkip,
         vars, cardVars, dataVars

LEMMA InitOpen == Init => OpenInv
<1> SUFFICES ASSUME Init, NEW c \in Channels
             PROVE  InHandOpen(c) /\ LastIsLast(c) /\ IdleHasNone(c)
  BY DEF OpenInv
<1>1. arm[c] = None /\ user[c] = None /\ fifo[c] = <<>> /\ message = None /\ 1 .. Len(fifo[c]) = {}
  BY DEF Init
<1> QED
  BY <1>1 DEF InHandOpen, LastIsLast, IdleHasNone, IsPosted

LEMMA SpecOpen == Spec => [](Inv /\ OpenInv)
<1>1. Inv /\ OpenInv /\ [Next]_vars => (Inv /\ OpenInv)'
  BY StepInv, OpenStep
<1> QED
  BY <1>1, InitInv, InitOpen, PTL DEF Spec

(* No request is credited with more than it asked for, and no buffer of the *)
(* user with more than its size, planar frames apart, whose buffers are not *)
(* measured against it: what is left of either, which the code computes in  *)
(* unsigned arithmetic, is never below zero, and a transfer, which          *)
(* TransferIsCovered keeps within it, ends where they end at most.  Other   *)
(* than on a channel of frames, a buffer is not kept once it is full.       *)
NothingOverrun ==
  \A c \in Channels :
    /\ arm[c] # None => \A p \in 1 .. 3 : arm[c].done[p] <= Wanted(c, arm[c])[p]
    /\ c \notin Planar /\ user[c] # None => user[c].offset <= UserSize
    /\ c \notin Frames /\ user[c] # None => user[c].offset # UserSize

THEOREM NeverOverrun == Spec => []NothingOverrun
<1>1. OpenInv => NothingOverrun
  BY DEF OpenInv, InHandOpen, Open, HasRoom, NothingOverrun
<1> QED
  BY <1>1, SpecOpen, PTL
-----------------------------------------------------------------------------
(* Frames that are packed, and the queue of each channel. *)

LEMMA QueueOwn ==
  ASSUME NEW c \in Channels, queue[c] \in Seq(UserBufs[c]), DataTypes, Takes(c)
  PROVE  queue'[c] \in Seq(UserBufs[c])
<1>1. CASE Dequeues(c)
  <2>1. queue'[c] = Tail(queue[c]) /\ queue[c] # <<>>
    BY <1>1 DEF Takes, Dequeues, DataTypes
  <2> QED
    BY <2>1, HeadTailProperties
<1>2. CASE ~Dequeues(c)
  BY <1>2 DEF Takes
<1> QED
  BY <1>1, <1>2

(* What a look at a channel or a finished transfer leaves of a packed frame *)
(* and its buffer: both, as far as each other, or neither.                  *)
Together(r) ==
  /\ r.user # None => r.arm # None /\ r.user.offset = r.arm.done[1]
  /\ r.user = None /\ r.arm # None => r.arm.done[1] = 0

LEMMA LookKeepsPairs ==
  ASSUME DataTypes, PairInv, NEW c \in Channels, NEW r, Takes(c), Leaves(c, r),
         c \in Packed => Together(r)
  PROVE  PairInv'
<1>1. arm'[c] = r.arm /\ user'[c] = r.user
  BY DEF Leaves, DataTypes
<1>2. c \in Packed => Abreast(c)'
  <2> SUFFICES ASSUME c \in Packed PROVE Abreast(c)'
    OBVIOUS
  <2>1. ASSUME NEW i \in 1 .. Len(fifo'[c]) PROVE fifo'[c][i].done[1] = 0
    <3>1. fifo[c] \in Seq(Requests) /\ Abreast(c)
      BY DEF DataTypes, PairInv
    <3>2. CASE Fetches(c)
      <4>1. fifo'[c] = Tail(fifo[c]) /\ fifo[c] # <<>>
        BY <3>2 DEF Takes, Fetches, DataTypes
      <4>2. /\ Len(fifo[c]) \in Nat /\ Len(Tail(fifo[c])) = Len(fifo[c]) - 1
            /\ \A j \in 1 .. Len(Tail(fifo[c])) : Tail(fifo[c])[j] = fifo[c][j + 1]
        BY <3>1, <4>1, HeadTailProperties
      <4>3. fifo'[c][i] = fifo[c][i + 1] /\ i + 1 \in 1 .. Len(fifo[c])
        BY <2>1, <4>1, <4>2
      <4> QED
        BY <3>1, <4>3 DEF Abreast
    <3>3. CASE ~Fetches(c)
      BY <3>1, <3>3 DEF Takes, Abreast
    <3> QED
      BY <3>2, <3>3
  <2> QED
    BY <1>1, <2>1 DEF Abreast, Together
<1>3. queue'[c] \in Seq(UserBufs[c])
  BY QueueOwn DEF PairInv
<1>4. ASSUME NEW e \in Channels \ {c}
      PROVE  (e \in Packed => Abreast(e)') /\ queue'[e] \in Seq(UserBufs[e])
  <2>1. arm'[e] = arm[e] /\ user'[e] = user[e] /\ fifo'[e] = fifo[e] /\ queue'[e] = queue[e]
    BY DEF DataTypes, Takes, Leaves
  <2> QED
    BY <2>1 DEF PairInv, Abreast
<1>5. Packed \subseteq Channels
  BY ChannelsAssumption DEF Packed
<1> QED
  BY <1>2, <1>3, <1>4, <1>5 DEF PairInv

LEMMA TakenTogether ==
  ASSUME DataTypes, PairInv, NEW c \in Packed
  PROVE  Together([arm |-> RequestOf(c), user |-> BufferOf(c)])
<1>1. Abreast(c) /\ c \in Channels /\ fifo[c] \in Seq(Requests)
  BY ChannelsAssumption DEF PairInv, Packed, DataTypes
<1>2. CASE Fetches(c)
  <2>1. user[c] = None /\ RequestOf(c) = Head(fifo[c]) /\ fifo[c] # <<>>
    BY <1>1, <1>2 DEF Abreast, Fetches, RequestOf
  <2>2. Head(fifo[c]) = fifo[c][1] /\ 1 \in 1 .. Len(fifo[c]) /\ Head(fifo[c]) \in Requests
    BY <1>1, <2>1, HeadTailProperties, LenProperties
  <2>3. RequestOf(c) # None /\ RequestOf(c).done[1] = 0
    BY <1>1, <2>1, <2>2, NoneAssumption DEF Abreast
  <2>4. BufferOf(c) # None => BufferOf(c).offset = 0
    BY <2>1 DEF BufferOf
  <2> QED
    BY <2>3, <2>4 DEF Together
<1>3. CASE ~Fetches(c)
  <2>1. RequestOf(c) = arm[c]
    BY <1>3 DEF RequestOf
  <2>2. CASE Gets(c)
    <3>1. user[c] = None /\ RequestOf(c) # None /\ BufferOf(c) = [buf |-> Head(queue[c]), offset |-> 0]
      BY <2>2 DEF Gets, Dequeues, BufferOf
    <3> QED
      BY <1>1, <2>1, <3>1 DEF Abreast, Together
  <2>3. CASE ~Gets(c)
    BY <1>1, <2>1, <2>3 DEF Abreast, Together, BufferOf
  <2> QED
    BY <2>2, <2>3
<1> QED
  BY <1>2, <1>3

LEMMA CompletedTogether ==
  ASSUME NEW c \in Packed, NEW a \in Requests, NEW u \in UserBuffers, u.offset = a.done[1]
  PROVE  Together(Complete(c, a, u))
<1>1. c \in Frames
  BY DEF Packed
<1>2. \/ Complete(c, a, u) = [arm |-> None, user |-> None]
      \/ Complete(c, a, u) = [arm |-> a, user |-> u]
  BY <1>1 DEF Complete
<1> QED
  BY <1>2, NoneAssumption DEF Together

LEMMA LookPairs ==
  ASSUME Inv, PairInv, NEW c \in Channels, ScanWait(c) \/ ScanComplete(c) \/ ScanSend(c)
  PROVE  PairInv'
<1> DEFINE taken == [arm |-> RequestOf(c), user |-> BufferOf(c)]
           done == Complete(c, RequestOf(c), BufferOf(c))
<1>1. DataTypes /\ Takes(c)
  BY DEF Inv, DataInv, ScanWait, ScanComplete, ScanSend
<1>2. c \in Packed => Together(taken)
  BY <1>1, TakenTogether
<1>3. CASE Leaves(c, taken)
  <2> HIDE DEF taken
  <2> QED
    BY <1>1, <1>2, <1>3, LookKeepsPairs
<1>4. CASE Ready(c) /\ Leaves(c, done)
  <2>1. RequestOf(c) \in Requests /\ BufferOf(c) \in UserBuffers
    BY <1>1, <1>4, TakenTypes DEF Ready
  <2>2. c \in Packed => BufferOf(c).offset = RequestOf(c).done[1]
    BY <1>2, <1>4 DEF Together, Ready
  <2>3. c \in Packed => Together(done)
    BY <2>1, <2>2, CompletedTogether
  <2> HIDE DEF done
  <2> QED
    BY <1>1, <1>4, <2>3, LookKeepsPairs
<1> QED
  BY <1>3, <1>4 DEF ScanWait, ScanComplete, ScanSend

LEMMA CompletedPairs ==
  ASSUME Inv, PairInv, NEW d \in Directions, CompleteData(d)
  PROVE  PairInv'
<1>1. DataTypes /\ DataInv
  BY DEF Inv, DataInv
<1>2. PICK c \in Channels : c = pending[d].chan
  BY <1>1 DEF DataTypes, CompleteData, Busy, Transfers
<1> DEFINE n == pending[d].length
           p == IF c \in Planar THEN Plane(arm[c].done, Planes) ELSE 1
           a == [arm[c] EXCEPT !.done[p] = @ + n]
           u == [user[c] EXCEPT !.offset = @ + n]
           r == Complete(c, a, u)
<1>3. n \in Nat /\ Covered(d) /\ Busy(d)
  BY <1>1, CoversAll DEF DataInv, DataTypes, CompleteData, Busy, Transfers
<1>4. arm[c] \in Requests /\ user[c] \in UserBuffers /\ arm[c] # None /\ user[c] # None
  BY <1>1, <1>2, <1>3 DEF DataTypes, Covered
<1>5. p \in 1 .. 3 /\ (c \in Packed => p = 1)
  BY DEF Plane, Packed
<1>6. /\ a \in Requests /\ a.done[p] = arm[c].done[p] + n
      /\ u \in UserBuffers /\ u.offset = user[c].offset + n
  BY <1>3, <1>4, <1>5 DEF Requests, UserBuffers
<1>7. c \in Packed => u.offset = a.done[1]
  <2>1. c \in Packed => user[c].offset = arm[c].done[1]
    BY <1>4 DEF PairInv, Abreast
  <2> HIDE DEF a, u, p
  <2> QED
    BY <1>5, <1>6, <2>1
<1>8. c \in Packed => Together(r)
  <2> HIDE DEF a, u
  <2> QED
    BY <1>6, <1>7, CompletedTogether
<1>9. Takes(c) /\ Leaves(c, r)
  <2>1. ~Fetches(c) /\ ~Dequeues(c)
    BY <1>4 DEF Fetches, Dequeues
  <2> QED
    BY <1>2, <2>1 DEF Takes, CompleteData
<1> HIDE DEF r
<1> QED
  BY <1>1, <1>8, <1>9, LookKeepsPairs

LEMMA MessagePairs == ASSUME Inv, OpenInv, PairInv, ProcessArmMessage PROVE PairInv'
<1>1. DataTypes /\ CardInv /\ StateInv
  BY DEF Inv, DataInv
<1>2. message \in Messages /\ UNCHANGED <<user, queue, state>>
  BY <1>1 DEF CardInv, MessageThere, ProcessArmMessage, Handles
<1>3. PICK c \in Channels : c = message.chan
  BY <1>2 DEF Messages
<1> DEFINE request == Request(message.buf, message.kind)
<1>4. ASSUME NEW e \in Packed \ {c} PROVE Abreast(e)'
  <2>1. arm'[e] = arm[e] /\ user'[e] = user[e] /\ fifo'[e] = fifo[e]
    BY <1>1, <1>2, <1>3, ChannelsAssumption DEF DataTypes, ProcessArmMessage, Packed
  <2> QED
    BY <2>1 DEF PairInv, Abreast
<1>5. ASSUME c \in Packed PROVE Abreast(c)'
  <2>1. Abreast(c)
    BY <1>5 DEF PairInv
  <2>2. CASE state[c[1]] = "run"
    <3>1. arm'[c] = arm[c] /\ fifo'[c] = Append(fifo[c], request) /\ user'[c] = user[c]
      BY <1>1, <1>2, <1>3, <2>2 DEF DataTypes, ProcessArmMessage
    <3>2. request \in Requests /\ request.done[1] = 0 /\ fifo[c] \in Seq(Requests)
      <4>1. request \in Requests
        BY <1>2 DEF Messages, Requests, Request
      <4>2. request.done = [p \in 1 .. 3 |-> 0]
        BY DEF Request
      <4> QED
        BY <1>1, <4>1, <4>2 DEF DataTypes
    <3> HIDE DEF request
    <3>3. /\ Len(fifo'[c]) = Len(fifo[c]) + 1 /\ Len(fifo[c]) \in Nat
          /\ \A i \in 1 .. Len(fifo[c]) : fifo'[c][i] = fifo[c][i]
          /\ fifo'[c][Len(fifo[c]) + 1] = request
      BY <3>1, <3>2, AppendProperties
    <3>4. \A i \in 1 .. Len(fifo'[c]) : fifo'[c][i].done[1] = 0
      BY <2>1, <3>2, <3>3 DEF Abreast
    <3> QED
      BY <2>1, <3>1, <3>4 DEF Abreast
  <2>3. CASE state[c[1]] # "run"
    <3>1. arm[c] = None
      <4>1. state[c[1]] = "idle"
        BY <1>1, <2>3, ChannelsAssumption DEF StateInv
      <4> QED
        BY <4>1 DEF OpenInv, IdleHasNone
    <3>2. arm'[c] = None /\ fifo'[c] = <<>> /\ user'[c] = user[c] /\ 1 .. Len(fifo'[c]) = {}
      BY <1>1, <1>2, <1>3, <2>3 DEF DataTypes, ProcessArmMessage
    <3> QED
      BY <2>1, <3>1, <3>2 DEF Abreast
  <2> QED
    BY <2>2, <2>3
<1> QED
  BY <1>2, <1>4, <1>5 DEF PairInv

LEMMA IdleTaskPairs == ASSUME OpenInv, PairInv, ScanIdleTask PROVE PairInv'
<1>1. UNCHANGED <<user, queue>> /\ state[ScanTask] = "idle"
  BY DEF ScanIdleTask
<1>2. ASSUME NEW c \in Packed PROVE Abreast(c)'
  <2>1. Abreast(c) /\ c \in Channels
    BY ChannelsAssumption DEF PairInv, Packed
  <2>2. CASE c[1] = ScanTask
    <3>1. arm[c] = None
      BY <1>1, <2>1, <2>2 DEF OpenInv, IdleHasNone
    <3>2. arm'[c] = None /\ fifo'[c] = <<>> /\ 1 .. Len(fifo'[c]) = {}
      BY <2>1, <2>2 DEF ScanIdleTask
    <3> QED
      BY <1>1, <2>1, <3>1, <3>2 DEF Abreast
  <2>3. CASE c[1] # ScanTask
    <3>1. arm'[c] = arm[c] /\ fifo'[c] = fifo[c]
      BY <2>1, <2>3 DEF ScanIdleTask
    <3> QED
      BY <1>1, <2>1, <3>1 DEF Abreast
  <2> QED
    BY <2>2, <2>3
<1> QED
  BY <1>1, <1>2 DEF PairInv

LEMMA PairStep == ASSUME Inv, OpenInv, PairInv, [Next]_vars PROVE PairInv'
<1>1. CASE \E c \in Channels : ScanWait(c) \/ ScanComplete(c) \/ ScanSend(c)
  BY <1>1, LookPairs
<1>2. CASE \E d \in Directions : CompleteData(d)
  BY <1>2, CompletedPairs
<1>3. CASE ProcessArmMessage \/ ScanIdleTask
  BY <1>3, MessagePairs, IdleTaskPairs
<1>4. ASSUME NEW c \in Channels, NEW u \in UserBufs[c], AddBuffer(c, u) PROVE PairInv'
  <2>1. queue' = [queue EXCEPT ![c] = Append(@, u)] /\ UNCHANGED <<fifo, arm, user>>
    BY <1>4 DEF AddBuffer
  <2>2. queue \in [Channels -> Seq(AllUserBufs)] /\ \A e \in Channels : queue[e] \in Seq(UserBufs[e])
    BY DEF Inv, DataInv, DataTypes, PairInv
  <2>3. Append(queue[c], u) \in Seq(UserBufs[c])
    BY <2>2, AppendProperties
  <2> QED
    BY <2>1, <2>2, <2>3 DEF PairInv, Abreast
<1>5. CASE UNCHANGED <<queue, fifo, arm, user>>
  BY <1>5 DEF PairInv, Abreast
<1> QED
  BY <1>1, <1>2, <1>3, <1>4, <1>5
     DEF Next, Worker, Environment, ArmPosts, CEncoderTask_Start, EngineDone, WaitEvents,
         ProcessData, ScanSkip, vars, dataVars

LEMMA InitPairs == Init => PairInv
<1> SUFFICES ASSUME Init PROVE PairInv
  OBVIOUS
<1>1. ASSUME NEW c \in Channels PROVE Abreast(c) /\ queue[c] \in Seq(UserBufs[c])
  <2>1. /\ arm[c] = None /\ user[c] = None /\ fifo[c] = <<>> /\ queue[c] = <<>>
        /\ 1 .. Len(fifo[c]) = {}
    BY DEF Init
  <2> QED
    BY <2>1, EmptySeq DEF Abreast
<1> QED
  BY <1>1, ChannelsAssumption DEF PairInv, Packed
-----------------------------------------------------------------------------
(* Events, and where the scan begins. *)

LEMMA EventStep == ASSUME Inv, EventInv, [Next]_vars PROVE EventInv'
<1>1. /\ message # None => "arm" \in events \cup todo
      /\ \A d \in Directions : Busy(d) => engine[d] \/ d \in events \cup todo
  BY DEF EventInv
<1>2. /\ pending \in [Directions -> Transfers \cup {None}] /\ engine \in [Directions -> BOOLEAN]
      /\ "arm" \notin Directions /\ "data" \notin Directions
  BY DEF Inv, DataInv, DataTypes, EngineInv, Directions
<1>3. ASSUME NEW c \in Channels, NEW kind \in KindsOf[c], NEW b \in ArmBufs[c],
             ArmPosts(c, b, kind)
      PROVE  EventInv'
  BY <1>1, <1>3 DEF ArmPosts, EventInv, Busy, dataVars, workerVars
<1>4. ASSUME NEW d \in Directions, EngineDone(d) PROVE EventInv'
  BY <1>1, <1>2, <1>4 DEF EngineDone, EventInv, Busy, dataVars, workerVars
<1>5. CASE WaitEvents
  BY <1>1, <1>5 DEF WaitEvents, EventInv, Busy, dataVars, cardVars
<1>6. CASE ProcessArmMessage
  BY <1>1, <1>2, <1>6 DEF ProcessArmMessage, Handles, EventInv, Busy
<1>7. ASSUME NEW d \in Directions, CompleteData(d) PROVE EventInv'
  <2>1. /\ todo' = todo \ {d} /\ pending' = [pending EXCEPT ![d] = None]
        /\ UNCHANGED <<message, engine, events>>
    BY <1>7 DEF CompleteData, Handles, cardVars
  <2> QED
    BY <1>1, <1>2, <2>1 DEF EventInv, Busy
<1>8. CASE ProcessData
  BY <1>1, <1>2, <1>8 DEF ProcessData, Handles, EventInv, Busy, cardVars, dataVars
<1>9. ASSUME NEW c \in Channels, ScanSend(c) PROVE EventInv'
  <2>1. /\ engine' = [engine EXCEPT ![Direction[c]] = TRUE] /\ Direction[c] \in Directions
        /\ UNCHANGED <<message, todo, events>>
    BY <1>9, ChannelsAssumption DEF ScanSend
  <2>2. \A d \in Directions \ {Direction[c]} : pending'[d] = pending[d]
    BY <1>2, <1>9 DEF ScanSend
  <2> QED
    BY <1>1, <1>2, <2>1, <2>2 DEF EventInv, Busy
<1>10. CASE events \subseteq events' /\ UNCHANGED <<message, todo, engine, pending>>
  BY <1>1, <1>10 DEF EventInv, Busy
<1> QED
  BY <1>3, <1>4, <1>5, <1>6, <1>7, <1>8, <1>9, <1>10
     DEF Next, Worker, Environment, AddBuffer, CEncoderTask_Start, ScanIdleTask, ScanSkip,
         ScanWait, ScanComplete, vars, cardVars, dataVars, workerVars

LEMMA BeginsStep == ASSUME Inv, ScanBegins, [Next]_vars PROVE ScanBegins'
<1>1. CASE scan' = Start
  BY <1>1 DEF ScanBegins, Start
<1>2. CASE scan # None /\ ScanNextType
  BY <1>2 DEF ScanBegins, ScanNextType, ScanNextTask, ScanAfterAudio, Inv, ScanInv, Scans
<1>3. CASE ScanNextTask \/ scan' = None \/ scan' = scan
  BY <1>3 DEF ScanBegins, ScanNextTask
<1> QED
  BY <1>1, <1>2, <1>3
     DEF Next, Worker, Environment, ArmPosts, AddBuffer, EngineDone, CEncoderTask_Start, WaitEvents,
         ProcessArmMessage, CompleteData, ProcessData, ScanFromStart, ScanIdleTask, ScanSkip,
         ScanWait, ScanComplete, ScanSend, Visits, vars, workerVars
-----------------------------------------------------------------------------
(* The scan comes to every channel that is still ahead of it. *)

LEMMA DistanceReaches ==
  ASSUME NEW n \in Nat \ {0}, NEW x \in 0 .. n - 1, NEW start \in 0 .. n - 1
  PROVE  /\ Distance(x, start, n) \in 0 .. n - 1
         /\ (start + Distance(x, start, n)) % n = x
<1>1. x % n = x /\ (x + n) % n = x
  OBVIOUS
<1>2. CASE x >= start
  <2>1. Distance(x, start, n) = x - start /\ start + (x - start) = x
    BY <1>2 DEF Distance
  <2> QED
    BY <1>1, <1>2, <2>1
<1>3. CASE ~(x >= start)
  <2>1. Distance(x, start, n) = x + n - start /\ start + (x + n - start) = x + n
    BY <1>3 DEF Distance
  <2> QED
    BY <1>1, <1>3, <2>1
<1> QED
  BY <1>2, <1>3

LEMMA ChannelDistances ==
  ASSUME ScanInv, NEW c \in Channels
  PROVE  /\ c[1] \in Tasks /\ c[2] \in Types /\ c = <<c[1], c[2]>>
         /\ Distance(c[1], startTask, NTasks) \in Tasks
         /\ (startTask + Distance(c[1], startTask, NTasks)) % NTasks = c[1]
         /\ Distance(c[2], startType[c[1]], NTypes) \in Types
         /\ (startType[c[1]] + Distance(c[2], startType[c[1]], NTypes)) % NTypes = c[2]
<1>1. c[1] \in Tasks /\ c[2] \in Types /\ c = <<c[1], c[2]>>
  BY ChannelsAssumption
<1>2. startTask \in 0 .. NTasks - 1 /\ startType[c[1]] \in 0 .. NTypes - 1
  BY <1>1 DEF ScanInv, Tasks, Types
<1>3. /\ Distance(c[1], startTask, NTasks) \in 0 .. NTasks - 1
      /\ (startTask + Distance(c[1], startTask, NTasks)) % NTasks = c[1]
  <2>1. c[1] \in 0 .. NTasks - 1 /\ NTasks \in Nat \ {0}
    BY <1>1, SizesAssumption DEF Tasks
  <2> QED
    BY <1>2, <2>1, DistanceReaches
<1>4. /\ Distance(c[2], startType[c[1]], NTypes) \in 0 .. NTypes - 1
      /\ (startType[c[1]] + Distance(c[2], startType[c[1]], NTypes)) % NTypes = c[2]
  <2>1. c[2] \in 0 .. NTypes - 1 /\ NTypes \in Nat \ {0}
    BY <1>1, SizesAssumption DEF Types
  <2> QED
    BY <1>2, <2>1, DistanceReaches
<1> QED
  BY <1>1, <1>3, <1>4 DEF Tasks, Types

LEMMA AllToCome ==
  ASSUME ScanInv', scan'.task = 0, scan'.type = 0, NEW c \in Channels
  PROVE  ToCome(c)'
<1>1. /\ NTasks \in Nat \ {0} /\ c[1] \in 0 .. NTasks - 1 /\ startTask' \in 0 .. NTasks - 1
      /\ NTypes \in Nat \ {0} /\ c[2] \in 0 .. NTypes - 1
      /\ startType'[c[1]] \in 0 .. NTypes - 1
  BY ChannelsAssumption, SizesAssumption DEF ScanInv, Tasks, Types
<1>2. /\ Distance(c[1], startTask', NTasks) \in 0 .. NTasks - 1
      /\ Distance(c[2], startType'[c[1]], NTypes) \in 0 .. NTypes - 1
  BY <1>1, DistanceReaches
<1> QED
  BY <1>2 DEF ToCome

LEMMA OtherTaskToCome ==
  ASSUME ScanInv, scan # None, ~scan.audio, ScanNextTask, UNCHANGED <<startTask, startType>>,
         NEW c \in Channels, c[1] # ScanTask, ToCome(c)
  PROVE  scan' # None /\ ToCome(c)'
<1> DEFINE task == Distance(c[1], startTask, NTasks)
           type == Distance(c[2], startType[c[1]], NTypes)
<1>1. /\ task \in 0 .. NTasks - 1 /\ (startTask + task) % NTasks = c[1]
      /\ type \in 0 .. NTypes - 1 /\ scan.task \in 0 .. NTasks - 1 /\ NTasks \in Nat
  BY ChannelDistances, SizesAssumption DEF ScanInv, Scans, Tasks, Types
<1>2. scan.task # task
  BY <1>1 DEF ScanTask
<1>3. scan.task < task
  BY <1>2 DEF ToCome
<1>4. scan.task + 1 # NTasks /\ scan.task + 1 <= task /\ 0 <= type
  <2> HIDE DEF task, type
  <2> QED
    BY <1>1, <1>3
<1>5. scan' = [audio |-> FALSE, task |-> scan.task + 1, type |-> 0]
  BY <1>4 DEF ScanNextTask
<1>6. scan' # None
  <2>1. scan.task + 1 \in Tasks /\ 0 \in Types
    BY <1>1, <1>4, SizesAssumption DEF Tasks, Types
  <2>2. scan' \in Scans
    BY <1>5, <2>1 DEF Scans
  <2> QED
    BY <2>2, NoneAssumption
<1>7. ToCome(c)'
  BY <1>1, <1>4, <1>5 DEF ToCome
<1> QED
  BY <1>6, <1>7

LEMMA OtherToCome ==
  ASSUME ScanInv, scan # None, ~scan.audio, ScanNextType, UNCHANGED <<startTask, startType>>,
         NEW c \in Channels, c # ScanChannel, ToCome(c)
  PROVE  scan' # None /\ ToCome(c)'
<1> DEFINE task == Distance(c[1], startTask, NTasks)
           type == Distance(c[2], startType[c[1]], NTypes)
<1>1. /\ task \in 0 .. NTasks - 1 /\ (startTask + task) % NTasks = c[1]
      /\ type \in 0 .. NTypes - 1 /\ (startType[c[1]] + type) % NTypes = c[2]
      /\ scan.task \in 0 .. NTasks - 1 /\ scan.type \in 0 .. NTypes - 1
      /\ NTasks \in Nat /\ NTypes \in Nat /\ c = <<c[1], c[2]>>
  BY ChannelDistances, SizesAssumption DEF ScanInv, Scans, Tasks, Types
<1>2. ~(scan.task = task /\ scan.type = type)
  BY <1>1 DEF ScanChannel, ScanTask
<1>3. CASE scan.type + 1 = NTypes
  <2>1. ScanNextTask
    BY <1>3 DEF ScanNextType
  <2>2. scan.task # task
    <3>1. scan.type <= type => scan.type = type
      <4> HIDE DEF task, type
      <4> QED
        BY <1>1, <1>3
    <3> QED
      BY <1>1, <1>2, <3>1 DEF ToCome
  <2>3. scan.task < task
    BY <2>2 DEF ToCome
  <2>4. scan.task + 1 # NTasks /\ scan.task + 1 <= task /\ 0 <= type
    <3> HIDE DEF task, type
    <3> QED
      BY <1>1, <2>3
  <2>5. scan' = [audio |-> FALSE, task |-> scan.task + 1, type |-> 0]
    BY <2>1, <2>4 DEF ScanNextTask
  <2>6. scan' # None
    <3>1. scan.task + 1 \in Tasks /\ 0 \in Types
      BY <1>1, <2>4, SizesAssumption DEF Tasks, Types
    <3>2. scan' \in Scans
      BY <2>5, <3>1 DEF Scans
    <3> QED
      BY <3>2, NoneAssumption
  <2>7. ToCome(c)'
    BY <1>1, <2>4, <2>5 DEF ToCome
  <2> QED
    BY <2>6, <2>7
<1>4. CASE scan.type + 1 # NTypes
  <2>1. scan' = [scan EXCEPT !.type = @ + 1]
    BY <1>4 DEF ScanNextType
  <2>2. scan \in Scans
    BY DEF ScanInv
  <2>3. scan'.task = scan.task /\ scan'.type = scan.type + 1
    BY <2>1, <2>2 DEF Scans
  <2>4. scan' # None
    <3>1. scan.type + 1 \in Types
      BY <1>1, <1>4 DEF Types
    <3>2. scan' \in Scans
      BY <2>1, <2>2, <3>1 DEF Scans
    <3> QED
      BY <3>2, NoneAssumption
  <2>5. scan.task < task \/ (scan.task = task /\ scan.type + 1 <= type)
    <3>1. scan.task < task \/ (scan.task = task /\ scan.type <= type)
      BY DEF ToCome
    <3> HIDE DEF task, type
    <3> QED
      BY <1>1, <1>2, <3>1
  <2>6. ToCome(c)'
    BY <2>3, <2>5 DEF ToCome
  <2> QED
    BY <2>4, <2>6
<1> QED
  BY <1>3, <1>4
-----------------------------------------------------------------------------
(* A channel that waits is awaited.  A look leaves the scan before the      *)
(* channels it has yet to come to, or a transfer under way.                 *)

LEMMA LookShrinks ==
  ASSUME DataTypes, CardInv, NEW c \in Channels, NEW r, Takes(c), Leaves(c, r), Moves(c, r),
         Rejects(c) => r = [arm |-> RequestOf(c), user |-> BufferOf(c)],
         UNCHANGED <<message, state>>, NEW e \in Channels, Waits(e)'
  PROVE  Waits(e)
<1>1. CASE e = c
  <2>1. /\ Returned(c, r) => Lent(c) # <<>>
        /\ ~Returned(c, r) => Lent(c)' = Lent(c)
    BY ArmMoves
  <2>2. Offered(c) # <<>> \/ Offered(c)' = Offered(c)
    BY UserMoves, UserRejects
  <2> QED
    BY <1>1, <2>1, <2>2 DEF Waits
<1>2. CASE e # c
  <2>1. Lent(e)' = Lent(e) /\ Offered(e)' = Offered(e)
    BY <1>2, OthersKeep
  <2> QED
    BY <2>1 DEF Waits
<1> QED
  BY <1>1, <1>2

LEMMA LookMoves ==
  ASSUME Inv, NEW c \in Channels, ScanWait(c) \/ ScanComplete(c) \/ ScanSend(c),
         NEW e \in Channels, Waits(e)'
  PROVE  Waits(e)
<1> DEFINE taken == [arm |-> RequestOf(c), user |-> BufferOf(c)]
           done == Complete(c, RequestOf(c), BufferOf(c))
<1>1. DataTypes /\ CardInv
  BY DEF Inv, DataInv
<1>2. Takes(c) /\ UNCHANGED <<message, state>>
  BY DEF ScanWait, ScanComplete, ScanSend, cardVars
<1>3. RequestOf(c) \in Requests \cup {None} /\ BufferOf(c) \in UserBuffers \cup {None}
  BY <1>1, TakenTypes
<1>4. CASE Leaves(c, taken)
  <2>1. Moves(c, taken)
    BY <1>3 DEF Moves
  <2>2. taken = [arm |-> RequestOf(c), user |-> BufferOf(c)]
    OBVIOUS
  <2> HIDE DEF taken
  <2> QED
    BY <1>1, <1>2, <1>4, <2>1, <2>2, LookShrinks
<1>5. CASE Ready(c) /\ Leaves(c, done)
  <2>1. Moves(c, done) /\ ~Rejects(c)
    BY <1>3, <1>5, NoneAssumption DEF Moves, Ready, Complete, Rejects, Dequeues, Gets, BufferOf
  <2> HIDE DEF done
  <2> QED
    BY <1>1, <1>2, <1>5, <2>1, LookShrinks
<1> QED
  BY <1>4, <1>5 DEF ScanWait, ScanComplete, ScanSend

(* Of a channel that the scan leaves without a transfer, something else is  *)
(* to come: the missing request or buffer.                                  *)
LEMMA WaitAwaits ==
  ASSUME Inv, PairInv, NEW c \in Channels, ScanWait(c), Waits(c)
  PROVE  message # None /\ state[message.chan[1]] = "run"
<1>1. DataTypes /\ CardInv
  BY DEF Inv, DataInv
<1>2. CASE RequestOf(c) = None
  <2>1. arm[c] = None /\ fifo[c] = <<>>
    <3>1. Fetches(c) => RequestOf(c) \in Requests
      BY <1>1, HeadTailProperties DEF Fetches, RequestOf, DataTypes
    <3> QED
      BY <1>2, <3>1, NoneAssumption DEF RequestOf, Fetches
  <2>2. Posted(c) # <<>>
    <3>1. [i \in DOMAIN fifo[c] |-> fifo[c][i].buf] = <<>>
      BY <2>1
    <3>2. Lent(c) = (<<>> \o <<>>) \o Posted(c)
      BY <2>1, <3>1 DEF Lent, Posted
    <3> QED
      BY <3>2, ConcatEmptySeq, EmptySeq DEF Waits
  <2> QED
    BY <2>2 DEF Posted, Waits
<1>3. CASE RequestOf(c) # None
  <2>1. user[c] = None /\ queue[c] = <<>>
    <3>1. BufferOf(c) = None
      BY <1>3 DEF ScanWait, Ready
    <3>2. ~Gets(c) /\ user[c] = None
      <4>1. Gets(c) => BufferOf(c) # None
        <5>1. Gets(c) => Head(queue[c]) \in AllUserBufs \ Small
          BY <1>1, HeadTailProperties DEF Gets, Dequeues, DataTypes
        <5>2. Gets(c) => BufferOf(c) \in UserBuffers
          BY <5>1 DEF BufferOf, UserBuffers
        <5> QED
          BY <5>2, NoneAssumption
      <4> QED
        BY <3>1, <4>1 DEF BufferOf
    <3>3. queue[c] # <<>> => Head(queue[c]) \in UserBufs[c]
      BY HeadTailProperties DEF PairInv
    <3>4. c \in Getters /\ UserBufs[c] \cap Small = {}
      BY DEF Waits, Served
    <3> QED
      BY <1>3, <3>2, <3>3, <3>4 DEF Gets, Dequeues
  <2>2. Offered(c) = <<>> \o <<>>
    BY <2>1 DEF Offered
  <2> QED
    BY <2>2, ConcatEmptySeq, EmptySeq DEF Waits
<1> QED
  BY <1>2, <1>3

LEMMA NothingToMove ==
  ASSUME NEW c \in Served, NEW a \in Requests, NEW u \in UserBuffers,
         Open(c, a), HasRoom(c, u), c \in Packed => u.offset = a.done[1],
         Available(c, a, u) = 0
  PROVE  a.done = Wanted(c, a) /\ a.kind = "last"
<1>1. a.done \in [1 .. 3 -> Nat] /\ Wanted(c, a) \in [1 .. 3 -> Nat]
  BY WantedTypes DEF Requests
<1>2. u.offset \in Nat /\ UserSize \in Nat /\ ArmSize \in Nat \ {0}
  BY SizesAssumption DEF UserBuffers
<1>3. CASE c \in Planar
  <2>1. Wanted(c, a) = Planes /\ Planes # Nothing
    BY <1>3, SizesAssumption DEF Wanted, Served, Nothing
  <2>2. \A p \in 1 .. 3 : a.done[p] = Planes[p]
    <3>1. Planes[Plane(a.done, Planes)] - a.done[Plane(a.done, Planes)] = 0
      BY <1>3, <2>1 DEF Available
    <3> QED
      BY <1>1, <2>1, <3>1 DEF Plane
  <2>3. a.done = Planes
    BY <1>1, <2>1, <2>2
  <2> QED
    BY <2>1, <2>3 DEF Open
<1>4. CASE c \notin Planar
  <2>1. Wanted(c, a) = [p \in 1 .. 3 |-> IF p = 1 /\ a.kind # "last" THEN ArmSize ELSE 0]
    BY <1>4 DEF Wanted
  <2>2. Least(Wanted(c, a)[1] - a.done[1], UserSize - u.offset) = 0
    BY <1>4 DEF Available
  <2>3. a.done[1] <= Wanted(c, a)[1] /\ Wanted(c, a)[1] <= ArmSize
    BY <1>2, <2>1 DEF Open
  <2>4. Wanted(c, a)[1] - a.done[1] = 0
    <3>1. CASE c \in Frames
      <4>1. u.offset = a.done[1] /\ ArmSize <= UserSize
        BY <1>4, <3>1 DEF Packed, Served
      <4> QED
        BY <1>1, <1>2, <2>2, <2>3, <4>1 DEF Least
    <3>2. CASE c \notin Frames
      BY <1>1, <1>2, <1>4, <2>2, <3>2 DEF Least, HasRoom
    <3> QED
      BY <3>1, <3>2
  <2>5. \A p \in 1 .. 3 : a.done[p] = Wanted(c, a)[p]
    <3>1. a.done[1] = Wanted(c, a)[1]
      BY <1>1, <2>4
    <3>2. a.done[2] = 0 /\ a.done[3] = 0 /\ Wanted(c, a)[2] = 0 /\ Wanted(c, a)[3] = 0
      BY <1>1, <2>1 DEF Open
    <3> QED
      BY <3>1, <3>2
  <2>6. a.done = Wanted(c, a)
    BY <1>1, <2>5
  <2>7. Wanted(c, a)[1] = 0
    BY <2>6 DEF Open, Nothing
  <2> QED
    BY <1>2, <2>1, <2>6, <2>7
<1> QED
  BY <1>3, <1>4

LEMMA CompleteEmpties ==
  ASSUME Inv, OpenInv, PairInv, NEW c \in Channels, ScanComplete(c)
  PROVE  ~Waits(c)'
<1> SUFFICES ASSUME c \in Served PROVE ~Waits(c)'
  BY DEF Waits
<1>1. DataTypes
  BY DEF Inv, DataInv
<1> DEFINE a == RequestOf(c)
           u == BufferOf(c)
<1>2. /\ Takes(c) /\ Leaves(c, Complete(c, a, u)) /\ UNCHANGED message
      /\ Available(c, a, u) = 0
  BY DEF ScanComplete, cardVars
<1>3. a \in Requests /\ u \in UserBuffers /\ a # None /\ u # None
  BY <1>1, TakenTypes DEF ScanComplete, Ready
<1>4. /\ Open(c, a) /\ HasRoom(c, u)
      /\ a.kind = "last" => fifo'[c] = <<>> /\ ~IsPosted(c)
  BY <1>1, <1>2, <1>3, TakesLast DEF OpenInv
<1>5. a.done = Wanted(c, a) /\ a.kind = "last"
  <2>1. c \in Packed => u.offset = a.done[1]
    BY <1>1, <1>3, TakenTogether DEF Together
  <2> HIDE DEF a, u
  <2> QED
    BY <1>2, <1>3, <1>4, <2>1, NothingToMove
<1>6. arm'[c] = None
  BY <1>1, <1>2, <1>5 DEF Leaves, Complete, DataTypes
<1>7. Lent(c)' = <<>>
  <2>1. [i \in DOMAIN fifo'[c] |-> fifo'[c][i].buf] = <<>>
    BY <1>4, <1>5
  <2>2. Lent(c)' = (<<>> \o <<>>) \o <<>>
    BY <1>2, <1>4, <1>5, <1>6, <2>1 DEF Lent, IsPosted
  <2> QED
    BY <2>2, ConcatEmptySeq, EmptySeq
<1> QED
  BY <1>7 DEF Waits

LEMMA LookAwaits ==
  ASSUME LeftInv, NEW c \in Channels, ScanWait(c) \/ ScanComplete(c) \/ ScanSend(c),
         ScanInv', NEW e \in Channels, Waits(e)'
  PROVE  Awaited(e)'
<1>1. Waits(e)
  BY LookMoves DEF LeftInv
<1>2. Awaited(e) /\ ScanInv /\ scan # None /\ ~Busy(Direction[c])
  BY <1>1 DEF LeftInv, AwaitedInv, Inv, ScanWait, ScanComplete, ScanSend, Visits
<1>3. Visits(c) /\ UNCHANGED <<message, state, events, todo>>
  BY DEF ScanWait, ScanComplete, ScanSend, Visits, cardVars
<1>4. CASE \/ message # None /\ state[message.chan[1]] = "run"
           \/ (events \cup todo) \cap {"read", "write", "data"} # {}
  BY <1>3, <1>4 DEF Awaited
<1>5. CASE ScanSend(c)
  <2>1. Direction[c] \in Directions /\ pending' = [pending EXCEPT ![Direction[c]] =
          [chan |-> c, length |-> Least(Available(c, RequestOf(c), BufferOf(c)), MaxDMA)]]
    BY <1>5, ChannelsAssumption DEF ScanSend
  <2>2. pending'[Direction[c]] # None
    <3>1. DataTypes'
      BY <1>5, SendData DEF LeftInv, Inv, DataInv
    <3>2. pending'[Direction[c]].chan = c /\ pending \in [Directions -> Transfers \cup {None}]
      BY <2>1 DEF LeftInv, Inv, DataInv, DataTypes
    <3>3. pending'[Direction[c]] = [chan |-> c, length |-> Least(Available(c, RequestOf(c), BufferOf(c)), MaxDMA)]
      BY <2>1, <3>2
    <3>4. Least(Available(c, RequestOf(c), BufferOf(c)), MaxDMA) \in Nat
      <4>1. RequestOf(c) \in Requests /\ BufferOf(c) \in UserBuffers
        BY <1>5, TakenTypes DEF LeftInv, Inv, DataInv, ScanSend, Ready
      <4>2. Available(c, RequestOf(c), BufferOf(c)) \in Int /\ Available(c, RequestOf(c), BufferOf(c)) > 0
        BY <1>5, <4>1, AvailableType DEF ScanSend
      <4> QED
        BY <4>2, SizesAssumption DEF Least
    <3>5. pending'[Direction[c]] \in Transfers
      BY <3>3, <3>4 DEF Transfers
    <3> QED
      BY <3>5, NoneAssumption
  <2> QED
    BY <2>1, <2>2 DEF Awaited, Busy
<1>6. CASE ~ScanSend(c) /\ \E d \in Directions : Busy(d)
  <2>1. UNCHANGED pending
    BY <1>6 DEF ScanWait, ScanComplete
  <2> QED
    BY <1>6, <2>1 DEF Awaited, Busy
<1>7. CASE ~ScanSend(c) /\ scan.audio
  <2>1. ScanNextType /\ scan \in Scans
    BY <1>2, <1>7 DEF ScanWait, ScanComplete, ScanInv
  <2>2. scan' \in Scans /\ scan'.task = scan.task /\ scan'.type = scan.type
    BY <1>7, <2>1 DEF ScanNextType, ScanAfterAudio, Scans
  <2>3. scan'.task = 0 /\ scan'.type = 0
    BY <1>2, <1>7, <2>2 DEF LeftInv, ScanBegins
  <2>4. ToCome(e)'
    BY <2>3, AllToCome
  <2> QED
    BY <2>2, <2>4, NoneAssumption DEF Awaited
<1>8. CASE ~ScanSend(c) /\ ~scan.audio /\ e # c /\ ToCome(e)
  <2>1. ScanNextType /\ UNCHANGED <<startTask, startType>> /\ e # ScanChannel
    BY <1>3, <1>8 DEF ScanWait, ScanComplete, Visits
  <2> QED
    BY <1>2, <1>8, <2>1, OtherToCome DEF Awaited
<1>9. CASE ~ScanSend(c) /\ e = c
  <2>1. ScanWait(c)
    BY <1>9, CompleteEmpties DEF LeftInv
  <2> QED
    BY <1>1, <1>3, <1>4, <1>9, <2>1, WaitAwaits DEF LeftInv
<1> QED
  BY <1>2, <1>4, <1>5, <1>6, <1>7, <1>8, <1>9 DEF Awaited

(* The steps that pass a channel by. *)
LEMMA SkipAwaits ==
  ASSUME LeftInv, ScanSkip \/ ScanIdleTask, ScanInv', NEW e \in Channels, Waits(e)'
  PROVE  Awaited(e)'
<1>1. ScanInv /\ scan # None /\ UNCHANGED <<message, state, events, todo, pending, startTask, startType>>
  BY DEF LeftInv, Inv, ScanSkip, ScanIdleTask, cardVars, dataVars
<1>2. CASE ScanSkip /\ scan.audio
  <2>1. scan \in Scans
    BY <1>1 DEF ScanInv
  <2>2. scan' \in Scans /\ scan'.task = scan.task /\ scan'.type = scan.type
    BY <1>2, <2>1 DEF ScanSkip, ScanNextType, ScanAfterAudio, Scans
  <2>3. scan'.task = 0 /\ scan'.type = 0
    BY <1>1, <1>2, <2>2 DEF LeftInv, ScanBegins
  <2>4. ToCome(e)'
    BY <2>3, AllToCome
  <2> QED
    BY <2>2, <2>4, NoneAssumption DEF Awaited
<1>3. CASE ScanSkip /\ ~scan.audio
  <2>1. Waits(e)
    BY <1>3 DEF ScanSkip, cardVars, dataVars, Waits, Lent, Offered
  <2>2. Awaited(e)
    BY <2>1 DEF LeftInv, AwaitedInv
  <2>3. CASE e = ScanChannel
    <3>1. state[ScanTask] = "run" /\ Busy(Direction[e])
      BY <1>3, <2>3 DEF ScanSkip
    <3> QED
      BY <1>1, <3>1, ChannelsAssumption DEF Awaited, Busy
  <2>4. CASE e # ScanChannel /\ ToCome(e)
    <3>1. ScanNextType
      BY <1>3 DEF ScanSkip
    <3> QED
      BY <1>1, <1>3, <2>4, <3>1, OtherToCome DEF Awaited
  <2> QED
    BY <1>1, <2>2, <2>3, <2>4 DEF Awaited, Busy
<1>4. CASE ScanIdleTask
  <2>1. state[ScanTask] = "idle" /\ ~scan.audio /\ ScanNextTask /\ UNCHANGED <<queue, user>>
    BY <1>4 DEF ScanIdleTask
  <2>2. e[1] # ScanTask
    BY <1>1, <2>1 DEF Waits
  <2>3. arm'[e] = arm[e] /\ fifo'[e] = fifo[e]
    BY <1>4, <2>2 DEF ScanIdleTask
  <2>4. Waits(e)
    BY <1>1, <2>1, <2>3 DEF Waits, Lent, Offered
  <2>5. Awaited(e)
    BY <2>4 DEF LeftInv, AwaitedInv
  <2>6. CASE ToCome(e)
    BY <1>1, <2>1, <2>2, <2>6, OtherTaskToCome DEF Awaited
  <2> QED
    BY <1>1, <2>5, <2>6 DEF Awaited, Busy
<1> QED
  BY <1>2, <1>3, <1>4

(* The steps outside a scan, and those that begin one. *)
LEMMA BeginAwaits ==
  ASSUME scan' = Start, ScanInv', NEW e \in Channels
  PROVE  Awaited(e)'
<1>1. scan' # None
  <2>1. Start \in Scans
    BY SizesAssumption DEF Start, Scans, Tasks, Types
  <2> QED
    BY <2>1, NoneAssumption
<1>2. ToCome(e)'
  BY AllToCome DEF Start
<1> QED
  BY <1>1, <1>2 DEF Awaited

LEMMA MessageAwaits ==
  ASSUME LeftInv, ProcessArmMessage, ScanInv', NEW e \in Channels, Waits(e)'
  PROVE  Awaited(e)'
<1>1. DataTypes /\ CardInv /\ StateInv
  BY DEF LeftInv, Inv, DataInv
<1>2. message \in Messages /\ message' = None /\ UNCHANGED <<queue, user, state, pending, events>>
  BY <1>1 DEF CardInv, MessageThere, ProcessArmMessage, Handles
<1>3. PICK c \in Channels : c = message.chan
  BY <1>2 DEF Messages
<1>4. CASE state[c[1]] = "run"
  BY <1>3, <1>4, BeginAwaits DEF ProcessArmMessage, ScanFromStart
<1>5. CASE state[c[1]] # "run"
  <2>1. e # c
    BY <1>2, <1>5 DEF Waits
  <2>2. arm'[e] = arm[e] /\ fifo'[e] = fifo[e]
    BY <1>1, <1>3, <2>1 DEF DataTypes, ProcessArmMessage
  <2>3. Waits(e)
    BY <1>2, <1>3, <2>1, <2>2 DEF Waits, Lent, Offered
  <2>4. Awaited(e) /\ scan = None
    BY <2>3 DEF LeftInv, AwaitedInv, ProcessArmMessage, Handles
  <2>5. todo' = todo \ {"arm"}
    BY DEF ProcessArmMessage, Handles
  <2> QED
    BY <1>2, <1>3, <1>5, <2>4, <2>5 DEF Awaited, Busy
<1> QED
  BY <1>4, <1>5

LEMMA OutsideAwaits ==
  ASSUME LeftInv, NEW e \in Channels, Waits(e)',
         \/ \E c \in Channels : \E kind \in KindsOf[c], b \in ArmBufs[c] : ArmPosts(c, b, kind)
         \/ \E c \in Channels : \E u \in UserBufs[c] : AddBuffer(c, u)
         \/ \E t \in Tasks : CEncoderTask_Start(t)
         \/ \E d \in Directions : EngineDone(d)
         \/ WaitEvents
         \/ UNCHANGED vars
  PROVE  Awaited(e)'
<1>1. Waits(e) => Awaited(e)
  BY DEF LeftInv, AwaitedInv
<1>2. ASSUME NEW c \in Channels, NEW kind \in KindsOf[c], NEW b \in ArmBufs[c], ArmPosts(c, b, kind)
      PROVE  Awaited(e)'
  <2>1. /\ message = None /\ message' = [chan |-> c, buf |-> b, kind |-> kind]
        /\ UNCHANGED <<queue, fifo, arm, user, pending, todo, scan, startTask, startType, state>>
        /\ events \subseteq events'
    BY <1>2 DEF ArmPosts, dataVars, workerVars
  <2>2. message' # None
    <3>1. message' \in Messages
      BY <2>1, KindsAssumption DEF Messages, AllArmBufs, Kinds
    <3> QED
      BY <3>1, NoneAssumption
  <2>3. CASE e = c
    BY <2>1, <2>2, <2>3 DEF Waits, Awaited
  <2>4. CASE e # c
    <3>1. Waits(e)
      BY <2>1, <2>4 DEF Waits, Lent, Offered
    <3> QED
      BY <1>1, <2>1, <2>2, <3>1 DEF Awaited, Busy, ToCome
  <2> QED
    BY <2>3, <2>4
<1>3. CASE \E c \in Channels : \E u \in UserBufs[c] : AddBuffer(c, u)
  BY <1>3 DEF AddBuffer, Awaited
<1>4. ASSUME NEW t \in Tasks, CEncoderTask_Start(t) PROVE Awaited(e)'
  <2>1. /\ state' = [state EXCEPT ![t] = "run"]
        /\ UNCHANGED <<message, queue, fifo, arm, user, pending, events, todo, scan, startTask, startType>>
    BY <1>4 DEF CEncoderTask_Start, cardVars, dataVars, workerVars
  <2>2. DataTypes /\ CardInv /\ StateInv /\ e[1] \in Tasks
    BY ChannelsAssumption DEF LeftInv, Inv, DataInv
  <2>3. Lent(e) # <<>> /\ Offered(e) # <<>>
    BY <2>1 DEF Waits, Lent, Offered
  <2>4. \A x \in Tasks : state[x] = "run" => state'[x] = "run"
    BY <2>1, <2>2 DEF StateInv
  <2>5. message # None => message.chan[1] \in Tasks
    BY <2>2, ChannelsAssumption DEF CardInv, Messages
  <2>6. CASE state[e[1]] = "run"
    <3>1. Awaited(e)
      BY <1>1, <2>3, <2>6 DEF Waits
    <3> QED
      BY <2>1, <2>4, <2>5, <3>1 DEF Awaited, Busy, ToCome
  <2>7. CASE state[e[1]] # "run"
    <3>1. arm[e] = None /\ fifo[e] = <<>>
      BY <2>2, <2>7 DEF LeftInv, OpenInv, IdleHasNone, StateInv
    <3>2. Posted(e) # <<>>
      <4>1. [i \in DOMAIN fifo[e] |-> fifo[e][i].buf] = <<>>
        BY <3>1
      <4>2. Lent(e) = (<<>> \o <<>>) \o Posted(e)
        BY <3>1, <4>1 DEF Lent, Posted
      <4> QED
        BY <2>3, <4>2, ConcatEmptySeq, EmptySeq
    <3> QED
      BY <2>1, <3>2 DEF Posted, Waits, Awaited
  <2> QED
    BY <2>6, <2>7
<1>5. ASSUME NEW d \in Directions, EngineDone(d) PROVE Awaited(e)'
  BY <1>5 DEF EngineDone, Awaited, Directions
<1>6. CASE WaitEvents \/ UNCHANGED vars
  <2>1. /\ events' \cup todo' = events \cup todo
        /\ UNCHANGED <<message, queue, fifo, arm, user, pending, scan, startTask, startType, state>>
    BY <1>6 DEF WaitEvents, vars, cardVars, dataVars, workerVars
  <2>2. Waits(e)
    BY <2>1 DEF Waits, Lent, Offered
  <2> QED
    BY <1>1, <2>1, <2>2 DEF Awaited, Busy, ToCome
<1> QED
  BY <1>2, <1>3, <1>4, <1>5, <1>6

LEMMA AwaitedStep == ASSUME LeftInv, [Next]_vars PROVE AwaitedInv'
<1> SUFFICES ASSUME NEW e \in Channels, Waits(e)' PROVE Awaited(e)'
  BY DEF AwaitedInv
<1>1. ScanInv'
  BY ScanStep DEF LeftInv, Inv
<1>2. CASE \E c \in Channels : ScanWait(c) \/ ScanComplete(c) \/ ScanSend(c)
  BY <1>1, <1>2, LookAwaits
<1>3. CASE ScanSkip \/ ScanIdleTask
  BY <1>1, <1>3, SkipAwaits
<1>4. CASE ProcessArmMessage
  BY <1>1, <1>4, MessageAwaits
<1>5. CASE ProcessData \/ \E d \in Directions : CompleteData(d)
  BY <1>1, <1>5, BeginAwaits DEF ProcessData, CompleteData, ScanFromStart
<1>6. CASE \/ Environment
           \/ WaitEvents
           \/ UNCHANGED vars
  BY <1>6, OutsideAwaits DEF Environment
<1> QED
  BY <1>2, <1>3, <1>4, <1>5, <1>6 DEF Next, Worker

LEMMA InitLeft == Init => LeftInv
<1>1. Init => EventInv /\ ScanBegins
  BY DEF Init, EventInv, ScanBegins, Busy
<1>2. ASSUME Init PROVE AwaitedInv
  BY <1>2, ChannelsAssumption DEF Init, AwaitedInv, Waits
<1> QED
  BY <1>1, <1>2, InitInv, InitOpen, InitPairs DEF LeftInv

LEMMA LeftIsAwaited == LeftInv => NothingLeftBehind
<1> SUFFICES ASSUME LeftInv, scan = None, todo = {}, events = {}, \A d \in Directions : ~engine[d],
                    NEW c \in Served, Waits(c)
             PROVE  FALSE
  BY DEF NothingLeftBehind, Waits
<1> c \in Channels
  BY ChannelsAssumption DEF Served
<1>1. message = None /\ \A d \in Directions : ~Busy(d)
  BY DEF LeftInv, EventInv
<1> QED
  BY <1>1 DEF LeftInv, AwaitedInv, Awaited

(* When the worker sleeps with no event to come, no channel that it can     *)
(* serve, of a running task, has both a request and a buffer: whatever      *)
(* channels, sizes and order of arrival, each scan that is given up for a   *)
(* transfer is taken up again with it, and each that ends has come to every *)
(* channel.  The channels it cannot serve are named by Served: without a    *)
(* GetBuffer, offered a buffer that is given back, of empty planes, or of   *)
(* packed frames that do not fit their buffer.                              *)
THEOREM NothingIsLeftBehind == Spec => []NothingLeftBehind
<1>1. LeftInv /\ [Next]_vars => LeftInv'
  <2> SUFFICES ASSUME LeftInv, [Next]_vars PROVE LeftInv'
    OBVIOUS
  <2>1. Inv' /\ OpenInv' /\ PairInv' /\ EventInv' /\ ScanBegins'
    BY StepInv, OpenStep, PairStep, EventStep, BeginsStep DEF LeftInv
  <2>2. AwaitedInv'
    BY AwaitedStep
  <2> QED
    BY <2>1, <2>2 DEF LeftInv
<1> QED
  BY <1>1, InitLeft, LeftIsAwaited, PTL DEF Spec
=============================================================================
