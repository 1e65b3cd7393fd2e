--------------------------- MODULE MailboxProofs ---------------------------
(***************************************************************************)
(* Proofs about Mailbox, for any number of threads, buffers and messages   *)
(* of the ARM, and whether or not the ARM is slow.  That the mailbox keeps *)
(* every message and its parameters together rests on OneSender: the code  *)
(* takes no lock, and two threads break it.                                *)
(*                                                                         *)
(* That a buffer is held in one place rests on OneSender too.  Its         *)
(* inductive form says besides when a message of the ARM is pending, and   *)
(* that ArmRequest is empty when the next entry is fetched.                *)
(***************************************************************************)
EXTENDS Mailbox, SequenceTheorems, FiniteSetTheorems, TLAPS

(* One thread sends: the worker while the task is open, or the caller that *)
(* opens the task before the worker exists.                                *)
OneSender == \A s, t \in Threads : s = t

LEMMA MessageTypes ==
  /\ \A op \in Ops : Message(op) \in Messages
  /\ \A b \in Buffers : DataOut(b) \in Messages
BY DEF Message, DataOut, Messages, Ops, ParamOps

LEMMA CallMessageTypes == \A op \in ParamOps : Message(op) \in Messages
BY MessageTypes DEF Ops

LEMMA NamedMessageTypes == Message("Reply") \in Messages /\ Message("SystemClose") \in Messages
BY MessageTypes DEF Ops

LEMMA NextPcs ==
  ASSUME NEW t \in Threads
  PROVE AfterSend(t) \in Pcs /\ AfterTimeout(t) \in Pcs /\ AfterAck(t) \in Pcs
BY DEF AfterSend, AfterTimeout, AfterAck, Pcs

LEMMA GotoTypes ==
  ASSUME pc \in [Threads -> Pcs], NEW t \in Threads, NEW to \in Pcs, Goto(t, to)
  PROVE pc' \in [Threads -> Pcs]
BY DEF Goto

LEMMA GotoQueues ==
  ASSUME pc \in [Threads -> Pcs], NEW t \in Threads, NEW to, Goto(t, to), to # "queue",
         QueuesABuffer, UNCHANGED got
  PROVE QueuesABuffer'
BY DEF Goto, QueuesABuffer, Threads

LEMMA NextPcsDoNotQueue ==
  ASSUME NEW t
  PROVE AfterSend(t) # "queue" /\ AfterTimeout(t) # "queue" /\ AfterAck(t) # "queue"
BY DEF AfterSend, AfterTimeout, AfterAck

(* Every variable keeps its type. *)
THEOREM TypeCorrect == Spec => []TypeOK
<1>1. Init => TypeOK
  <2> SUFFICES ASSUME Init PROVE TypeOK
    OBVIOUS
  <2>1. cmd \in [Threads -> Messages]
    BY NamedMessageTypes DEF Init
  <2>2. pc \in [Threads -> Pcs]
    BY DEF Init, Pcs
  <2>3. got \in [Workers -> [reply : BOOLEAN, buf : Buffers \cup {None}]]
    BY DEF Init
  <2>4. toArm \in [status : BOOLEAN, message : Messages \cup {None}, param : Messages \cup {None}]
    BY DEF Init
  <2>5. fromArm \in [pending : BOOLEAN, reply : BOOLEAN, buf : Buffers \cup {None}]
    BY DEF Init
  <2>6. fifo \in Seq(Buffers)
    BY DEF Init
  <2>7. armIrq \in BOOLEAN /\ event \in BOOLEAN /\ armOwns \subseteq Buffers
        /\ request \in Buffers \cup {None}
    BY DEF Init
  <2>8. QueuesABuffer
    BY DEF Init, QueuesABuffer, Threads
  <2> QED
    BY <2>1, <2>2, <2>3, <2>4, <2>5, <2>6, <2>7, <2>8 DEF TypeOK
<1>2. TypeOK /\ [Next]_vars => TypeOK'
  <2> SUFFICES ASSUME TypeOK, [Next]_vars PROVE TypeOK'
    OBVIOUS
  <2> USE DEF TypeOK, armVars, taskVars
  <2>t. Workers \subseteq Threads /\ Callers \subseteq Threads
    BY DEF Threads
  <2>1. ASSUME NEW b \in Buffers \cup {None}, NEW reply \in BOOLEAN, ArmPosts(b, reply)
        PROVE TypeOK'
    BY <2>1 DEF ArmPosts, QueuesABuffer
  <2>2. CASE ArmTakes
    BY <2>2 DEF ArmTakes, QueuesABuffer
  <2>3. CASE PciDpcForIsrArmMsg
    BY <2>3 DEF PciDpcForIsrArmMsg, QueuesABuffer
  <2>4. ASSUME NEW w \in Workers, WorkerStep(w) PROVE TypeOK'
    <3>1. CASE Wake(w)
      <4>1. pc' \in [Threads -> Pcs]
        BY <3>1, <2>t, GotoTypes DEF Wake, Pcs
      <4>q. QueuesABuffer'
        BY <3>1, <2>t, GotoQueues DEF Wake
      <4> QED
        BY <4>q, <3>1, <4>1 DEF Wake
    <3>2. CASE GetARMMessage(w)
      <4>1. pc' \in [Threads -> Pcs]
        BY <3>2, <2>t, GotoTypes DEF GetARMMessage, Pcs
      <4>q. QueuesABuffer'
        BY <3>2, <2>t DEF GetARMMessage, Goto, QueuesABuffer
      <4> QED
        BY <4>q, <3>2, <4>1 DEF GetARMMessage
    <3>3. CASE SetFifo(w)
      <4>1. pc' \in [Threads -> Pcs]
        BY <3>3, <2>t, GotoTypes DEF SetFifo, Pcs
      <4>q. QueuesABuffer'
        BY <3>3, <2>t, GotoQueues DEF SetFifo
      <4>2. fifo' \in Seq(Buffers)
        BY <3>3, AppendProperties DEF SetFifo, QueuesABuffer
      <4> QED
        BY <4>q, <3>3, <4>1, <4>2 DEF SetFifo
    <3>4. CASE AckARMMessage(w)
      <4>1. pc' \in [Threads -> Pcs]
        BY <3>4, <2>t, GotoTypes DEF AckARMMessage, Pcs
      <4>q. QueuesABuffer'
        BY <3>4, <2>t, GotoQueues DEF AckARMMessage
      <4>2. cmd' \in [Threads -> Messages]
        BY <3>4, <2>t, NamedMessageTypes DEF AckARMMessage
      <4> QED
        BY <4>q, <3>4, <4>1, <4>2 DEF AckARMMessage
    <3>5. CASE ClearPending(w)
      <4>1. pc' \in [Threads -> Pcs]
        BY <3>5, <2>t, GotoTypes, NextPcs DEF ClearPending
      <4>q. QueuesABuffer'
        BY <3>5, <2>t, GotoQueues, NextPcsDoNotQueue DEF ClearPending
      <4> QED
        BY <4>q, <3>5, <4>1 DEF ClearPending
    <3> QED
      BY <2>4, <3>1, <3>2, <3>3, <3>4, <3>5 DEF WorkerStep
  <2>5. ASSUME NEW t \in Threads, Drain(t) PROVE TypeOK'
    <3>1. CASE CompleteArm(t)
      <4>1. pc' \in [Threads -> Pcs]
        BY <3>1, GotoTypes DEF CompleteArm, Pcs
      <4>q. QueuesABuffer'
        BY <3>1, GotoQueues DEF CompleteArm
      <4>2. cmd' \in [Threads -> Messages]
        BY <3>1, MessageTypes DEF CompleteArm
      <4> QED
        BY <4>q, <3>1, <4>1, <4>2 DEF CompleteArm
    <3>2. CASE ClearRequest(t)
      <4>1. pc' \in [Threads -> Pcs]
        BY <3>2, GotoTypes DEF ClearRequest, Pcs
      <4>q. QueuesABuffer'
        BY <3>2, GotoQueues DEF ClearRequest
      <4> QED
        BY <4>q, <3>2, <4>1 DEF ClearRequest
    <3>3. CASE GetFifo(t)
      <4>1. pc' \in [Threads -> Pcs]
        BY <3>3, GotoTypes DEF GetFifo, Pcs
      <4>q. QueuesABuffer'
        BY <3>3, GotoQueues DEF GetFifo
      <4>2. cmd' \in [Threads -> Messages]
        <5>1. CASE cmd' = cmd
          BY <5>1
        <5>2. CASE cmd' = [cmd EXCEPT ![t] = Message("SystemClose")]
          BY <5>2, NamedMessageTypes
        <5> QED
          BY <3>3, <5>1, <5>2 DEF GetFifo
      <4>3. fifo' \in Seq(Buffers) /\ request' \in Buffers \cup {None}
        <5>1. CASE fifo # <<>>
          <6>1. Head(fifo) \in Buffers /\ Tail(fifo) \in Seq(Buffers)
            BY <5>1, HeadTailProperties
          <6> QED
            BY <3>3, <5>1, <6>1 DEF GetFifo
        <5>2. CASE fifo = <<>>
          BY <3>3, <5>2 DEF GetFifo
        <5> QED
          BY <5>1, <5>2
      <4> QED
        BY <4>q, <3>3, <4>1, <4>2, <4>3 DEF GetFifo
    <3> QED
      BY <2>5, <3>1, <3>2, <3>3 DEF Drain
  <2>6. ASSUME NEW t \in Threads, Send(t) PROVE TypeOK'
    <3>1. CASE MailboxReady(t)
      <4>1. pc' \in [Threads -> Pcs]
        BY <3>1, GotoTypes DEF MailboxReady, Pcs
      <4>q. QueuesABuffer'
        BY <3>1, GotoQueues DEF MailboxReady
      <4> QED
        BY <4>q, <3>1, <4>1 DEF MailboxReady
    <3>2. CASE MailboxTimeout(t)
      <4>1. pc' \in [Threads -> Pcs]
        BY <3>2, GotoTypes, NextPcs DEF MailboxTimeout
      <4>q. QueuesABuffer'
        BY <3>2, GotoQueues, NextPcsDoNotQueue DEF MailboxTimeout
      <4> QED
        BY <4>q, <3>2, <4>1 DEF MailboxTimeout
    <3>3. CASE WriteParams(t)
      <4>1. pc' \in [Threads -> Pcs]
        BY <3>3, GotoTypes DEF WriteParams, Pcs
      <4>q. QueuesABuffer'
        BY <3>3, GotoQueues DEF WriteParams
      <4> QED
        BY <4>q, <3>3, <4>1 DEF WriteParams
    <3>4. CASE WriteStatus(t)
      <4>1. pc' \in [Threads -> Pcs]
        BY <3>4, GotoTypes DEF WriteStatus, Pcs
      <4>q. QueuesABuffer'
        BY <3>4, GotoQueues DEF WriteStatus
      <4> QED
        BY <4>q, <3>4, <4>1 DEF WriteStatus
    <3>5. CASE WriteMessage(t)
      <4>1. pc' \in [Threads -> Pcs]
        BY <3>5, GotoTypes, NextPcs DEF WriteMessage
      <4>q. QueuesABuffer'
        BY <3>5, GotoQueues, NextPcsDoNotQueue DEF WriteMessage
      <4> QED
        BY <4>q, <3>5, <4>1 DEF WriteMessage
    <3>6. CASE SystemCloseConfirms(t)
      <4>1. pc' \in [Threads -> Pcs]
        BY <3>6, GotoTypes DEF SystemCloseConfirms, Pcs
      <4>q. QueuesABuffer'
        BY <3>6, GotoQueues DEF SystemCloseConfirms
      <4> QED
        BY <4>q, <3>6, <4>1 DEF SystemCloseConfirms
    <3> QED
      BY <2>6, <3>1, <3>2, <3>3, <3>4, <3>5, <3>6 DEF Send
  <2>7. ASSUME NEW c \in Callers, Call(c) PROVE TypeOK'
    <3>1. CASE CallCloses(c)
      <4>1. pc' \in [Threads -> Pcs]
        BY <3>1, <2>t, GotoTypes DEF CallCloses, Pcs
      <4>q. QueuesABuffer'
        BY <3>1, <2>t, GotoQueues DEF CallCloses
      <4> QED
        BY <4>q, <3>1, <4>1 DEF CallCloses
    <3>2. ASSUME NEW op \in ParamOps, CallSends(c, op) PROVE TypeOK'
      <4>1. pc' \in [Threads -> Pcs]
        BY <3>2, <2>t, GotoTypes DEF CallSends, Pcs
      <4>q. QueuesABuffer'
        BY <3>2, <2>t, GotoQueues DEF CallSends
      <4>2. cmd' \in [Threads -> Messages]
        BY <3>2, <2>t, CallMessageTypes DEF CallSends
      <4> QED
        BY <4>q, <3>2, <4>1, <4>2 DEF CallSends
    <3> QED
      BY <2>7, <3>1, <3>2 DEF Call
  <2>8. CASE UNCHANGED vars
    BY <2>8 DEF vars, QueuesABuffer
  <2> QED
    BY <2>1, <2>2, <2>3, <2>4, <2>5, <2>6, <2>7, <2>8 DEF Next, Arm
<1> QED
  BY <1>1, <1>2, PTL DEF Spec

(* A step that leaves the mailbox alone and takes a thread to a place where *)
(* it is not sending.                                                       *)
LEMMA StepsAside ==
  ASSUME SendingAlone, OneSender, pc \in [Threads -> Pcs],
         NEW t \in Threads, NEW to, Goto(t, to), to \notin {"params", "trigger", "message"},
         UNCHANGED toArm
  PROVE SendingAlone'
BY DEF SendingAlone, Goto, OneSender

LEMMA SendingAloneInductive ==
  ASSUME SendingAlone, OneSender, TypeOK, [Next]_vars
  PROVE SendingAlone'
<1> USE DEF TypeOK, armVars, taskVars
<1>t. Workers \subseteq Threads /\ Callers \subseteq Threads
  BY DEF Threads
<1>1. ASSUME NEW b \in Buffers \cup {None}, NEW reply \in BOOLEAN, ArmPosts(b, reply)
      PROVE SendingAlone'
  BY <1>1 DEF ArmPosts, SendingAlone
<1>2. CASE ArmTakes
  BY <1>2 DEF ArmTakes, SendingAlone
<1>3. CASE PciDpcForIsrArmMsg
  BY <1>3 DEF PciDpcForIsrArmMsg, SendingAlone
<1>4. ASSUME NEW w \in Workers, WorkerStep(w) PROVE SendingAlone'
  <2>1. CASE Wake(w)
    BY <2>1, <1>t, StepsAside DEF Wake
  <2>2. CASE GetARMMessage(w)
    BY <2>2, <1>t, StepsAside DEF GetARMMessage
  <2>3. CASE SetFifo(w)
    BY <2>3, <1>t, StepsAside DEF SetFifo
  <2>4. CASE AckARMMessage(w)
    BY <2>4, <1>t, StepsAside DEF AckARMMessage
  <2>5. CASE ClearPending(w)
    BY <2>5, <1>t, StepsAside DEF ClearPending, AfterAck
  <2> QED
    BY <1>4, <2>1, <2>2, <2>3, <2>4, <2>5 DEF WorkerStep
<1>5. ASSUME NEW t \in Threads, Drain(t) PROVE SendingAlone'
  <2>1. CASE CompleteArm(t)
    BY <2>1, StepsAside DEF CompleteArm
  <2>2. CASE ClearRequest(t)
    BY <2>2, StepsAside DEF ClearRequest
  <2>3. CASE GetFifo(t)
    BY <2>3, StepsAside DEF GetFifo
  <2> QED
    BY <1>5, <2>1, <2>2, <2>3 DEF Drain
<1>6. ASSUME NEW t \in Threads, Send(t) PROVE SendingAlone'
  <2>1. CASE MailboxReady(t)
    BY <2>1 DEF MailboxReady, SendingAlone, Goto, OneSender
  <2>2. CASE MailboxTimeout(t)
    BY <2>2, StepsAside DEF MailboxTimeout, AfterTimeout, AfterAck
  <2>3. CASE WriteParams(t)
    BY <2>3 DEF WriteParams, SendingAlone, Goto, OneSender
  <2>4. CASE WriteStatus(t)
    BY <2>4 DEF WriteStatus, SendingAlone, Goto, OneSender
  <2>5. CASE WriteMessage(t)
    BY <2>5 DEF WriteMessage, SendingAlone, Goto, OneSender, AfterSend
  <2>6. CASE SystemCloseConfirms(t)
    BY <2>6, StepsAside DEF SystemCloseConfirms
  <2> QED
    BY <1>6, <2>1, <2>2, <2>3, <2>4, <2>5, <2>6 DEF Send
<1>7. ASSUME NEW c \in Callers, Call(c) PROVE SendingAlone'
  <2>1. CASE CallCloses(c)
    BY <2>1, <1>t, StepsAside DEF CallCloses
  <2>2. ASSUME NEW op \in ParamOps, CallSends(c, op) PROVE SendingAlone'
    BY <2>2, <1>t, StepsAside DEF CallSends
  <2> QED
    BY <1>7, <2>1, <2>2 DEF Call
<1>8. CASE UNCHANGED vars
  BY <1>8 DEF vars, SendingAlone
<1> QED
  BY <1>1, <1>2, <1>3, <1>4, <1>5, <1>6, <1>7, <1>8 DEF Next, Arm

(* The mailbox of a single sender, at every moment of a send. *)
THEOREM MailboxOfOneSender ==
  ASSUME OneSender
  PROVE Spec => []SendingAlone
<1>1. Init => SendingAlone
  BY DEF Init, SendingAlone
<1>2. SendingAlone /\ TypeOK /\ [Next]_vars => SendingAlone'
  BY SendingAloneInductive
<1> QED
  BY <1>1, <1>2, TypeCorrect, PTL DEF Spec

(* What changes the message register: the ARM, and a thread that found it *)
(* empty.                                                                  *)
LEMMA WhoWritesMessages ==
  ASSUME TypeOK, Next, toArm' # toArm
  PROVE \/ ArmTakes
        \/ \E t \in Threads : WriteParams(t) \/ WriteStatus(t) \/ WriteMessage(t)
BY DEF Next, Arm, ArmPosts, PciDpcForIsrArmMsg, WorkerStep, Wake, GetARMMessage, SetFifo,
       AckARMMessage, ClearPending, Drain, CompleteArm, ClearRequest, GetFifo, Send,
       MailboxReady, MailboxTimeout, SystemCloseConfirms, Call, CallCloses, CallSends

(* The ARM acts on every command and every completion with its own         *)
(* parameters, as long as one thread sends.                                *)
THEOREM OneSenderOwnParams ==
  ASSUME OneSender
  PROVE Spec => OwnParams
<1>1. ASSUME TypeOK, SendingAlone, [Next]_vars
      PROVE toArm.message # None /\ toArm'.message = None /\ HasParams(toArm.message)
              => toArm.param = toArm.message
  BY <1>1 DEF SendingAlone
<1> QED
  BY <1>1, TypeCorrect, MailboxOfOneSender, PTL DEF Spec, OwnParams

(* Nothing that one thread sent is overwritten before the ARM took it. *)
THEOREM OneSenderNoOverwrite ==
  ASSUME OneSender
  PROVE Spec => NoOverwrite
<1>1. ASSUME TypeOK, SendingAlone, [Next]_vars
      PROVE toArm.message # None => toArm'.message \in {None, toArm.message}
  <2> USE DEF TypeOK
  <2>1. CASE toArm' = toArm
    BY <2>1
  <2>2. CASE ArmTakes
    BY <1>1, <2>2 DEF ArmTakes
  <2>3. ASSUME NEW t \in Threads, WriteParams(t) \/ WriteStatus(t)
        PROVE toArm'.message = toArm.message
    BY <1>1, <2>3 DEF WriteParams, WriteStatus
  <2>4. ASSUME NEW t \in Threads, WriteMessage(t)
        PROVE toArm.message = None
    BY <1>1, <2>4 DEF WriteMessage, SendingAlone
  <2>6. CASE Next /\ toArm' # toArm
    <3>1. ArmTakes \/ \E t \in Threads : WriteParams(t) \/ WriteStatus(t) \/ WriteMessage(t)
      BY <1>1, <2>6, WhoWritesMessages
    <3> QED
      BY <3>1, <2>2, <2>3, <2>4
  <2>5. CASE UNCHANGED vars
    BY <2>5 DEF vars
  <2> QED
    BY <1>1, <2>1, <2>5, <2>6
<1> QED
  BY <1>1, TypeCorrect, MailboxOfOneSender, PTL DEF Spec, NoOverwrite
-----------------------------------------------------------------------------
(* Where the buffers are.  Each step of a single thread moves a buffer from *)
(* one of the places of Held to another; only a timeout drops it.           *)

Posted(b) == Unread /\ fromArm.buf = b
Read(b) == \E w \in Workers : pc[w] = "queue" /\ got[w].buf = b
Queued(b) == b \in Range(fifo)
Returned(b) == toArm.message # None /\ toArm.message.buf = b

Exclusive(b) ==
  /\ b \in armOwns => ~(Posted(b) \/ Read(b) \/ Queued(b) \/ request = b \/ Completing(b) \/ Returned(b))
  /\ Posted(b) => ~(Read(b) \/ Queued(b) \/ request = b \/ Completing(b) \/ Returned(b))
  /\ Read(b) => ~(Queued(b) \/ request = b \/ Completing(b) \/ Returned(b))
  /\ Queued(b) => ~(request = b \/ Completing(b) \/ Returned(b))
  /\ request = b => ~(Completing(b) \/ Returned(b))
  /\ Completing(b) => ~Returned(b)

Somewhere(b) ==
  b \in armOwns \/ Posted(b) \/ Read(b) \/ Queued(b) \/ request = b \/ Completing(b) \/ Returned(b)

Sending(t) == pc[t] \in {"ready", "params", "trigger", "message"}

(* The message of the ARM is pending until the worker releases it, and is   *)
(* announced once.                                                          *)
PendingInv ==
  /\ armIrq \/ event => fromArm.pending
  /\ ~(armIrq /\ event)
  /\ \A w \in Workers :
       pc[w] \in {"get", "queue", "ack", "release"} \/ (Sending(w) /\ cmd[w].op = "Reply") =>
         fromArm.pending /\ ~armIrq /\ ~event
  /\ \A c \in Callers :
       /\ pc[c] \notin {"get", "queue", "ack", "release"}
       /\ Sending(c) => cmd[c].op # "Reply"

(* ArmRequest is empty when the next entry is fetched, and the messages that *)
(* carry a buffer are those that return one.                                *)
Carries(m) == m.op = "DataOut" <=> m.buf # None

RequestInv ==
  /\ \A t \in Threads :
       /\ pc[t] = "clear" => request # None /\ cmd[t] = DataOut(request)
       /\ pc[t] = "fetch" => request = None
       /\ Sending(t) => Carries(cmd[t])
       /\ Sending(t) /\ cmd[t].op = "DataOut" => request = None
  /\ toArm.message # None => Carries(toArm.message)

PlaceInv ==
  /\ IsInjective(fifo)
  /\ \A b \in Buffers : Exclusive(b)

HeldInv == TypeOK /\ SendingAlone /\ PendingInv /\ RequestInv /\ PlaceInv

LEMMA PendingStep ==
  ASSUME OneSender, HeldInv, [Next]_vars
  PROVE  PendingInv'
<1> USE ThreadsAssumption
    DEF HeldInv, TypeOK, PendingInv, RequestInv, Carries, Sending, armVars, taskVars, Goto, OneSender,
        Threads
<1>1. CASE Arm \/ PciDpcForIsrArmMsg \/ UNCHANGED vars
  BY <1>1 DEF Arm, ArmTakes, ArmPosts, PciDpcForIsrArmMsg, vars
<1>2. ASSUME NEW w \in Workers, WorkerStep(w) PROVE PendingInv'
  BY <1>2 DEF WorkerStep, Wake, GetARMMessage, SetFifo, AckARMMessage, ClearPending, AfterAck, Message
<1>3. ASSUME NEW t \in Threads, Drain(t) PROVE PendingInv'
  BY <1>3 DEF Drain, CompleteArm, ClearRequest, GetFifo, DataOut, Message
<1>4. ASSUME NEW t \in Threads, Send(t) PROVE PendingInv'
  BY <1>4 DEF Send, MailboxReady, MailboxTimeout, WriteParams, WriteStatus, WriteMessage,
     SystemCloseConfirms, AfterSend, AfterTimeout, AfterAck
<1>5. ASSUME NEW c \in Callers, Call(c) PROVE PendingInv'
  BY <1>5 DEF Call, CallCloses, CallSends, Message, ParamOps
<1> QED
  BY <1>1, <1>2, <1>3, <1>4, <1>5 DEF Next

LEMMA RequestStep ==
  ASSUME OneSender, HeldInv, [Next]_vars
  PROVE  RequestInv'
<1> USE ThreadsAssumption
    DEF HeldInv, TypeOK, PendingInv, RequestInv, Carries, Sending, armVars, taskVars, Goto, OneSender,
        Threads
<1>1. CASE Arm \/ PciDpcForIsrArmMsg \/ UNCHANGED vars
  BY <1>1 DEF Arm, ArmTakes, ArmPosts, PciDpcForIsrArmMsg, vars
<1>2. ASSUME NEW w \in Workers, WorkerStep(w) PROVE RequestInv'
  BY <1>2 DEF WorkerStep, Wake, GetARMMessage, SetFifo, AckARMMessage, ClearPending, AfterAck, Message
<1>3. ASSUME NEW t \in Threads, Drain(t) PROVE RequestInv'
  BY <1>3 DEF Drain, CompleteArm, ClearRequest, GetFifo, DataOut, Message
<1>4. ASSUME NEW t \in Threads, Send(t) PROVE RequestInv'
  BY <1>4 DEF Send, MailboxReady, MailboxTimeout, WriteParams, WriteStatus, WriteMessage,
     SystemCloseConfirms, AfterSend, AfterTimeout, AfterAck
<1>5. ASSUME NEW c \in Callers, Call(c) PROVE RequestInv'
  BY <1>5 DEF Call, CallCloses, CallSends, Message, ParamOps
<1> QED
  BY <1>1, <1>2, <1>3, <1>4, <1>5 DEF Next

(* A step of the thread t, where it is the only one. *)
LEMMA PlacesOfOne ==
  ASSUME OneSender, NEW t \in Threads, NEW b
  PROVE  /\ Completing(b) <=> Sending(t) /\ cmd[t] = DataOut(b)
         /\ Read(b) <=> t \in Workers /\ pc[t] = "queue" /\ got[t].buf = b
         /\ Unread <=> armIrq \/ event \/ (t \in Workers /\ pc[t] = "get")
         /\ Completing(b)' <=> Sending(t)' /\ cmd'[t] = DataOut(b)
         /\ Read(b)' <=> t \in Workers /\ pc'[t] = "queue" /\ got'[t].buf = b
         /\ Unread' <=> armIrq' \/ event' \/ (t \in Workers /\ pc'[t] = "get")
  BY DEF OneSender, Completing, Sending, Read, Unread, Threads

LEMMA DataOutBuf == \A b, c : (DataOut(b) = DataOut(c)) <=> b = c
  BY DEF DataOut

LEMMA NoDataOut == \A op, b : op # "DataOut" => Message(op) # DataOut(b)
  BY DEF DataOut, Message

(* The FIFO gains or loses an entry. *)
LEMMA Queues ==
  ASSUME NEW s \in Seq(Buffers), NEW e \in Buffers
  PROVE  /\ \A b : b \in Range(Append(s, e)) <=> b \in Range(s) \/ b = e
         /\ IsInjective(s) /\ e \notin Range(s) => IsInjective(Append(s, e))
<1>1. /\ Append(s, e) \in Seq(Buffers) /\ Len(Append(s, e)) = Len(s) + 1 /\ Len(s) \in Nat
      /\ \A i \in 1 .. Len(s) : Append(s, e)[i] = s[i]
      /\ Append(s, e)[Len(s) + 1] = e
  BY AppendProperties
<1>2. DOMAIN s = 1 .. Len(s) /\ DOMAIN Append(s, e) = 1 .. Len(s) + 1
  BY <1>1
<1> DEFINE u == Append(s, e)
<1> HIDE DEF u
<1>3. \A b : b \in Range(u) <=> b \in Range(s) \/ b = e
  BY <1>1, <1>2 DEF Range, u
<1>4. IsInjective(s) /\ e \notin Range(s) => IsInjective(u)
  BY <1>1, <1>2 DEF Range, IsInjective, u
<1> QED
  BY <1>3, <1>4 DEF u

LEMMA Dequeues ==
  ASSUME NEW s \in Seq(Buffers), s # <<>>, IsInjective(s)
  PROVE  /\ \A b : b \in Range(s) <=> b \in Range(Tail(s)) \/ b = Head(s)
         /\ Head(s) \notin Range(Tail(s)) /\ Head(s) \in Buffers /\ IsInjective(Tail(s))
<1>1. /\ Head(s) = s[1] /\ Tail(s) \in Seq(Buffers) /\ Len(s) \in Nat \ {0}
      /\ Len(Tail(s)) = Len(s) - 1 /\ \A i \in 1 .. Len(Tail(s)) : Tail(s)[i] = s[i + 1]
  BY HeadTailProperties
<1>2. DOMAIN s = 1 .. Len(s) /\ DOMAIN Tail(s) = 1 .. Len(s) - 1
  BY <1>1
<1> DEFINE u == Tail(s)
<1> HIDE DEF u
<1>3. \A b : b \in Range(s) => b \in Range(u) \/ b = s[1]
  <2> SUFFICES ASSUME NEW i \in 1 .. Len(s) PROVE s[i] \in Range(u) \/ s[i] = s[1]
    BY <1>2 DEF Range
  <2>1. CASE i = 1
    BY <2>1
  <2>2. CASE i # 1
    <3>1. i - 1 \in 1 .. Len(s) - 1 /\ (i - 1) + 1 = i
      BY <1>1, <2>2
    <3>2. u[i - 1] = s[i]
      BY <1>1, <3>1 DEF u
    <3> QED
      BY <1>2, <3>1, <3>2 DEF Range, u
  <2> QED
    BY <2>1, <2>2
<1>4. \A b : b \in Range(u) \/ b = s[1] => b \in Range(s)
  BY <1>1, <1>2 DEF Range, u
<1>5. s[1] \notin Range(u) /\ IsInjective(u)
  BY <1>1, <1>2 DEF Range, IsInjective, u
<1> QED
  BY <1>1, <1>3, <1>4, <1>5, HeadTailProperties DEF u

(* A buffer stays where it is, or goes from one place to another; a timeout *)
(* may drop it.                                                             *)
LEMMA PlaceStep ==
  ASSUME OneSender, HeldInv, [Next]_vars
  PROVE  /\ PlaceInv'
         /\ ~Slow /\ (\A b \in Buffers : Somewhere(b)) => (\A b \in Buffers : Somewhere(b)')
<1> DEFINE Goal == /\ PlaceInv'
                   /\ ~Slow /\ (\A b \in Buffers : Somewhere(b)) => (\A b \in Buffers : Somewhere(b)')
<1> USE ThreadsAssumption, BuffersAssumption
    DEF HeldInv, TypeOK, PendingInv, RequestInv, Carries, PlaceInv, SendingAlone, Exclusive, Somewhere,
        Posted, Queued, Returned, armVars, taskVars, Goto
<1>1. CASE UNCHANGED vars
  BY <1>1 DEF vars, Read, Completing, Unread
<1>2. CASE PciDpcForIsrArmMsg
  BY <1>2 DEF PciDpcForIsrArmMsg, Read, Completing, Unread
<1>3. CASE ArmTakes
  BY <1>3 DEF ArmTakes, Read, Completing, Unread
<1>4. ASSUME NEW b \in Buffers \cup {None}, NEW reply \in BOOLEAN, ArmPosts(b, reply) PROVE Goal
  BY <1>4 DEF ArmPosts, Read, Completing, Unread
<1>5. ASSUME NEW w \in Workers, WorkerStep(w) PROVE Goal
  <2>0. w \in Threads
    BY DEF Threads
  <2>1. CASE Wake(w)
    BY <2>0, <2>1, PlacesOfOne DEF Wake, Sending
  <2>2. CASE GetARMMessage(w)
    BY <2>0, <2>2, PlacesOfOne DEF GetARMMessage, Sending
  <2>3. CASE SetFifo(w)
    BY <2>0, <2>3, PlacesOfOne, Queues DEF SetFifo, Sending, QueuesABuffer
  <2>4. CASE AckARMMessage(w)
    BY <2>0, <2>4, PlacesOfOne, NoDataOut DEF AckARMMessage, Sending
  <2>5. CASE ClearPending(w)
    BY <2>0, <2>5, PlacesOfOne DEF ClearPending, Sending, AfterAck
  <2> QED
    BY <1>5, <2>1, <2>2, <2>3, <2>4, <2>5 DEF WorkerStep
<1>6. ASSUME NEW t \in Threads, Drain(t) PROVE Goal
  <2>1. CASE CompleteArm(t)
    BY <2>1, PlacesOfOne DEF CompleteArm, Sending
  <2>2. CASE ClearRequest(t)
    BY <2>2, PlacesOfOne, DataOutBuf DEF ClearRequest, Sending
  <2>3. CASE GetFifo(t)
    <3>1. CASE fifo # <<>>
      <4>1. /\ pc[t] = "fetch" /\ request = None /\ pc'[t] = "drain"
            /\ fifo' = Tail(fifo) /\ request' = Head(fifo)
            /\ UNCHANGED <<toArm, fromArm, armIrq, event, armOwns, cmd, got>>
        BY <2>3, <3>1 DEF GetFifo
      <4>2. /\ \A b : b \in Range(fifo) <=> b \in Range(fifo') \/ b = request'
            /\ request' \notin Range(fifo') /\ request' \in Buffers /\ IsInjective(fifo')
        BY <3>1, <4>1, Dequeues
      <4> QED
        BY <4>1, <4>2, PlacesOfOne DEF Sending
    <3>2. CASE fifo = <<>>
      BY <2>3, <3>2, PlacesOfOne, NoDataOut DEF GetFifo, Sending
    <3> QED
      BY <3>1, <3>2
  <2> QED
    BY <1>6, <2>1, <2>2, <2>3 DEF Drain
<1>7. ASSUME NEW t \in Threads, Send(t) PROVE Goal
  <2>1. CASE MailboxReady(t)
    BY <2>1, PlacesOfOne DEF MailboxReady, Sending
  <2>2. CASE MailboxTimeout(t)
    BY <2>2, PlacesOfOne DEF MailboxTimeout, Sending, AfterTimeout, AfterAck
  <2>3. CASE WriteParams(t)
    BY <2>3, PlacesOfOne DEF WriteParams, Sending
  <2>4. CASE WriteStatus(t)
    BY <2>4, PlacesOfOne DEF WriteStatus, Sending
  <2>5. CASE WriteMessage(t)
    <3>1. Sending(t) /\ toArm.message = None /\ toArm'.message = cmd[t] /\ cmd[t] # None
      BY <2>5, NoMessageAssumption DEF WriteMessage, Sending
    <3>2. \A b \in Buffers : cmd[t] = DataOut(b) <=> cmd[t].buf = b
      BY <3>1 DEF Messages, DataOut
    <3> QED
      BY <2>5, <3>1, <3>2, PlacesOfOne DEF WriteMessage, Sending, AfterSend
  <2>6. CASE SystemCloseConfirms(t)
    BY <2>6, PlacesOfOne DEF SystemCloseConfirms, Sending
  <2> QED
    BY <1>7, <2>1, <2>2, <2>3, <2>4, <2>5, <2>6 DEF Send
<1>8. ASSUME NEW c \in Callers, Call(c) PROVE Goal
  <2>0. c \in Threads
    BY DEF Threads
  <2>1. CASE CallCloses(c)
    BY <2>0, <2>1, PlacesOfOne DEF CallCloses, Sending
  <2>2. ASSUME NEW op \in ParamOps, CallSends(c, op) PROVE Goal
    BY <2>0, <2>2, PlacesOfOne, NoDataOut DEF CallSends, Sending, ParamOps
  <2> QED
    BY <1>8, <2>1, <2>2 DEF Call
<1> QED
  BY <1>1, <1>2, <1>3, <1>4, <1>5, <1>6, <1>7, <1>8 DEF Next, Arm

LEMMA InitHeld == TypeOK /\ Init => HeldInv /\ \A b \in Buffers : Somewhere(b)
<1> SUFFICES ASSUME TypeOK, Init PROVE HeldInv /\ \A b \in Buffers : Somewhere(b)
  OBVIOUS
<1>1. SendingAlone /\ PendingInv /\ RequestInv
  BY DEF Init, SendingAlone, PendingInv, RequestInv, Sending, Threads
<1>2. PlaceInv /\ \A b \in Buffers : Somewhere(b)
  <2>1. Range(fifo) = {} /\ IsInjective(fifo)
    BY DEF Init, Range, IsInjective
  <2>2. \A b : ~Completing(b) /\ ~Read(b) /\ ~Posted(b)
    BY DEF Init, Completing, Read, Posted, Unread, Threads
  <2> QED
    BY <2>1, <2>2, BuffersAssumption DEF Init, PlaceInv, Exclusive, Somewhere, Queued, Returned
<1> QED
  BY <1>1, <1>2 DEF HeldInv

LEMMA HeldStep == ASSUME OneSender, HeldInv, TypeOK', [Next]_vars PROVE HeldInv'
  BY PendingStep, RequestStep, PlaceStep, SendingAloneInductive DEF HeldInv

LEMMA SpecHeld == ASSUME OneSender PROVE Spec => []HeldInv
<1>1. TypeOK /\ Init => HeldInv
  BY InitHeld
<1>2. HeldInv /\ TypeOK' /\ [Next]_vars => HeldInv'
  BY HeldStep
<1> QED
  BY <1>1, <1>2, TypeCorrect, PTL DEF Spec

LEMMA AtMostOne ==
  ASSUME NEW S, \A p, q \in S : p = q
  PROVE  Cardinality(S) <= 1
<1>1. CASE S = {}
  <2>1. Cardinality({}) = 0
    BY FS_EmptySet
  <2> QED
    BY <1>1, <2>1
<1>2. CASE S # {}
  <2>1. PICK p \in S : TRUE
    BY <1>2
  <2>2. S = {p}
    BY <2>1
  <2>3. Cardinality({p}) = 1
    BY FS_Singleton
  <2> QED
    BY <2>2, <2>3
<1> QED
  BY <1>1, <1>2

LEMMA Holding ==
  ASSUME NEW b
  PROVE  /\ DOMAIN Held(b) = {"arm", "posted", "read", "queued", "requested", "completing", "returned"}
         /\ "arm" \in Holders(b) <=> b \in armOwns
         /\ "posted" \in Holders(b) <=> Posted(b)
         /\ "read" \in Holders(b) <=> Read(b)
         /\ "queued" \in Holders(b) <=> Queued(b)
         /\ "requested" \in Holders(b) <=> request = b
         /\ "completing" \in Holders(b) <=> Completing(b)
         /\ "returned" \in Holders(b) <=> Returned(b)
  BY DEF Holders, Held, Posted, Read, Queued, Returned

(* A buffer that the ARM lent is in one place until the ARM has it back, as *)
(* long as one thread works: also where a timeout makes the host drop it.   *)
THEOREM OneSenderHoldsOnce ==
  ASSUME OneSender
  PROVE  Spec => []HeldOnce
<1>1. ASSUME HeldInv PROVE HeldOnce
  <2> SUFFICES ASSUME NEW b \in Buffers PROVE Cardinality(Holders(b)) <= 1
    BY <1>1 DEF HeldOnce, HeldInv, PlaceInv
  <2>1. Exclusive(b)
    BY <1>1 DEF HeldInv, PlaceInv
  <2>2. \A p, q \in Holders(b) : p = q
    <3>1. Holders(b) \subseteq {"arm", "posted", "read", "queued", "requested", "completing", "returned"}
      BY Holding DEF Holders
    <3> QED
      BY <2>1, <3>1, Holding DEF Exclusive
  <2> QED
    BY <2>2, AtMostOne
<1> QED
  BY <1>1, SpecHeld, PTL

(* With an ARM that takes every message in time it is lost nowhere. *)
THEOREM OneSenderLosesNothing ==
  ASSUME OneSender, ~Slow
  PROVE  Spec => []NoBufferLost
<1> DEFINE Found == \A b \in Buffers : Somewhere(b)
<1>1. TypeOK /\ Init => Found
  BY InitHeld
<1>2. HeldInv /\ Found /\ [Next]_vars => Found'
  BY PlaceStep
<1>3. Found => NoBufferLost
  BY Holding DEF NoBufferLost, Somewhere
<1> QED
  BY <1>1, <1>2, <1>3, TypeCorrect, SpecHeld, PTL DEF Spec
-----------------------------------------------------------------------------
(* One sender keeps the promise of MessageExchange.  The buffers that the  *)
(* host has are a sequence: the one on its way back, the FIFO, the one     *)
(* that arrives.  HeldInv says that these are one each, and disjoint.      *)

LEMMA TypesOfOne ==
  ASSUME NEW S \in SUBSET Buffers
  PROVE  One(S) \in Seq(Buffers)
  BY DEF One

LEMMA OneOfOne == One({}) = <<>> /\ \A b : One({b}) = <<b>>
<1>1. ASSUME NEW b PROVE One({b}) = <<b>>
  <2>1. {b} # {} /\ (CHOOSE e \in {b} : TRUE) = b
    OBVIOUS
  <2> QED
    BY <2>1 DEF One
<1> QED
  BY <1>1 DEF One

(* A buffer that arrives is the newest. *)
LEMMA Arrives ==
  ASSUME NEW S, NEW s \in Seq(S), NEW u \in Seq(S), NEW b \in S
  PROVE  (s \o u) \o <<b>> = Append((s \o u) \o <<>>, b)
<1>1. s \o u \in Seq(S)
  BY ConcatProperties
<1>2. (s \o u) \o <<>> = s \o u
  BY <1>1, ConcatEmptySeq
<1>3. Append(s \o u, b) = (s \o u) \o <<b>>
  BY <1>1, AppendIsConcat
<1> QED
  BY <1>2, <1>3

(* It keeps its place when it is put into the FIFO, *)
LEMMA IsQueued ==
  ASSUME NEW S, NEW s \in Seq(S), NEW u \in Seq(S), NEW b \in S
  PROVE  (s \o Append(u, b)) \o <<>> = (s \o u) \o <<b>>
<1>1. <<b>> \in Seq(S) /\ Append(u, b) \in Seq(S)
  BY AppendProperties
<1>2. s \o Append(u, b) \in Seq(S)
  BY <1>1, ConcatProperties
<1>3. (s \o Append(u, b)) \o <<>> = s \o Append(u, b)
  BY <1>2, ConcatEmptySeq
<1>4. Append(u, b) = u \o <<b>>
  BY AppendIsConcat
<1>5. (s \o u) \o <<b>> = s \o (u \o <<b>>)
  BY <1>1, ConcatAssociative
<1> QED
  BY <1>3, <1>4, <1>5

LEMMA FirstOfCons ==
  ASSUME NEW S, NEW b \in S, NEW s \in Seq(S)
  PROVE  <<b>> \o s # <<>> /\ Head(<<b>> \o s) = b /\ Tail(<<b>> \o s) = s
<1> DEFINE w == <<b>> \o s
<1>1. <<b>> \in Seq(S) /\ Len(<<b>>) = 1 /\ Len(s) \in Nat
  OBVIOUS
<1>2. /\ w \in Seq(S) /\ Len(w) = 1 + Len(s)
      /\ \A i \in 1 .. 1 + Len(s) : w[i] = IF i <= 1 THEN b ELSE s[i - 1]
  BY <1>1, ConcatProperties
<1> HIDE DEF w
<1>3. w # <<>> /\ Head(w) = b
  BY <1>1, <1>2
<1>4. /\ Tail(w) \in Seq(S) /\ Len(Tail(w)) = Len(s)
      /\ \A i \in 1 .. Len(s) : Tail(w)[i] = w[i + 1]
  BY <1>1, <1>2, <1>3, HeadTailProperties
<1>5. \A i \in 1 .. Len(s) : w[i + 1] = s[i]
  BY <1>1, <1>2
<1>6. Tail(w) = s
  BY <1>4, <1>5, SeqEqual
<1> QED
  BY <1>3, <1>6 DEF w

(* and when it is fetched from there, *)
LEMMA IsFetched ==
  ASSUME NEW S, NEW s \in Seq(S), s # <<>>
  PROVE  <<Head(s)>> \o Tail(s) = <<>> \o s
<1> DEFINE w == <<Head(s)>> \o Tail(s)
<1>1. /\ Head(s) \in S /\ Tail(s) \in Seq(S) /\ Len(s) \in Nat /\ Len(Tail(s)) = Len(s) - 1
      /\ \A i \in 1 .. Len(Tail(s)) : Tail(s)[i] = s[i + 1]
  BY HeadTailProperties
<1>2. <<Head(s)>> \in Seq(S) /\ Len(<<Head(s)>>) = 1 /\ 1 + Len(Tail(s)) = Len(s)
  BY <1>1
<1>3. /\ w \in Seq(S) /\ Len(w) = Len(s)
      /\ \A i \in 1 .. Len(s) : w[i] = IF i <= 1 THEN Head(s) ELSE Tail(s)[i - 1]
  BY <1>1, <1>2, ConcatProperties
<1> HIDE DEF w
<1>4. \A i \in 1 .. Len(s) : w[i] = s[i]
  <2> TAKE i \in 1 .. Len(s)
  <2>1. CASE i = 1
    BY <1>3, <2>1
  <2>2. CASE i # 1
    <3>1. i - 1 \in 1 .. Len(Tail(s)) /\ (i - 1) + 1 = i
      BY <1>1, <2>2
    <3> QED
      BY <1>1, <1>3, <3>1
  <2> QED
    BY <2>1, <2>2
<1>5. w = s
  BY <1>3, <1>4, SeqEqual
<1>6. <<>> \o s = s
  BY ConcatEmptySeq
<1> QED
  BY <1>5, <1>6 DEF w

(* and when it goes, it was the oldest. *)
LEMMA Leaves ==
  ASSUME NEW S, NEW b \in S, NEW s \in Seq(S), NEW u \in Seq(S)
  PROVE  /\ (<<b>> \o s) \o u # <<>> /\ Head((<<b>> \o s) \o u) = b
         /\ Tail((<<b>> \o s) \o u) = (<<>> \o s) \o u
<1>1. <<b>> \in Seq(S) /\ s \o u \in Seq(S)
  BY ConcatProperties
<1>2. (<<b>> \o s) \o u = <<b>> \o (s \o u)
  BY <1>1, ConcatAssociative
<1>3. <<>> \o s = s
  BY ConcatEmptySeq
<1> QED
  BY <1>1, <1>2, <1>3, FirstOfCons

LEMMA LentTypes ==
  ASSUME TypeOK
  PROVE  One(Leaving) \in Seq(Buffers) /\ fifo \in Seq(Buffers) /\ One(Arriving) \in Seq(Buffers)
<1>1. Leaving \in SUBSET Buffers /\ Arriving \in SUBSET Buffers
  BY DEF Leaving, Arriving
<1> QED
  BY <1>1, TypesOfOne DEF TypeOK

(* What the mailbox holds for the ARM, and the buffers at the two ends of   *)
(* the FIFO, in terms of the thread t, where it is the only one.            *)
LEMMA EndsOfOne ==
  ASSUME OneSender, NEW t \in Threads, NEW b \in Buffers
  PROVE  /\ b \in Leaving <=> request = b \/ (Sending(t) /\ cmd[t] = DataOut(b))
         /\ b \in Leaving' <=> request' = b \/ (Sending(t)' /\ cmd'[t] = DataOut(b))
         /\ b \in Arriving <=> \/ fromArm.buf = b /\ (armIrq \/ event \/ (t \in Workers /\ pc[t] = "get"))
                               \/ t \in Workers /\ pc[t] = "queue" /\ got[t].buf = b
         /\ b \in Arriving' <=> \/ fromArm'.buf = b /\ (armIrq' \/ event' \/ (t \in Workers /\ pc'[t] = "get"))
                                \/ t \in Workers /\ pc'[t] = "queue" /\ got'[t].buf = b
<1>1. /\ b \in Leaving <=> request = b \/ Completing(b)
      /\ b \in Leaving' <=> request' = b \/ Completing(b)'
      /\ b \in Arriving <=> (Unread /\ fromArm.buf = b) \/ Read(b)
      /\ b \in Arriving' <=> (Unread' /\ fromArm'.buf = b) \/ Read(b)'
  BY DEF Leaving, Arriving, Read
<1> QED
  BY <1>1, PlacesOfOne

(* A step that moves no buffer and neither writes nor takes a message. *)
Stays ==
  /\ \A b \in Buffers : (b \in Leaving' <=> b \in Leaving) /\ (b \in Arriving' <=> b \in Arriving)
  /\ Sent' = Sent
  /\ UNCHANGED <<armOwns, fifo>>

LEMMA StaysSame ==
  ASSUME Stays
  PROVE  UNCHANGED Exchange!messageVars
<1>1. Leaving' = Leaving /\ Arriving' = Arriving
  <2>1. Leaving \subseteq Buffers /\ Leaving' \subseteq Buffers
        /\ Arriving \subseteq Buffers /\ Arriving' \subseteq Buffers
    BY DEF Leaving, Arriving
  <2> QED
    BY <2>1 DEF Stays
<1>2. LentBuffers' = LentBuffers
  BY <1>1 DEF Stays, LentBuffers
<1> QED
  BY <1>2 DEF Stays, Exchange!messageVars

(* The ARM. *)
LEMMA PostLends ==
  ASSUME HeldInv, NEW b \in Buffers \cup {None}, NEW reply \in BOOLEAN, ArmPosts(b, reply)
  PROVE  [Exchange!Next]_(Exchange!messageVars)
<1> USE DEF HeldInv, TypeOK, PendingInv
<1>1. /\ ~fromArm.pending /\ b \in armOwns \cup {None} /\ fromArm'.buf = b
      /\ armOwns' = armOwns \ {b} /\ armIrq'
      /\ UNCHANGED <<toArm, event, fifo, request, pc, cmd, got>>
  BY DEF ArmPosts, taskVars
<1>2. ~Unread /\ \A w \in Workers : pc[w] # "queue"
  BY <1>1 DEF Unread
<1>3. Arriving = {} /\ Arriving' = {b} \cap Buffers
  BY <1>1, <1>2 DEF Arriving, Unread
<1>4. Leaving' = Leaving /\ Sent' = Sent
  BY <1>1 DEF Leaving, Completing, Sent
<1>5. CASE b = None
  <2>1. Arriving' = Arriving /\ armOwns' = armOwns
    BY <1>1, <1>3, <1>5, BuffersAssumption
  <2> QED
    BY <1>1, <1>4, <2>1, StaysSame DEF Stays
<1>6. CASE b \in Buffers
  <2>0. Arriving' = {b} /\ b \in armOwns
    BY <1>1, <1>3, <1>6, BuffersAssumption
  <2>1. One(Arriving) = <<>> /\ One(Arriving') = <<b>>
    BY <1>3, <2>0, OneOfOne
  <2>2. LentBuffers' = Append(LentBuffers, b)
    BY <1>1, <1>4, <1>6, <2>1, LentTypes, Arrives DEF LentBuffers
  <2>3. Exchange!Lend(b)
    BY <1>1, <1>4, <2>0, <2>2 DEF Exchange!Lend
  <2> QED
    BY <1>6, <2>3 DEF Exchange!Next
<1> QED
  BY <1>5, <1>6

LEMMA TakenIsTaken ==
  ASSUME HeldInv, ArmTakes
  PROVE  Exchange!Take
<1> USE DEF HeldInv, TypeOK
<1>1. /\ toArm.message # None /\ toArm.message \in Messages
      /\ armOwns' = armOwns \cup ({toArm.message.buf} \cap Buffers)
      /\ UNCHANGED <<fromArm, armIrq, event, fifo, request, pc, cmd, got>>
      /\ toArm'.message = None
  BY DEF ArmTakes, taskVars
<1>2. Carries(toArm.message)
  BY <1>1 DEF RequestInv
<1>3. \A b \in Buffers : toArm.message = DataOut(b) <=> toArm.message.buf = b
  BY <1>1, <1>2, BuffersAssumption DEF Carries, Messages, DataOut
<1>4. {toArm.message.buf} \cap Buffers = {b \in Buffers : toArm.message = DataOut(b)}
  BY <1>3
<1>5. LentBuffers' = LentBuffers
  BY <1>1 DEF LentBuffers, Leaving, Arriving, Completing, Unread
<1>6. Sent # <<>> /\ Sent[1] = toArm.message /\ Sent' = <<>>
  BY <1>1 DEF Sent
<1> QED
  BY <1>1, <1>4, <1>5, <1>6 DEF Exchange!Take

(* The worker. *)
LEMMA WorkerStays ==
  ASSUME OneSender, HeldInv, NEW w \in Workers,
         Wake(w) \/ GetARMMessage(w) \/ AckARMMessage(w) \/ ClearPending(w)
  PROVE  Stays
<1> USE BuffersAssumption DEF HeldInv, TypeOK, PendingInv, RequestInv, Stays, Goto, armVars, taskVars, Sending
<1>0. w \in Threads
  BY DEF Threads
<1>1. CASE Wake(w)
  BY <1>0, <1>1, EndsOfOne DEF Wake, Sent
<1>2. CASE GetARMMessage(w)
  BY <1>0, <1>2, EndsOfOne DEF GetARMMessage, Sent
<1>3. CASE AckARMMessage(w)
  BY <1>0, <1>3, EndsOfOne, NoDataOut DEF AckARMMessage, Sent
<1>4. CASE ClearPending(w)
  BY <1>0, <1>4, EndsOfOne DEF ClearPending, Sent, AfterAck
<1> QED
  BY <1>1, <1>2, <1>3, <1>4

(* The work item of the interrupt. *)
LEMMA DpcStays ==
  ASSUME PciDpcForIsrArmMsg
  PROVE  Stays
<1>1. Unread' /\ Unread
  BY DEF PciDpcForIsrArmMsg, Unread
<1> QED
  BY <1>1 DEF PciDpcForIsrArmMsg, Stays, Leaving, Arriving, Completing, Sent, taskVars

LEMMA QueueKeepsOrder ==
  ASSUME OneSender, HeldInv, NEW w \in Workers, SetFifo(w)
  PROVE  UNCHANGED Exchange!messageVars
<1> DEFINE b == got[w].buf
<1>0. w \in Threads
  BY DEF Threads
<1>1. /\ pc[w] = "queue" /\ pc'[w] = "ack" /\ fifo' = Append(fifo, b)
      /\ UNCHANGED <<toArm, fromArm, armIrq, event, armOwns, request, cmd, got>>
  BY <1>0 DEF HeldInv, TypeOK, SetFifo, Goto, armVars
<1>2. b \in Buffers /\ ~armIrq /\ ~event
  BY <1>1 DEF HeldInv, TypeOK, PendingInv, QueuesABuffer
<1> HIDE DEF b
<1>3. \A e \in Buffers : /\ e \in Arriving <=> e = b
                         /\ e \notin Arriving'
                         /\ e \in Leaving' <=> e \in Leaving
  BY <1>0, <1>1, <1>2, EndsOfOne DEF Sending, b
<1>4. Arriving = {b} /\ Arriving' = {} /\ Leaving' = Leaving
  BY <1>2, <1>3 DEF Arriving, Leaving
<1>5. One(Arriving) = <<b>> /\ One(Arriving') = <<>> /\ One(Leaving') = One(Leaving)
  BY <1>4, OneOfOne
<1>6. One(Leaving) \in Seq(Buffers) /\ fifo \in Seq(Buffers)
  BY LentTypes DEF HeldInv
<1>7. LentBuffers' = LentBuffers
  BY <1>1, <1>2, <1>5, <1>6, IsQueued DEF LentBuffers
<1> QED
  BY <1>1, <1>7 DEF Exchange!messageVars, Sent

(* The loop that returns the buffers. *)
LEMMA DrainKeepsOrder ==
  ASSUME OneSender, HeldInv, NEW t \in Threads, Drain(t)
  PROVE  UNCHANGED Exchange!messageVars
<1> USE BuffersAssumption DEF HeldInv, TypeOK, RequestInv, Goto, armVars, taskVars
<1>1. CASE CompleteArm(t)
  <2>1. Stays
    BY <1>1, EndsOfOne DEF CompleteArm, Stays, Sent, Sending
  <2> QED
    BY <2>1, StaysSame
<1>2. CASE ClearRequest(t)
  <2>1. Stays
    BY <1>2, EndsOfOne, DataOutBuf DEF ClearRequest, Stays, Sent, Sending
  <2> QED
    BY <2>1, StaysSame
<1>3. CASE GetFifo(t)
  <2>1. CASE fifo = <<>>
    <3>1. Stays
      BY <1>3, <2>1, EndsOfOne, NoDataOut DEF GetFifo, Stays, Sent, Sending
    <3> QED
      BY <3>1, StaysSame
  <2>2. CASE fifo # <<>>
    <3>1. /\ pc[t] = "fetch" /\ request = None /\ pc'[t] = "drain"
          /\ fifo' = Tail(fifo) /\ request' = Head(fifo)
          /\ UNCHANGED <<toArm, fromArm, armIrq, event, armOwns, cmd, got>>
      BY <1>3, <2>2 DEF GetFifo
    <3>2. Head(fifo) \in Buffers /\ fifo' \in Seq(Buffers)
      BY <2>2, <3>1, HeadTailProperties
    <3>3. \A b \in Buffers : /\ b \notin Leaving
                             /\ b \in Leaving' <=> b = Head(fifo)
                             /\ b \in Arriving' <=> b \in Arriving
      BY <3>1, EndsOfOne DEF Sending
    <3>4. Leaving = {} /\ Leaving' = {Head(fifo)} /\ Arriving' = Arriving
      BY <3>2, <3>3 DEF Leaving, Arriving
    <3>5. One(Leaving) = <<>> /\ One(Leaving') = <<Head(fifo)>> /\ One(Arriving') = One(Arriving)
      BY <3>4, OneOfOne
    <3>6. One(Leaving') \o fifo' = One(Leaving) \o fifo
      BY <2>2, <3>1, <3>5, IsFetched
    <3>7. LentBuffers' = LentBuffers
      BY <3>5, <3>6 DEF LentBuffers
    <3> QED
      BY <3>1, <3>7 DEF Exchange!messageVars, Sent
  <2> QED
    BY <2>1, <2>2
<1> QED
  BY <1>1, <1>2, <1>3 DEF Drain

LEMMA CallStays ==
  ASSUME OneSender, HeldInv, NEW c \in Callers, Call(c)
  PROVE  Stays
<1> USE BuffersAssumption DEF HeldInv, TypeOK, RequestInv, Goto, armVars, taskVars, Stays, Sent, Sending
<1>0. c \in Threads
  BY DEF Threads
<1>1. CASE CallCloses(c)
  BY <1>0, <1>1, EndsOfOne DEF CallCloses
<1>2. ASSUME NEW op \in ParamOps, CallSends(c, op) PROVE Stays
  BY <1>0, <1>2, EndsOfOne, NoDataOut DEF CallSends, ParamOps
<1> QED
  BY <1>1, <1>2 DEF Call

(* Sending.  The parameters are written while no message waits. *)
LEMMA PollStays ==
  ASSUME OneSender, HeldInv, NEW t \in Threads,
         MailboxReady(t) \/ WriteParams(t) \/ WriteStatus(t) \/ SystemCloseConfirms(t)
  PROVE  Stays
<1> USE BuffersAssumption
    DEF HeldInv, TypeOK, RequestInv, SendingAlone, Goto, armVars, taskVars, Stays, Sent, Sending
<1>1. CASE MailboxReady(t)
  BY <1>1, EndsOfOne DEF MailboxReady
<1>2. CASE WriteParams(t)
  BY <1>2, EndsOfOne DEF WriteParams
<1>3. CASE WriteStatus(t)
  BY <1>3, EndsOfOne DEF WriteStatus
<1>4. CASE SystemCloseConfirms(t)
  BY <1>4, EndsOfOne DEF SystemCloseConfirms
<1> QED
  BY <1>1, <1>2, <1>3, <1>4

(* A thread that sends carries the oldest buffer, or none. *)
LEMMA Carried ==
  ASSUME OneSender, HeldInv, NEW t \in Threads, Sending(t), ~Sending(t)',
         UNCHANGED <<fromArm, armIrq, event, armOwns, fifo, request, got>>,
         t \in Workers => pc'[t] \notin {"get", "queue"}
  PROVE  /\ Arriving' = Arriving
         /\ cmd[t].op # "DataOut" => Leaving' = Leaving /\ cmd[t] = Message(cmd[t].op)
         /\ cmd[t].op = "DataOut" =>
              /\ cmd[t] = DataOut(cmd[t].buf) /\ LentBuffers # <<>>
              /\ Head(LentBuffers) = cmd[t].buf /\ LentBuffers' = Tail(LentBuffers)
<1> DEFINE m == cmd[t]
<1>1. m \in Messages /\ Carries(m) /\ (m.op = "DataOut" => request = None)
  BY DEF HeldInv, TypeOK, RequestInv
<1>2. /\ m.op = "DataOut" => m.buf \in Buffers /\ m = DataOut(m.buf)
      /\ m.op # "DataOut" => m = Message(m.op)
  BY <1>1 DEF Carries, Messages, DataOut, Message
<1> HIDE DEF m
<1>3. \A b \in Buffers : b \in Arriving' <=> b \in Arriving
  BY EndsOfOne DEF Sending
<1>4. Arriving' = Arriving
  BY <1>3 DEF Arriving
<1>5. CASE m.op # "DataOut"
  <2>1. \A b \in Buffers : m # DataOut(b)
    BY <1>5 DEF DataOut
  <2>2. \A b \in Buffers : b \in Leaving' <=> b \in Leaving
    BY <2>1, EndsOfOne DEF m
  <2> QED
    BY <1>2, <1>4, <1>5, <2>2 DEF Leaving, m
<1>6. CASE m.op = "DataOut"
  <2>1. \A b \in Buffers : /\ b \in Leaving <=> b = m.buf
                           /\ b \notin Leaving'
    BY <1>1, <1>2, <1>6, EndsOfOne, DataOutBuf, BuffersAssumption DEF m
  <2>2. Leaving = {m.buf} /\ Leaving' = {}
    BY <1>2, <1>6, <2>1 DEF Leaving
  <2>3. One(Leaving) = <<m.buf>> /\ One(Leaving') = <<>> /\ One(Arriving') = One(Arriving)
    BY <1>4, <2>2, OneOfOne
  <2>4. fifo \in Seq(Buffers) /\ One(Arriving) \in Seq(Buffers) /\ m.buf \in Buffers
    BY <1>2, <1>6, LentTypes DEF HeldInv
  <2>5. /\ LentBuffers = (<<m.buf>> \o fifo) \o One(Arriving)
        /\ LentBuffers' = (<<>> \o fifo) \o One(Arriving)
    BY <2>3 DEF LentBuffers
  <2> QED
    BY <1>2, <1>4, <1>6, <2>4, <2>5, Leaves DEF m
<1> QED
  BY <1>5, <1>6 DEF m

(* A completion that finds the mailbox busy for too long drops its buffer. *)
LEMMA TimeoutLoses ==
  ASSUME OneSender, HeldInv, NEW t \in Threads, MailboxTimeout(t)
  PROVE  [Exchange!Next]_(Exchange!messageVars)
<1>1. /\ Slow /\ Sending(t) /\ ~Sending(t)' /\ Sent' = Sent
      /\ UNCHANGED <<fromArm, armIrq, event, armOwns, fifo, request, got>>
      /\ pc'[t] \notin {"get", "queue"}
  BY DEF MailboxTimeout, AfterTimeout, AfterAck, Goto, Sending, Sent, HeldInv, TypeOK, armVars, taskVars
<1>2. CASE cmd[t].op = "DataOut"
  <2>1. Exchange!Lose
    BY <1>1, <1>2, Carried DEF Exchange!Lose
  <2> QED
    BY <2>1 DEF Exchange!Next
<1>3. CASE cmd[t].op # "DataOut"
  <2>1. LentBuffers' = LentBuffers
    BY <1>1, <1>3, Carried DEF LentBuffers
  <2> QED
    BY <1>1, <2>1 DEF Exchange!messageVars
<1> QED
  BY <1>2, <1>3

(* What is written to the message register is the oldest buffer, or a      *)
(* command with its own parameters.                                        *)
LEMMA WriteSends ==
  ASSUME OneSender, HeldInv, NEW t \in Threads, WriteMessage(t)
  PROVE  Exchange!Next
<1>1. /\ pc[t] = "message" /\ Sending(t) /\ ~Sending(t)'
      /\ UNCHANGED <<fromArm, armIrq, event, armOwns, fifo, request, got>>
      /\ pc'[t] \notin {"get", "queue"}
  BY DEF WriteMessage, AfterSend, Goto, Sending, HeldInv, TypeOK, armVars, taskVars
<1>2. /\ toArm.message = None /\ (HasParams(cmd[t]) => toArm.param = cmd[t])
      /\ toArm'.message = cmd[t] /\ toArm'.param = toArm.param
      /\ cmd[t] \in Messages /\ cmd[t] # None
  BY <1>1, NoMessageAssumption DEF WriteMessage, HeldInv, TypeOK, SendingAlone
<1>3. Sent = <<>> /\ Sent' = <<cmd[t], IF HasParams(cmd[t]) THEN cmd[t] ELSE None>>
  BY <1>2 DEF Sent
<1>4. CASE cmd[t].op = "DataOut"
  <2>1. ~HasParams(cmd[t])
    BY <1>4 DEF HasParams, ParamOps
  <2>2. Exchange!Return
    BY <1>1, <1>3, <1>4, <2>1, Carried DEF Exchange!Return
  <2> QED
    BY <2>2 DEF Exchange!Next
<1>5. CASE cmd[t].op # "DataOut"
  <2>1. LentBuffers' = LentBuffers /\ cmd[t] = Message(cmd[t].op)
    BY <1>1, <1>5, Carried DEF LentBuffers
  <2>2. CASE cmd[t].op \in ParamOps
    <3>1. HasParams(cmd[t]) /\ cmd[t] \in {Message(op) : op \in ParamOps}
      BY <2>1, <2>2 DEF HasParams
    <3>2. Exchange!Command(cmd[t])
      BY <1>1, <1>3, <2>1, <3>1 DEF Exchange!Command
    <3> QED
      BY <3>1, <3>2 DEF Exchange!Next
  <2>3. CASE cmd[t].op \notin ParamOps
    <3>1. cmd[t].op \in Ops \ (ParamOps \cup {"DataOut"}) /\ ~HasParams(cmd[t])
      BY <1>2, <1>5, <2>3 DEF HasParams, Messages
    <3>2. cmd[t] \in {Message(op) : op \in Ops \ (ParamOps \cup {"DataOut"})}
      BY <2>1, <3>1
    <3>3. Exchange!Signal(cmd[t])
      BY <1>1, <1>3, <2>1, <3>1 DEF Exchange!Signal
    <3> QED
      BY <3>2, <3>3 DEF Exchange!Next
  <2> QED
    BY <2>2, <2>3
<1> QED
  BY <1>4, <1>5

LEMMA ExchangeStep ==
  ASSUME OneSender, HeldInv, [Next]_vars
  PROVE  [Exchange!Next]_(Exchange!messageVars)
<1> DEFINE Step == [Exchange!Next]_(Exchange!messageVars)
<1>1. ASSUME NEW b \in Buffers \cup {None}, NEW reply \in BOOLEAN, ArmPosts(b, reply) PROVE Step
  BY <1>1, PostLends
<1>2. CASE ArmTakes
  BY <1>2, TakenIsTaken DEF Exchange!Next
<1>3. CASE PciDpcForIsrArmMsg
  BY <1>3, DpcStays, StaysSame
<1>4. ASSUME NEW w \in Workers, WorkerStep(w) PROVE Step
  BY <1>4, WorkerStays, QueueKeepsOrder, StaysSame DEF WorkerStep
<1>5. ASSUME NEW t \in Threads, Drain(t) PROVE Step
  BY <1>5, DrainKeepsOrder
<1>6. ASSUME NEW t \in Threads, Send(t) PROVE Step
  <2>1. CASE MailboxTimeout(t)
    BY <2>1, TimeoutLoses
  <2>2. CASE WriteMessage(t)
    BY <2>2, WriteSends
  <2> QED
    BY <1>6, <2>1, <2>2, PollStays, StaysSame DEF Send
<1>7. ASSUME NEW c \in Callers, Call(c) PROVE Step
  BY <1>7, CallStays, StaysSame
<1>8. CASE UNCHANGED vars
  BY <1>8 DEF vars, armVars, taskVars, Exchange!messageVars, LentBuffers, Leaving, Arriving, Completing,
     Unread, Sent
<1> QED
  BY <1>1, <1>2, <1>3, <1>4, <1>5, <1>6, <1>7, <1>8 DEF Next, Arm

(* One sender keeps the promise of MessageExchange: messages reach the ARM  *)
(* whole, with their own parameters and one by one, and the ARM's buffers   *)
(* go back once each and in order, except those that a timeout drops.       *)
THEOREM OneSenderExchanges ==
  ASSUME OneSender
  PROVE  Spec => ImplementsMessageExchange
<1>1. Init => Exchange!Init
  <2> SUFFICES ASSUME Init PROVE Exchange!Init
    OBVIOUS
  <2>1. Leaving = {} /\ Arriving = {}
    BY BuffersAssumption DEF Init, Leaving, Arriving, Completing, Unread, Threads
  <2>2. One(Leaving) = <<>> /\ One(Arriving) = <<>> /\ fifo = <<>> /\ fifo \in Seq(Buffers)
    BY <2>1, OneOfOne DEF Init
  <2>3. LentBuffers = <<>>
    BY <2>2, ConcatEmptySeq DEF LentBuffers
  <2> QED
    BY <2>3 DEF Init, Exchange!Init, Sent
<1>2. HeldInv /\ [Next]_vars => [Exchange!Next]_(Exchange!messageVars)
  BY ExchangeStep
<1> QED
  BY <1>1, <1>2, SpecHeld, PTL DEF Spec, ImplementsMessageExchange, Exchange!Spec
-----------------------------------------------------------------------------
(* The safety half of EveryMessageAcked: a message that is not acknowledged *)
(* is announced, or a worker is on its way to release it.                   *)
Attends(w) ==
  \/ pc[w] \in {"get", "queue", "ack", "release"}
  \/ Sending(w) /\ cmd[w].op = "Reply"

NoMessageForgotten == fromArm.pending => armIrq \/ event \/ \E w \in Workers : Attends(w)

(* With an ARM that takes every message in time none of its own is          *)
(* forgotten, whatever number of threads work and send.                     *)
THEOREM MessagesAreAttended ==
  ASSUME ~Slow
  PROVE  Spec => []NoMessageForgotten
<1>1. Init => NoMessageForgotten
  BY DEF Init, NoMessageForgotten
<1>2. TypeOK /\ NoMessageForgotten /\ [Next]_vars => NoMessageForgotten'
  <2> SUFFICES ASSUME TypeOK, NoMessageForgotten, [Next]_vars PROVE NoMessageForgotten'
    OBVIOUS
  <2> USE DEF TypeOK, NoMessageForgotten, Attends, Sending, Goto, armVars, taskVars
  <2>t. Workers \subseteq Threads /\ Callers \subseteq Threads
    BY DEF Threads
  <2>1. CASE Arm \/ PciDpcForIsrArmMsg \/ UNCHANGED vars
    BY <2>1 DEF Arm, ArmTakes, ArmPosts, PciDpcForIsrArmMsg, vars
  <2>2. ASSUME NEW w \in Workers, WorkerStep(w) PROVE NoMessageForgotten'
    <3>1. CASE ClearPending(w)
      BY <3>1 DEF ClearPending
    <3>2. CASE ~ClearPending(w)
      <4>1. Attends(w)' /\ UNCHANGED <<fromArm, armIrq>>
        BY <2>2, <2>t, <3>2 DEF WorkerStep, Wake, GetARMMessage, SetFifo, AckARMMessage, Message
      <4> QED
        BY <4>1
    <3> QED
      BY <3>1, <3>2
  <2>3. ASSUME \A w \in Workers : Attends(w) => Attends(w)',
               UNCHANGED <<fromArm, armIrq, event>>
        PROVE  NoMessageForgotten'
    BY <2>3
  <2>4. ASSUME NEW t \in Threads, Drain(t) PROVE NoMessageForgotten'
    BY <2>3, <2>4, <2>t DEF Drain, CompleteArm, ClearRequest, GetFifo
  <2>5. ASSUME NEW t \in Threads, Send(t) PROVE NoMessageForgotten'
    BY <2>3, <2>5, <2>t DEF Send, MailboxReady, MailboxTimeout, WriteParams, WriteStatus, WriteMessage,
       SystemCloseConfirms, AfterSend
  <2>6. ASSUME NEW c \in Callers, Call(c) PROVE NoMessageForgotten'
    BY <2>3, <2>6, <2>t DEF Call, CallCloses, CallSends
  <2> QED
    BY <2>1, <2>2, <2>4, <2>5, <2>6 DEF Next
<1> QED
  BY <1>1, <1>2, TypeCorrect, PTL DEF Spec

(* The safety half of EveryBufferReturns: a buffer that was queued or       *)
(* fetched keeps a thread in the loop that returns the buffers, or on its   *)
(* way there.                                                               *)
Drains(t) ==
  \/ pc[t] \in {"drain", "clear", "fetch"}
  \/ Sending(t) /\ cmd[t].op = "DataOut"
  \/ /\ pc[t] \in {"ack", "release"} \/ (Sending(t) /\ cmd[t].op = "Reply")
     /\ t \in Workers /\ got[t].buf # None

NoSleepOverBuffers == fifo # <<>> \/ request # None => \E t \in Threads : Drains(t)

LEMMA DrainsStep ==
  ASSUME OneSender, HeldInv, NoSleepOverBuffers, [Next]_vars
  PROVE  NoSleepOverBuffers'
<1> USE ThreadsAssumption
    DEF HeldInv, TypeOK, NoSleepOverBuffers, Drains, Sending, Goto, armVars, taskVars, OneSender
<1>t. Workers \subseteq Threads /\ Callers \subseteq Threads
  BY DEF Threads
<1>1. CASE Arm \/ PciDpcForIsrArmMsg \/ UNCHANGED vars
  BY <1>1 DEF Arm, ArmTakes, ArmPosts, PciDpcForIsrArmMsg, vars
<1>2. ASSUME NEW w \in Workers, WorkerStep(w) PROVE NoSleepOverBuffers'
  <2>1. CASE Wake(w)
    BY <2>1, <1>t DEF Wake
  <2>2. CASE GetARMMessage(w)
    BY <2>2, <1>t DEF GetARMMessage
  <2>3. CASE SetFifo(w)
    <3>1. w \in Threads /\ pc'[w] = "ack" /\ got'[w].buf # None
      BY <2>3, <1>t DEF SetFifo, QueuesABuffer
    <3> QED
      BY <3>1
  <2>4. CASE AckARMMessage(w)
    BY <2>4, <1>t DEF AckARMMessage, Message
  <2>5. CASE ClearPending(w)
    BY <2>5, <1>t DEF ClearPending, AfterAck
  <2> QED
    BY <1>2, <2>1, <2>2, <2>3, <2>4, <2>5 DEF WorkerStep
<1>3. ASSUME NEW t \in Threads, Drain(t) PROVE NoSleepOverBuffers'
  BY <1>3 DEF Drain, CompleteArm, ClearRequest, GetFifo, DataOut, RequestInv
<1>4. ASSUME NEW t \in Threads, Send(t) PROVE NoSleepOverBuffers'
  BY <1>4 DEF Send, MailboxReady, MailboxTimeout, WriteParams, WriteStatus, WriteMessage,
     SystemCloseConfirms, AfterSend, AfterTimeout, AfterAck
<1>5. ASSUME NEW c \in Callers, Call(c) PROVE NoSleepOverBuffers'
  BY <1>5, <1>t DEF Call, CallCloses, CallSends
<1> QED
  BY <1>1, <1>2, <1>3, <1>4, <1>5 DEF Next

(* One sender does not go back to sleep while it has a buffer of the ARM,   *)
(* also where the ARM is slow.                                              *)
THEOREM OneSenderDrains ==
  ASSUME OneSender
  PROVE  Spec => []NoSleepOverBuffers
<1>1. Init => NoSleepOverBuffers
  BY DEF Init, NoSleepOverBuffers
<1>2. HeldInv /\ NoSleepOverBuffers /\ [Next]_vars => NoSleepOverBuffers'
  BY DrainsStep
<1> QED
  BY <1>1, <1>2, SpecHeld, PTL DEF Spec
=============================================================================
