------------------------------ MODULE Mailbox ------------------------------
(***************************************************************************)
(* The two register mailboxes between the host and the card's ARM          *)
(* (qpfwapi.c), the commands the host sends (qpfwencapi.c) and the         *)
(* handling of the ARM's messages while the task is idle (ctask_arm.c,     *)
(* ctask_thread.c).                                                        *)
(*                                                                         *)
(* To the ARM: a status register whose bit 0 says that a message waits,    *)
(* the message and its parameters.  MailboxReady polls the bit, and        *)
(* nothing keeps a second thread from sending between the poll and the     *)
(* write.  From the ARM: a status register whose bit 0 the host clears to  *)
(* acknowledge, a message and its parameters.  A message of the ARM lends  *)
(* the host a buffer of the card; the host returns it with a message.      *)
(*                                                                         *)
(* The ARM's firmware is not in the repository.  It is taken to act on a   *)
(* message when the message register is written under a set status bit,    *)
(* and to post its next message only when the last one is acknowledged.    *)
(***************************************************************************)
EXTENDS Naturals, Sequences, FiniteSets, Functions

CONSTANTS
  Workers,  \* threads that run CTask_ThreadProc: none until CTask_Open, then one
  Callers,  \* threads that send commands from a call of the driver
  Buffers,  \* the ARM's buffers of compressed data
  None,     \* no buffer, no message
  Slow      \* whether the ARM may leave a message waiting past a timeout

Threads == Workers \cup Callers

(* The FIFO of a channel takes 0x201 - 1 entries: it never refuses one. *)
ASSUME ThreadsAssumption == Workers \cap Callers = {}
ASSUME BuffersAssumption == None \notin Buffers
ASSUME SlowAssumption == Slow \in BOOLEAN

VARIABLES
  toArm,    \* bit 0 of REG_TO_ARM_MSG_STATUS, REG_TO_ARM_MESSAGE (None once
            \* the ARM took it) and the message that REG_TO_ARM_PARAM0.. are for
  fromArm,  \* REG_FROM_ARM_*: pending (bit 0), reply wanted (bit 8), buffer
  armIrq,   \* the ARM's interrupt, until PciDpcForIsrArmMsg ran
  event,    \* THREAD_EVENT_ARM_MSG in m_EvtTask
  armOwns,  \* the buffers the ARM may fill
  fifo,     \* pArmMsgFifo
  request,  \* ArmRequest, None when its valid field is 0
  pc,       \* where each thread is
  cmd,      \* the message each thread is sending
  got       \* what each worker read with GetARMMessage

armVars == <<fromArm, armIrq, event, armOwns>>
taskVars == <<fifo, request>>
vars == <<toArm, armVars, taskVars, pc, cmd, got>>

(* The messages to the ARM.  Those that a call sends come with parameters,  *)
(* which the call writes; those of StartEncoder are the encoder's           *)
(* configuration, in the same registers.  DataOut has parameters too, which *)
(* CTask_CompleteArm writes through hci.RegisterWrite: that pointer is      *)
(* never set.                                                               *)
ParamOps == {"SystemOpen", "SystemLink", "SetViuSyncCode", "StartEncoder", "StopEncoder"}
Ops == ParamOps \cup {"SystemClose", "Reply", "DataOut"}

Message(op) == [op |-> op, buf |-> None]
DataOut(b) == [op |-> "DataOut", buf |-> b]
Messages == [op : Ops, buf : Buffers \cup {None}]
HasParams(m) == m.op \in ParamOps

ASSUME NoMessageAssumption == None \notin Messages

Pcs == {"idle", "get", "queue", "ack", "release", "drain", "clear", "fetch",
        "ready", "params", "trigger", "message", "confirm"}

(* A worker is about to queue a buffer only if the message lent it one. *)
QueuesABuffer == \A w \in Workers : pc[w] = "queue" => got[w].buf # None

TypeOK ==
  /\ toArm \in [status : BOOLEAN, message : Messages \cup {None}, param : Messages \cup {None}]
  /\ fromArm \in [pending : BOOLEAN, reply : BOOLEAN, buf : Buffers \cup {None}]
  /\ armIrq \in BOOLEAN
  /\ event \in BOOLEAN
  /\ armOwns \subseteq Buffers
  /\ fifo \in Seq(Buffers)
  /\ request \in Buffers \cup {None}
  /\ pc \in [Threads -> Pcs]
  /\ cmd \in [Threads -> Messages]
  /\ got \in [Workers -> [reply : BOOLEAN, buf : Buffers \cup {None}]]
  /\ QueuesABuffer

(* QPFWAPI_Init cleared the status and checked that it stayed clear. *)
Init ==
  /\ toArm = [status |-> FALSE, message |-> None, param |-> None]
  /\ fromArm = [pending |-> FALSE, reply |-> FALSE, buf |-> None]
  /\ armIrq = FALSE
  /\ event = FALSE
  /\ armOwns = Buffers
  /\ fifo = <<>>
  /\ request = None
  /\ pc = [t \in Threads |-> "idle"]
  /\ cmd = [t \in Threads |-> Message("Reply")]
  /\ got = [w \in Workers |-> [reply |-> FALSE, buf |-> None]]

Goto(t, to) == pc' = [pc EXCEPT ![t] = to]
-----------------------------------------------------------------------------
(* The ARM. *)

(* It lends a buffer (0x40, 0x41), or reports something (0x50, 0x51). *)
ArmPosts(b, reply) ==
  /\ ~fromArm.pending
  /\ b \in armOwns \cup {None}
  /\ fromArm' = [pending |-> TRUE, reply |-> reply, buf |-> b]
  /\ armOwns' = armOwns \ {b}
  /\ armIrq' = TRUE
  /\ UNCHANGED <<toArm, event, taskVars, pc, cmd, got>>

(* It takes the message that waits; a 0x30, 0xA0 or 0xA1 returns a buffer. *)
ArmTakes ==
  /\ toArm.status /\ toArm.message # None
  /\ toArm' = [toArm EXCEPT !.status = FALSE, !.message = None]
  /\ armOwns' = armOwns \cup ({toArm.message.buf} \cap Buffers)
  /\ UNCHANGED <<fromArm, armIrq, event, taskVars, pc, cmd, got>>
-----------------------------------------------------------------------------
(* The worker. *)

PciDpcForIsrArmMsg ==
  /\ armIrq
  /\ armIrq' = FALSE
  /\ event' = TRUE
  /\ UNCHANGED <<toArm, fromArm, armOwns, taskVars, pc, cmd, got>>

Wake(w) ==
  /\ pc[w] = "idle" /\ event
  /\ event' = FALSE
  /\ Goto(w, "get")
  /\ UNCHANGED <<toArm, fromArm, armIrq, armOwns, taskVars, cmd, got>>

(* Variant: every message is taken to lend a buffer. *)
GetAnyMessage(w) ==
  /\ pc[w] = "get"
  /\ got' = [got EXCEPT ![w] = [reply |-> fromArm.reply, buf |-> fromArm.buf]]
  /\ Goto(w, "queue")
  /\ UNCHANGED <<toArm, armVars, taskVars, cmd>>

GetARMMessage(w) ==
  /\ pc[w] = "get"
  /\ got' = [got EXCEPT ![w] = [reply |-> fromArm.reply, buf |-> fromArm.buf]]
  /\ Goto(w, IF fromArm.buf = None THEN "ack" ELSE "queue")
  /\ UNCHANGED <<toArm, armVars, taskVars, cmd>>

SetFifo(w) ==
  /\ pc[w] = "queue"
  /\ fifo' = Append(fifo, got[w].buf)
  /\ Goto(w, "ack")
  /\ UNCHANGED <<toArm, armVars, request, cmd, got>>

(* Variant: the reply returns the buffer, which was queued. *)
ReplyWithBuffer(w) ==
  /\ pc[w] = "ack"
  /\ IF got[w].reply
       THEN /\ cmd' = [cmd EXCEPT ![w] = DataOut(got[w].buf)]
            /\ Goto(w, "ready")
       ELSE /\ Goto(w, "release")
            /\ UNCHANGED cmd
  /\ UNCHANGED <<toArm, armVars, taskVars, got>>

AckARMMessage(w) ==
  /\ pc[w] = "ack"
  /\ IF got[w].reply
       THEN /\ cmd' = [cmd EXCEPT ![w] = Message("Reply")]
            /\ Goto(w, "ready")
       ELSE /\ Goto(w, "release")
            /\ UNCHANGED cmd
  /\ UNCHANGED <<toArm, armVars, taskVars, got>>

(* The idle task returns at once every buffer it was lent. *)
AfterAck(w) == IF got[w].buf = None THEN "idle" ELSE "drain"

(* Variant: a message that was replied to is not released. *)
ReplyOnly(w) ==
  /\ pc[w] = "release"
  /\ fromArm' = [fromArm EXCEPT !.pending = got[w].reply]
  /\ Goto(w, AfterAck(w))
  /\ UNCHANGED <<toArm, armIrq, event, armOwns, taskVars, cmd, got>>

ClearPending(w) ==
  /\ pc[w] = "release"
  /\ fromArm' = [fromArm EXCEPT !.pending = FALSE]
  /\ Goto(w, AfterAck(w))
  /\ UNCHANGED <<toArm, armIrq, event, armOwns, taskVars, cmd, got>>
-----------------------------------------------------------------------------
(* The loop that returns the buffers, which the worker and CTask_Close both *)
(* run: CompleteArm, GetFifo, until the FIFO is empty.                      *)

(* Variant: the request is cleared before it is read. *)
ClearThenComplete(t) ==
  /\ pc[t] = "drain"
  /\ IF request = None
       THEN /\ Goto(t, "fetch")
            /\ UNCHANGED <<cmd, request>>
       ELSE /\ cmd' = [cmd EXCEPT ![t] = DataOut(None)]
            /\ request' = None
            /\ Goto(t, "clear")
  /\ UNCHANGED <<toArm, armVars, fifo, got>>

(* CompleteArm up to its memset: what to return is read first. *)
CompleteArm(t) ==
  /\ pc[t] = "drain"
  /\ IF request = None
       THEN /\ Goto(t, "fetch")
            /\ UNCHANGED cmd
       ELSE /\ cmd' = [cmd EXCEPT ![t] = DataOut(request)]
            /\ Goto(t, "clear")
  /\ UNCHANGED <<toArm, armVars, taskVars, got>>

(* Variant: the request stays valid. *)
KeepRequest(t) ==
  /\ pc[t] = "clear"
  /\ Goto(t, "ready")
  /\ UNCHANGED <<toArm, armVars, taskVars, cmd, got>>

ClearRequest(t) ==
  /\ pc[t] = "clear"
  /\ request' = None
  /\ Goto(t, "ready")
  /\ UNCHANGED <<toArm, armVars, fifo, cmd, got>>

(* Variant: one entry is fetched and the loop ends. *)
FetchAndStop(t) ==
  /\ pc[t] = "fetch"
  /\ IF fifo # <<>>
       THEN /\ request' = Head(fifo)
            /\ fifo' = Tail(fifo)
       ELSE UNCHANGED taskVars
  /\ Goto(t, "idle")
  /\ UNCHANGED <<toArm, armVars, cmd, got>>

(* CTask_Close goes on to SystemClose once nothing is left. *)
GetFifo(t) ==
  /\ pc[t] = "fetch"
  /\ IF fifo # <<>>
       THEN /\ request' = Head(fifo)
            /\ fifo' = Tail(fifo)
            /\ Goto(t, "drain")
            /\ UNCHANGED cmd
       ELSE /\ cmd' = IF t \in Callers THEN [cmd EXCEPT ![t] = Message("SystemClose")] ELSE cmd
            /\ Goto(t, IF t \in Callers THEN "ready" ELSE "idle")
            /\ UNCHANGED taskVars
  /\ UNCHANGED <<toArm, armVars, got>>
-----------------------------------------------------------------------------
(* Sending. *)

CallSends(c, op) ==
  /\ pc[c] = "idle"
  /\ cmd' = [cmd EXCEPT ![c] = Message(op)]
  /\ Goto(c, "ready")
  /\ UNCHANGED <<toArm, armVars, taskVars, got>>

CallCloses(c) ==
  /\ pc[c] = "idle"
  /\ Goto(c, "drain")
  /\ UNCHANGED <<toArm, armVars, taskVars, cmd, got>>

(* Where a thread goes once its message is written, and when it gives up. *)
AfterSend(t) ==
  CASE cmd[t].op = "DataOut" -> "fetch"
    [] cmd[t].op = "Reply" -> "release"
    [] cmd[t].op = "SystemClose" -> "confirm"
    [] OTHER -> "idle"

(* Variant: the caller does not look at what MailboxReady returned. *)
GoOnAfterTimeout(t) == IF HasParams(cmd[t]) THEN "params" ELSE "trigger"

AfterTimeout(t) ==
  CASE cmd[t].op = "DataOut" -> "fetch"
    [] cmd[t].op = "Reply" /\ t \in Workers -> AfterAck(t)
    [] OTHER -> "idle"

(* Variant: the status bit is not polled. *)
ReadyAtOnce(t) ==
  /\ pc[t] = "ready"
  /\ Goto(t, IF HasParams(cmd[t]) THEN "params" ELSE "trigger")
  /\ UNCHANGED <<toArm, armVars, taskVars, cmd, got>>

MailboxReady(t) ==
  /\ pc[t] = "ready"
  /\ ~toArm.status
  /\ Goto(t, IF HasParams(cmd[t]) THEN "params" ELSE "trigger")
  /\ UNCHANGED <<toArm, armVars, taskVars, cmd, got>>

MailboxTimeout(t) ==
  /\ Slow
  /\ pc[t] = "ready"
  /\ toArm.status
  /\ Goto(t, AfterTimeout(t))
  /\ UNCHANGED <<toArm, armVars, taskVars, cmd, got>>

WriteParams(t) ==
  /\ pc[t] = "params"
  /\ toArm' = [toArm EXCEPT !.param = cmd[t]]
  /\ Goto(t, "trigger")
  /\ UNCHANGED <<armVars, taskVars, cmd, got>>

(* SendMessageToARM sets the status bit, then writes the message. *)
WriteStatus(t) ==
  /\ pc[t] = "trigger"
  /\ toArm' = [toArm EXCEPT !.status = TRUE]
  /\ Goto(t, "message")
  /\ UNCHANGED <<armVars, taskVars, cmd, got>>

WriteMessage(t) ==
  /\ pc[t] = "message"
  /\ toArm' = [toArm EXCEPT !.message = cmd[t]]
  /\ Goto(t, AfterSend(t))
  /\ UNCHANGED <<armVars, taskVars, cmd, got>>

(* SystemClose waits until the ARM took its message, or for 500 ms. *)
SystemCloseConfirms(t) ==
  /\ pc[t] = "confirm"
  /\ ~toArm.status \/ Slow
  /\ Goto(t, "idle")
  /\ UNCHANGED <<toArm, armVars, taskVars, cmd, got>>
-----------------------------------------------------------------------------
Arm == ArmTakes \/ \E b \in Buffers \cup {None}, reply \in BOOLEAN : ArmPosts(b, reply)

Send(t) ==
  \/ MailboxReady(t) \/ MailboxTimeout(t)
  \/ WriteParams(t) \/ WriteStatus(t) \/ WriteMessage(t)
  \/ SystemCloseConfirms(t)

Drain(t) == CompleteArm(t) \/ ClearRequest(t) \/ GetFifo(t)

WorkerStep(w) ==
  \/ Wake(w) \/ GetARMMessage(w) \/ SetFifo(w)
  \/ AckARMMessage(w) \/ ClearPending(w)

Call(c) == CallCloses(c) \/ \E op \in ParamOps : CallSends(c, op)

Next ==
  \/ Arm
  \/ PciDpcForIsrArmMsg
  \/ \E w \in Workers : WorkerStep(w)
  \/ \E t \in Threads : Drain(t) \/ Send(t)
  \/ \E c \in Callers : Call(c)

Spec == Init /\ [][Next]_vars

(* The ARM takes a message that waits, work items run, threads are run. *)
FairSpec ==
  /\ Spec
  /\ WF_vars(ArmTakes)
  /\ WF_vars(PciDpcForIsrArmMsg)
  /\ \A w \in Workers : WF_vars(WorkerStep(w) \/ Drain(w) \/ Send(w))
  /\ \A c \in Callers : WF_vars(Drain(c) \/ Send(c))
-----------------------------------------------------------------------------
(* The ARM never acts on a message with the parameters of another: between *)
(* MailboxReady and the write of the message no other thread writes        *)
(* REG_TO_ARM_PARAM0 to PARAM5.                                            *)
OwnParams ==
  [][toArm.message # None /\ toArm'.message = None /\ HasParams(toArm.message)
       => toArm.param = toArm.message]_vars

(* A message that the ARM has not taken is never overwritten, so that what *)
(* SendMessageToARM reported as sent does reach the ARM.                   *)
NoOverwrite ==
  [][toArm.message # None => toArm'.message \in {None, toArm.message}]_vars

(* A thread that is completing a buffer has taken it out of ArmRequest. *)
Completing(b) ==
  \E t \in Threads : pc[t] \in {"ready", "params", "trigger", "message"} /\ cmd[t] = DataOut(b)

(* The message of the ARM that no worker has read yet. *)
Unread == armIrq \/ event \/ \E w \in Workers : pc[w] = "get"

Held(b) ==
  [arm |-> b \in armOwns,
   posted |-> Unread /\ fromArm.buf = b,
   read |-> \E w \in Workers : pc[w] = "queue" /\ got[w].buf = b,
   queued |-> b \in Range(fifo),
   requested |-> request = b,
   completing |-> Completing(b),
   returned |-> toArm.message # None /\ toArm.message.buf = b]

Holders(b) == {p \in DOMAIN Held(b) : Held(b)[p]}

(* A buffer that the ARM lent is in one place until the ARM has it back:   *)
(* the host returns no buffer twice, and none that the ARM is filling.     *)
HeldOnce == \A b \in Buffers : Cardinality(Holders(b)) <= 1 /\ IsInjective(fifo)

(* With an ARM that answers in time, no buffer is lost either, though      *)
(* CTask_CompleteArm forgets a buffer before it knows that it can send.    *)
NoBufferLost == \A b \in Buffers : Holders(b) # {}

(* The inductive form of OwnParams and NoOverwrite, for one thread that    *)
(* sends: the status bit is set from the write of the status until the ARM *)
(* takes the message, and the parameters are those of the message.         *)
SendingAlone ==
  /\ \A t \in Threads :
       /\ pc[t] \in {"params", "trigger"} => ~toArm.status
       /\ pc[t] = "message" => toArm.status /\ toArm.message = None
       /\ pc[t] \in {"trigger", "message"} /\ HasParams(cmd[t]) => toArm.param = cmd[t]
  /\ toArm.message # None =>
       toArm.status /\ (HasParams(toArm.message) => toArm.param = toArm.message)

(* The ARM is released from every message it posts, and so can go on. *)
EveryMessageAcked == fromArm.pending ~> ~fromArm.pending

(* Every buffer comes back to the ARM. *)
EveryBufferReturns == \A b \in Buffers : b \notin armOwns ~> b \in armOwns

(* The buffers that the ARM lent and the host has, the oldest first: the   *)
(* one that is on its way back, those in the FIFO, the one that arrives.   *)
One(S) == IF S = {} THEN <<>> ELSE <<CHOOSE b \in S : TRUE>>

Leaving == {b \in Buffers : request = b \/ Completing(b)}

Arriving ==
  {b \in Buffers :
     \/ Unread /\ fromArm.buf = b
     \/ \E w \in Workers : pc[w] = "queue" /\ got[w].buf = b}

LentBuffers == One(Leaving) \o fifo \o One(Arriving)

Sent ==
  IF toArm.message = None THEN <<>>
  ELSE <<toArm.message, IF HasParams(toArm.message) THEN toArm.param ELSE None>>

(* One sender keeps the promise of MessageExchange: messages go to the ARM *)
(* whole and one by one, and the buffers go back in the order they came.   *)
Exchange == INSTANCE MessageExchange WITH
  Commands <- {Message(op) : op \in ParamOps},
  Signals <- {Message(op) : op \in Ops \ (ParamOps \cup {"DataOut"})},
  Lossy <- Slow,
  arm <- armOwns,
  lent <- LentBuffers,
  sent <- Sent

ImplementsMessageExchange == Exchange!Spec
=============================================================================
