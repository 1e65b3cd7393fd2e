--------------------------- MODULE TaskLifecycle ---------------------------
(***************************************************************************)
(* Tasks and channels of the codec (ctask_lifecycle.c, ctask_alloc.c,      *)
(* ctask_thread.c, channel.c): how a channel's open brings up the task's   *)
(* session, the firmware, the worker thread and the interrupts, and how    *)
(* close, release and the destructor take them down.                       *)
(*                                                                         *)
(* One caller at a time: the locks of CObject do nothing, and the driver   *)
(* has no second caller.  The worker runs beside it.                       *)
(*                                                                         *)
(* The caller holds its channels itself.  The codec's table of handles is  *)
(* left out: CObjectMgr_AddObject stores nothing in it.  Queues of         *)
(* channels are empty, as CChannel_AddBuffer is a stub, and a constructor  *)
(* that found no memory for them goes unnoticed.                           *)
(***************************************************************************)
EXTENDS Naturals, FiniteSets

CONSTANTS
  Tasks,    \* the slots of m_TaskData
  Types,    \* the data types that channels carry
  Channels, \* the channel objects that may exist at once
  None      \* no channel, no task

Objects == [task : Tasks, type : Types, open : BOOLEAN]

ASSUME NoneIsNothing == None \notin Tasks \cup Types \cup Channels \cup Objects

VARIABLES
  valid,      \* the slots that are allocated
  session,    \* m_dwSession: the data types that are open
  slot,       \* pChannel
  fifo,       \* the data types that have a pArmMsgFifo
  started,    \* the tasks whose m_dwStarted is not zero
  acquired,   \* the tasks with m_bAcquired
  error,      \* the tasks with m_Error
  chan,       \* the channel objects: what each is for, and m_bOpened
  fwOpen,     \* the tasks sent a SystemOpen, and no SystemClose after it
  fwLinked,   \* those sent a SystemLink since
  fwEncoding, \* those sent a StartEncoder since
  interrupts, \* the interrupts are enabled
  worker,     \* the thread: none, waiting, busy or returned
  exit,       \* THREAD_EVENT_EXIT is set
  call        \* where the caller is, and in what

taskVars == <<valid, session, slot, fifo>>
flagVars == <<started, acquired, error>>
fwVars == <<fwOpen, fwLinked, fwEncoding>>
threadVars == <<worker, exit>>
vars == <<taskVars, flagVars, chan, fwVars, interrupts, threadVars, call>>

Idle == [at |-> "idle", op |-> "none", task |-> None, type |-> None, chan |-> None]

CallStages == {"idle", "open", "systemOpen", "thread", "flush", "close", "systemClose",
          "stop", "join", "shut", "closed"}
Ops == {"none", "open", "close", "destroy", "release"}

TypeOK ==
  /\ valid \subseteq Tasks
  /\ session \in [Tasks -> SUBSET Types]
  /\ slot \in [Tasks -> [Types -> Channels \cup {None}]]
  /\ fifo \in [Tasks -> SUBSET Types]
  /\ started \subseteq Tasks
  /\ acquired \subseteq Tasks
  /\ error \subseteq Tasks
  /\ chan \in [Channels -> Objects \cup {None}]
  /\ fwOpen \subseteq Tasks
  /\ fwLinked \subseteq fwOpen
  /\ fwEncoding \subseteq fwOpen
  /\ interrupts \in BOOLEAN
  /\ worker \in {"none", "waiting", "busy", "returned"}
  /\ exit \in BOOLEAN
  /\ call \in [at : CallStages, op : Ops, task : Tasks \cup {None}, type : Types \cup {None},
               chan : Channels \cup {None}]

(* The codec after the download of its firmware, which enables interrupts.  *)
Init ==
  /\ valid = {}
  /\ session = [t \in Tasks |-> {}]
  /\ slot = [t \in Tasks |-> [y \in Types |-> None]]
  /\ fifo = [t \in Tasks |-> {}]
  /\ started = {}
  /\ acquired = {}
  /\ error = {}
  /\ chan = [c \in Channels |-> None]
  /\ fwOpen = {}
  /\ fwLinked = {}
  /\ fwEncoding = {}
  /\ interrupts = TRUE
  /\ worker = "none"
  /\ exit = FALSE
  /\ call = Idle

Goto(a) == call' = [call EXCEPT !.at = a]
Return == call' = Idle
At(a) == call.at = a
Exists(c) == chan[c] # None
Sessions == {t \in valid : session[t] # {}}
-----------------------------------------------------------------------------
(* Slots of tasks. *)

CTask_Alloc(t) ==
  /\ At("idle")
  /\ t \notin valid
  /\ valid' = valid \cup {t}
  /\ session' = [session EXCEPT ![t] = {}]
  /\ slot' = [slot EXCEPT ![t] = [y \in Types |-> None]]
  /\ started' = started \ {t}
  /\ acquired' = acquired \ {t}
  /\ error' = error \ {t}
  /\ UNCHANGED <<fifo, chan, fwVars, interrupts, threadVars, call>>

(* The next type to close; without one the slot is free again.  The         *)
(* channels are not told.  CTask_DoneTasks does it for every slot.          *)
Releasing(t) ==
  LET open == {y \in Types : slot[t][y] # None}
  IN IF open # {}
       THEN /\ call' = [at |-> "close", op |-> "release", task |-> t,
                        type |-> CHOOSE y \in open : TRUE, chan |-> None]
            /\ UNCHANGED valid
       ELSE /\ valid' = valid \ {t}
            /\ call' = Idle

CTask_Release(t) ==
  /\ At("idle")
  /\ t \in valid
  /\ Releasing(t)
  /\ UNCHANGED <<session, slot, fifo, flagVars, chan, fwVars, interrupts, threadVars>>
-----------------------------------------------------------------------------
(* Channels and the open of their task. *)

CChannel_Constructor(c, t, y) ==
  /\ At("idle")
  /\ ~Exists(c)
  /\ t \in valid
  /\ chan' = [chan EXCEPT ![c] = [task |-> t, type |-> y, open |-> FALSE]]
  /\ UNCHANGED <<taskVars, flagVars, fwVars, interrupts, threadVars, call>>

Call(op, at, c) ==
  call' = [at |-> at, op |-> op, task |-> chan[c].task, type |-> chan[c].type, chan |-> c]

CChannel_Open(c) ==
  /\ At("idle")
  /\ Exists(c)
  /\ ~chan[c].open
  /\ chan' = [chan EXCEPT ![c].open = TRUE]
  /\ Call("open", "open", c)
  /\ UNCHANGED <<taskVars, flagVars, fwVars, interrupts, threadVars>>

(* m_dwSession |= : the end of an open that succeeds. *)
Opened(t, y) ==
  /\ session' = [session EXCEPT ![t] = @ \cup {y}]
  /\ Return

(* Refused: a slot that is free, or a type that is open, maybe by another   *)
(* channel; or no memory.                                                   *)
OpenRefused ==
  /\ At("open")
  /\ Goto("flush")
  /\ UNCHANGED <<taskVars, flagVars, chan, fwVars, interrupts, threadVars>>

CTask_Open(t, y) ==
  /\ At("open") /\ call.task = t /\ call.type = y
  /\ t \in valid
  /\ slot[t][y] = None
  /\ fifo' = [fifo EXCEPT ![t] = @ \cup {y}]
  /\ slot' = [slot EXCEPT ![t][y] = call.chan]
  /\ IF session[t] = {}
       THEN /\ acquired' = acquired \ {t}
            /\ Goto("systemOpen")
            /\ UNCHANGED session
       ELSE Opened(t, y) /\ UNCHANGED acquired
  /\ UNCHANGED <<valid, started, error, chan, fwVars, interrupts, threadVars>>

(* QPFWCODECAPI_SystemOpen fails: the FIFO goes, pChannel stays. *)
SystemOpenFails(t, y) ==
  /\ At("systemOpen") /\ call.task = t /\ call.type = y
  /\ fifo' = [fifo EXCEPT ![t] = @ \ {y}]
  /\ Goto("flush")
  /\ UNCHANGED <<valid, session, slot, flagVars, chan, fwVars, interrupts, threadVars>>

SystemOpens(t, y) ==
  /\ At("systemOpen") /\ call.task = t /\ call.type = y
  /\ fwOpen' = fwOpen \cup {t}
  /\ IF Sessions = {}
       THEN Goto("thread") /\ exit' = FALSE /\ UNCHANGED session
       ELSE Opened(t, y) /\ UNCHANGED exit
  /\ UNCHANGED <<valid, slot, fifo, flagVars, chan, fwLinked, fwEncoding, interrupts, worker>>

(* CThread_ThreadInit answers 1 for a thread that runs, and CTask_Open      *)
(* takes that for a failure; and 0 for none, which it takes for success.    *)
ThreadRuns ==
  /\ At("thread")
  /\ worker' = "waiting"
  /\ Goto("flush")
  /\ UNCHANGED <<taskVars, flagVars, chan, fwVars, interrupts, exit>>

ThreadFails(t, y) ==
  /\ At("thread") /\ call.task = t /\ call.type = y
  /\ interrupts' = TRUE
  /\ Opened(t, y)
  /\ UNCHANGED <<valid, slot, fifo, flagVars, chan, fwVars, threadVars>>
-----------------------------------------------------------------------------
(* What an open task does. *)

(* Variant: a task that is not open is started too. *)
StartUnopened(t, y) ==
  /\ At("idle")
  /\ t \in valid
  /\ t \notin started
  /\ \/ /\ started' = started \cup {t}
        /\ error' = error \ {t}
        /\ fwEncoding' = fwEncoding \cup {t}
     \/ /\ error' = error \cup {t}
        /\ UNCHANGED <<started, fwEncoding>>
  /\ UNCHANGED <<taskVars, acquired, chan, fwOpen, fwLinked, interrupts, threadVars, call>>

(* The first type of a task starts its encoder, the others do nothing.  *)
CTask_Start(t, y) ==
  /\ At("idle")
  /\ t \in valid
  /\ slot[t][y] # None
  /\ t \notin started
  /\ \/ /\ started' = started \cup {t}
        /\ error' = error \ {t}
        /\ fwEncoding' = fwEncoding \cup {t}
     \/ /\ error' = error \cup {t}
        /\ UNCHANGED <<started, fwEncoding>>
  /\ UNCHANGED <<taskVars, acquired, chan, fwOpen, fwLinked, interrupts, threadVars, call>>

CTask_Acquire(t, y) ==
  /\ At("idle")
  /\ t \in valid
  /\ slot[t][y] # None
  /\ t \notin acquired
  /\ acquired' = acquired \cup {t}
  /\ fwLinked' = fwLinked \cup {t}
  /\ UNCHANGED <<taskVars, started, error, chan, fwOpen, fwEncoding, interrupts, threadVars,
                 call>>
-----------------------------------------------------------------------------
(* Close. *)

CChannel_Close(c) ==
  /\ At("idle")
  /\ Exists(c)
  /\ chan[c].open
  /\ Call("close", "flush", c)
  /\ UNCHANGED <<taskVars, flagVars, chan, fwVars, interrupts, threadVars>>

(* The destructor closes a channel that is open.  *)
CChannel_Destructor(c) ==
  /\ At("idle")
  /\ Exists(c)
  /\ IF chan[c].open
       THEN Call("destroy", "flush", c) /\ UNCHANGED chan
       ELSE chan' = [chan EXCEPT ![c] = None] /\ UNCHANGED call
  /\ UNCHANGED <<taskVars, flagVars, fwVars, interrupts, threadVars>>

(* CTask_Flush waits for a reply that does not come, or not for long: the   *)
(* close goes on whatever it answers.                                       *)
CTask_Flush ==
  /\ At("flush")
  /\ Goto("close")
  /\ UNCHANGED <<taskVars, flagVars, chan, fwVars, interrupts, threadVars>>

CloseRefused ==
  /\ At("close")
  /\ call.task \notin valid \/ slot[call.task][call.type] = None
  /\ Goto("closed")
  /\ UNCHANGED <<taskVars, flagVars, chan, fwVars, interrupts, threadVars>>

(* Variant: pChannel stays. *)
CloseKeepingChannel(t, y) ==
  /\ At("close") /\ call.task = t /\ call.type = y
  /\ t \in valid /\ slot[t][y] # None
  /\ session' = [session EXCEPT ![t] = @ \ {y}]
  /\ fifo' = [fifo EXCEPT ![t] = @ \ {y}]
  /\ Goto(IF session'[t] = {} THEN "systemClose" ELSE "closed")
  /\ UNCHANGED <<valid, slot, flagVars, chan, fwVars, interrupts, threadVars>>

(* Whichever channel holds the type. *)
CTask_Close(t, y) ==
  /\ At("close") /\ call.task = t /\ call.type = y
  /\ t \in valid /\ slot[t][y] # None
  /\ session' = [session EXCEPT ![t] = @ \ {y}]
  /\ slot' = [slot EXCEPT ![t][y] = None]
  /\ fifo' = [fifo EXCEPT ![t] = @ \ {y}]
  /\ Goto(IF session'[t] = {} THEN "systemClose" ELSE "closed")
  /\ UNCHANGED <<valid, flagVars, chan, fwVars, interrupts, threadVars>>

(* Variant: the interrupts go with every task. *)
SystemCloseOne(t) ==
  /\ At("systemClose") /\ call.task = t
  /\ fwOpen' = fwOpen \ {t}
  /\ fwLinked' = fwLinked \ {t}
  /\ fwEncoding' = fwEncoding \ {t}
  /\ interrupts' = FALSE
  /\ Goto(IF Sessions = {} THEN "stop" ELSE "closed")
  /\ UNCHANGED <<taskVars, flagVars, chan, threadVars>>

(* Nobody looks whether the firmware heard of it. *)
SystemClose(t) ==
  /\ At("systemClose") /\ call.task = t
  /\ fwOpen' = fwOpen \ {t}
  /\ fwLinked' = fwLinked \ {t}
  /\ fwEncoding' = fwEncoding \ {t}
  /\ IF Sessions = {}
       THEN interrupts' = FALSE /\ Goto("stop")
       ELSE UNCHANGED interrupts /\ Goto("closed")
  /\ UNCHANGED <<taskVars, flagVars, chan, threadVars>>

(* Variant: the thread is stopped but not told, as in CTask_Destructor. *)
StopUntold ==
  /\ At("stop")
  /\ Goto(IF worker = "none" THEN "shut" ELSE "join")
  /\ UNCHANGED <<taskVars, flagVars, chan, fwVars, interrupts, threadVars>>

CThread_ThreadDone ==
  /\ At("stop")
  /\ IF worker = "none"
       THEN Goto("shut") /\ UNCHANGED exit
       ELSE Goto("join") /\ exit' = TRUE
  /\ UNCHANGED <<taskVars, flagVars, chan, fwVars, interrupts, worker>>

(* kthread_stop *)
Join ==
  /\ At("join")
  /\ worker = "returned"
  /\ worker' = "none"
  /\ Goto("shut")
  /\ UNCHANGED <<taskVars, flagVars, chan, fwVars, interrupts, exit>>

(* After an error of any task the firmware is loaded again, which leaves    *)
(* the interrupts enabled if it succeeds; the errors stay.                  *)
ErrorRecovery ==
  /\ At("shut")
  /\ IF error \cap valid = {}
       THEN UNCHANGED <<fwVars, interrupts>>
       ELSE /\ interrupts' \in BOOLEAN
            /\ fwOpen' = {} /\ fwLinked' = {} /\ fwEncoding' = {}
  /\ Goto("closed")
  /\ UNCHANGED <<taskVars, flagVars, chan, threadVars>>

Closed ==
  /\ At("closed")
  /\ IF call.op = "release"
       THEN Releasing(call.task) /\ UNCHANGED chan
       ELSE /\ chan' = [chan EXCEPT ![call.chan] = IF call.op = "destroy" THEN None
                                                   ELSE [@ EXCEPT !.open = FALSE]]
            /\ Return
            /\ UNCHANGED valid
  /\ UNCHANGED <<session, slot, fifo, flagVars, fwVars, interrupts, threadVars>>
-----------------------------------------------------------------------------
(* The worker: an event to handle, and the one that ends it. *)

Wakes ==
  /\ worker = "waiting"
  /\ ~exit
  /\ worker' = "busy"
  /\ UNCHANGED <<taskVars, flagVars, chan, fwVars, interrupts, exit, call>>

Handled ==
  /\ worker = "busy"
  /\ worker' = "waiting"
  /\ UNCHANGED <<taskVars, flagVars, chan, fwVars, interrupts, exit, call>>

Returns ==
  /\ worker = "waiting"
  /\ exit
  /\ worker' = "returned"
  /\ exit' = FALSE
  /\ UNCHANGED <<taskVars, flagVars, chan, fwVars, interrupts, call>>

Worker == Handled \/ Returns

Proceed ==
  \/ \E t \in Tasks, y \in Types :
       CTask_Open(t, y) \/ SystemOpenFails(t, y) \/ SystemOpens(t, y)
         \/ ThreadFails(t, y) \/ CTask_Close(t, y)
  \/ OpenRefused
  \/ ThreadRuns
  \/ CTask_Flush
  \/ CloseRefused
  \/ \E t \in Tasks : SystemClose(t)
  \/ CThread_ThreadDone
  \/ Join
  \/ ErrorRecovery
  \/ Closed

Begin ==
  \/ \E t \in Tasks : CTask_Alloc(t) \/ CTask_Release(t)
  \/ \E t \in Tasks, y \in Types : CTask_Start(t, y) \/ CTask_Acquire(t, y)
  \/ \E c \in Channels, t \in Tasks, y \in Types : CChannel_Constructor(c, t, y)
  \/ \E c \in Channels : CChannel_Open(c) \/ CChannel_Close(c) \/ CChannel_Destructor(c)

Next == Begin \/ Proceed \/ Worker \/ Wakes

Spec == Init /\ [][Next]_vars

(* A caller that the scheduler runs, and a thread that it runs too; nothing *)
(* is assumed of what is called, or of the events that come.                *)
FairSpec == Spec /\ WF_vars(Proceed) /\ WF_vars(Worker)
-----------------------------------------------------------------------------
(* Between calls the task's three records of what is open agree, and name   *)
(* channels that exist and know that they are open: whatever step of an     *)
(* open failed, whoever closed, and though one channel's close may take     *)
(* another's session.  The worker follows pChannel without a lock.          *)
SlotsAgree ==
  At("idle") =>
    \A t \in Tasks, y \in Types :
      /\ (y \in session[t]) = (slot[t][y] # None)
      /\ (y \in session[t]) = (y \in fifo[t])
      /\ y \in session[t] =>
           /\ t \in valid
           /\ Exists(slot[t][y]) /\ chan[slot[t][y]].open
           /\ chan[slot[t][y]].task = t /\ chan[slot[t][y]].type = y

(* A session that counts as open is open in the firmware, linked if it is   *)
(* acquired, and interrupts; without one there is no thread.                *)
SessionIsUp ==
  At("idle") =>
    /\ \A t \in Sessions : t \in fwOpen /\ (t \in acquired => t \in fwLinked)
    /\ Sessions # {} => interrupts
    /\ Sessions = {} => worker = "none"

(* Every open, close and release returns: the one that stops the thread     *)
(* too, whatever the thread is doing.                                       *)
CallReturns == ~At("idle") ~> At("idle")
=============================================================================
