------------------------ MODULE TaskLifecycleProofs ------------------------
(***************************************************************************)
(* Proofs about TaskLifecycle, for any tasks, data types and channels.     *)
(*                                                                         *)
(* SlotsAgree and SessionIsUp speak of the time between calls.  Inside a   *)
(* call the records of one pair of task and type may disagree, and only    *)
(* where a close is sure to come: Inv says what each stage of a call still *)
(* owes, and that a thread without a session is on its way to be stopped.  *)
(* That the firmware encodes only tasks it has open, which is part of      *)
(* TypeOK, rests on both.                                                  *)
(***************************************************************************)
EXTENDS TaskLifecycle, TLAPS

(* A channel object that is open for a task and a type. *)
Holds(c, t, y) ==
  /\ c \in Channels /\ Exists(c)
  /\ chan[c].open /\ chan[c].task = t /\ chan[c].type = y

CallInv ==
  ~At("idle") =>
    /\ call.task \in Tasks /\ call.type \in Types /\ call.op # "none"
    /\ call.at \in {"open", "systemOpen", "thread"} => call.op = "open"
    /\ call.at = "flush" => call.op # "release"
    /\ call.op # "release" => Holds(call.chan, call.task, call.type)

Named(t, y) == slot[t][y] # None => t \in valid /\ Holds(slot[t][y], t, y)

Agrees(t, y) ==
  /\ y \in session[t] <=> slot[t][y] # None
  /\ y \in session[t] <=> y \in fifo[t]

(* The pair whose open has not come to an end, or whose close is to come. *)
Undone(t, y) ==
  /\ call.at \in {"systemOpen", "thread", "flush", "close"}
  /\ t = call.task /\ y = call.type
  /\ slot[t][y] # None

SlotInv ==
  /\ \A t \in Tasks, y \in Types : Named(t, y) /\ (Agrees(t, y) \/ Undone(t, y))
  /\ call.at \in {"systemOpen", "thread"} =>
       /\ slot[call.task][call.type] = call.chan /\ call.type \in fifo[call.task]
       /\ session[call.task] = {} /\ call.task \notin acquired
  /\ call.at \in {"systemClose", "stop", "join", "shut", "closed"} =>
       slot[call.task][call.type] = None

UpInv ==
  /\ \A t \in Sessions : t \in fwOpen /\ (t \in acquired => t \in fwLinked)
  /\ Sessions # {} => interrupts
  /\ At("thread") => call.task \in fwOpen
  /\ At("systemClose") => session[call.task] = {}
  /\ call.at \in {"thread", "stop", "join", "shut"} => Sessions = {}
  /\ Sessions = {} /\ worker # "none" =>
       \/ call.at \in {"systemClose", "stop", "join"}
       \/ call.at \in {"flush", "close"} /\ slot[call.task][call.type] # None

Inv == TypeOK /\ CallInv /\ SlotInv /\ UpInv
-----------------------------------------------------------------------------
LEMMA TypeStep == ASSUME Inv, [Next]_vars PROVE TypeOK'
<1> USE NoneIsNothing
    DEF TypeOK, Objects, CallStages, Ops, taskVars, flagVars, fwVars, threadVars, Goto, Return, At, Idle, Exists
<1>1. TypeOK
  BY DEF Inv
<1>2. ASSUME NEW t \in Tasks, CTask_Alloc(t) PROVE TypeOK'
  BY <1>1, <1>2 DEF CTask_Alloc
<1>3. ASSUME NEW t \in Tasks, NEW y \in Types, CTask_Start(t, y) \/ CTask_Acquire(t, y)
      PROVE  TypeOK'
  <2>1. t \in fwOpen
    BY <1>3 DEF Inv, SlotInv, UpInv, Agrees, Undone, Sessions, CTask_Start, CTask_Acquire
  <2>2. CASE CTask_Start(t, y)
    BY <1>1, <2>1, <2>2 DEF CTask_Start
  <2>3. CASE CTask_Acquire(t, y)
    BY <1>1, <2>1, <2>3 DEF CTask_Acquire
  <2> QED
    BY <1>3, <2>2, <2>3
<1>4. ASSUME NEW c \in Channels, NEW t \in Tasks, NEW y \in Types, CChannel_Constructor(c, t, y)
      PROVE  TypeOK'
  BY <1>1, <1>4 DEF CChannel_Constructor
<1>5. ASSUME NEW c \in Channels, CChannel_Open(c) PROVE TypeOK'
  <2>1. chan[c] \in Objects
    BY <1>1, <1>5 DEF CChannel_Open
  <2>2. chan' \in [Channels -> Objects \cup {None}]
    BY <1>1, <1>5, <2>1 DEF CChannel_Open
  <2>3. call' \in [at : CallStages, op : Ops, task : Tasks \cup {None}, type : Types \cup {None},
                   chan : Channels \cup {None}]
    BY <1>5, <2>1 DEF CChannel_Open, Call
  <2> QED
    BY <1>1, <1>5, <2>2, <2>3 DEF CChannel_Open
<1>6. ASSUME NEW c \in Channels, CChannel_Close(c) \/ CChannel_Destructor(c) PROVE TypeOK'
  BY <1>1, <1>6 DEF CChannel_Close, CChannel_Destructor, Call
<1>7. ASSUME NEW t \in Tasks, NEW y \in Types, CTask_Open(t, y) PROVE TypeOK'
  <2>1. call.chan \in Channels
    BY <1>7 DEF Inv, CallInv, Holds, CTask_Open
  <2>2. slot' \in [Tasks -> [Types -> Channels \cup {None}]] /\ fifo' \in [Tasks -> SUBSET Types]
    BY <1>1, <1>7, <2>1 DEF CTask_Open
  <2>3. CASE session[t] = {}
    BY <1>1, <1>7, <2>2, <2>3 DEF CTask_Open
  <2>4. CASE session[t] # {}
    BY <1>1, <1>7, <2>2, <2>4 DEF CTask_Open, Opened
  <2> QED
    BY <2>3, <2>4
<1>8. ASSUME NEW t \in Tasks, NEW y \in Types,
             SystemOpenFails(t, y) \/ SystemOpens(t, y) \/ ThreadFails(t, y)
      PROVE  TypeOK'
  <2>1. CASE SystemOpenFails(t, y)
    BY <1>1, <2>1 DEF SystemOpenFails
  <2>2. CASE SystemOpens(t, y)
    <3>1. fwOpen' \subseteq Tasks /\ fwLinked' \subseteq fwOpen' /\ fwEncoding' \subseteq fwOpen'
      BY <1>1, <2>2 DEF SystemOpens
    <3>2. CASE Sessions = {}
      BY <1>1, <2>2, <3>1, <3>2 DEF SystemOpens
    <3>3. CASE Sessions # {}
      BY <1>1, <2>2, <3>1, <3>3 DEF SystemOpens, Opened
    <3> QED
      BY <3>2, <3>3
  <2>3. CASE ThreadFails(t, y)
    BY <1>1, <2>3 DEF ThreadFails, Opened
  <2> QED
    BY <1>8, <2>1, <2>2, <2>3
<1>9. ASSUME NEW t \in Tasks, NEW y \in Types, CTask_Close(t, y) PROVE TypeOK'
  BY <1>1, <1>9 DEF CTask_Close
<1>10. ASSUME NEW t \in Tasks, SystemClose(t) PROVE TypeOK'
  BY <1>1, <1>10 DEF SystemClose
<1>11. CASE OpenRefused \/ ThreadRuns \/ CTask_Flush \/ CloseRefused
  BY <1>1, <1>11 DEF OpenRefused, ThreadRuns, CTask_Flush, CloseRefused
<1>12. CASE CThread_ThreadDone \/ Join
  BY <1>1, <1>12 DEF CThread_ThreadDone, Join
<1>13. CASE ErrorRecovery
  BY <1>1, <1>13 DEF ErrorRecovery
<1>14. ASSUME NEW t \in Tasks, Releasing(t), UNCHANGED <<session, slot, fifo, flagVars, chan, fwVars, interrupts, threadVars>>
       PROVE  TypeOK'
  BY <1>1, <1>14 DEF Releasing
<1>15. CASE Closed
  <2>1. CASE call.op = "release"
    BY <1>14, <1>15, <2>1 DEF Closed, Inv, CallInv
  <2>2. CASE call.op # "release"
    <3>1. /\ call.chan \in Channels
          /\ chan[call.chan] \in Objects
      BY <1>1, <1>15, <2>2 DEF Closed, Inv, CallInv, Holds
    <3>2. chan' \in [Channels -> Objects \cup {None}]
      <4>1. [chan[call.chan] EXCEPT !.open = FALSE] \in Objects
        BY <3>1
      <4>2. chan' = [chan EXCEPT ![call.chan] = IF call.op = "destroy" THEN None
                                                ELSE [@ EXCEPT !.open = FALSE]]
        BY <1>15, <2>2 DEF Closed
      <4> QED
        BY <1>1, <3>1, <4>1, <4>2
    <3> QED
      BY <1>1, <1>15, <2>2, <3>2 DEF Closed
  <2> QED
    BY <2>1, <2>2
<1>16. ASSUME NEW t \in Tasks, CTask_Release(t) PROVE TypeOK'
  BY <1>14, <1>16 DEF CTask_Release
<1>17. CASE Wakes \/ Handled \/ Returns \/ UNCHANGED vars
  BY <1>1, <1>17 DEF Wakes, Handled, Returns, vars
<1> QED
  BY <1>2, <1>3, <1>4, <1>5, <1>6, <1>7, <1>8, <1>9, <1>10, <1>11, <1>15, <1>16, <1>17, <1>12, <1>13
     DEF Next, Begin, Proceed, Worker

LEMMA CallStep == ASSUME Inv, [Next]_vars PROVE CallInv'
<1> USE NoneIsNothing
    DEF TypeOK, Objects, CallInv, CallStages, Ops, taskVars, flagVars, fwVars, threadVars, Goto, Return, At, Idle, Exists, Holds
<1>1. TypeOK /\ CallInv
  BY DEF Inv
<1>2. CASE \E t \in Tasks : CTask_Alloc(t)
  BY <1>1, <1>2 DEF CTask_Alloc
<1>3. CASE \E t \in Tasks, y \in Types : CTask_Start(t, y) \/ CTask_Acquire(t, y)
  BY <1>1, <1>3 DEF CTask_Start, CTask_Acquire
<1>4. ASSUME NEW c \in Channels, NEW t \in Tasks, NEW y \in Types, CChannel_Constructor(c, t, y)
      PROVE  CallInv'
  BY <1>1, <1>4 DEF CChannel_Constructor
<1>5. ASSUME NEW c \in Channels, CChannel_Open(c) PROVE CallInv'
  <2>1. chan[c] \in Objects
    BY <1>1, <1>5 DEF CChannel_Open
  <2>2. chan'[c] = [chan[c] EXCEPT !.open = TRUE]
    BY <1>1, <1>5 DEF CChannel_Open
  <2>3. call' = [at |-> "open", op |-> "open", task |-> chan[c].task, type |-> chan[c].type, chan |-> c]
    BY <1>5 DEF CChannel_Open, Call
  <2> QED
    BY <2>1, <2>2, <2>3
<1>6. ASSUME NEW c \in Channels, CChannel_Close(c) \/ CChannel_Destructor(c) PROVE CallInv'
  BY <1>1, <1>6 DEF CChannel_Close, CChannel_Destructor, Call
<1>7. ASSUME NEW t \in Tasks, NEW y \in Types, CTask_Open(t, y) PROVE CallInv'
  BY <1>1, <1>7 DEF CTask_Open, Opened
<1>8. ASSUME NEW t \in Tasks, NEW y \in Types,
             SystemOpenFails(t, y) \/ SystemOpens(t, y) \/ ThreadFails(t, y)
      PROVE  CallInv'
  BY <1>1, <1>8 DEF SystemOpenFails, SystemOpens, ThreadFails, Opened
<1>9. ASSUME NEW t \in Tasks, NEW y \in Types, CTask_Close(t, y) PROVE CallInv'
  BY <1>1, <1>9 DEF CTask_Close
<1>10. ASSUME NEW t \in Tasks, SystemClose(t) PROVE CallInv'
  BY <1>1, <1>10 DEF SystemClose
<1>11. CASE OpenRefused \/ ThreadRuns \/ CTask_Flush \/ CloseRefused \/ CThread_ThreadDone \/ Join
            \/ ErrorRecovery
  BY <1>1, <1>11 DEF OpenRefused, ThreadRuns, CTask_Flush, CloseRefused, CThread_ThreadDone, Join,
     ErrorRecovery
<1>12. ASSUME NEW t \in Tasks, Releasing(t), UNCHANGED chan
       PROVE  CallInv'
  BY <1>1, <1>12 DEF Releasing
<1>13. CASE Closed
  BY <1>1, <1>12, <1>13 DEF Closed
<1>14. ASSUME NEW t \in Tasks, CTask_Release(t) PROVE CallInv'
  BY <1>12, <1>14 DEF CTask_Release
<1>15. CASE Wakes \/ Handled \/ Returns \/ UNCHANGED vars
  BY <1>1, <1>15 DEF Wakes, Handled, Returns, vars
<1> QED
  BY <1>2, <1>3, <1>4, <1>5, <1>6, <1>7, <1>8, <1>9, <1>10, <1>11, <1>13, <1>14, <1>15
     DEF Next, Begin, Proceed, Worker

LEMMA SlotStep == ASSUME Inv, [Next]_vars PROVE SlotInv'
<1> USE NoneIsNothing
    DEF TypeOK, Objects, SlotInv, CallInv, CallStages, Ops, taskVars, flagVars, fwVars, threadVars,
        Goto, Return, At, Idle, Exists, Holds, Named, Agrees, Undone
<1>1. TypeOK /\ CallInv /\ SlotInv
  BY DEF Inv
<1>2. ASSUME NEW t \in Tasks, CTask_Alloc(t) PROVE SlotInv'
  BY <1>1, <1>2 DEF CTask_Alloc
<1>3. CASE \E t \in Tasks, y \in Types : CTask_Start(t, y) \/ CTask_Acquire(t, y)
  BY <1>1, <1>3 DEF CTask_Start, CTask_Acquire
<1>4. ASSUME NEW c \in Channels, NEW t \in Tasks, NEW y \in Types, CChannel_Constructor(c, t, y)
      PROVE  SlotInv'
  BY <1>1, <1>4 DEF CChannel_Constructor
<1>5. ASSUME NEW c \in Channels, CChannel_Open(c) PROVE SlotInv'
  BY <1>1, <1>5 DEF CChannel_Open, Call
<1>6. ASSUME NEW c \in Channels, CChannel_Close(c) \/ CChannel_Destructor(c) PROVE SlotInv'
  <2>1. CASE UNCHANGED chan
    <3>1. call'.at = "flush" /\ UNCHANGED <<valid, session, slot, fifo, chan>>
      BY <1>1, <1>6, <2>1 DEF CChannel_Close, CChannel_Destructor, Call
    <3>2. \A t \in Tasks, y \in Types : Named(t, y) /\ Agrees(t, y)
      BY <1>1, <1>6 DEF CChannel_Close, CChannel_Destructor
    <3> QED
      BY <3>1, <3>2
  <2>2. CASE chan' = [chan EXCEPT ![c] = None] /\ ~chan[c].open /\ UNCHANGED call
    <3>1. UNCHANGED <<valid, session, slot, fifo>> /\ call.at = "idle"
      BY <1>6 DEF CChannel_Close, CChannel_Destructor
    <3>2. \A t \in Tasks, y \in Types : Named(t, y) /\ Agrees(t, y) /\ slot[t][y] # c
      BY <1>1, <2>2, <3>1
    <3>3. \A t \in Tasks, y \in Types : Named(t, y)' /\ Agrees(t, y)'
      BY <1>1, <2>2, <3>1, <3>2
    <3> QED
      BY <2>2, <3>1, <3>3
  <2> QED
    BY <1>6, <2>1, <2>2 DEF CChannel_Close, CChannel_Destructor
<1>7. ASSUME NEW t \in Tasks, NEW y \in Types, CTask_Open(t, y) PROVE SlotInv'
  BY <1>1, <1>7 DEF CTask_Open, Opened
<1>8. ASSUME NEW t \in Tasks, NEW y \in Types, SystemOpenFails(t, y) PROVE SlotInv'
  BY <1>1, <1>8 DEF SystemOpenFails
<1>9. ASSUME NEW t \in Tasks, NEW y \in Types, SystemOpens(t, y) PROVE SlotInv'
  <2>1. CASE Sessions = {}
    BY <1>1, <1>9, <2>1 DEF SystemOpens
  <2>2. CASE Sessions # {}
    <3>1. /\ call.at = "systemOpen" /\ t = call.task /\ y = call.type /\ call'.at = "idle"
          /\ session' = [session EXCEPT ![t] = @ \cup {y}] /\ UNCHANGED <<valid, slot, fifo, chan>>
      BY <1>9, <2>2 DEF SystemOpens, Opened
    <3>2. slot[t][y] # None /\ y \in fifo[t]
      BY <1>1, <3>1
    <3>3. ASSUME NEW u \in Tasks, NEW z \in Types PROVE Named(u, z)' /\ Agrees(u, z)'
      <4>1. CASE u = t /\ z = y
        BY <1>1, <3>1, <3>2, <4>1
      <4>2. CASE ~(u = t /\ z = y)
        <5>1. Named(u, z) /\ Agrees(u, z)
          BY <1>1, <3>1, <4>2
        <5>2. z \in session'[u] <=> z \in session[u]
          BY <1>1, <3>1, <4>2
        <5> QED
          BY <3>1, <5>1, <5>2
      <4> QED
        BY <4>1, <4>2
    <3> QED
      BY <3>1, <3>3
  <2> QED
    BY <2>1, <2>2
<1>10. ASSUME NEW t \in Tasks, NEW y \in Types, ThreadFails(t, y) PROVE SlotInv'
  BY <1>1, <1>10 DEF ThreadFails, Opened
<1>11. ASSUME NEW t \in Tasks, NEW y \in Types, CTask_Close(t, y) PROVE SlotInv'
  BY <1>1, <1>11 DEF CTask_Close
<1>12. ASSUME NEW t \in Tasks, SystemClose(t) PROVE SlotInv'
  BY <1>1, <1>12 DEF SystemClose
<1>13. CASE OpenRefused \/ ThreadRuns \/ CTask_Flush \/ CloseRefused
  BY <1>1, <1>13 DEF OpenRefused, ThreadRuns, CTask_Flush, CloseRefused
<1>14. CASE CThread_ThreadDone \/ Join \/ ErrorRecovery
  <2>1. /\ call.at \in {"stop", "join", "shut"} /\ UNCHANGED <<valid, session, slot, fifo, chan>>
        /\ \E a \in {"join", "shut", "closed"} : call' = [call EXCEPT !.at = a]
    BY <1>14 DEF CThread_ThreadDone, Join, ErrorRecovery
  <2> QED
    BY <1>1, <2>1
<1>15. ASSUME NEW t \in Tasks, Releasing(t), UNCHANGED <<session, slot, fifo, acquired, chan>>,
              At("idle") \/ At("closed")
       PROVE  SlotInv'
  BY <1>1, <1>15 DEF Releasing
<1>16. CASE Closed
  BY <1>1, <1>15, <1>16 DEF Closed
<1>17. ASSUME NEW t \in Tasks, CTask_Release(t) PROVE SlotInv'
  BY <1>15, <1>17 DEF CTask_Release
<1>18. CASE Wakes \/ Handled \/ Returns \/ UNCHANGED vars
  BY <1>1, <1>18 DEF Wakes, Handled, Returns, vars
<1> QED
  BY <1>2, <1>3, <1>4, <1>5, <1>6, <1>7, <1>8, <1>9, <1>10, <1>11, <1>12, <1>13, <1>14, <1>16, <1>17,
     <1>18 DEF Next, Begin, Proceed, Worker

LEMMA UpStep == ASSUME Inv, [Next]_vars PROVE UpInv'
<1> USE NoneIsNothing
    DEF TypeOK, UpInv, SlotInv, CallStages, Ops, taskVars, flagVars, fwVars, threadVars,
        Goto, Return, At, Idle, Named, Agrees, Undone, Sessions
<1>1. TypeOK /\ CallInv /\ SlotInv /\ UpInv
  BY DEF Inv
<1>2. ASSUME NEW t \in Tasks, CTask_Alloc(t) PROVE UpInv'
  BY <1>1, <1>2 DEF CTask_Alloc
<1>3. CASE \E t \in Tasks, y \in Types : CTask_Start(t, y) \/ CTask_Acquire(t, y)
  BY <1>1, <1>3 DEF CTask_Start, CTask_Acquire
<1>4. ASSUME NEW c \in Channels, NEW t \in Tasks, NEW y \in Types, CChannel_Constructor(c, t, y)
      PROVE  UpInv'
  BY <1>1, <1>4 DEF CChannel_Constructor
<1>5. ASSUME NEW c \in Channels, CChannel_Open(c) PROVE UpInv'
  BY <1>1, <1>5 DEF CChannel_Open, Call
<1>6. ASSUME NEW c \in Channels, CChannel_Close(c) \/ CChannel_Destructor(c) PROVE UpInv'
  BY <1>1, <1>6 DEF CChannel_Close, CChannel_Destructor, Call
<1>7. ASSUME NEW t \in Tasks, NEW y \in Types, CTask_Open(t, y) PROVE UpInv'
  BY <1>1, <1>7 DEF CTask_Open, Opened
<1>8. ASSUME NEW t \in Tasks, NEW y \in Types, SystemOpenFails(t, y) PROVE UpInv'
  BY <1>1, <1>8 DEF SystemOpenFails
<1>9. ASSUME NEW t \in Tasks, NEW y \in Types, SystemOpens(t, y) PROVE UpInv'
  BY <1>1, <1>9 DEF SystemOpens, Opened
<1>10. ASSUME NEW t \in Tasks, NEW y \in Types, ThreadFails(t, y) PROVE UpInv'
  <2>1. /\ t = call.task /\ t \in fwOpen /\ t \notin acquired /\ Sessions = {}
        /\ slot[t][y] # None
    BY <1>1, <1>10 DEF ThreadFails
  <2> QED
    BY <1>1, <1>10, <2>1 DEF ThreadFails, Opened
<1>11. ASSUME NEW t \in Tasks, NEW y \in Types, CTask_Close(t, y) PROVE UpInv'
  BY <1>1, <1>11 DEF CTask_Close
<1>12. ASSUME NEW t \in Tasks, SystemClose(t) PROVE UpInv'
  BY <1>1, <1>12 DEF SystemClose
<1>13. CASE OpenRefused \/ ThreadRuns \/ CTask_Flush \/ CloseRefused
  <2>1. CASE OpenRefused
    BY <1>1, <2>1 DEF OpenRefused
  <2>2. CASE ThreadRuns
    <3>1. slot[call.task][call.type] # None
      BY <1>1, <2>2 DEF ThreadRuns, CallInv, Holds
    <3> QED
      BY <1>1, <2>2, <3>1 DEF ThreadRuns
  <2>3. CASE CTask_Flush
    BY <1>1, <2>3 DEF CTask_Flush
  <2>4. CASE CloseRefused
    <3>1. slot[call.task][call.type] = None
      BY <1>1, <2>4 DEF CloseRefused, CallInv
    <3> QED
      BY <1>1, <2>4, <3>1 DEF CloseRefused
  <2> QED
    BY <1>13, <2>1, <2>2, <2>3, <2>4
<1>14. CASE CThread_ThreadDone \/ Join \/ ErrorRecovery
  BY <1>1, <1>14 DEF CThread_ThreadDone, Join, ErrorRecovery
<1>15. ASSUME NEW t \in Tasks, Releasing(t),
              UNCHANGED <<session, slot, acquired, fwVars, interrupts, threadVars>>,
              At("idle") \/ At("closed")
       PROVE  UpInv'
  BY <1>1, <1>15 DEF Releasing
<1>16. CASE Closed
  BY <1>1, <1>15, <1>16 DEF Closed, CallInv
<1>17. ASSUME NEW t \in Tasks, CTask_Release(t) PROVE UpInv'
  BY <1>15, <1>17 DEF CTask_Release
<1>18. CASE Wakes \/ Handled \/ Returns \/ UNCHANGED vars
  BY <1>1, <1>18 DEF Wakes, Handled, Returns, vars
<1> QED
  BY <1>2, <1>3, <1>4, <1>5, <1>6, <1>7, <1>8, <1>9, <1>10, <1>11, <1>12, <1>13, <1>14, <1>16, <1>17,
     <1>18 DEF Next, Begin, Proceed, Worker
-----------------------------------------------------------------------------
LEMMA InitInv == Init => Inv
<1> SUFFICES ASSUME Init PROVE Inv
  OBVIOUS
<1>1. TypeOK
  BY NoneIsNothing DEF Init, TypeOK, Idle, CallStages, Ops
<1>2. CallInv /\ UpInv
  BY DEF Init, CallInv, UpInv, Sessions, Idle, At
<1>3. SlotInv
  BY DEF Init, SlotInv, Named, Agrees, Idle
<1> QED
  BY <1>1, <1>2, <1>3 DEF Inv

LEMMA SpecInv == Spec => []Inv
<1>1. Inv /\ [Next]_vars => Inv'
  BY TypeStep, CallStep, SlotStep, UpStep DEF Inv
<1> QED
  BY <1>1, InitInv, PTL DEF Spec

(* Every variable keeps its type, of which the hard part is that a task is  *)
(* started and linked only while the firmware has it open.                  *)
THEOREM TypeCorrect == Spec => []TypeOK
<1>1. Inv => TypeOK
  BY DEF Inv
<1> QED
  BY <1>1, SpecInv, PTL

(* The three records of what is open agree between calls, with each other   *)
(* and with the channels, though opens fail half way and one channel's      *)
(* close may take another's session.                                        *)
THEOREM SlotsAlwaysAgree == Spec => []SlotsAgree
<1>1. Inv => SlotsAgree
  BY DEF Inv, SlotInv, Named, Agrees, Undone, Holds, At, SlotsAgree
<1> QED
  BY <1>1, SpecInv, PTL

(* A session that counts as open is up between calls, and no thread is left *)
(* behind by the last one.                                                  *)
THEOREM SessionsAreUp == Spec => []SessionIsUp
<1>1. Inv => SessionIsUp
  BY DEF Inv, UpInv, At, SessionIsUp
<1> QED
  BY <1>1, SpecInv, PTL

(* The safety half of CallReturns: the one stage that waits for another    *)
(* thread is reached only when that thread has been told to return, and it *)
(* was told nothing before.                                                *)
StopIsHeard ==
  /\ At("join") => IF exit THEN worker \in {"waiting", "busy"} ELSE worker = "returned"
  /\ ~At("join") => ~exit /\ worker # "returned"

(* kthread_stop never waits for a thread that nobody told, and no thread   *)
(* ends for a stop that was meant for an earlier one.                      *)
THEOREM JoinedThreadWasTold == Spec => []StopIsHeard
<1>1. Init => StopIsHeard
  BY DEF Init, StopIsHeard, At, Idle
<1>2. TypeOK /\ StopIsHeard /\ [Next]_vars => StopIsHeard'
  <2> SUFFICES ASSUME TypeOK, StopIsHeard, [Next]_vars PROVE StopIsHeard'
    OBVIOUS
  <2> USE DEF TypeOK, StopIsHeard, At, Goto, Return, Idle, threadVars
  <2>1. CASE Wakes \/ Worker
    BY <2>1 DEF Wakes, Worker, Handled, Returns
  <2>2. CASE CThread_ThreadDone
    BY <2>2 DEF CThread_ThreadDone
  <2>3. CASE Join
    BY <2>3 DEF Join
  <2>4. CASE ThreadRuns
    BY <2>4 DEF ThreadRuns
  <2>5. ASSUME NEW t \in Tasks, NEW y \in Types,
               CTask_Open(t, y) \/ SystemOpenFails(t, y) \/ SystemOpens(t, y) \/ ThreadFails(t, y)
                 \/ CTask_Close(t, y)
        PROVE  StopIsHeard'
    BY <2>5 DEF CTask_Open, SystemOpenFails, SystemOpens, ThreadFails, CTask_Close, Opened
  <2>6. CASE OpenRefused \/ CTask_Flush \/ CloseRefused \/ ErrorRecovery
    BY <2>6 DEF OpenRefused, CTask_Flush, CloseRefused, ErrorRecovery
  <2>7. ASSUME NEW t \in Tasks, SystemClose(t) PROVE StopIsHeard'
    BY <2>7 DEF SystemClose
  <2>8. CASE Closed
    BY <2>8 DEF Closed, Releasing
  <2>9. CASE Begin
    BY <2>9 DEF Begin, CTask_Alloc, CTask_Release, CTask_Start, CTask_Acquire, CChannel_Constructor,
       CChannel_Open, CChannel_Close, CChannel_Destructor, Call, Releasing
  <2>10. CASE UNCHANGED vars
    BY <2>10 DEF vars
  <2> QED
    BY <2>1, <2>2, <2>3, <2>4, <2>5, <2>6, <2>7, <2>8, <2>9, <2>10 DEF Next, Proceed
<1> QED
  BY <1>1, <1>2, TypeCorrect, PTL DEF Spec
=============================================================================
