-------------------------- MODULE DmaTransferProofs --------------------------
(***************************************************************************)
(* Proofs about DmaTransfer, for any number of engines and any assignment  *)
(* of directions.  The type invariant and NoStrandedCompletion hold        *)
(* whether or not transfers outlast their wait.  The others need every     *)
(* transfer to end within it; they follow from one picture: the completion *)
(* of the transfer that the caller waits for is in exactly one place       *)
(* between the engine and the caller, and nothing else is anywhere.        *)
(***************************************************************************)
EXTENDS DmaTransfer, TLAPS

USE NumDmaAssumption

(* The index of an engine, and of the loop variable that runs over them. *)
LEMMA EngineIndex ==
  /\ 0 \in 0 .. NumDma
  /\ Channels \subseteq 0 .. NumDma
  /\ \A i \in 0 .. NumDma : i < NumDma => i \in Channels /\ i + 1 \in 0 .. NumDma
  /\ \A c \in Channels : c + 1 \in 0 .. NumDma
BY DEF Channels

(* Every variable keeps its type: the loops of the handler and of the work *)
(* item never step past the engines that PedDmaInit found.                 *)
THEOREM TypeCorrect == Spec => []TypeOK
<1> USE DEF CardTypes, HandlerTypes, WorkTypes, CallTypes, Dirs
<1> HIDE NumDmaAssumption
<1> USE EngineIndex
<1>1. Init => TypeOK
  <2> SUFFICES ASSUME Init PROVE TypeOK
    OBVIOUS
  <2>1. CardTypes /\ CallTypes
    BY DEF Init, Results
  <2>2. HandlerTypes
    BY DEF Init, IsrPcs
  <2>3. WorkTypes
    BY DEF Init, DpcPcs
  <2> QED
    BY <2>1, <2>2, <2>3 DEF TypeOK
<1>2. TypeOK /\ [Next]_vars => TypeOK'
  <2> SUFFICES ASSUME TypeOK, [Next]_vars PROVE TypeOK'
    OBVIOUS
  <2> USE DEF TypeOK, engineVars, isrVars, callVars
  <2>1. ASSUME NEW c \in Channels, EngineCompletes(c) PROVE TypeOK'
    BY <2>1 DEF EngineCompletes
  <2>2. CASE ArmInterrupts
    BY <2>2 DEF ArmInterrupts
  <2>3. CASE IsrEnter
    <3>1. CardTypes'
      BY <2>3 DEF IsrEnter
    <3>2. HandlerTypes'
      BY <2>3 DEF IsrEnter, IsrPcs
    <3>3. WorkTypes' /\ CallTypes'
      BY <2>3 DEF IsrEnter
    <3> QED
      BY <3>1, <3>2, <3>3
  <2>4. CASE IsrScan
    <3>1. CardTypes'
      BY <2>4 DEF IsrScan
    <3>2. HandlerTypes'
      BY <2>4 DEF IsrScan, IsrPcs
    <3>3. WorkTypes' /\ CallTypes'
      BY <2>4 DEF IsrScan
    <3> QED
      BY <3>1, <3>2, <3>3
  <2>5. CASE IsrLoad
    <3>1. HandlerTypes'
      BY <2>5 DEF IsrLoad, IsrPcs
    <3>2. CardTypes' /\ WorkTypes' /\ CallTypes'
      BY <2>5 DEF IsrLoad
    <3> QED
      BY <3>1, <3>2
  <2>6. CASE IsrStore
    <3>1. HandlerTypes'
      BY <2>6 DEF IsrStore, IsrPcs
    <3>2. CardTypes' /\ WorkTypes' /\ CallTypes'
      BY <2>6 DEF IsrStore
    <3> QED
      BY <3>1, <3>2
  <2>7. CASE IsrExit
    <3>1. HandlerTypes'
      BY <2>7 DEF IsrExit, IsrPcs
    <3>2. CardTypes' /\ WorkTypes' /\ CallTypes'
      BY <2>7 DEF IsrExit
    <3> QED
      BY <3>1, <3>2
  <2>8. CASE DpcEnter \/ DpcWhile
    <3>1. HandlerTypes'
      BY <2>8 DEF DpcEnter, DpcWhile, IsrPcs
    <3>2. WorkTypes'
      BY <2>8 DEF DpcEnter, DpcWhile, DpcPcs
    <3>3. CardTypes' /\ CallTypes'
      BY <2>8 DEF DpcEnter, DpcWhile
    <3> QED
      BY <3>1, <3>2, <3>3
  <2>9. CASE DpcTest
    <3>1. HandlerTypes'
      BY <2>9 DEF DpcTest, IsrPcs
    <3>2. WorkTypes'
      BY <2>9 DEF DpcTest, DpcPcs
    <3>3. CardTypes' /\ CallTypes'
      BY <2>9 DEF DpcTest
    <3> QED
      BY <3>1, <3>2, <3>3
  <2>10. CASE DpcEnd
    <3>1. HandlerTypes'
      BY <2>10 DEF DpcEnd, IsrPcs
    <3>2. WorkTypes'
      BY <2>10 DEF DpcEnd, DpcPcs
    <3>3. CardTypes' /\ CallTypes'
      BY <2>10 DEF DpcEnd
    <3> QED
      BY <3>1, <3>2, <3>3
  <2>11. CASE DpcStore
    <3>1. HandlerTypes'
      BY <2>11 DEF DpcStore, IsrPcs
    <3>2. WorkTypes'
      BY <2>11 DEF DpcStore, DpcPcs
    <3>3. CardTypes' /\ CallTypes'
      BY <2>11 DEF DpcStore
    <3> QED
      BY <3>1, <3>2, <3>3
  <2>12. CASE DpcComplete \/ DpcTaskEvent \/ DpcSyncEvent
    <3>1. WorkTypes'
      BY <2>12, ChannelAssumption DEF DpcComplete, DpcTaskEvent, DpcSyncEvent, DpcPcs
    <3>2. CallTypes'
      BY <2>12, ChannelAssumption DEF DpcComplete, DpcTaskEvent, DpcSyncEvent, Results
    <3>3. CardTypes' /\ HandlerTypes'
      BY <2>12 DEF DpcComplete, DpcTaskEvent, DpcSyncEvent
    <3> QED
      BY <3>1, <3>2, <3>3
  <2>13. CASE PciDpcForIsrArmMsg
    <3>1. HandlerTypes'
      BY <2>13 DEF PciDpcForIsrArmMsg, IsrPcs
    <3>2. WorkTypes'
      BY <2>13 DEF PciDpcForIsrArmMsg, DpcPcs
    <3>3. CardTypes' /\ CallTypes'
      BY <2>13 DEF PciDpcForIsrArmMsg
    <3> QED
      BY <3>1, <3>2, <3>3
  <2>14. ASSUME NEW dir \in Dirs, CallBegins(dir) PROVE TypeOK'
    BY <2>14 DEF CallBegins, Results
  <2>15. CASE CallClears \/ CallSucceeds \/ CallGivesUp
    <3>1. WorkTypes'
      BY <2>15 DEF CallClears, CallSucceeds, CallGivesUp, DpcPcs
    <3>2. CallTypes'
      BY <2>15 DEF CallClears, CallSucceeds, CallGivesUp, Results
    <3>3. CardTypes' /\ HandlerTypes'
      BY <2>15 DEF CallClears, CallSucceeds, CallGivesUp
    <3> QED
      BY <3>1, <3>2, <3>3
  <2>16. CASE CallQueues
    <3>1. CardTypes'
      BY <2>16, ChannelAssumption DEF CallQueues, Channel
    <3>2. CallTypes'
      BY <2>16, ChannelAssumption DEF CallQueues, Channel, Results
    <3>3. HandlerTypes' /\ WorkTypes'
      BY <2>16 DEF CallQueues, Channel
    <3> QED
      BY <3>1, <3>2, <3>3
  <2>17. CASE WorkerTakesEvents
    <3>1. WorkTypes'
      BY <2>17 DEF WorkerTakesEvents, DpcPcs
    <3>2. CardTypes' /\ HandlerTypes' /\ CallTypes'
      BY <2>17 DEF WorkerTakesEvents
    <3> QED
      BY <3>1, <3>2
  <2>18. CASE UNCHANGED vars
    BY <2>18 DEF vars
  <2> QED
    BY <2>1, <2>2, <2>3, <2>4, <2>5, <2>6, <2>7, <2>8, <2>9, <2>10, <2>11, <2>12, <2>13, <2>14, <2>15, <2>16, <2>17, <2>18
    DEF Next, Isr, Dpc, Returns
<1> QED
  BY <1>1, <1>2, PTL DEF Spec
(* The completion of the caller's transfer is in one place, and there is   *)
(* no other: this is what makes the unlocked word safe.                    *)
THEOREM CompletionInOnePlace == ASSUME ~Late PROVE Spec => []OneCompletion
<1> USE DEF OneCompletion, OnlyTheCallersTransfer, InOnePlace, LoadedStillTrue,
            TaskEventFirst, StartedWhileBusy, Acked, Handling, Signalled, Waiting
<1>1. Init => OneCompletion
  BY DEF Init
<1>2. TypeOK /\ OneCompletion /\ [Next]_vars => OneCompletion'
  <2> SUFFICES ASSUME TypeOK, OneCompletion, [Next]_vars PROVE OneCompletion'
    OBVIOUS
  <2> USE DEF TypeOK, CardTypes, HandlerTypes, WorkTypes, CallTypes, engineVars, isrVars, callVars
  <2>1. ASSUME NEW c \in Channels, EngineCompletes(c) PROVE OneCompletion'
    BY <2>1 DEF EngineCompletes
  <2>2. CASE ArmInterrupts
    BY <2>2 DEF ArmInterrupts
  <2>3. CASE IsrEnter
    BY <2>3 DEF IsrEnter
  <2>4. CASE IsrScan
    BY <2>4 DEF IsrScan
  <2>5. CASE IsrLoad
    BY <2>5 DEF IsrLoad
  <2>6. CASE IsrStore
    BY <2>6 DEF IsrStore
  <2>7. CASE IsrExit
    BY <2>7 DEF IsrExit
  <2>8. CASE DpcEnter
    BY <2>8 DEF DpcEnter
  <2>9. CASE DpcWhile
    BY <2>9 DEF DpcWhile
  <2>10. CASE DpcTest
    BY <2>10 DEF DpcTest
  <2>11. CASE DpcStore
    BY <2>11 DEF DpcStore
  <2>12. CASE DpcComplete
    BY <2>12 DEF DpcComplete
  <2>13. CASE DpcTaskEvent
    BY <2>13 DEF DpcTaskEvent
  <2>14. CASE DpcSyncEvent
    <3>1. Waiting(dpc.ch) /\ DmaDirection[dpc.ch] = call.dir
      BY <2>14, ChannelAssumption DEF DpcSyncEvent, Channel, Dirs
    <3> QED
      BY <2>14, <3>1 DEF DpcSyncEvent
  <2>15. CASE DpcEnd
    BY <2>15 DEF DpcEnd
  <2>16. CASE PciDpcForIsrArmMsg
    BY <2>16 DEF PciDpcForIsrArmMsg
  <2>17. ASSUME NEW dir \in Dirs, CallBegins(dir) PROVE OneCompletion'
    BY <2>17 DEF CallBegins
  <2>18. CASE CallClears
    BY <2>18 DEF CallClears
  <2>19. CASE CallQueues
    BY <2>19 DEF CallQueues
  <2>20. CASE CallSucceeds
    BY <2>20 DEF CallSucceeds
  <2>21. CASE CallGivesUp
    BY <2>21 DEF CallGivesUp
  <2>22. CASE WorkerTakesEvents
    BY <2>22 DEF WorkerTakesEvents
  <2>23. CASE UNCHANGED vars
    BY <2>23 DEF vars
  <2> QED
    BY <2>1, <2>2, <2>3, <2>4, <2>5, <2>6, <2>7, <2>8, <2>9, <2>10, <2>11, <2>12, <2>13, <2>14, <2>15, <2>16, <2>17, <2>18, <2>19, <2>20, <2>21, <2>22, <2>23
    DEF Next, Isr, Dpc, Returns
<1> QED
  BY <1>1, <1>2, TypeCorrect, PTL DEF Spec

(* Late or not, a completion bit is never left in the status word with     *)
(* nobody about to look at it.                                             *)
THEOREM NothingStranded == Spec => []NoStrandedCompletion
<1> USE DEF NoStrandedCompletion
<1>1. Init => NoStrandedCompletion
  BY DEF Init
<1>2. TypeOK /\ NoStrandedCompletion /\ [Next]_vars => NoStrandedCompletion'
  <2> SUFFICES ASSUME TypeOK, NoStrandedCompletion, [Next]_vars PROVE NoStrandedCompletion'
    OBVIOUS
  <2> USE DEF TypeOK, HandlerTypes, WorkTypes, isrVars
  <2>1. CASE IsrEnter \/ IsrScan \/ IsrLoad
    BY <2>1 DEF IsrEnter, IsrScan, IsrLoad
  <2>2. CASE IsrStore
    BY <2>2 DEF IsrStore
  <2>3. CASE IsrExit
    BY <2>3 DEF IsrExit
  <2>4. CASE DpcEnter \/ DpcWhile \/ DpcTest \/ DpcEnd
    BY <2>4 DEF DpcEnter, DpcWhile, DpcTest, DpcEnd
  <2>5. CASE DpcStore
    BY <2>5 DEF DpcStore
  <2>6. CASE DpcComplete \/ DpcTaskEvent \/ DpcSyncEvent
    BY <2>6 DEF DpcComplete, DpcTaskEvent, DpcSyncEvent
  <2>7. CASE PciDpcForIsrArmMsg
    BY <2>7 DEF PciDpcForIsrArmMsg
  <2>8. CASE UNCHANGED <<interruptStatus, isrVars, dpc>>
    BY <2>8
  <2>9. ASSUME NEW c \in Channels, EngineCompletes(c) PROVE UNCHANGED <<interruptStatus, isrVars, dpc>>
    BY <2>9 DEF EngineCompletes
  <2>10. ASSUME NEW dir \in Dirs, CallBegins(dir) PROVE UNCHANGED <<interruptStatus, isrVars, dpc>>
    BY <2>10 DEF CallBegins
  <2>11. CASE ArmInterrupts \/ Returns \/ WorkerTakesEvents
    BY <2>11, <2>8 DEF ArmInterrupts, Returns, CallClears, CallQueues, CallSucceeds,
                       CallGivesUp, WorkerTakesEvents
  <2>12. CASE UNCHANGED vars
    BY <2>12, <2>8 DEF vars
  <2> QED
    BY <2>1, <2>2, <2>3, <2>4, <2>5, <2>6, <2>7, <2>8, <2>9, <2>10, <2>11, <2>12
    DEF Next, Isr, Dpc
<1> QED
  BY <1>1, <1>2, TypeCorrect, PTL DEF Spec

(* If transfers end within their wait, the card never writes to, or reads  *)
(* from, a bounce buffer that has been freed.                              *)
THEOREM BufferNotFreedEarly == ASSUME ~Late PROVE Spec => []BufferOutlivesTransfer
<1>1. TypeOK /\ OneCompletion => BufferOutlivesTransfer
  BY DEF TypeOK, CardTypes, OneCompletion, OnlyTheCallersTransfer, BufferOutlivesTransfer
<1> QED
  BY <1>1, TypeCorrect, CompletionInOnePlace, PTL

(* What a step of the system does under the same assumption: a success is  *)
(* that of the transfer just queued, the worker was told of it first, and  *)
(* no bit of the status word is lost.                                      *)
LEMMA StepsOfOneCompletion ==
  ASSUME TypeOK, OneCompletion, Next
  PROVE  /\ ret' = "ok" /\ ret # "ok" => Channel(call.dir) \notin busy /\ call.dir \in evtTask
         /\ \A c \in interruptStatus \ interruptStatus' : dpc'.pc = "complete" /\ dpc'.ch = c
<1> USE DEF TypeOK, HandlerTypes, WorkTypes, CallTypes, engineVars, isrVars, callVars
<1>1. CASE CallSucceeds
  <2>1. Channel(call.dir) \in Channels
    BY ChannelAssumption DEF Channel
  <2>2. Channel(call.dir) \notin busy /\ call.dir \in evtTask
    BY <1>1, <2>1 DEF CallSucceeds, OneCompletion, InOnePlace, Signalled, Waiting, TaskEventFirst
  <2> QED
    BY <1>1, <2>2 DEF CallSucceeds
<1>2. CASE IsrStore
  BY <1>2 DEF IsrStore, OneCompletion, LoadedStillTrue, InOnePlace, OnlyTheCallersTransfer,
              Acked, Waiting
<1>3. CASE DpcStore
  BY <1>3 DEF DpcStore, OneCompletion, LoadedStillTrue, InOnePlace, OnlyTheCallersTransfer, Waiting
<1>4. CASE UNCHANGED interruptStatus /\ (UNCHANGED ret \/ ret' # "ok")
  BY <1>4
<1> QED
  BY <1>1, <1>2, <1>3, <1>4
  DEF Next, Isr, Dpc, Returns, EngineCompletes, ArmInterrupts, IsrEnter, IsrScan, IsrLoad,
      IsrExit, DpcEnter, DpcWhile, DpcTest, DpcComplete, DpcTaskEvent, DpcSyncEvent, DpcEnd,
      PciDpcForIsrArmMsg, CallBegins, CallClears, CallQueues, CallGivesUp, WorkerTakesEvents

(* A transfer that reports success has moved its data.                     *)
THEOREM SuccessIsOwnCompletion == ASSUME ~Late PROVE Spec => SuccessMeansMoved
<1>1. TypeOK /\ OneCompletion /\ [Next]_vars
        => [ret' = "ok" /\ ret # "ok" => Channel(call.dir) \notin busy]_vars
  BY StepsOfOneCompletion
<1> QED
  BY <1>1, TypeCorrect, CompletionInOnePlace, PTL DEF Spec, SuccessMeansMoved

(* No completion bit is lost between the handler and the work item.        *)
THEOREM NoBitLost == ASSUME ~Late PROVE Spec => SetBitIsHandled
<1>1. TypeOK /\ OneCompletion /\ [Next]_vars
        => [\A c \in interruptStatus \ interruptStatus' :
              dpc'.pc = "complete" /\ dpc'.ch = c]_vars
  BY StepsOfOneCompletion
<1> QED
  BY <1>1, TypeCorrect, CompletionInOnePlace, PTL DEF Spec, SetBitIsHandled

(* The worker's event is up before the caller returns.                     *)
THEOREM WorkerToldFirst == ASSUME ~Late PROVE Spec => WorkerToldBeforeCaller
<1>1. TypeOK /\ OneCompletion /\ [Next]_vars
        => [ret' = "ok" /\ ret # "ok" => call.dir \in evtTask]_vars
  BY StepsOfOneCompletion
<1> QED
  BY <1>1, TypeCorrect, CompletionInOnePlace, PTL DEF Spec, WorkerToldBeforeCaller
-----------------------------------------------------------------------------
(* A call keeps the promise of DmaService.                                 *)

LEMMA EngineOfCall == TypeOK => Channel(call.dir) \in Channels
  BY ChannelAssumption DEF Channel

(* Steps that neither the caller nor the worker can see. *)
LEMMA HiddenSteps ==
  ASSUME TypeOK, OneCompletion,
         \/ ArmInterrupts \/ Isr \/ PciDpcForIsrArmMsg
         \/ DpcEnter \/ DpcWhile \/ DpcTest \/ DpcStore \/ DpcComplete \/ DpcSyncEvent \/ DpcEnd
  PROVE  UNCHANGED Service!serviceVars
<1>1. UNCHANGED <<busy, call, ret, evtTask \cap Dirs>>
  BY DEF ArmInterrupts, Isr, IsrEnter, IsrScan, IsrLoad, IsrStore, IsrExit, PciDpcForIsrArmMsg,
     DpcEnter, DpcWhile, DpcTest, DpcStore, DpcComplete, DpcSyncEvent, DpcEnd, engineVars, callVars, Dirs
<1> QED
  BY <1>1 DEF Service!serviceVars, Phase

(* The engine. *)
LEMMA EngineMoves ==
  ASSUME TypeOK, OneCompletion, NEW c \in Channels, EngineCompletes(c)
  PROVE  Service!Move
<1>1. Waiting(c) /\ c \in busy /\ busy' = busy \ {c} /\ UNCHANGED <<call, ret, evtTask>>
  BY DEF EngineCompletes, OneCompletion, OnlyTheCallersTransfer, callVars
<1>2. Phase = "moving" /\ Phase' = "moved"
  BY <1>1 DEF Phase, Waiting
<1> QED
  BY <1>1, <1>2 DEF Service!Move

(* The work item tells the worker of the transfer that is over. *)
LEMMA WorkTells ==
  ASSUME TypeOK, OneCompletion, DpcTaskEvent
  PROVE  Service!TellWorker
<1>1. /\ dpc.pc = "task" /\ dpc.ch \in Channels /\ evtTask' = evtTask \cup {DmaDirection[dpc.ch]}
      /\ UNCHANGED <<busy, call, ret>>
  BY DEF DpcTaskEvent, TypeOK, WorkTypes, engineVars, callVars
<1>2. Waiting(dpc.ch) /\ dpc.ch \notin busy
  BY <1>1 DEF OneCompletion, OnlyTheCallersTransfer, InOnePlace, Handling
<1>3. DmaDirection[dpc.ch] = call.dir /\ call.dir \in Dirs
  BY <1>2, ChannelAssumption DEF Waiting, Channel, TypeOK, CallTypes, Dirs
<1>4. Phase = "moved" /\ Phase' = "moved"
  BY <1>1, <1>2 DEF Phase, Waiting
<1>5. (evtTask \cap Dirs)' = (evtTask \cap Dirs) \cup {call.dir}
  BY <1>1, <1>3
<1> QED
  BY <1>1, <1>4, <1>5 DEF Service!TellWorker

(* The caller and the worker. *)
LEMMA CallerServed ==
  ASSUME TypeOK, OneCompletion, ~Late, Returns \/ WorkerTakesEvents \/ \E d \in Dirs : CallBegins(d)
  PROVE  [Service!Next]_(Service!serviceVars)
<1> USE DEF TypeOK, CallTypes, Phase, engineVars, callVars
<1>1. ASSUME NEW d \in Dirs, CallBegins(d) PROVE Service!Next
  <2>1. Service!Begin(d)
    BY <1>1 DEF CallBegins, Service!Begin
  <2> QED
    BY <2>1 DEF Service!Next
<1>2. CASE CallClears
  <2>1. Service!NoMemory \/ UNCHANGED Service!serviceVars
    BY <1>2 DEF CallClears, Service!NoMemory, Service!serviceVars
  <2> QED
    BY <2>1 DEF Service!Next
<1>3. CASE CallQueues
  <2>1. Channel(call.dir) \notin busy
    BY <1>3, EngineOfCall DEF CallQueues, OneCompletion, OnlyTheCallersTransfer, Waiting
  <2>2. Service!Start
    BY <1>3, <2>1 DEF CallQueues, Service!Start
  <2> QED
    BY <2>2 DEF Service!Next
<1>4. CASE CallSucceeds
  <2>1. Channel(call.dir) \notin busy
    BY <1>4, EngineOfCall DEF CallSucceeds, OneCompletion, InOnePlace, Signalled, Waiting
  <2>2. call.dir \in evtTask
    BY <1>4 DEF CallSucceeds, OneCompletion, TaskEventFirst
  <2>3. Service!Succeed
    BY <1>4, <2>1, <2>2 DEF CallSucceeds, Service!Succeed
  <2> QED
    BY <2>3 DEF Service!Next
<1>5. CASE WorkerTakesEvents
  <2>1. Service!WorkerLooks
    BY <1>5 DEF WorkerTakesEvents, Service!WorkerLooks
  <2> QED
    BY <2>1 DEF Service!Next
<1> QED
  BY <1>1, <1>2, <1>3, <1>4, <1>5 DEF Returns, CallGivesUp

(* If transfers end within their wait, a call fails only for want of memory *)
(* and before anything moves, a success has moved its data and told the     *)
(* worker, and the worker is told of nothing else.                          *)
THEOREM CallsAreServed == ASSUME ~Late PROVE Spec => ImplementsDmaService
<1>1. Init => Service!Init
  BY DEF Init, Service!Init, Phase, Dirs
<1>2. TypeOK /\ OneCompletion /\ [Next]_vars => [Service!Next]_(Service!serviceVars)
  <2> SUFFICES ASSUME TypeOK, OneCompletion, [Next]_vars
               PROVE  [Service!Next]_(Service!serviceVars)
    OBVIOUS
  <2>1. CASE UNCHANGED vars
    BY <2>1 DEF vars, engineVars, callVars, Service!serviceVars, Phase
  <2>2. ASSUME NEW c \in Channels, EngineCompletes(c) PROVE Service!Next
    BY <2>2, EngineMoves DEF Service!Next
  <2>3. CASE DpcTaskEvent
    BY <2>3, WorkTells DEF Service!Next
  <2> QED
    BY <2>1, <2>2, <2>3, HiddenSteps, CallerServed DEF Next, Dpc
<1> QED
  BY <1>1, <1>2, TypeCorrect, CompletionInOnePlace, PTL DEF Spec, ImplementsDmaService, Service!Spec
-----------------------------------------------------------------------------
(* The safety half of EveryCallReturns: while a caller waits, its          *)
(* completion is still on its way, and what comes next moves it on.        *)
NoCompletionLost ==
  call.pc = "wait" =>
    LET c == Channel(call.dir)
    IN \/ c \in busy \/ c \in irq \/ Acked(c) \/ c \in interruptStatus
       \/ Handling(c) \/ call.dir \in evtSync

(* If transfers end within their wait, no update of the shared status word  *)
(* and no clearing of the event loses the completion that a caller waits    *)
(* for.                                                                     *)
THEOREM CompletionArrives == ASSUME ~Late PROVE Spec => []NoCompletionLost
<1>1. Init => NoCompletionLost
  BY DEF Init, NoCompletionLost
<1>2. TypeOK /\ OneCompletion /\ NoCompletionLost /\ [Next]_vars => NoCompletionLost'
  <2> SUFFICES ASSUME TypeOK, OneCompletion, NoCompletionLost, [Next]_vars
               PROVE  NoCompletionLost'
    OBVIOUS
  <2> USE DEF TypeOK, HandlerTypes, WorkTypes, CallTypes, NoCompletionLost, Acked, Handling,
              engineVars, isrVars, callVars
  <2>1. ASSUME NEW c \in Channels, EngineCompletes(c) PROVE NoCompletionLost'
    BY <2>1 DEF EngineCompletes
  <2>2. CASE ArmInterrupts \/ IsrEnter \/ IsrLoad \/ IsrExit
    <3>1. UNCHANGED <<busy, irq, interruptStatus, dpc, evtSync, call>>
      BY <2>2 DEF ArmInterrupts, IsrEnter, IsrLoad, IsrExit
    <3>2. \A c \in Channels : Acked(c) => Acked(c)'
      BY <2>2 DEF ArmInterrupts, IsrEnter, IsrLoad, IsrExit
    <3>3. Channel(call.dir) \in Channels
      BY EngineOfCall
    <3> QED
      BY <3>1, <3>2, <3>3
  <2>3. CASE IsrScan
    BY <2>3 DEF IsrScan
  <2>4. CASE IsrStore
    <3>1. isr.tmp = {} /\ Waiting(isr.ch) /\ isr.ch \in interruptStatus'
      BY <2>4 DEF IsrStore, OneCompletion, LoadedStillTrue, OnlyTheCallersTransfer
    <3> QED
      BY <2>4, <3>1 DEF IsrStore, Waiting
  <2>5. CASE DpcEnter \/ DpcWhile \/ DpcTest \/ DpcEnd \/ DpcComplete \/ DpcTaskEvent
    <3>1. UNCHANGED <<busy, irq, isr, interruptStatus, evtSync, call>>
      BY <2>5 DEF DpcEnter, DpcWhile, DpcTest, DpcEnd, DpcComplete, DpcTaskEvent
    <3>2. \A c \in Channels : Handling(c) => Handling(c)'
      BY <2>5 DEF DpcEnter, DpcWhile, DpcTest, DpcEnd, DpcComplete, DpcTaskEvent
    <3>3. Channel(call.dir) \in Channels
      BY EngineOfCall
    <3> QED
      BY <3>1, <3>2, <3>3
  <2>6. CASE DpcStore
    <3>1. dpc.ch \in interruptStatus /\ Waiting(dpc.ch)
      BY <2>6 DEF DpcStore, OneCompletion, LoadedStillTrue, OnlyTheCallersTransfer
    <3> QED
      BY <2>6, <3>1 DEF DpcStore, Waiting
  <2>7. CASE DpcSyncEvent
    <3>1. Waiting(dpc.ch) /\ DmaDirection[dpc.ch] = call.dir
      BY <2>7, ChannelAssumption DEF DpcSyncEvent, Channel, Dirs, OneCompletion,
         OnlyTheCallersTransfer, Waiting
    <3> QED
      BY <2>7, <3>1 DEF DpcSyncEvent
  <2>8. CASE PciDpcForIsrArmMsg \/ WorkerTakesEvents
    BY <2>8 DEF PciDpcForIsrArmMsg, WorkerTakesEvents
  <2>9. ASSUME NEW dir \in Dirs, CallBegins(dir) PROVE NoCompletionLost'
    BY <2>9 DEF CallBegins
  <2>10. CASE Returns
    BY <2>10 DEF Returns, CallClears, CallQueues, CallSucceeds, CallGivesUp
  <2>11. CASE UNCHANGED vars
    BY <2>11 DEF vars
  <2> QED
    BY <2>1, <2>2, <2>3, <2>4, <2>5, <2>6, <2>7, <2>8, <2>9, <2>10, <2>11 DEF Next, Isr, Dpc
<1> QED
  BY <1>1, <1>2, TypeCorrect, CompletionInOnePlace, PTL DEF Spec
=============================================================================
