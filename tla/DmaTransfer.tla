---------------------------- MODULE DmaTransfer ----------------------------
(***************************************************************************)
(* A synchronous transfer between host memory and the card (dma.c), from   *)
(* the call to its return, with everything that runs meanwhile: the DMA    *)
(* engine, the interrupt handler, the two work items it schedules          *)
(* (interrupts.c) and the bus callback that raises the event the caller    *)
(* sleeps on (cqlcodec.c).                                                 *)
(*                                                                         *)
(* pcie.InterruptStatus is a plain word that the interrupt handler ORs     *)
(* into and the work item ANDs out of, on different CPUs and under no      *)
(* lock, so each of the two is a load and a store here.  The event groups  *)
(* are sets of events: EventGroup implements that.                         *)
(***************************************************************************)
EXTENDS Naturals, FiniteSets

CONSTANTS
  NumDma,    \* m_NumDmaAvailable, the engines that PedDmaInit found
  ReadCh,    \* pcie.ReadDmaChannel, the first engine from card to host
  WriteCh,   \* pcie.WriteDmaChannel, the first engine from host to card
  DmaDirection, \* of each engine, from its capabilities
  Late,      \* whether a transfer may outlast the wait of 2000 ms
  ArmMessages \* whether the ARM interrupts too, on the same line

Channels == 0 .. NumDma - 1
Dirs == {"read", "write"}

(* The work item clears the bits of 0xfffff0f0 as unknown: it can serve    *)
(* engines 0 to 3 (the card has two).                                      *)
ASSUME NumDmaAssumption == NumDma \in 1 .. 4
ASSUME ChannelAssumption ==
  /\ ReadCh \in Channels /\ WriteCh \in Channels
  /\ DmaDirection \in [Channels -> Dirs]
  /\ DmaDirection[ReadCh] = "read" /\ DmaDirection[WriteCh] = "write"
ASSUME LateAssumption == Late \in BOOLEAN
ASSUME ArmMessagesAssumption == ArmMessages \in BOOLEAN

VARIABLES
  busy,      \* engines with DMA_STATUS_BUSY: executing a descriptor chain
  irq,       \* engines with bit 1 of the control register: completion interrupt
  armIrq,    \* bit 30 of register 0x8030, an ARM message is waiting
  bStarted,  \* engines with DmaDevices[].bStarted
  interruptStatus, \* pcie.InterruptStatus, as the set of its bits
  isr,       \* PciInterruptService: where it is, which engine, what it loaded,
             \* and the engines it acknowledged (dma_complete: there are some)
  queued,    \* the work items that are queued
  dpc,       \* PciDpcForIsr: where it is, which engine, what it loaded
  evtSync,   \* m_EvtSyncDma
  evtTask,   \* m_EvtTask, the part that the bus callback raises
  call,      \* the transfer in progress: where it is and its direction
  ret        \* what the last transfer returned

engineVars == <<busy, irq, armIrq>>
isrVars == <<isr, queued>>
callVars == <<call, ret>>
vars == <<engineVars, bStarted, interruptStatus, isrVars, dpc, evtSync, evtTask, callVars>>

Channel(dir) == IF dir = "read" THEN ReadCh ELSE WriteCh

IsrPcs == {"off", "scan", "load", "store"}
DpcPcs == {"off", "while", "test", "store", "complete", "task", "sync"}
Results == {"none", "ok", "nomem", "busy", "gaveup"}

CardTypes ==
  /\ busy \subseteq Channels
  /\ irq \subseteq Channels
  /\ armIrq \in BOOLEAN

HandlerTypes ==
  /\ isr \in [pc : IsrPcs, ch : 0 .. NumDma, tmp : SUBSET Channels, acked : SUBSET Channels]
  /\ isr.pc \in {"load", "store"} => isr.ch \in Channels
  /\ interruptStatus \subseteq Channels
  /\ queued \subseteq {"dma_work", "irq_work"}

WorkTypes ==
  /\ dpc \in [pc : DpcPcs, ch : 0 .. NumDma, tmp : SUBSET Channels]
  /\ dpc.pc \in {"store", "complete", "task", "sync"} => dpc.ch \in Channels
  /\ evtSync \subseteq Dirs
  /\ evtTask \subseteq Dirs \cup {"arm"}

CallTypes ==
  /\ bStarted \subseteq Channels
  /\ call \in [pc : {"idle", "clear", "queue", "wait"}, dir : Dirs]
  /\ ret \in Results

TypeOK == CardTypes /\ HandlerTypes /\ WorkTypes /\ CallTypes

(* PedDmaInit: every engine found is enabled and idle. *)
Init ==
  /\ busy = {}
  /\ irq = {}
  /\ armIrq = FALSE
  /\ bStarted = {}
  /\ interruptStatus = {}
  /\ isr = [pc |-> "off", ch |-> 0, tmp |-> {}, acked |-> {}]
  /\ queued = {}
  /\ dpc = [pc |-> "off", ch |-> 0, tmp |-> {}]
  /\ evtSync = {}
  /\ evtTask = {}
  /\ call = [pc |-> "idle", dir |-> "read"]
  /\ ret = "none"
-----------------------------------------------------------------------------
(* The card. *)

(* The last descriptor of the chain, which carries the interrupt flag, is done. *)
EngineCompletes(c) ==
  /\ c \in busy
  /\ busy' = busy \ {c}
  /\ irq' = irq \cup {c}
  /\ UNCHANGED <<armIrq, bStarted, interruptStatus, isrVars, dpc, evtSync, evtTask, callVars>>

ArmInterrupts ==
  /\ ArmMessages
  /\ armIrq' = TRUE
  /\ UNCHANGED <<busy, irq, bStarted, interruptStatus, isrVars, dpc, evtSync, evtTask, callVars>>
-----------------------------------------------------------------------------
(* PciInterruptService.  The line is shared, so it runs at any time.       *)

IsrEnter ==
  /\ isr.pc = "off"
  /\ isr' = [isr EXCEPT !.pc = "scan"]
  /\ armIrq' = FALSE
  /\ queued' = IF armIrq THEN queued \cup {"irq_work"} ELSE queued
  /\ UNCHANGED <<busy, irq, bStarted, interruptStatus, dpc, evtSync, evtTask, callVars>>

(* Variant: the loop runs one engine too far. *)
ScanOneTooFar ==
  /\ isr.pc = "scan" /\ isr.ch <= NumDma
  /\ isr' = [isr EXCEPT !.ch = @ + 1]
  /\ UNCHANGED <<engineVars, bStarted, interruptStatus, queued, dpc, evtSync, evtTask, callVars>>

(* Variant: the interrupt bit of the engine is not looked at. *)
ScanWithoutTest ==
  /\ isr.pc = "scan" /\ isr.ch < NumDma
  /\ irq' = irq \ {isr.ch}
  /\ isr' = [isr EXCEPT !.pc = "load"]
  /\ UNCHANGED <<busy, armIrq, bStarted, interruptStatus, queued, dpc, evtSync, evtTask, callVars>>

(* Variant: the interrupt is not acknowledged. *)
ScanWithoutAck ==
  /\ isr.pc = "scan" /\ isr.ch < NumDma
  /\ isr' = IF isr.ch \in irq THEN [isr EXCEPT !.pc = "load"] ELSE [isr EXCEPT !.ch = @ + 1]
  /\ UNCHANGED <<engineVars, bStarted, interruptStatus, queued, dpc, evtSync, evtTask, callVars>>

(* Read the engine's status and, if it interrupts, acknowledge it. *)
IsrScan ==
  /\ isr.pc = "scan" /\ isr.ch < NumDma
  /\ IF isr.ch \in irq
     THEN /\ irq' = irq \ {isr.ch}
          /\ isr' = [isr EXCEPT !.pc = "load"]
     ELSE /\ isr' = [isr EXCEPT !.ch = @ + 1]
          /\ UNCHANGED irq
  /\ UNCHANGED <<busy, armIrq, bStarted, interruptStatus, queued, dpc, evtSync, evtTask, callVars>>

(* InterruptStatus |= 1 << i, in two halves. *)
IsrLoad ==
  /\ isr.pc = "load"
  /\ isr' = [isr EXCEPT !.pc = "store", !.tmp = interruptStatus]
  /\ UNCHANGED <<engineVars, bStarted, interruptStatus, queued, dpc, evtSync, evtTask, callVars>>

IsrStore ==
  /\ isr.pc = "store"
  /\ interruptStatus' = isr.tmp \cup {isr.ch}
  /\ isr' = [isr EXCEPT !.pc = "scan", !.ch = @ + 1, !.tmp = {}, !.acked = @ \cup {isr.ch}]
  /\ UNCHANGED <<engineVars, bStarted, queued, dpc, evtSync, evtTask, callVars>>

(* Variant: dma_complete tells of the last engine only. *)
ExitAfterLastEngine ==
  /\ isr.pc = "scan" /\ isr.ch = NumDma
  /\ isr' = [isr EXCEPT !.pc = "off", !.ch = 0, !.acked = {}]
  /\ queued' = IF NumDma - 1 \in isr.acked THEN queued \cup {"dma_work"} ELSE queued
  /\ UNCHANGED <<engineVars, bStarted, interruptStatus, dpc, evtSync, evtTask, callVars>>

IsrExit ==
  /\ isr.pc = "scan" /\ isr.ch = NumDma
  /\ isr' = [isr EXCEPT !.pc = "off", !.ch = 0, !.acked = {}]
  /\ queued' = IF isr.acked # {} THEN queued \cup {"dma_work"} ELSE queued
  /\ UNCHANGED <<engineVars, bStarted, interruptStatus, dpc, evtSync, evtTask, callVars>>
-----------------------------------------------------------------------------
(* The work items.  dma_work runs PedDmaDpcHandler, irq_work the callback. *)

DpcEnter ==
  /\ dpc.pc = "off" /\ "dma_work" \in queued
  /\ queued' = queued \ {"dma_work"}
  /\ dpc' = [dpc EXCEPT !.pc = "while"]
  /\ UNCHANGED <<engineVars, bStarted, interruptStatus, isr, evtSync, evtTask, callVars>>

DpcWhile ==
  /\ dpc.pc = "while"
  /\ dpc' = [dpc EXCEPT !.pc = IF interruptStatus = {} THEN "off" ELSE "test"]
  /\ UNCHANGED <<engineVars, bStarted, interruptStatus, isrVars, evtSync, evtTask, callVars>>

(* Variant: every engine is completed, whatever its bit. *)
TestNothing ==
  /\ dpc.pc = "test" /\ dpc.ch < NumDma
  /\ dpc' = [dpc EXCEPT !.pc = "store", !.tmp = interruptStatus]
  /\ UNCHANGED <<engineVars, bStarted, interruptStatus, isrVars, evtSync, evtTask, callVars>>

DpcTest ==
  /\ dpc.pc = "test" /\ dpc.ch < NumDma
  /\ dpc' = IF dpc.ch \in interruptStatus
            THEN [dpc EXCEPT !.pc = "store", !.tmp = interruptStatus]
            ELSE [dpc EXCEPT !.ch = @ + 1]
  /\ UNCHANGED <<engineVars, bStarted, interruptStatus, isrVars, evtSync, evtTask, callVars>>

(* InterruptStatus &= ~(1 << i): the compiler may use the value it tested  *)
(* or load again.                                                          *)
DpcStore ==
  /\ dpc.pc = "store"
  /\ \E loaded \in {dpc.tmp, interruptStatus} : interruptStatus' = loaded \ {dpc.ch}
  /\ dpc' = [dpc EXCEPT !.pc = "complete", !.tmp = {}]
  /\ UNCHANGED <<engineVars, bStarted, isrVars, evtSync, evtTask, callVars>>

(* PedDmaComplete: the part under dma_lock, then the bus callback with its *)
(* two events.                                                             *)
DpcComplete ==
  /\ dpc.pc = "complete"
  /\ bStarted' = bStarted \ {dpc.ch}
  /\ dpc' = [dpc EXCEPT !.pc = "task"]
  /\ UNCHANGED <<engineVars, interruptStatus, isrVars, evtSync, evtTask, callVars>>

(* Variant: the caller is woken where the worker should be. *)
SyncEventFirst ==
  /\ dpc.pc = "task"
  /\ evtSync' = evtSync \cup {DmaDirection[dpc.ch]}
  /\ dpc' = [dpc EXCEPT !.pc = "sync"]
  /\ UNCHANGED <<engineVars, bStarted, interruptStatus, isrVars, evtTask, callVars>>

DpcTaskEvent ==
  /\ dpc.pc = "task"
  /\ evtTask' = evtTask \cup {DmaDirection[dpc.ch]}
  /\ dpc' = [dpc EXCEPT !.pc = "sync"]
  /\ UNCHANGED <<engineVars, bStarted, interruptStatus, isrVars, evtSync, callVars>>

(* Variant: the event does not depend on the direction of the engine. *)
SyncEventOfReads ==
  /\ dpc.pc = "sync"
  /\ evtSync' = evtSync \cup {"read"}
  /\ dpc' = [dpc EXCEPT !.pc = "test", !.ch = @ + 1]
  /\ UNCHANGED <<engineVars, bStarted, interruptStatus, isrVars, evtTask, callVars>>

DpcSyncEvent ==
  /\ dpc.pc = "sync"
  /\ evtSync' = evtSync \cup {DmaDirection[dpc.ch]}
  /\ dpc' = [dpc EXCEPT !.pc = "test", !.ch = @ + 1]
  /\ UNCHANGED <<engineVars, bStarted, interruptStatus, isrVars, evtTask, callVars>>

(* Variant: the mask of unknown bits covers the known ones. *)
EndClearsAll ==
  /\ dpc.pc = "test" /\ dpc.ch = NumDma
  /\ interruptStatus' = {}
  /\ dpc' = [dpc EXCEPT !.pc = "while", !.ch = 0]
  /\ UNCHANGED <<engineVars, bStarted, isrVars, evtSync, evtTask, callVars>>

(* The end of the for loop: none of the engines' bits is unknown. *)
DpcEnd ==
  /\ dpc.pc = "test" /\ dpc.ch = NumDma
  /\ dpc' = [dpc EXCEPT !.pc = "while", !.ch = 0]
  /\ UNCHANGED <<engineVars, bStarted, interruptStatus, isrVars, evtSync, evtTask, callVars>>

PciDpcForIsrArmMsg ==
  /\ "irq_work" \in queued
  /\ queued' = queued \ {"irq_work"}
  /\ evtTask' = evtTask \cup {"arm"}
  /\ UNCHANGED <<engineVars, bStarted, interruptStatus, isr, dpc, evtSync, callVars>>
-----------------------------------------------------------------------------
(* The caller: CQLCodec_StartDMARead or CQLCodec_StartDMAWrite.            *)

CallBegins(dir) ==
  /\ call.pc = "idle"
  /\ call' = [pc |-> "clear", dir |-> dir]
  /\ ret' = "none"
  /\ UNCHANGED <<engineVars, bStarted, interruptStatus, isrVars, dpc, evtSync, evtTask>>

(* The bounce buffer is allocated, or not; the sync event is cleared. *)
CallClears ==
  /\ call.pc = "clear"
  /\ \/ /\ ret' = "nomem"
        /\ call' = [call EXCEPT !.pc = "idle"]
        /\ UNCHANGED evtSync
     \/ /\ evtSync' = evtSync \ {call.dir}
        /\ call' = [call EXCEPT !.pc = "queue"]
        /\ UNCHANGED ret
  /\ UNCHANGED <<engineVars, bStarted, interruptStatus, isrVars, dpc, evtTask>>

(* PedDmaQueueBuffers, all of it under dma_lock. *)
CallQueues ==
  /\ call.pc = "queue"
  /\ IF Channel(call.dir) \in busy
     THEN /\ ret' = "busy"
          /\ call' = [call EXCEPT !.pc = "idle"]
          /\ UNCHANGED <<busy, bStarted>>
     ELSE /\ busy' = busy \cup {Channel(call.dir)}
          /\ bStarted' = bStarted \cup {Channel(call.dir)}
          /\ call' = [call EXCEPT !.pc = "wait"]
          /\ UNCHANGED ret
  /\ UNCHANGED <<irq, armIrq, interruptStatus, isrVars, dpc, evtSync, evtTask>>

CallSucceeds ==
  /\ call.pc = "wait" /\ call.dir \in evtSync
  /\ evtSync' = evtSync \ {call.dir}
  /\ ret' = "ok"
  /\ call' = [call EXCEPT !.pc = "idle"]
  /\ UNCHANGED <<engineVars, bStarted, interruptStatus, isrVars, dpc, evtTask>>

(* Timeout or signal: the bounce buffer is freed, the engine is left alone. *)
CallGivesUp ==
  /\ Late
  /\ call.pc = "wait" /\ call.dir \notin evtSync
  /\ ret' = "gaveup"
  /\ call' = [call EXCEPT !.pc = "idle"]
  /\ UNCHANGED <<engineVars, bStarted, interruptStatus, isrVars, dpc, evtSync, evtTask>>

(* The worker, which also makes these calls, takes its events in between. *)
WorkerTakesEvents ==
  /\ call.pc = "idle" /\ evtTask # {}
  /\ evtTask' = {}
  /\ UNCHANGED <<engineVars, bStarted, interruptStatus, isrVars, dpc, evtSync, callVars>>
-----------------------------------------------------------------------------
Isr == IsrEnter \/ IsrScan \/ IsrLoad \/ IsrStore \/ IsrExit
Dpc == \/ DpcEnter \/ DpcWhile \/ DpcTest \/ DpcStore \/ DpcComplete
       \/ DpcTaskEvent \/ DpcSyncEvent \/ DpcEnd
Returns == CallClears \/ CallQueues \/ CallSucceeds \/ CallGivesUp

Next ==
  \/ \E c \in Channels : EngineCompletes(c)
  \/ ArmInterrupts
  \/ Isr
  \/ Dpc
  \/ PciDpcForIsrArmMsg
  \/ \E dir \in Dirs : CallBegins(dir)
  \/ Returns
  \/ WorkerTakesEvents

Spec == Init /\ [][Next]_vars

(* Engines finish, the kernel delivers interrupts and runs work items and threads. *)
Fairness ==
  /\ \A c \in Channels : WF_vars(EngineCompletes(c))
  /\ WF_vars(Isr) /\ WF_vars(Dpc) /\ WF_vars(PciDpcForIsrArmMsg)
  /\ WF_vars(Returns)

FairSpec == Spec /\ Fairness
-----------------------------------------------------------------------------
(* The caller is in PedDmaQueueBuffers' aftermath, waiting for engine c. *)
Waiting(c) == call.pc = "wait" /\ Channel(call.dir) = c

(* A transfer that returns success has moved its data: the event that woke *)
(* the caller is that of the transfer it queued, not of an earlier one.    *)
SuccessMeansMoved ==
  [][ret' = "ok" /\ ret # "ok" => Channel(call.dir) \notin busy]_vars

(* An engine runs only while the call that allocated its bounce buffer     *)
(* waits: every return frees that buffer.                                  *)
BufferOutlivesTransfer == \A c \in busy : Waiting(c)

(* bStarted, which PedDmaComplete resets for whoever runs, tells the truth. *)
StartedWhileBusy == busy \subseteq bStarted

(* Completion bits are never left with nobody about to look at them: the   *)
(* handler schedules the work after its store, the work looks again before *)
(* it ends.                                                                *)
NoStrandedCompletion ==
  interruptStatus # {} =>
    "dma_work" \in queued \/ dpc.pc # "off" \/ (isr.pc # "off" /\ isr.acked # {})

(* Every transfer returns. *)
EveryCallReturns == call.pc # "idle" ~> call.pc = "idle"

(* The bit that the handler sets for an engine stays set until the work    *)
(* item reaches PedDmaComplete for that engine, although both rewrite the  *)
(* whole word.                                                             *)
SetBitIsHandled ==
  [][\A c \in interruptStatus \ interruptStatus' : dpc'.pc = "complete" /\ dpc'.ch = c]_vars

(* A transfer that returns success leaves the worker's own event for that  *)
(* direction raised: the bus callback raises it before the one that wakes  *)
(* the caller.                                                             *)
WorkerToldBeforeCaller ==
  [][ret' = "ok" /\ ret # "ok" => call.dir \in evtTask]_vars
-----------------------------------------------------------------------------
(* Where the completion of a transfer on engine c can be, from the engine  *)
(* to the caller: on the card (busy, then irq), acknowledged by the        *)
(* handler, in the status word, in the work item, in the event.            *)
Acked(c) == isr.pc \in {"load", "store"} /\ isr.ch = c
Handling(c) == dpc.pc \in {"complete", "task", "sync"} /\ dpc.ch = c
Signalled(c) == Waiting(c) /\ call.dir \in evtSync

(* It is in one of these places, and only the caller's transfer is in any. *)
OnlyTheCallersTransfer ==
  /\ \A c \in Channels :
       c \in busy \/ c \in irq \/ Acked(c) \/ c \in interruptStatus \/ Handling(c) => Waiting(c)
  /\ \A dir \in evtSync : call.pc = "wait" /\ call.dir = dir

InOnePlace(c) ==
  /\ c \in busy => c \notin irq /\ ~Acked(c) /\ c \notin interruptStatus
                     /\ ~Handling(c) /\ ~Signalled(c)
  /\ c \in irq => ~Acked(c) /\ c \notin interruptStatus /\ ~Handling(c) /\ ~Signalled(c)
  /\ Acked(c) => c \notin interruptStatus /\ ~Handling(c) /\ ~Signalled(c)
  /\ c \in interruptStatus => ~Handling(c) /\ ~Signalled(c)
  /\ Handling(c) => ~Signalled(c)

(* What the two read-modify-writes of the status word hold meanwhile. *)
LoadedStillTrue ==
  /\ isr.pc = "store" => isr.tmp = {}
  /\ dpc.pc = "store" => dpc.tmp = {dpc.ch} /\ dpc.ch \in interruptStatus

(* The worker's event is raised first. *)
TaskEventFirst ==
  /\ dpc.pc = "sync" => DmaDirection[dpc.ch] \in evtTask
  /\ evtSync \subseteq evtTask

OneCompletion ==
  /\ OnlyTheCallersTransfer
  /\ \A c \in Channels : InOnePlace(c)
  /\ LoadedStillTrue
  /\ TaskEventFirst
  /\ StartedWhileBusy
-----------------------------------------------------------------------------
(* With transfers that end in time, a call keeps the promise of DmaService *)
(* to its caller and to the worker, whatever handler and work item do in   *)
(* between; in particular it never finds its engine busy.                  *)
Phase ==
  CASE call.pc = "idle" -> "idle"
    [] call.pc \in {"clear", "queue"} -> "begun"
    [] OTHER -> IF Channel(call.dir) \in busy THEN "moving" ELSE "moved"

Service == INSTANCE DmaService WITH
  phase <- Phase,
  dir <- call.dir,
  told <- evtTask \cap Dirs,
  result <- ret

ImplementsDmaService == Service!Spec
=============================================================================
