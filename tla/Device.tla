------------------------------- MODULE Device -------------------------------
(***************************************************************************)
(* Probe, firmware download and remove of the device (avermedia_c985.c,    *)
(* cqlcodec.c, firmware.c, project.c, cqlcodec_done.c): what each step     *)
(* takes hold of, where it goes when it fails, and what runs beside it:    *)
(* the interrupt handler, the two work items and a reader of the debugfs   *)
(* file of registers.                                                      *)
(*                                                                         *)
(* `at' is the step that comes next; a step is named for the call it is,   *)
(* or for the label it stands at.  Of a call that reaches the chips the    *)
(* outcome is kept: it succeeds, or it fails.  A file that the user keeps  *)
(* open on the video node is left out: nothing here waits for it.          *)
(***************************************************************************)
EXTENDS Naturals, FiniteSets

CONSTANTS
  Works \* the work items that the interrupt handler schedules

VARIABLES
  at,      \* the next step of probe, download or remove
  caller,  \* who asked for the download: probe, or a close of the last task
  failed,  \* whether ret, of the probe or of the download, is an error
  held,    \* what is taken and not given back
  enabled, \* the device's interrupts
  arm,     \* the ARM: halted or running
  image,   \* the firmware in card memory: none, loaded or verified
  encoding, \* encoder_running
  handler, \* PciInterruptService runs
  queued,  \* the work items on the work queue
  working, \* those that run
  reader   \* c985_regs_show runs

codeVars == <<at, caller, failed>>
chipVars == <<enabled, arm, image>>
besideVars == <<handler, queued, working, reader>>
vars == <<codeVars, held, chipVars, encoding, besideVars>>

Images == {"audio", "video"}

(* What a probe takes, in the order it does.  The block is a first device   *)
(* structure, whose pointer the allocation of the second overwrites.        *)
Claims == {"block", "region0", "regionMmio", "device", "map0", "mapMmio", "irq",
           "descriptors", "events", "task", "fwVideo", "fwAudio", "debugfs",
           "fifo", "v4l2", "node"}

Stages == Claims \cup
  {"unbound", "enable", "qphci", "memory", "armLoop", "interrupts",
   "err_out", "err_bar1", "err_region", "err_bar0",
   "validate", "halt", "reinit", "reload", "loadAudio", "verifyAudio", "config", "loadVideo",
   "verifyVideo", "start", "enableInterrupts", "out_free_all", "out_free_vid",
   "out_cleanup", "nuc100", "ti3101", "init_encoder", "err_mutex", "err_kfifo",
   "bound", "remove", "stopEncoder", "unregisterISR", "cancel", "v4l2Done",
   "debugfsDone", "destruct", "donePCIe", "flush", "release", "regions"}

TypeOK ==
  /\ at \in Stages
  /\ caller \in {"probe", "close"}
  /\ failed \in BOOLEAN
  /\ held \subseteq Claims
  /\ enabled \in BOOLEAN
  /\ arm \in {"halted", "running"}
  /\ image \in [Images -> {"none", "loaded", "verified"}]
  /\ encoding \in BOOLEAN
  /\ handler \in BOOLEAN
  /\ queued \subseteq Works
  /\ working \subseteq Works
  /\ reader \in BOOLEAN

(* A card that has just been given power. *)
Init ==
  /\ at = "unbound"
  /\ caller = "probe"
  /\ failed = FALSE
  /\ held = {}
  /\ enabled = FALSE
  /\ arm = "halted"
  /\ image = [i \in Images |-> "none"]
  /\ encoding = FALSE
  /\ handler = FALSE
  /\ queued = {}
  /\ working = {}
  /\ reader = FALSE

Step(from, to) == at = from /\ at' = to /\ UNCHANGED <<caller, failed>>
Fail(from, label) == at = from /\ at' = label /\ failed' = TRUE /\ UNCHANGED caller

(* A call that takes something, and one that does not: to the next step, or *)
(* to the label for its failure.                                            *)
Take(what, next, label) ==
  \/ Step(what, next) /\ held' = held \cup {what}
  \/ Fail(what, label) /\ UNCHANGED held

Try(from, next, label) == Step(from, next) \/ Fail(from, label)

Release(from, what, next) == Step(from, next) /\ held' = held \ what
-----------------------------------------------------------------------------
(* CQLCodec_InitDevice: what it takes, and then the chip's set up.  Memory  *)
(* that was initialized holds no firmware that is relied on.                *)

(* kzalloc, and devm_kzalloc over it: nothing frees the block again. *)
TakeBlock ==
  /\ at = "unbound"
  /\ \/ at' = "enable" /\ failed' = FALSE /\ held' = held \cup {"block"}
     \/ failed' = TRUE /\ UNCHANGED <<at, held>>
  /\ UNCHANGED caller

Claim ==
  /\ \/ TakeBlock
     \/ Try("enable", "region0", "unbound") /\ UNCHANGED held
     \/ Take("region0", "regionMmio", "unbound")
     \/ Take("regionMmio", "device", "err_bar0")
     \/ Take("device", "map0", "err_region")
     \/ Take("map0", "mapMmio", "err_region")
     \/ Take("mapMmio", "qphci", "err_bar1")
  /\ UNCHANGED <<chipVars, encoding>>

dm_reset_arm(from, next, label) ==
  /\ \/ Step(from, next) /\ arm' = "halted"
     \/ Fail(from, label) /\ arm' \in {arm, "halted"}
  /\ UNCHANGED <<held, enabled, image, encoding>>

CQLCodec_InitializeMemory(from, next, label) ==
  /\ Try(from, next, label)
  /\ image' = [i \in Images |-> "none"]
  /\ UNCHANGED <<held, enabled, arm, encoding>>

qphci_init_arm_loop ==
  /\ Try("armLoop", "irq", "err_out")
  /\ UNCHANGED <<held, chipVars, encoding>>

CQLCodec_RegisterISR ==
  /\ Take("irq", "interrupts", "err_out")
  /\ UNCHANGED <<chipVars, encoding>>

CPCIeCntl_EnableInterrupts(from, next) ==
  /\ Step(from, next)
  /\ enabled' = TRUE
  /\ UNCHANGED <<held, arm, image, encoding>>

(* The labels.  Nothing fails once the ISR is registered, so err_out finds  *)
(* no work to cancel and no ISR; devm frees the second structure after the  *)
(* probe, and the block stays.                                              *)
Unwind ==
  /\ \/ Release("err_out", {"mapMmio"}, "err_bar1")
     \/ Release("err_bar1", {"map0"}, "err_region")
     \/ Release("err_region", {"regionMmio"}, "err_bar0")
     \/ Release("err_bar0", {"region0", "device"}, "unbound")
  /\ UNCHANGED <<chipVars, encoding>>

CQLCodec_InitDevice ==
  \/ Claim
  \/ dm_reset_arm("qphci", "memory", "err_out")
  \/ CQLCodec_InitializeMemory("memory", "armLoop", "err_out")
  \/ qphci_init_arm_loop
  \/ CQLCodec_RegisterISR
  \/ CPCIeCntl_EnableInterrupts("interrupts", "descriptors")
  \/ Unwind
-----------------------------------------------------------------------------
(* The rest of the probe before the download.  No engine found is no error. *)

PedDmaInit ==
  /\ \/ Take("descriptors", "events", "remove")
     \/ Step("descriptors", "events") /\ UNCHANGED held
  /\ UNCHANGED <<chipVars, encoding>>

(* A failure destructs the codec, as the remove that follows does; of the   *)
(* event groups some may have been allocated.                               *)
CQLCodec_Constructor ==
  /\ \/ Take("events", "task", "remove")
     \/ Fail("events", "remove") /\ held' = held \cup {"events"}
     \/ Take("task", "fwVideo", "remove")
  /\ UNCHANGED <<chipVars, encoding>>
-----------------------------------------------------------------------------
(* CQLCodec_FWDownloadAll.  Without load_audio_fw there is no audio image.  *)

request_firmware ==
  /\ \/ Take("fwVideo", "fwAudio", "out_cleanup")
     \/ Take("fwAudio", "validate", "out_free_vid")
     \/ Step("fwAudio", "validate") /\ UNCHANGED held
  /\ UNCHANGED <<chipVars, encoding>>

validate_firmware_header ==
  /\ Try("validate", "halt", "out_free_all")
  /\ UNCHANGED <<held, chipVars, encoding>>

qphci_reinit ==
  /\ Step("reinit", "reload")
  /\ UNCHANGED <<held, chipVars, encoding>>

(* Zero-fill and upload; the last part of a failed one may be anything. *)
upload_firmware(i, from, next) ==
  /\ \/ Step(from, next) /\ image' = [image EXCEPT ![i] = "loaded"]
     \/ Fail(from, "out_free_all") /\ image' = [image EXCEPT ![i] = "none"]
  /\ UNCHANGED <<held, enabled, arm, encoding>>

(* Variant: the result is printed only. *)
VerifyAndGoOn(i, from, next) ==
  /\ Step(from, next)
  /\ image' \in {image, [image EXCEPT ![i] = "verified"]}
  /\ UNCHANGED <<held, enabled, arm, encoding>>

verify_firmware_in_card_memory(i, from, next) ==
  /\ \/ Step(from, next) /\ image' = [image EXCEPT ![i] = "verified"]
     \/ Fail(from, "out_free_all") /\ UNCHANGED image
  /\ UNCHANGED <<held, enabled, arm, encoding>>

SkipAudio ==
  /\ "fwAudio" \notin held
  /\ Step("loadAudio", "config")
  /\ UNCHANGED <<held, chipVars, encoding>>

(* The writes of the configuration are not checked. *)
c985_write_qpsos_config ==
  /\ Step("config", "loadVideo")
  /\ UNCHANGED <<held, chipVars, encoding>>

StartArm ==
  /\ Step("start", "enableInterrupts")
  /\ arm' = "running"
  /\ UNCHANGED <<held, enabled, image, encoding>>

release_firmware ==
  /\ \/ Release("out_free_all", {"fwAudio"}, "out_free_vid")
     \/ Release("out_free_vid", {"fwVideo"}, "out_cleanup")
  /\ UNCHANGED <<chipVars, encoding>>

(* Back to the probe, or to the close, which goes on whatever came of it. *)
Downloaded ==
  /\ at = "out_cleanup"
  /\ at' = IF caller = "close" THEN "bound" ELSE IF failed THEN "remove" ELSE "debugfs"
  /\ caller' = "probe"
  /\ UNCHANGED <<failed, held, chipVars, encoding>>

CQLCodec_FWDownloadAll ==
  \/ request_firmware
  \/ validate_firmware_header
  \/ dm_reset_arm("halt", "reinit", "out_free_all")
  \/ qphci_reinit
  \/ CQLCodec_InitializeMemory("reload", "loadAudio", "out_free_all")
  \/ SkipAudio
  \/ ("fwAudio" \in held) /\ upload_firmware("audio", "loadAudio", "verifyAudio")
  \/ verify_firmware_in_card_memory("audio", "verifyAudio", "config")
  \/ c985_write_qpsos_config
  \/ upload_firmware("video", "loadVideo", "verifyVideo")
  \/ verify_firmware_in_card_memory("video", "verifyVideo", "start")
  \/ StartArm
  \/ CPCIeCntl_EnableInterrupts("enableInterrupts", "out_free_all")
  \/ release_firmware
  \/ Downloaded
-----------------------------------------------------------------------------
(* project_c985_init.  The HDMI signal may be missing.                      *)

c985_debugfs_init ==
  /\ \/ Step("debugfs", "nuc100") /\ held' = held \cup {"debugfs"}
     \/ Step("debugfs", "nuc100") /\ UNCHANGED held
  /\ UNCHANGED <<chipVars, encoding>>

nuc100_check_device == Try("nuc100", "ti3101", "remove")
ti3101_init == Try("ti3101", "init_encoder", "remove")

init_hardware ==
  /\ nuc100_check_device \/ ti3101_init
  /\ UNCHANGED <<held, chipVars, encoding>>

init_encoder ==
  /\ Try("init_encoder", "fifo", "remove")
  /\ UNCHANGED <<held, chipVars, encoding>>

(* Variant: a node that cannot be registered leaves with `return ret'. *)
RegisterAndReturn ==
  /\ \/ Take("fifo", "v4l2", "remove")
     \/ Take("v4l2", "node", "err_kfifo")
     \/ Take("node", "bound", "remove")
     \/ Release("err_kfifo", {"fifo"}, "remove")
  /\ UNCHANGED <<chipVars, encoding>>

c985_v4l2_register ==
  /\ \/ Take("fifo", "v4l2", "remove")
     \/ Take("v4l2", "node", "err_kfifo")
     \/ Take("node", "bound", "err_mutex")
     \/ Release("err_mutex", {"v4l2"}, "err_kfifo")
     \/ Release("err_kfifo", {"fifo"}, "remove")
  /\ UNCHANGED <<chipVars, encoding>>

project_c985_init ==
  c985_debugfs_init \/ init_hardware \/ init_encoder \/ c985_v4l2_register
-----------------------------------------------------------------------------
(* A device in use: the user starts the encoder, which no stop of the       *)
(* stream takes back; the close of the last task may load the firmware      *)
(* again.                                                                   *)

c985_start_streaming ==
  /\ at = "bound"
  /\ encoding' = TRUE
  /\ UNCHANGED <<codeVars, held, chipVars>>

CTask_Close ==
  /\ at = "bound"
  /\ at' = "fwVideo"
  /\ caller' = "close"
  /\ failed' = FALSE
  /\ UNCHANGED <<held, chipVars, encoding>>

Unplug ==
  /\ Step("bound", "remove")
  /\ UNCHANGED <<held, chipVars, encoding>>
-----------------------------------------------------------------------------
(* c985_pci_remove.  free_irq waits for the handler, cancel_work_sync for   *)
(* the work, debugfs_remove for the readers.  The ARM is not halted.        *)

CPCIeCntl_DisableInterrupts(from, next) ==
  /\ Step(from, next)
  /\ enabled' = FALSE
  /\ UNCHANGED <<held, arm, image, encoding>>

StopEncoder ==
  /\ Step("stopEncoder", "unregisterISR")
  /\ encoding' = FALSE
  /\ UNCHANGED <<held, chipVars>>

CPCIeCntl_UnregisterISR ==
  /\ "irq" \in held => ~handler
  /\ Release("unregisterISR", {"irq"}, "cancel")
  /\ UNCHANGED <<chipVars, encoding>>

(* v4l2_registered: what was not registered to the end is left alone. *)
c985_v4l2_unregister ==
  /\ Step("v4l2Done", "debugfsDone")
  /\ held' = IF "node" \in held THEN held \ {"node", "v4l2", "fifo"} ELSE held
  /\ UNCHANGED <<chipVars, encoding>>

(* Variant: the files are forgotten, as when only project_c985_cleanup,     *)
(* which nothing calls, removed them.                                       *)
CleanupForgotten ==
  /\ Step("debugfsDone", "destruct")
  /\ UNCHANGED <<held, chipVars, encoding>>

c985_debugfs_cleanup ==
  /\ ~reader
  /\ Release("debugfsDone", {"debugfs"}, "destruct")
  /\ UNCHANGED <<chipVars, encoding>>

CQLCodec_Destructor ==
  /\ Release("destruct", {"task"}, "donePCIe")
  /\ UNCHANGED <<chipVars, encoding>>

PciReleaseResources ==
  /\ Release("release", {"descriptors", "irq", "map0", "mapMmio"}, "regions")
  /\ UNCHANGED <<chipVars, encoding>>

(* The device is the structure of devm_kzalloc.  The code frees it by kfree *)
(* and devm, which was not told, again: here it goes once.                  *)
FreeDevice ==
  /\ Release("regions", {"region0", "regionMmio", "device"}, "unbound")
  /\ UNCHANGED <<chipVars, encoding>>

c985_pci_remove ==
  \/ CPCIeCntl_DisableInterrupts("remove", "stopEncoder")
  \/ StopEncoder
  \/ CPCIeCntl_UnregisterISR
  \/ c985_v4l2_unregister
  \/ c985_debugfs_cleanup
  \/ CQLCodec_Destructor
  \/ CPCIeCntl_DisableInterrupts("donePCIe", "flush")
  \/ PciReleaseResources
  \/ FreeDevice

(* cancel_work_sync of each work, in c985_pci_remove and again in           *)
(* PciFlushQueuedRequests.                                                  *)
CancelWorks(from, next) ==
  /\ Step(from, next)
  /\ working = {}
  /\ queued' = {}
  /\ UNCHANGED <<held, chipVars, encoding, handler, working, reader>>

Code ==
  \/ CQLCodec_InitDevice
  \/ PedDmaInit
  \/ CQLCodec_Constructor
  \/ CQLCodec_FWDownloadAll
  \/ project_c985_init
  \/ c985_start_streaming
  \/ CTask_Close
  \/ Unplug
  \/ c985_pci_remove
-----------------------------------------------------------------------------
(* What runs beside.  The line is shared: the handler is called whenever it *)
(* is registered, and what it finds in the registers it schedules.          *)

Interrupt ==
  /\ "irq" \in held
  /\ ~handler
  /\ handler' = TRUE
  /\ UNCHANGED <<queued, working, reader>>

PciInterruptService ==
  /\ handler
  /\ handler' = FALSE
  /\ \E found \in SUBSET Works : queued' = queued \cup found
  /\ UNCHANGED <<working, reader>>

RunWork(w) ==
  /\ w \in queued \ working
  /\ queued' = queued \ {w}
  /\ working' = working \cup {w}
  /\ UNCHANGED <<handler, reader>>

WorkDone(w) ==
  /\ w \in working
  /\ working' = working \ {w}
  /\ UNCHANGED <<handler, queued, reader>>

ReadRegs ==
  /\ "debugfs" \in held
  /\ ~reader
  /\ reader' = TRUE
  /\ UNCHANGED <<handler, queued, working>>

c985_regs_show ==
  /\ reader
  /\ reader' = FALSE
  /\ UNCHANGED <<handler, queued, working>>

Beside ==
  \/ Interrupt \/ PciInterruptService
  \/ \E w \in Works : RunWork(w) \/ WorkDone(w)
  \/ ReadRegs \/ c985_regs_show

Next ==
  \/ Code /\ UNCHANGED besideVars
  \/ CancelWorks("cancel", "v4l2Done")
  \/ CancelWorks("flush", "release")
  \/ Beside /\ UNCHANGED <<codeVars, held, chipVars, encoding>>

Spec == Init /\ [][Next]_vars
-----------------------------------------------------------------------------
(* The handler and the reader of the debugfs file, which read registers,    *)
(* find both ranges mapped, at whatever step the probe turns back or the    *)
(* remove stands; a work item finds the device that it is part of.          *)
NothingOutlivesDevice ==
  /\ handler \/ reader => {"device", "map0", "mapMmio"} \subseteq held
  /\ queued \cup working # {} => "device" \in held

(* A probe that failed, wherever it did, and a remove leave nothing behind: *)
(* no region, mapping, ISR, file, image or node, no interrupt enabled.  The *)
(* block of each probe and the event groups are the exception: nothing ever *)
(* frees them.                                                              *)
Leaks == {"block", "events"}

NothingLeftButLeaks ==
  at = "unbound" =>
    /\ held \subseteq Leaks
    /\ queued = {} /\ working = {} /\ ~handler /\ ~reader
    /\ ~enabled /\ ~encoding

(* The ARM runs nothing but firmware that was read back and compared after  *)
(* it was loaded, and its memory is never set up under it: not when a       *)
(* download fails half way, and not when the driver is loaded again under   *)
(* an ARM that the remove left running.                                     *)
RunsWhatWasVerified ==
  arm = "running" => image["video"] = "verified" /\ image["audio"] # "loaded"
=============================================================================
