---------------------------- MODULE DeviceProofs ----------------------------
(***************************************************************************)
(* Proofs about Device, for any set of work items.                         *)
(*                                                                         *)
(* The invariant says, step by step, what is held there: where a range is  *)
(* still mapped, where the ISR and the files are gone already, and which   *)
(* claims may be left.  It is needed because each release is safe only for *)
(* what the steps before it released.                                      *)
(***************************************************************************)
EXTENDS Device, TLAPS

Base == {"device", "map0", "mapMmio"}
Node == {"fifo", "v4l2", "node"}

Setup == {"unbound", "enable", "region0", "regionMmio", "device", "map0",
          "mapMmio", "qphci", "memory", "armLoop", "irq",
          "err_out", "err_bar1", "err_region", "err_bar0"}
Loading == {"fwVideo", "fwAudio", "validate", "halt", "reinit", "reload",
            "loadAudio", "verifyAudio", "config", "loadVideo", "verifyVideo",
            "start", "enableInterrupts", "out_free_all", "out_free_vid", "out_cleanup"}

(* The remove, from its end backwards. *)
Freeing == {"release", "regions"}
Gone == {"destruct", "donePCIe", "flush"} \cup Freeing
Quiet == {"v4l2Done", "debugfsDone"} \cup Gone
Deaf == {"cancel"} \cup Quiet
Stopping == {"unregisterISR"} \cup Deaf
Removing == {"remove", "stopEncoder"} \cup Stopping

(* The probe, up to the node. *)
Probe == {"interrupts", "descriptors", "events", "task", "debugfs", "nuc100",
          "ti3101", "init_encoder", "fifo"}

(* What is taken for the chip's registers. *)
MapInv ==
  /\ at \in {"unbound", "enable", "region0"} => held \subseteq Leaks
  /\ at = "regionMmio" => held \subseteq Leaks \cup {"region0"}
  /\ at = "err_bar0" => held \subseteq Leaks \cup {"region0", "device"}
  /\ at \in {"device", "map0", "err_region"} =>
       held \subseteq Leaks \cup {"region0", "regionMmio", "device"}
  /\ at \in {"mapMmio", "err_bar1"} =>
       held \subseteq Leaks \cup {"region0", "regionMmio", "device", "map0"}
  /\ at \in {"qphci", "memory", "armLoop", "irq", "err_out"} =>
       held \subseteq Leaks \cup {"region0", "regionMmio"} \cup Base
  /\ at = "map0" => "device" \in held
  /\ at = "mapMmio" => {"device", "map0"} \subseteq held
  /\ at \notin (Setup \cup {"regions"}) \/ at \in {"qphci", "memory", "armLoop", "irq"} =>
       Base \subseteq held
  /\ at = "regions" => held \subseteq Leaks \cup {"region0", "regionMmio", "device"}

(* What the remove has released where it stands, and what only a download   *)
(* or a registration holds.                                                 *)
LeftInv ==
  /\ at \in Deaf => "irq" \notin held
  /\ at \in Gone => "debugfs" \notin held
  /\ at \in {"donePCIe", "flush"} \cup Freeing => "task" \notin held
  /\ "fwVideo" \in held => at \in Loading \ {"fwVideo", "out_cleanup"}
  /\ "fwAudio" \in held => at \in Loading \ {"fwVideo", "fwAudio", "out_free_vid", "out_cleanup"}
  /\ at \notin Loading => caller = "probe"
  /\ caller = "probe" /\ at \in Probe \cup Loading => held \cap Node = {}
  /\ at \in {"v4l2", "err_kfifo"} => held \cap Node \subseteq {"fifo"}
  /\ at \in {"node", "err_mutex"} => held \cap Node \subseteq {"fifo", "v4l2"}
  /\ at \in Removing /\ held \cap Node # {} => "node" \in held
  /\ at \in {"debugfsDone"} \cup Gone => held \cap Node = {}
  /\ at = "bound" \/ caller = "close" => "node" \in held

(* What runs beside, and what must have stopped. *)
BesideInv ==
  /\ handler => "irq" \in held
  /\ reader => "debugfs" \in held
  /\ at \in Setup \cup Quiet => queued = {} /\ working = {}
  /\ at \in Setup \cup (Removing \ {"remove"}) => ~enabled
  /\ at \in Setup \cup Stopping => ~encoding

(* While firmware is loaded the ARM is halted. *)
ArmInv ==
  /\ at \in {"memory", "reinit", "reload", "loadAudio", "verifyAudio", "config",
             "loadVideo", "verifyVideo", "start"} => arm = "halted"
  /\ at = "loadAudio" => image["audio"] = "none"
  /\ at \in {"config", "loadVideo", "verifyVideo", "start"} => image["audio"] # "loaded"
  /\ at = "start" => image["video"] = "verified"
  /\ RunsWhatWasVerified

(* The parts of the type invariant that are proved one by one. *)
ChipTypes ==
  /\ arm \in {"halted", "running"}
  /\ image \in [Images -> {"none", "loaded", "verified"}]
WorkTypes == queued \subseteq Works /\ working \subseteq Works
BoolTypes ==
  /\ failed \in BOOLEAN
  /\ enabled \in BOOLEAN
  /\ encoding \in BOOLEAN
  /\ handler \in BOOLEAN
  /\ reader \in BOOLEAN

Inv == TypeOK /\ MapInv /\ LeftInv /\ BesideInv /\ ArmInv
-----------------------------------------------------------------------------
(* Whatever call the code makes or label it goes to is one of the stages, and  *)
(* only a probe or a close asks for a download.                              *)
LEMMA StageStep ==
  ASSUME Code \/ CancelWorks("cancel", "v4l2Done") \/ CancelWorks("flush", "release")
  PROVE  at' \in Stages
<1> USE DEF codeVars, Stages, Claims,
      Step, Fail, Take, Try, Release
<1>1. CASE CQLCodec_InitDevice
  BY <1>1 DEF CQLCodec_InitDevice, Claim, TakeBlock, dm_reset_arm, CQLCodec_InitializeMemory, qphci_init_arm_loop,
          CQLCodec_RegisterISR, CPCIeCntl_EnableInterrupts, Unwind
<1>2. CASE PedDmaInit \/ CQLCodec_Constructor
  BY <1>2 DEF PedDmaInit, CQLCodec_Constructor
<1>3. CASE CQLCodec_FWDownloadAll
  <2>1. CASE request_firmware \/ validate_firmware_header
    BY <1>3, <2>1 DEF request_firmware, validate_firmware_header
  <2>2. CASE dm_reset_arm("halt", "reinit", "out_free_all") \/ qphci_reinit
    BY <1>3, <2>2 DEF dm_reset_arm, qphci_reinit
  <2>3. CASE CQLCodec_InitializeMemory("reload", "loadAudio", "out_free_all")
    BY <1>3, <2>3 DEF CQLCodec_InitializeMemory
  <2>4. CASE SkipAudio \/ c985_write_qpsos_config \/ StartArm
    BY <1>3, <2>4 DEF SkipAudio, c985_write_qpsos_config, StartArm
  <2>5. CASE "fwAudio" \in held /\ upload_firmware("audio", "loadAudio", "verifyAudio")
    BY <1>3, <2>5 DEF upload_firmware
  <2>6. CASE upload_firmware("video", "loadVideo", "verifyVideo")
    BY <1>3, <2>6 DEF upload_firmware
  <2>7. CASE verify_firmware_in_card_memory("audio", "verifyAudio", "config")
    BY <1>3, <2>7 DEF verify_firmware_in_card_memory
  <2>8. CASE verify_firmware_in_card_memory("video", "verifyVideo", "start")
    BY <1>3, <2>8 DEF verify_firmware_in_card_memory
  <2>9. CASE CPCIeCntl_EnableInterrupts("enableInterrupts", "out_free_all")
    BY <1>3, <2>9 DEF CPCIeCntl_EnableInterrupts
  <2>10. CASE release_firmware
    BY <1>3, <2>10 DEF release_firmware
  <2>11. CASE Downloaded
    BY <1>3, <2>11 DEF Downloaded
  <2> QED
    BY <1>3, <2>1, <2>2, <2>3, <2>4, <2>5, <2>6, <2>7, <2>8, <2>9, <2>10, <2>11 DEF CQLCodec_FWDownloadAll
<1>4. CASE project_c985_init
  BY <1>4 DEF project_c985_init, c985_debugfs_init, init_hardware,
     nuc100_check_device, ti3101_init, init_encoder, c985_v4l2_register
<1>5. CASE c985_start_streaming \/ CTask_Close \/ Unplug
  BY <1>5 DEF c985_start_streaming, CTask_Close, Unplug
<1>6. CASE c985_pci_remove
  BY <1>6 DEF c985_pci_remove, CPCIeCntl_DisableInterrupts, StopEncoder, CPCIeCntl_UnregisterISR,
          c985_v4l2_unregister, c985_debugfs_cleanup, CQLCodec_Destructor,
          PciReleaseResources, FreeDevice
<1>7. CASE CancelWorks("cancel", "v4l2Done") \/ CancelWorks("flush", "release")
  BY <1>7 DEF CancelWorks
<1> QED
  BY <1>1, <1>2, <1>3, <1>4, <1>5, <1>6, <1>7  DEF Code

LEMMA CallerStep ==
  ASSUME caller \in {"probe", "close"}, [Next]_vars
  PROVE  caller' \in {"probe", "close"}
<1> USE DEF codeVars,
      Step, Fail, Take, Try, Release
<1>1. CASE CQLCodec_InitDevice /\ UNCHANGED besideVars
  BY <1>1, Zenon DEF CQLCodec_InitDevice, Claim, TakeBlock, dm_reset_arm, CQLCodec_InitializeMemory, qphci_init_arm_loop,
          CQLCodec_RegisterISR, CPCIeCntl_EnableInterrupts, Unwind
<1>2. CASE (PedDmaInit \/ CQLCodec_Constructor) /\ UNCHANGED besideVars
  BY <1>2, Zenon DEF PedDmaInit, CQLCodec_Constructor
<1>3. CASE CQLCodec_FWDownloadAll /\ UNCHANGED besideVars
  <2>1. CASE request_firmware \/ validate_firmware_header
    BY <1>3, <2>1, Zenon DEF request_firmware, validate_firmware_header
  <2>2. CASE dm_reset_arm("halt", "reinit", "out_free_all") \/ qphci_reinit
    BY <1>3, <2>2, Zenon DEF dm_reset_arm, qphci_reinit
  <2>3. CASE CQLCodec_InitializeMemory("reload", "loadAudio", "out_free_all")
    BY <1>3, <2>3, Zenon DEF CQLCodec_InitializeMemory
  <2>4. CASE SkipAudio \/ c985_write_qpsos_config \/ StartArm
    BY <1>3, <2>4, Zenon DEF SkipAudio, c985_write_qpsos_config, StartArm
  <2>5. CASE "fwAudio" \in held /\ upload_firmware("audio", "loadAudio", "verifyAudio")
    BY <1>3, <2>5, Zenon DEF upload_firmware
  <2>6. CASE upload_firmware("video", "loadVideo", "verifyVideo")
    BY <1>3, <2>6, Zenon DEF upload_firmware
  <2>7. CASE verify_firmware_in_card_memory("audio", "verifyAudio", "config")
    BY <1>3, <2>7, Zenon DEF verify_firmware_in_card_memory
  <2>8. CASE verify_firmware_in_card_memory("video", "verifyVideo", "start")
    BY <1>3, <2>8, Zenon DEF verify_firmware_in_card_memory
  <2>9. CASE CPCIeCntl_EnableInterrupts("enableInterrupts", "out_free_all")
    BY <1>3, <2>9, Zenon DEF CPCIeCntl_EnableInterrupts
  <2>10. CASE release_firmware
    BY <1>3, <2>10, Zenon DEF release_firmware
  <2>11. CASE Downloaded
    BY <1>3, <2>11, Zenon DEF Downloaded
  <2> QED
    BY <1>3, <2>1, <2>2, <2>3, <2>4, <2>5, <2>6, <2>7, <2>8, <2>9, <2>10, <2>11 DEF CQLCodec_FWDownloadAll
<1>4. CASE project_c985_init /\ UNCHANGED besideVars
  BY <1>4, Zenon DEF project_c985_init, c985_debugfs_init, init_hardware,
     nuc100_check_device, ti3101_init, init_encoder, c985_v4l2_register
<1>5. CASE (c985_start_streaming \/ CTask_Close \/ Unplug) /\ UNCHANGED besideVars
  BY <1>5, Zenon DEF c985_start_streaming, CTask_Close, Unplug
<1>6. CASE c985_pci_remove /\ UNCHANGED besideVars
  BY <1>6, Zenon DEF c985_pci_remove, CPCIeCntl_DisableInterrupts, StopEncoder, CPCIeCntl_UnregisterISR,
          c985_v4l2_unregister, c985_debugfs_cleanup, CQLCodec_Destructor,
          PciReleaseResources, FreeDevice
<1>7. CASE CancelWorks("cancel", "v4l2Done") \/ CancelWorks("flush", "release")
  BY <1>7, Zenon DEF CancelWorks
<1>8. CASE Beside /\ UNCHANGED <<codeVars, held, chipVars, encoding>>
  BY <1>8, Zenon DEF Beside, Interrupt, PciInterruptService, RunWork, WorkDone, ReadRegs, c985_regs_show
<1>9. CASE UNCHANGED vars
  BY <1>9, Zenon DEF vars
<1> QED
  BY <1>1, <1>2, <1>3, <1>4, <1>5, <1>6, <1>7, <1>8, <1>9 DEF Next, Code

(* Nothing but a claim is taken. *)
LEMMA HeldIsClaims ==
  ASSUME held \subseteq Claims, [Next]_vars
  PROVE  held' \subseteq Claims
<1> USE DEF chipVars, besideVars, codeVars, Claims,
      Step, Fail, Take, Try, Release
<1>1. CASE CQLCodec_InitDevice /\ UNCHANGED besideVars
  BY <1>1 DEF CQLCodec_InitDevice, Claim, TakeBlock, dm_reset_arm, CQLCodec_InitializeMemory, qphci_init_arm_loop,
          CQLCodec_RegisterISR, CPCIeCntl_EnableInterrupts, Unwind
<1>2. CASE (PedDmaInit \/ CQLCodec_Constructor) /\ UNCHANGED besideVars
  BY <1>2 DEF PedDmaInit, CQLCodec_Constructor
<1>3. CASE CQLCodec_FWDownloadAll /\ UNCHANGED besideVars
  BY <1>3 DEF CQLCodec_FWDownloadAll, request_firmware, validate_firmware_header, dm_reset_arm, qphci_reinit,
          CQLCodec_InitializeMemory, SkipAudio, upload_firmware,
          verify_firmware_in_card_memory, c985_write_qpsos_config, StartArm,
          CPCIeCntl_EnableInterrupts, release_firmware, Downloaded
<1>4. CASE project_c985_init /\ UNCHANGED besideVars
  BY <1>4 DEF project_c985_init, c985_debugfs_init, init_hardware,
     nuc100_check_device, ti3101_init, init_encoder, c985_v4l2_register
<1>5. CASE (c985_start_streaming \/ CTask_Close \/ Unplug) /\ UNCHANGED besideVars
  BY <1>5 DEF c985_start_streaming, CTask_Close, Unplug
<1>6. CASE c985_pci_remove /\ UNCHANGED besideVars
  BY <1>6 DEF c985_pci_remove, CPCIeCntl_DisableInterrupts, StopEncoder, CPCIeCntl_UnregisterISR,
          c985_v4l2_unregister, c985_debugfs_cleanup, CQLCodec_Destructor,
          PciReleaseResources, FreeDevice
<1>7. CASE CancelWorks("cancel", "v4l2Done") \/ CancelWorks("flush", "release")
  BY <1>7 DEF CancelWorks
<1>8. CASE Beside /\ UNCHANGED <<codeVars, held, chipVars, encoding>>
  BY <1>8 DEF Beside, Interrupt, PciInterruptService, RunWork, WorkDone, ReadRegs, c985_regs_show
<1>9. CASE UNCHANGED vars
  BY <1>9 DEF vars
<1> QED
  BY <1>1, <1>2, <1>3, <1>4, <1>5, <1>6, <1>7, <1>8, <1>9 DEF Next, Code

LEMMA ChipStep ==
  ASSUME ChipTypes, [Next]_vars
  PROVE  ChipTypes'
<1> USE DEF chipVars, besideVars, codeVars, Images, ChipTypes,
      Step, Fail, Take, Try, Release
<1>1. CASE CQLCodec_InitDevice /\ UNCHANGED besideVars
  BY <1>1 DEF CQLCodec_InitDevice, Claim, TakeBlock, dm_reset_arm, CQLCodec_InitializeMemory, qphci_init_arm_loop,
          CQLCodec_RegisterISR, CPCIeCntl_EnableInterrupts, Unwind
<1>2. CASE (PedDmaInit \/ CQLCodec_Constructor) /\ UNCHANGED besideVars
  BY <1>2 DEF PedDmaInit, CQLCodec_Constructor
<1>3. CASE CQLCodec_FWDownloadAll /\ UNCHANGED besideVars
  BY <1>3 DEF CQLCodec_FWDownloadAll, request_firmware, validate_firmware_header, dm_reset_arm, qphci_reinit,
          CQLCodec_InitializeMemory, SkipAudio, upload_firmware,
          verify_firmware_in_card_memory, c985_write_qpsos_config, StartArm,
          CPCIeCntl_EnableInterrupts, release_firmware, Downloaded
<1>4. CASE project_c985_init /\ UNCHANGED besideVars
  BY <1>4 DEF project_c985_init, c985_debugfs_init, init_hardware,
     nuc100_check_device, ti3101_init, init_encoder, c985_v4l2_register
<1>5. CASE (c985_start_streaming \/ CTask_Close \/ Unplug) /\ UNCHANGED besideVars
  BY <1>5 DEF c985_start_streaming, CTask_Close, Unplug
<1>6. CASE c985_pci_remove /\ UNCHANGED besideVars
  BY <1>6 DEF c985_pci_remove, CPCIeCntl_DisableInterrupts, StopEncoder, CPCIeCntl_UnregisterISR,
          c985_v4l2_unregister, c985_debugfs_cleanup, CQLCodec_Destructor,
          PciReleaseResources, FreeDevice
<1>7. CASE CancelWorks("cancel", "v4l2Done") \/ CancelWorks("flush", "release")
  BY <1>7 DEF CancelWorks
<1>8. CASE Beside /\ UNCHANGED <<codeVars, held, chipVars, encoding>>
  BY <1>8 DEF Beside, Interrupt, PciInterruptService, RunWork, WorkDone, ReadRegs, c985_regs_show
<1>9. CASE UNCHANGED vars
  BY <1>9 DEF vars
<1> QED
  BY <1>1, <1>2, <1>3, <1>4, <1>5, <1>6, <1>7, <1>8, <1>9 DEF Next, Code

LEMMA WorkStep ==
  ASSUME WorkTypes, [Next]_vars
  PROVE  WorkTypes'
<1> USE DEF chipVars, besideVars, codeVars, WorkTypes,
      Step, Fail, Take, Try, Release
<1>1. CASE CQLCodec_InitDevice /\ UNCHANGED besideVars
  BY <1>1 DEF CQLCodec_InitDevice, Claim, TakeBlock, dm_reset_arm, CQLCodec_InitializeMemory, qphci_init_arm_loop,
          CQLCodec_RegisterISR, CPCIeCntl_EnableInterrupts, Unwind
<1>2. CASE (PedDmaInit \/ CQLCodec_Constructor) /\ UNCHANGED besideVars
  BY <1>2 DEF PedDmaInit, CQLCodec_Constructor
<1>3. CASE CQLCodec_FWDownloadAll /\ UNCHANGED besideVars
  BY <1>3 DEF CQLCodec_FWDownloadAll, request_firmware, validate_firmware_header, dm_reset_arm, qphci_reinit,
          CQLCodec_InitializeMemory, SkipAudio, upload_firmware,
          verify_firmware_in_card_memory, c985_write_qpsos_config, StartArm,
          CPCIeCntl_EnableInterrupts, release_firmware, Downloaded
<1>4. CASE project_c985_init /\ UNCHANGED besideVars
  BY <1>4 DEF project_c985_init, c985_debugfs_init, init_hardware,
     nuc100_check_device, ti3101_init, init_encoder, c985_v4l2_register
<1>5. CASE (c985_start_streaming \/ CTask_Close \/ Unplug) /\ UNCHANGED besideVars
  BY <1>5 DEF c985_start_streaming, CTask_Close, Unplug
<1>6. CASE c985_pci_remove /\ UNCHANGED besideVars
  BY <1>6 DEF c985_pci_remove, CPCIeCntl_DisableInterrupts, StopEncoder, CPCIeCntl_UnregisterISR,
          c985_v4l2_unregister, c985_debugfs_cleanup, CQLCodec_Destructor,
          PciReleaseResources, FreeDevice
<1>7. CASE CancelWorks("cancel", "v4l2Done") \/ CancelWorks("flush", "release")
  BY <1>7 DEF CancelWorks
<1>8. CASE Beside /\ UNCHANGED <<codeVars, held, chipVars, encoding>>
  BY <1>8 DEF Beside, Interrupt, PciInterruptService, RunWork, WorkDone, ReadRegs, c985_regs_show
<1>9. CASE UNCHANGED vars
  BY <1>9 DEF vars
<1> QED
  BY <1>1, <1>2, <1>3, <1>4, <1>5, <1>6, <1>7, <1>8, <1>9 DEF Next, Code

LEMMA BoolStep ==
  ASSUME BoolTypes, [Next]_vars
  PROVE  BoolTypes'
<1> USE DEF chipVars, besideVars, codeVars, BoolTypes,
      Step, Fail, Take, Try, Release
<1>1. CASE CQLCodec_InitDevice /\ UNCHANGED besideVars
  BY <1>1, Zenon DEF CQLCodec_InitDevice, Claim, TakeBlock, dm_reset_arm, CQLCodec_InitializeMemory, qphci_init_arm_loop,
          CQLCodec_RegisterISR, CPCIeCntl_EnableInterrupts, Unwind
<1>2. CASE (PedDmaInit \/ CQLCodec_Constructor) /\ UNCHANGED besideVars
  BY <1>2, Zenon DEF PedDmaInit, CQLCodec_Constructor
<1>3. CASE CQLCodec_FWDownloadAll /\ UNCHANGED besideVars
  BY <1>3, Zenon DEF CQLCodec_FWDownloadAll, request_firmware, validate_firmware_header, dm_reset_arm, qphci_reinit,
          CQLCodec_InitializeMemory, SkipAudio, upload_firmware,
          verify_firmware_in_card_memory, c985_write_qpsos_config, StartArm,
          CPCIeCntl_EnableInterrupts, release_firmware, Downloaded
<1>4. CASE project_c985_init /\ UNCHANGED besideVars
  BY <1>4, Zenon DEF project_c985_init, c985_debugfs_init, init_hardware,
     nuc100_check_device, ti3101_init, init_encoder, c985_v4l2_register
<1>5. CASE (c985_start_streaming \/ CTask_Close \/ Unplug) /\ UNCHANGED besideVars
  BY <1>5, Zenon DEF c985_start_streaming, CTask_Close, Unplug
<1>6. CASE c985_pci_remove /\ UNCHANGED besideVars
  BY <1>6, Zenon DEF c985_pci_remove, CPCIeCntl_DisableInterrupts, StopEncoder, CPCIeCntl_UnregisterISR,
          c985_v4l2_unregister, c985_debugfs_cleanup, CQLCodec_Destructor,
          PciReleaseResources, FreeDevice
<1>7. CASE CancelWorks("cancel", "v4l2Done") \/ CancelWorks("flush", "release")
  BY <1>7, Zenon DEF CancelWorks
<1>8. CASE Beside /\ UNCHANGED <<codeVars, held, chipVars, encoding>>
  BY <1>8, Zenon DEF Beside, Interrupt, PciInterruptService, RunWork, WorkDone, ReadRegs, c985_regs_show
<1>9. CASE UNCHANGED vars
  BY <1>9, Zenon DEF vars
<1> QED
  BY <1>1, <1>2, <1>3, <1>4, <1>5, <1>6, <1>7, <1>8, <1>9 DEF Next, Code

LEMMA TypeStep == ASSUME TypeOK, [Next]_vars PROVE TypeOK'
<1>1. at' \in Stages
  <2>1. CASE Code \/ CancelWorks("cancel", "v4l2Done") \/ CancelWorks("flush", "release")
    BY <2>1, StageStep
  <2>2. CASE UNCHANGED at
    BY <2>2 DEF TypeOK
  <2> QED
    BY <2>1, <2>2 DEF Next, vars, codeVars
<1>2. caller' \in {"probe", "close"} /\ held' \subseteq Claims
  BY CallerStep, HeldIsClaims DEF TypeOK
<1>3. ChipTypes' /\ WorkTypes'
  BY ChipStep, WorkStep DEF TypeOK, ChipTypes, WorkTypes
<1>4. BoolTypes'
  BY BoolStep, Zenon DEF TypeOK, BoolTypes
<1> QED
  BY <1>1, <1>2, <1>3, <1>4, Zenon DEF TypeOK, ChipTypes, WorkTypes, BoolTypes
-----------------------------------------------------------------------------
(* Each label releases what was taken before the step that failed. *)
LEMMA MapStep ==
  ASSUME held \subseteq Claims, LeftInv, MapInv, [Next]_vars
  PROVE  MapInv'
<1> USE DEF MapInv, Leaks, LeftInv, chipVars, besideVars, codeVars, Claims, Base, Node, Setup, Loading,
      Freeing, Gone, Quiet, Deaf, Stopping, Removing, Probe,
      Step, Fail, Take, Try, Release
<1>1. CASE CQLCodec_InitDevice /\ UNCHANGED besideVars
  BY <1>1 DEF CQLCodec_InitDevice, Claim, TakeBlock, dm_reset_arm, CQLCodec_InitializeMemory, qphci_init_arm_loop,
          CQLCodec_RegisterISR, CPCIeCntl_EnableInterrupts, Unwind
<1>2. CASE (PedDmaInit \/ CQLCodec_Constructor) /\ UNCHANGED besideVars
  BY <1>2 DEF PedDmaInit, CQLCodec_Constructor
<1>3. CASE CQLCodec_FWDownloadAll /\ UNCHANGED besideVars
  BY <1>3 DEF CQLCodec_FWDownloadAll, request_firmware, validate_firmware_header, dm_reset_arm, qphci_reinit,
          CQLCodec_InitializeMemory, SkipAudio, upload_firmware,
          verify_firmware_in_card_memory, c985_write_qpsos_config, StartArm,
          CPCIeCntl_EnableInterrupts, release_firmware, Downloaded
<1>4. CASE project_c985_init /\ UNCHANGED besideVars
  BY <1>4 DEF project_c985_init, c985_debugfs_init, init_hardware,
     nuc100_check_device, ti3101_init, init_encoder, c985_v4l2_register
<1>5. CASE (c985_start_streaming \/ CTask_Close \/ Unplug) /\ UNCHANGED besideVars
  BY <1>5 DEF c985_start_streaming, CTask_Close, Unplug
<1>6. CASE c985_pci_remove /\ UNCHANGED besideVars
  BY <1>6 DEF c985_pci_remove, CPCIeCntl_DisableInterrupts, StopEncoder, CPCIeCntl_UnregisterISR,
          c985_v4l2_unregister, c985_debugfs_cleanup, CQLCodec_Destructor,
          PciReleaseResources, FreeDevice
<1>7. CASE CancelWorks("cancel", "v4l2Done") \/ CancelWorks("flush", "release")
  BY <1>7 DEF CancelWorks
<1>8. CASE Beside /\ UNCHANGED <<codeVars, held, chipVars, encoding>>
  BY <1>8 DEF Beside, Interrupt, PciInterruptService, RunWork, WorkDone, ReadRegs, c985_regs_show
<1>9. CASE UNCHANGED vars
  BY <1>9 DEF vars
<1> QED
  BY <1>1, <1>2, <1>3, <1>4, <1>5, <1>6, <1>7, <1>8, <1>9 DEF Next, Code

(* A download hands back to who asked for it, and keeps what was held. *)
LEMMA DownloadLeaves ==
  ASSUME Downloaded
  PROVE  /\ at = "out_cleanup"
         /\ at' \in {"bound", "remove", "debugfs"}
         /\ at' = "bound" <=> caller = "close"
         /\ caller' = "probe"
         /\ held' = held
  BY Zenon DEF Downloaded

(* What a failed probe, a download and a remove have given back stays so. *)
LEMMA LeftStep ==
  ASSUME caller \in {"probe", "close"}, MapInv, LeftInv, [Next]_vars
  PROVE  LeftInv'
<1> USE DEF MapInv, Leaks, LeftInv, chipVars, besideVars, codeVars, Base, Node, Setup, Loading,
      Freeing, Gone, Quiet, Deaf, Stopping, Removing, Probe,
      Step, Fail, Take, Try, Release
<1>1. CASE CQLCodec_InitDevice /\ UNCHANGED besideVars
  BY <1>1 DEF CQLCodec_InitDevice, Claim, TakeBlock, dm_reset_arm, CQLCodec_InitializeMemory, qphci_init_arm_loop,
          CQLCodec_RegisterISR, CPCIeCntl_EnableInterrupts, Unwind
<1>2. CASE (PedDmaInit \/ CQLCodec_Constructor) /\ UNCHANGED besideVars
  BY <1>2 DEF PedDmaInit, CQLCodec_Constructor
<1>3. CASE CQLCodec_FWDownloadAll /\ UNCHANGED besideVars
  <2>1. CASE request_firmware \/ validate_firmware_header
    BY <1>3, <2>1 DEF request_firmware, validate_firmware_header
  <2>2. CASE dm_reset_arm("halt", "reinit", "out_free_all") \/ qphci_reinit
    BY <1>3, <2>2 DEF dm_reset_arm, qphci_reinit
  <2>3. CASE CQLCodec_InitializeMemory("reload", "loadAudio", "out_free_all")
    BY <1>3, <2>3 DEF CQLCodec_InitializeMemory
  <2>4. CASE SkipAudio \/ c985_write_qpsos_config \/ StartArm
    BY <1>3, <2>4 DEF SkipAudio, c985_write_qpsos_config, StartArm
  <2>5. CASE "fwAudio" \in held /\ upload_firmware("audio", "loadAudio", "verifyAudio")
    BY <1>3, <2>5 DEF upload_firmware
  <2>6. CASE upload_firmware("video", "loadVideo", "verifyVideo")
    BY <1>3, <2>6 DEF upload_firmware
  <2>7. CASE verify_firmware_in_card_memory("audio", "verifyAudio", "config")
    BY <1>3, <2>7 DEF verify_firmware_in_card_memory
  <2>8. CASE verify_firmware_in_card_memory("video", "verifyVideo", "start")
    BY <1>3, <2>8 DEF verify_firmware_in_card_memory
  <2>9. CASE CPCIeCntl_EnableInterrupts("enableInterrupts", "out_free_all")
    BY <1>3, <2>9 DEF CPCIeCntl_EnableInterrupts
  <2>10. CASE release_firmware
    BY <1>3, <2>10 DEF release_firmware
  <2>11. CASE Downloaded
    BY <1>3, <2>11, DownloadLeaves
  <2> QED
    BY <1>3, <2>1, <2>2, <2>3, <2>4, <2>5, <2>6, <2>7, <2>8, <2>9, <2>10, <2>11 DEF CQLCodec_FWDownloadAll
<1>4. CASE project_c985_init /\ UNCHANGED besideVars
  BY <1>4 DEF project_c985_init, c985_debugfs_init, init_hardware,
     nuc100_check_device, ti3101_init, init_encoder, c985_v4l2_register
<1>5. CASE (c985_start_streaming \/ CTask_Close \/ Unplug) /\ UNCHANGED besideVars
  BY <1>5 DEF c985_start_streaming, CTask_Close, Unplug
<1>6. CASE c985_pci_remove /\ UNCHANGED besideVars
  BY <1>6 DEF c985_pci_remove, CPCIeCntl_DisableInterrupts, StopEncoder, CPCIeCntl_UnregisterISR,
          c985_v4l2_unregister, c985_debugfs_cleanup, CQLCodec_Destructor,
          PciReleaseResources, FreeDevice
<1>7. CASE CancelWorks("cancel", "v4l2Done") \/ CancelWorks("flush", "release")
  BY <1>7 DEF CancelWorks
<1>8. CASE Beside /\ UNCHANGED <<codeVars, held, chipVars, encoding>>
  BY <1>8 DEF Beside, Interrupt, PciInterruptService, RunWork, WorkDone, ReadRegs, c985_regs_show
<1>9. CASE UNCHANGED vars
  BY <1>9 DEF vars
<1> QED
  BY <1>1, <1>2, <1>3, <1>4, <1>5, <1>6, <1>7, <1>8, <1>9 DEF Next, Code

(* The ISR, the work and the readers have ended before what they use goes. *)
LEMMA BesideStep ==
  ASSUME MapInv, LeftInv, BesideInv, [Next]_vars
  PROVE  BesideInv'
<1> USE DEF MapInv, Leaks, LeftInv, BesideInv, chipVars, besideVars, codeVars, Base, Node, Setup, Loading,
      Freeing, Gone, Quiet, Deaf, Stopping, Removing, Probe,
      Step, Fail, Take, Try, Release
<1>1. CASE CQLCodec_InitDevice /\ UNCHANGED besideVars
  BY <1>1 DEF CQLCodec_InitDevice, Claim, TakeBlock, dm_reset_arm, CQLCodec_InitializeMemory, qphci_init_arm_loop,
          CQLCodec_RegisterISR, CPCIeCntl_EnableInterrupts, Unwind
<1>2. CASE (PedDmaInit \/ CQLCodec_Constructor) /\ UNCHANGED besideVars
  BY <1>2 DEF PedDmaInit, CQLCodec_Constructor
<1>3. CASE CQLCodec_FWDownloadAll /\ UNCHANGED besideVars
  BY <1>3 DEF CQLCodec_FWDownloadAll, request_firmware, validate_firmware_header, dm_reset_arm, qphci_reinit,
          CQLCodec_InitializeMemory, SkipAudio, upload_firmware,
          verify_firmware_in_card_memory, c985_write_qpsos_config, StartArm,
          CPCIeCntl_EnableInterrupts, release_firmware, Downloaded
<1>4. CASE project_c985_init /\ UNCHANGED besideVars
  BY <1>4 DEF project_c985_init, c985_debugfs_init, init_hardware,
     nuc100_check_device, ti3101_init, init_encoder, c985_v4l2_register
<1>5. CASE (c985_start_streaming \/ CTask_Close \/ Unplug) /\ UNCHANGED besideVars
  BY <1>5 DEF c985_start_streaming, CTask_Close, Unplug
<1>6. CASE c985_pci_remove /\ UNCHANGED besideVars
  BY <1>6 DEF c985_pci_remove, CPCIeCntl_DisableInterrupts, StopEncoder, CPCIeCntl_UnregisterISR,
          c985_v4l2_unregister, c985_debugfs_cleanup, CQLCodec_Destructor,
          PciReleaseResources, FreeDevice
<1>7. CASE CancelWorks("cancel", "v4l2Done") \/ CancelWorks("flush", "release")
  BY <1>7 DEF CancelWorks
<1>8. CASE Beside /\ UNCHANGED <<codeVars, held, chipVars, encoding>>
  BY <1>8 DEF Beside, Interrupt, PciInterruptService, RunWork, WorkDone, ReadRegs, c985_regs_show
<1>9. CASE UNCHANGED vars
  BY <1>9 DEF vars
<1> QED
  BY <1>1, <1>2, <1>3, <1>4, <1>5, <1>6, <1>7, <1>8, <1>9 DEF Next, Code

(* The ARM stays halted until the images are verified. *)
LEMMA ArmStep ==
  ASSUME ArmInv, image \in [Images -> {"none", "loaded", "verified"}], [Next]_vars
  PROVE  ArmInv'
<1> USE DEF ArmInv, RunsWhatWasVerified, Images, chipVars, besideVars, codeVars,
      Step, Fail, Take, Try, Release
<1>1. CASE CQLCodec_InitDevice /\ UNCHANGED besideVars
  BY <1>1 DEF CQLCodec_InitDevice, Claim, TakeBlock, dm_reset_arm, CQLCodec_InitializeMemory, qphci_init_arm_loop,
          CQLCodec_RegisterISR, CPCIeCntl_EnableInterrupts, Unwind
<1>2. CASE (PedDmaInit \/ CQLCodec_Constructor) /\ UNCHANGED besideVars
  BY <1>2 DEF PedDmaInit, CQLCodec_Constructor
<1>3. CASE CQLCodec_FWDownloadAll /\ UNCHANGED besideVars
  BY <1>3 DEF CQLCodec_FWDownloadAll, request_firmware, validate_firmware_header, dm_reset_arm, qphci_reinit,
          CQLCodec_InitializeMemory, SkipAudio, upload_firmware,
          verify_firmware_in_card_memory, c985_write_qpsos_config, StartArm,
          CPCIeCntl_EnableInterrupts, release_firmware, Downloaded
<1>4. CASE project_c985_init /\ UNCHANGED besideVars
  BY <1>4 DEF project_c985_init, c985_debugfs_init, init_hardware,
     nuc100_check_device, ti3101_init, init_encoder, c985_v4l2_register
<1>5. CASE (c985_start_streaming \/ CTask_Close \/ Unplug) /\ UNCHANGED besideVars
  BY <1>5 DEF c985_start_streaming, CTask_Close, Unplug
<1>6. CASE c985_pci_remove /\ UNCHANGED besideVars
  BY <1>6 DEF c985_pci_remove, CPCIeCntl_DisableInterrupts, StopEncoder, CPCIeCntl_UnregisterISR,
          c985_v4l2_unregister, c985_debugfs_cleanup, CQLCodec_Destructor,
          PciReleaseResources, FreeDevice
<1>7. CASE CancelWorks("cancel", "v4l2Done") \/ CancelWorks("flush", "release")
  BY <1>7 DEF CancelWorks
<1>8. CASE Beside /\ UNCHANGED <<codeVars, held, chipVars, encoding>>
  BY <1>8 DEF Beside, Interrupt, PciInterruptService, RunWork, WorkDone, ReadRegs, c985_regs_show
<1>9. CASE UNCHANGED vars
  BY <1>9 DEF vars
<1> QED
  BY <1>1, <1>2, <1>3, <1>4, <1>5, <1>6, <1>7, <1>8, <1>9 DEF Next, Code
-----------------------------------------------------------------------------
LEMMA InitInv == Init => Inv
<1> SUFFICES ASSUME Init PROVE Inv
  OBVIOUS
<1>1. TypeOK
  BY DEF Init, TypeOK, Stages, Claims, Images
<1>2. MapInv /\ LeftInv
  BY DEF Init, MapInv, Leaks, LeftInv, Base, Node, Setup, Loading, Freeing, Gone, Quiet,
         Deaf, Stopping, Removing, Probe
<1>3. BesideInv /\ ArmInv
  BY DEF Init, BesideInv, ArmInv, RunsWhatWasVerified, Images, Setup, Freeing, Gone,
         Quiet, Deaf, Stopping, Removing
<1> QED
  BY <1>1, <1>2, <1>3 DEF Inv

LEMMA StepInv == Inv /\ [Next]_vars => Inv'
<1> SUFFICES ASSUME Inv, [Next]_vars PROVE Inv'
  OBVIOUS
<1>1. /\ held \subseteq Claims
      /\ caller \in {"probe", "close"}
      /\ image \in [Images -> {"none", "loaded", "verified"}]
  BY DEF Inv, TypeOK
<1>2. TypeOK'
  BY TypeStep DEF Inv
<1>3. MapInv' /\ LeftInv' /\ BesideInv' /\ ArmInv'
  BY <1>1, MapStep, LeftStep, BesideStep, ArmStep DEF Inv
<1> QED
  BY <1>2, <1>3 DEF Inv

LEMMA SpecInv == Spec => []Inv
  BY InitInv, StepInv, PTL DEF Spec

(* Every step of the probe, the download and the remove is one of those     *)
(* named, and holds none but the claims.                                    *)
THEOREM TypeCorrect == Spec => []TypeOK
<1>1. Inv => TypeOK
  BY DEF Inv
<1> QED
  BY <1>1, SpecInv, PTL

(* The interrupt handler, the work items and a reader of the registers      *)
(* never find the mapping or the device gone, wherever a probe turns back.  *)
THEOREM NothingUsedAfterRelease == Spec => []NothingOutlivesDevice
<1>1. Inv => NothingOutlivesDevice
  <2> SUFFICES ASSUME MapInv, LeftInv, BesideInv PROVE NothingOutlivesDevice
    BY DEF Inv
  <2>1. handler \/ reader => at \notin Setup \cup {"regions"}
    BY DEF MapInv, Leaks, LeftInv, BesideInv, Base, Setup, Deaf, Quiet, Gone, Freeing
  <2>2. queued \cup working # {} => at \notin Setup \cup {"regions"}
    BY DEF BesideInv, Quiet, Gone, Freeing
  <2> QED
    BY <2>1, <2>2 DEF NothingOutlivesDevice, MapInv, Base
<1> QED
  BY <1>1, SpecInv, PTL

(* A failed probe and a remove give back all but the block of the first     *)
(* kzalloc and the event groups.                                            *)
THEOREM ProbeUndoneButForLeaks == Spec => []NothingLeftButLeaks
<1>1. Inv => NothingLeftButLeaks
  <2> SUFFICES ASSUME MapInv, BesideInv, at = "unbound" PROVE NothingLeftButLeaks
    BY Zenon DEF Inv, NothingLeftButLeaks
  <2>1. held \subseteq Leaks
    BY DEF MapInv
  <2>2. queued = {} /\ working = {} /\ ~handler /\ ~reader
    BY <2>1 DEF BesideInv, Setup, Leaks
  <2>3. ~enabled /\ ~encoding
    BY DEF BesideInv, Setup
  <2> QED
    BY <2>1, <2>2, <2>3 DEF NothingLeftButLeaks
<1> QED
  BY <1>1, SpecInv, PTL

(* The ARM never runs an image that was not compared after its upload. *)
THEOREM OnlyVerifiedFirmwareRuns == Spec => []RunsWhatWasVerified
<1>1. Inv => RunsWhatWasVerified
  BY DEF Inv, ArmInv
<1> QED
  BY <1>1, SpecInv, PTL
=============================================================================
