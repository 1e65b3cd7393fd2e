# Verification of the AVerMedia C985 driver

TLA+ models of the Linux driver for the AVerMedia C985
capture card, the TLC runs that check them and the TLAPS proofs about them.
Paths below are relative to the root of the driver's repository.

## 1. The system

The card holds an ARM that encodes video, a DMA controller with one engine per
direction, and some board chips on I2C. The driver downloads firmware into the
ARM, exchanges 32-bit messages with it through two register mailboxes, and moves
compressed data to the host by DMA. The parts, the state each keeps and what makes it
correct:

| Part (files) | State | Operations | Interacts with | What is hard | What makes it correct |
|---|---|---|---|---|---|
| Event groups (`qposm.c`) | word of 32 bits, a completion per bit, a spinlock | create, set, clear, wait | the worker sleeps on `m_EvtTask`, DMA callers on `m_EvtSyncDma`; set from work items | a wait sleeps on one completion for several bits; reinit; timeout | no event is lost, no timeout with the event set |
| Synchronous DMA (`dma.c`) | engines, `DmaDevices[]`, bounce buffer | read, write, complete, handle the status word | interrupt handler, bus callback, event group | completion after the timeout, freed buffer | a success has moved its data; the buffer outlives the transfer |
| Interrupts (`interrupts.c`) | `InterruptStatus`, two work items | handler, DMA work, ARM work | DMA, bus callback | unlocked updates from two contexts; work queued or running | no completion is lost or left stranded |
| Bus callback (`cqlcodec.c`) | event groups | three events | work items to worker and caller | order of two events | the worker is told before the caller |
| ARM request FIFO (`ctask/ctask_fifo.c`) | slots, two pointers, a level | get, set | worker, closing thread | locks that lock nothing (`cobject.c`) | it is a bounded queue |
| Firmware mailbox (`qpfwapi.c`, `qpfwencapi.c`) | registers to and from the ARM | ready, send, get, acknowledge; one function per command | worker and callers of the driver | poll then write, timeouts | messages arrive, with their own parameters; each is acknowledged |
| ARM messages (`ctask/ctask_arm.c`) | FIFO and current request per channel | process a message, complete a request | mailbox, FIFO, streaming | a buffer passes through five places | each buffer of the ARM is in one place and returns |
| Streaming (`ctask/ctask_process.c`, `ctask/ctask_io.c`) | current request, user buffer, pending transfer | process, complete data, complete a transfer | DMA, channels, mailbox | pairing two queues, block by block | a buffer is completed once, full or last |
| Task lifecycle (`ctask/ctask_lifecycle.c`, `ctask/ctask_thread.c`) | sessions, channels, the thread | open, close, start, stop, flush | all of the above | a thread that ends while others use its task | one worker while a session is open, none after |
| Channels and queues (`channel.c`, `queue.c`) | free, request and pending queues | add, get, complete a buffer | V4L2, streaming | buffers given back unserved, channels without a `GetBuffer` | buffers go back in order, each once |
| V4L2 and pins (`v4l2.c`, `pins.c`, `sync.c`) | `buf_list`, descriptors | queue, start, stop streaming | vb2, channels | freeing what a channel still holds | each vb2 buffer is completed once |
| Probe and remove (`avermedia_c985.c`, `cqlcodec_done.c`, `cqlcodec.c`) | what has been set up | probe, remove, error paths | everything | unwinding, interrupts before the groups exist | what was set up is undone once, in reverse |
| Firmware download (`firmware.c`) | none | a sequence of DMA writes | DMA | sizes | all of the image is written |
| Board chips (`i2c_bitbang.c`, `nuc100.c`, `ti3101.c`, `cpr.c`, `project.c`), HCI registers (`qphci.c`, `pciecntl.c`) | registers | sequential access | none | bounded retries | the sequence ends |
| Not built (`mailbox.c`, `ql201_i2c.c`, `diag.c`, `irp_utils.c`) | | | | | |

The threads of control: the interrupt handler, the two work items it schedules, the
worker thread of the tasks (`CTask_ThreadProc`), and the callers of the driver (probe,
open, start and stop of streaming, remove). DMA transfers are synchronous and are made
by the firmware download before the worker exists, and by the worker after
(`CTask_SendIoBlock`), so one call at a time is in progress.

Two things about the repository shape what can be modelled. The driver's live path is the
probe, the firmware download, the V4L2 node, interrupts and remove. The task layer (open, close,
start, the worker's streaming) is complete code that the live path does not call yet:
`CQLCodec_Open`, `CQLCodec_AllocEncodeTask`, `CTask_Start` and `CTask_Acquire` have no caller, and
`CChannel_AddBuffer` is a stub. That layer is modelled from its code, with the caller it is written for; where a
stub had to be given a meaning, the module's header says so.

## 2. The plan

In the order of importance, each module or group with its runs and its proofs:

1. `EventFlags`, `EventGroup`: what an event group promises, and how `qposm.c`
   keeps it. Everything else waits through it.
2. `DmaService`, `DmaTransfer`: what a synchronous transfer promises, and a transfer from call to
   return, with engine, handler, work items and callback. It uses event groups as sets, which `EventGroup` justifies.
3. `BoundedQueue`, `ArmFifo`: a queue, and the FIFO access by access.
4. `MessageExchange`, `Mailbox`: what the mailboxes promise, and both mailboxes, the callers'
   commands, and the worker of an idle task. It uses the FIFO as a sequence, which `ArmFifo` justifies for one thread.
5. `BufferExchange`, `TaskStreaming`: what a task promises to the card and to the user, and how the
   worker's scan keeps it. It uses a transfer as one that ends at some time (`DmaTransfer`), the
   mailbox as one message (`Mailbox`) and the FIFO as a sequence (`ArmFifo`).
6. `TaskLifecycle`: open, start, close, release, and the thread's life around the worker of
   `TaskStreaming`.
7. `UserBuffers`: videobuf2's view of the buffers, the driver's list and the two pins.
8. `Device`: probe, firmware download and remove beside interrupts, work items and debugfs.

What is left: abstract specifications of a task's life (what open and close promise to the card) and of the
user's buffers (what videobuf2 is promised), and their refinement; the retries of the I2C master and
of the board chips (loops of one thread, with bounds), the decoder's tasks once something allocates one, the side-band request once something
makes one, and the data path of the pins once their entry points are more than stubs.

## 3. The modules

Each specification has one action per critical section or register access, so that
whatever can come in between does. `MC...` modules give the constants values for TLC;
`...Proofs` modules hold the theorems. A definition whose comment begins with `Variant:`
is no part of a specification: it is the definition after it with a plausible mistake, and
shows which property notices that mistake.

### EventFlags and EventGroup

`EventFlags` is the promise: a set of flags, and one caller that takes all the flags it asked
for, or gives up. `EventGroup` is `QPOSMSetEvtgrp`, `QPOSMClearEvtgrp` (one critical
section each) and `QPOSMWaitEvtgrp`, whose program counter `pc` is at the top of the loop (`check`), in
`wait_for_completion_interruptible_timeout` (`sleep`) or before `reinit_completion`
(`reinit`). The timeout counts in windows of HZ/10 (`left`), as the code's
`timeout_jiffies` does. The kernel's completions are counters that saturate
(`MaxDone`), modelled as `complete()` documents them. One thread waits on a group, as in the driver.

### DmaService and DmaTransfer

`DmaService` is the promise to the caller and to the worker. A call fails before anything moves, for want of
memory, or returns success; then its own data have moved and the worker was told so. There is no engine, no
interrupt and no timeout in it, and no "busy" among its results. `DmaTransfer` is how the code does it:

| Model | Code |
|---|---|
| `busy`, `irq`, `armIrq` | the engines' registers, bit 30 of 0x8030 |
| `IsrEnter` .. `IsrExit`, `isr` | `PciInterruptService`; `InterruptStatus \|= ...` is a load and a store |
| `DpcEnter` .. `DpcEnd`, `dpc` | `PciDpcForIsr`, `PedDmaDpcHandler`, `PedDmaComplete`, `CQLCodecLibBusCallback`; `&=` uses the value tested or a fresh load, as the compiler likes |
| `queued` | the work items; one already queued is not queued again, one running can be |
| `CallBegins` .. `CallGivesUp`, `call` | `CQLCodec_StartDMARead` and `CQLCodec_StartDMAWrite` with `PedDmaQueueBuffers` |
| `evtSync`, `evtTask` | the two event groups, as sets |

`Late` says whether a transfer may outlast its 2000 ms (or its caller be interrupted by a
signal). The two cases are different worlds: while no call gives up, the caller's wait is what keeps the two
engines from ever being active together, and the unlocked status word is safe; after
one timeout nothing of that remains. The refinement is of the first: a call is `moving` while its engine is busy
and `moved` from then until it returns; `told` is the event group of the worker. The handler and the work item
change none of the abstract variables, except when they raise the worker's event.

### BoundedQueue and ArmFifo

`BoundedQueue` changes a sequence in one step. `ArmFifo` is `CFifo_GetFifo` and
`CFifo_SetFifo` with the copy, the pointer, the load and the store of the level as separate steps.
`HasMutex` says whether `CObject_lock` finds a critical section: in the repository it never
does (`cobject.c:17`), and `CObject_Lock` (`cobject.c:93`) is empty. Levels are
counted modulo `Words`, which stands for 2^32. The refinement maps the slots between the
pointers to the abstract sequence, an operation in progress counting as done from the copy (get) or the store
of the level (set) on.

### MessageExchange and Mailbox

`MessageExchange` is the promise to the ARM and to the callers: a message goes out whole, with the parameters set for
it, the next one when the ARM took it; a buffer that the ARM lends comes back once, in the order of the lending. If
the ARM is slow the host may forget the oldest buffer instead (`Lossy`), and that is all it may do.

In `Mailbox`, `toArm` and `fromArm` are the registers. `MailboxReady` polls the status bit;
`WriteParams`, `WriteStatus` and `WriteMessage` are three steps, so another thread's can fall between
them. The worker's steps are those of `CTask_ThreadProc` and
`CTask_ProcessArmMessage` for an idle task (`m_State` is `TASK_STATE_IDLE`): read the message, queue the buffer it lends,
acknowledge, return everything queued. Messages without a buffer are the status reports (0x50, 0x51).
Callers send the set-up commands, in any order, or close, which drains the FIFO and
sends SystemClose. `Slow` says whether a poll may time out.

The firmware is not in the repository. It is assumed to act when the message
register is written under a set status bit, to clear the bit when it took the message, and to
post a message only when the previous one is released.

The refinement reads the buffers lent off three places: the one on its way back (`Leaving`), those in the FIFO,
and the one that arrives (`Arriving`: in an unread message, or read and not queued yet). The steps of
writing a message are stutters; the write of the message register, under a status bit that is set,
is the abstract step, so another thread's write between them shows.

### BufferExchange and TaskStreaming

`BufferExchange` is the promise, with three variables: requests `lent` by the card and buffers `offered` by
the user, a sequence per channel, and the tasks `running`. A request or a buffer goes back from the
head of its sequence; on a channel of frames both go together; a task that does not run gives
requests back unserved, and a running one the buffers that are too small, each in its turn (`Reject`).

| Model | Code |
|---|---|
| `message`, `ArmPosts` | the ARM's message in the mailbox, `CTask_ProcessArmMessage` |
| `fifo`, `arm` | `pArmMsgFifo` and `ArmRequest` of a channel |
| `queue`, `user` | `m_pDataRequestQueue` and `UserBuffer` |
| `Dequeues`, `Gets`, `Takes` | the `GetBuffer` functions of `channel.c`: the oldest buffer is dequeued, and kept or, when it is below `m_dwFrameSize` (`Small`), given back at once with the result 0 |
| `Getters` | the channels whose constructor sets a `GetBuffer` that hands out a descriptor |
| `Frames`, `Planar` | the channels of data type YUV, and those of them whose requests are `ARM_BUF_YUVRAS`; a frame on another is packed, and is moved like sound |
| `pending`, `engine` | `m_pPending` of a direction, and the engine it started |
| `events`, `todo` | the bits of `m_EvtTask`, and those that the thread took and has not handled |
| `scan`, `startTask`, `startType` | where `CTask_ProcessDataStreaming` is, and the two `m_StartID` |
| `Complete` | `CTask_CompleteArm` and `CTask_CompleteUser` |
| `Available` | `CTask_BuildIoBlock`, `CTask_BuildIoBlockYUVRAS`: what is left to move, plane by plane for a frame |
| `ScanSend` | `CTask_SendIoBlock`, with the rotation of the start of the scan |
| `CompleteData` | `CTask_CompleteData` with `CTask_ProcessIoComplete` |

A look at one channel is one step: only the worker changes what it reads there, the ARM's message and the
user's queue excepted, which it reads once. The refinement reads `lent` off the message, the FIFO and the
request in hand, and `offered` off the queue and the buffer in hand.

The streaming code serves more kinds of channel than the repository constructs, and the model has the code's kinds.
As `CQLCodec_Open` constructs them (`cqlcodec.c:1160`):

- only a YUV-in channel finds buffers. `CPCMInChannel_Constructor` (`channel.c:973`) sets no `GetBuffer`,
  and `CMPEGOutChannel_GetBuffer` hands out no descriptor (`channel.c:1035`; at each look the worker takes a buffer
  of the video node and forgets it, which is in `UserBuffers`). Requests on those channels stay where they are.
- `CYUVInChannel_Open` (`channel.c:925`) keeps the size of a frame in locals: `m_dwFrameSize`, `m_lWidth` and `m_lHeight` stay
  0 (`channel.c:910`). So no buffer is ever too small (`channel.c:75`), and planar frames have planes of 0 bytes, are completed
  by the next look without a transfer, and what is behind them waits for another event.
- a packed frame larger than its buffer fills it and then neither is completed: the channel moves nothing more.
- if a buffer were too small, the scan would go on after it without another try (`ctask/ctask_process.c:423`), though the
  next buffer is there.

`Served` is the set of the channels to which none of this happens, and the two properties of progress speak of these.
The run `StreamingFair` has the channels as they are constructed, `TaskStreaming` all the kinds.

What the model leaves to the conditions of its runs, and what the code does beyond them:

- `EveryRequestReturns` holds for channels that share a direction. It fails when video
  competes too or when the audio output does: `m_StartID` of the task object serves both directions
  (`ctask/ctask_io.c:120`), so a transfer of one moves the start of the other, and the pass for the
  audio output (`ctask/ctask_process.c:166`) never rotates.
- A request of size zero that is not the last one is completed without another scan
  (`ctask/ctask_io.c:49`); what waits behind it then waits for the next event. `ArmSize` is not zero.
- The builder of frames checks only the user's plane sizes (`ctask/ctask_io.c:222`); the model's
  frames have the user's and the card's planes alike.
- A buffer of the ARM for which no channel is open is acknowledged and nothing more
  (`ctask/ctask_arm.c:400`); the model's ARM lends for open channels.

### TaskLifecycle

| Model | Code |
|---|---|
| `valid`, `session`, `slot`, `fifo` | `valid`, `m_dwSession`, `pChannel`, `pArmMsgFifo` of a task |
| `started`, `acquired`, `error` | `m_dwStarted`, `m_bAcquired`, `m_Error` |
| `chan` | the channel objects and their `m_bOpened` |
| `fwOpen`, `fwLinked`, `fwEncoding` | what the firmware was told last (external) |
| `interrupts`, `worker`, `exit` | the interrupt enable, the thread, `THREAD_EVENT_EXIT` |
| `call` | where `CTask_Open`, `CTask_Close` or `CTask_Release` is, and for which channel |

One caller at a time, as the locks of `CObject` do nothing and the code has no second one; the
worker runs beside it. Each call to the firmware may fail where its result is looked at. What the model shows
to be as the code has it, though hardly as meant:

- `CThread_ThreadInit` answers 1 for a thread that runs and `CTask_Open` takes that for a failure
  (`ctask/ctask_lifecycle.c:115`): the first open is undone with `-EIO` (`ThreadRuns`), and one without a
  thread succeeds (`ThreadFails`).
- An open that is refused with `-EBUSY` goes on to close, and closes the session of the channel that holds
  the type (`CTask_Close` asks for no channel). `SlotsAgree` holds nonetheless; the other channel goes on believing that
  it is open.
- `CTask_Close` clears neither `m_dwStarted` nor `m_State`; the next `CTask_Alloc` does.
- `CTask_Flush` sets no bit (`ctask/ctask_lifecycle.c:528`): the thread never hears of it, and the caller's wait ends
  by its timeout.
- The FIFO is freed while the worker may be in it (`ctask/ctask_lifecycle.c:193`), as nothing keeps the
  worker out. `fifo` says only whether a FIFO exists.

### UserBuffers

| Model | Code |
|---|---|
| `state`, `streaming` | the buffer's state and `start_streaming_called` in videobuf2 (external) |
| `listed`, `desc` | `buf_list`, and the buffers with `buf_desc`, header and queue entry |
| `lost` | buffers that the driver owns and has on no list (no variable of the code) |
| `running`, `framed`, `parts` | `encoder_running`, the pins' `AllocatorFraming`, their format and queues |
| `call` | where `c985_start_streaming` or `c985_stop_streaming` is |

The calls hold `v4l2_lock`, the worker takes buffers under `buf_lock` at any time. What the model shows and no property
forbids: a stop does not clear `encoder_running`; a restart forgets the format and the queues that the
last start allocated, because the constructors zero the pin; without memory for its descriptor a
buffer stays off the list until the stream stops; and no buffer is ever completed, so no frame reaches the user
(`CMPEGOutChannel_CompleteBuffer` is called for a buffer with a descriptor only, and the entry
points of the pins' data path are stubs, `pins.c:809` and `sync.c:177`).

### Device

`at` is the step that comes next: a call of probe, download or remove, or a `goto` label. `held` is the set of what
was taken and not given back. `Take`, `Try`, `Fail` and `Release` say what a step does to both, and the
actions are the functions in the code's order. Beside them run the handler, the two work
items and a reader of debugfs; `free_irq`, `cancel_work_sync` and `debugfs_remove` wait for them. The download
is also run again by the close of the last task after an error (`CTask_Close`).

Left as the code has it, outside the properties or excepted in them: two leaks, which `NothingLeftButLeaks` excepts by
name. The structure that `kzalloc` returns at `cqlcodec.c:471` is lost by the returns at lines 482 and 488, and otherwise by the
`devm_kzalloc` of line 494 over its only pointer (`block`; a second probe loses a second one, which the set does not count); and the
event groups are never freed (`events`). Only the second structure (`device`) is devm's, and `cqlcodec_done.c:329` frees it with
`kfree` before devm frees it again, which the model takes for one release. Further,
remove does not halt the ARM;
a node that a user keeps open outlives the device; the debugfs file of buffers can be read before
its list exists (`project.c:179`, `v4l2.c:784`), so the model's reader is that of the registers; and a video image of more
than 1 MiB overwrites the audio image that was verified (`firmware.c:402`).

## 4. The runs

| Run | Constants | Distinct states | Shows |
|---|---|---|---|
| `EventGroup` | 3 bits, a mask of 2 whose first is bit 1, 2 windows, signals, saturation at 3 | 666 | all of the wait's promises, and that it implements `EventFlags` |
| `DmaOnTime` | 2 engines, ARM interrupts, not late | 25,924 | safety and progress of transfers that end in time, and that they implement `DmaService` |
| `DmaLate` | 2 engines, late | 10.4 million | no completion bit is stranded, even then |
| `DmaStale` | as `DmaLate` | | violation: a late completion ends the next wait |
| `FifoWorker` | 1 thread, 2 entries, 3 slots, no mutex | 2,513 | the FIFO is a queue for the worker |
| `MailboxWorker` | 1 worker, 2 buffers, ARM in time | 1,036 | buffers are in one place and return, messages are acknowledged, `MessageExchange` is implemented |
| `MailboxSetup` | 1 caller, any command, timeouts | 4,275 | parameters stay with their messages |
| `TaskStreaming` | 1 task, video and sound read with sound as the audio output, planar frames written; 2 requests and 2 buffers of frames, one of them too small, 1 and 1 of the others | 1,315,201 | a transfer keeps its request and buffer, `BufferExchange` is implemented |
| `StreamingFair` | 2 tasks, each with a channel of packed frames, one also with sound that has no `GetBuffer`; 2 requests of one channel of frames, 1 of the others, 1 buffer each | 109,416 | nothing is left behind, every request returns |
| `UserBuffers` | 3 buffers, symmetric | 4,664 | no buffer is forgotten or taken from the user, the encoder has its pins |
| `TaskLifecycle` | 2 tasks, 2 types, 2 channels | 406,004 | the records of what is open agree, sessions are up, calls return |
| `Device` | 2 work items | 78,188 | nothing outlives the device, nothing is left but two leaks, verified firmware only |

The bounds. Three bits give the wait one bit outside its mask and one inside it that is
not the first; two windows separate the last window from the others. Two engines are what the card
has, and every pair of engines interacts like these two. Three slots let the pointers wrap
while the FIFO is neither full nor empty; two entries suffice to tell one slot's from
another's. Two buffers let the FIFO hold one while another is completed, and the ARM post while the
host returns. In `TaskStreaming` a frame has two planes and an empty one and a transfer moves one plane at most; a request of
8 bytes into a buffer of 12 leaves a buffer open between requests and a request open between buffers. In
`StreamingFair` a packed frame takes two transfers, so the other task's channel can come in between, and the sound is a channel
that the scan passes and cannot serve.
Two tasks with two types make a session the first of all, of its task, or neither; two channels
are for one type, so that one is refused, or for two. Three user buffers are on the list, with the worker
and with the user at once. No run has a state constraint: every counter is bounded by the system itself.

No run needs the deadlock check turned off.

### Fairness

- `EventGroup`: weak fairness of the waiting thread, which the scheduler runs, and of
  its call, because the worker waits again as long as it lives. The setters are not
  fair: `EveryEventTaken` speaks of events that were set.
- `DmaTransfer`: weak fairness of each engine (it finishes its chain; with `Late` it need not do
  so in time), of the handler (a level-triggered line is delivered), of the work items (the
  kernel runs what is queued) and of the caller. No fairness of `CallBegins`.
- `Mailbox`: weak fairness of the ARM taking a message, of the work item, and of each
  thread once it is in a call. The ARM's posts and the callers' calls are not fair.
- `TaskStreaming`: weak fairness of the worker, of each engine, and of each buffer being offered
  again (a request cannot return without one). The ARM's posts and the starts are not fair.
- `TaskLifecycle`: weak fairness of a caller inside a call and of the worker. The start of a
  call and the events that wake the worker are not fair.

### Where the code departs from what it says

`DmaStale` is the disagreement that a run shows, listed with its lines in `PROJECT.json`: a
timeout leaves the engine running, and its late completion ends the wait of the next transfer, which
then counts as done. The others were met while modelling; each passing run
holds under the condition that excludes them:

- `InterruptStatus` is updated without a lock (`interrupts.c:91`, `dma.c:87`). After a timeout a
  store of the handler can bring back, or one of the work item drop, a bit of the other engine. `SetBitIsHandled` holds while transfers end in time.
- The FIFO's lock finds no mutex (`ctask/ctask_fifo.c:66`, `cobject.c:17`, `cobject.c:93`). Two
  threads in it break its level. `FifoInv` and the refinement hold for one thread.
- Nothing keeps the worker and a caller apart in the mailbox (`qpfwapi.c:36`, `qpfwapi.c:55`): each can
  overwrite the other's message. `NoOverwrite` holds for one sender.
- The parameters of a returned buffer go through `hci.RegisterWrite`, which nothing sets
  (`ctask/ctask_arm.c:92`): the message goes out with those of an earlier one. `OwnParams` speaks of
  the commands that write their parameters.
- A probe leaks the block of its first allocation (`cqlcodec.c:471`). `NothingLeftButLeaks` excepts it.
- The bounce buffer of a transfer that timed out is freed while the engine may still write into it
  (`dma.c:312`). `BufferOutlivesTransfer` holds while transfers end in time.
- The worker sleeps over a request and a buffer on the channels that are not in `Served` (above).
- After the timeout of a reply the message stays pending, and the ARM waits for a release that does not come
  (`qpfwapi.c:240`). `EveryMessageAcked` holds when the ARM answers in time.

## 5. The proofs

All are for arbitrary constants, under the assumptions named in the modules.

| Module | Theorems | Extra assumption |
|---|---|---|
| `EventGroupProofs` | `TypeCorrect`, `NeverLosesWakeup`, `GivesUpOnlyWithoutEvent`, `Refinement` | none |
| `DmaTransferProofs` | `TypeCorrect`, `NothingStranded` | none |
| | `CompletionInOnePlace`, `BufferNotFreedEarly`, `SuccessIsOwnCompletion`, `NoBitLost`, `WorkerToldFirst`, `CompletionArrives`, `CallsAreServed` | `~Late` |
| `ArmFifoProofs` | `TypeCorrect` | none |
| | `FifoAgrees`, `FifoIsQueue` | `Exclusive`: one thread, or a mutex |
| `MailboxProofs` | `TypeCorrect` | none |
| | `MailboxOfOneSender`, `OneSenderOwnParams`, `OneSenderNoOverwrite`, `OneSenderHoldsOnce`, `OneSenderDrains`, `OneSenderExchanges` | `OneSender`: one thread sends |
| | `OneSenderLosesNothing` | `OneSender` and `~Slow` |
| | `MessagesAreAttended` | `~Slow` |
| `TaskStreamingProofs` | `TypeCorrect`, `TransfersAreCovered`, `NeverOverrun`, `ExchangeImplemented`, `NothingIsLeftBehind` | none; the last speaks of the channels in `Served` |
| `TaskLifecycleProofs` | `TypeCorrect`, `SlotsAlwaysAgree`, `SessionsAreUp`, `JoinedThreadWasTold` | none |
| `UserBuffersProofs` | `TypeCorrect`, `WorkerTakesOwnedBuffers`, `NoBufferForgotten`, `EncoderHasPins` | none |
| `DeviceProofs` | `TypeCorrect`, `NothingUsedAfterRelease`, `ProbeUndoneButForLeaks`, `OnlyVerifiedFirmwareRuns` | none |

The inductive invariants, and why the properties alone are not enough:

- `NoLostWakeup` is inductive: a bit is set and its completion counted in one critical
  section, a consumed token is followed by `reinit` and another look. `TimeoutMeansNoEvent` and the
  refinement need it at the moment the wait gives up.
- `OneCompletion` says where a completion is between the engine and the caller: running,
  interrupting, acknowledged, in the status word, handled, signalled; in one place only, and only for
  the engine the caller waits for. From it the value each side loaded from the status word is known, so the
  unlocked store loses nothing; and an event that wakes the caller is its own.
  `SuccessMeansMoved` says nothing about the places before the event, and is not inductive.
  `CallsAreServed` goes one lemma per kind of step: the engine that ends is the caller's, so `moving` becomes
  `moved`; the event that wakes the caller came after the worker's, so `Succeed` is allowed when the call returns; and no
  call meets a busy engine, so the code's early return is never taken.
- `FifoInv` relates pointers, level and contents at every step inside an operation, and what
  the running operation loaded. The refinement follows from it.
- `SendingAlone` says that between the poll and the message the status bit is where the sender
  left it, and that the parameters are those of the message. `OwnParams` speaks only of the step in which the ARM
  takes the message.
- `HeldInv` of `MailboxProofs` adds to `HeldOnce` where a buffer is at each step of the worker: in the pending
  message, the FIFO, the request in hand or the ARM's hands, that each excludes the others and, while
  the ARM is in time, that one of them holds. `HeldOnce` alone does not know that the request in hand is empty
  when the next is fetched. `OneSenderExchanges` needs it for the three places to join into one sequence: `Leaving` and
  `Arriving` have one buffer at most, and a step of the worker moves it from one piece to its neighbour, which
  leaves the whole as it was. `RequestInv` says besides that a message carries a buffer if and only if it
  returns one (`Carries`); otherwise a command could take a buffer with it.
- Streaming: `TransferIsCovered` with the types is inductive once it is known that an event of the ARM stands for
  a message that is still there. What completes a request belongs to a channel whose direction is free, or to a task that
  does not run, so never to a transfer under way. `ExchangeImplemented` takes one lemma per kind of step: what a look
  at a channel or the end of a transfer leaves of the two sequences is the sequence or its tail.
- `LeftInv` is behind `NothingIsLeftBehind`, which speaks of the moment when the worker sleeps. A channel of a running
  task that has a request and a buffer is awaited (`AwaitedInv`): by a message not yet read, an event, a
  transfer under way, or by the scan in progress, if that has yet to come to it (`ToCome`, the `Distance` from where the
  scan started, which wraps around). The scan may be given up in its middle, but only with a transfer started, whose end is an
  event (`EventInv`) that begins another scan at its first position (`ScanBegins`). `OpenInv` says that requests and buffers
  in hand have something left to do; without it a look might complete a request of nothing, send nothing, and
  leave what is behind it. For packed frames, whose buffers stay when they are full, it takes `PairInv`: such a request and its buffer
  are filled from their beginnings and together, so a frame that fits its buffer is all there before the buffer is
  full. What `Served` leaves out is where this argument ends: a frame of empty planes, for one, is completed with no transfer and
  no other scan (`ctask/ctask_io.c:49`).
- `NeverOverrun` is the half of `OpenInv` that bounds: a request is credited with no more than it asked
  for and no buffer is filled beyond its end, so the code's unsigned subtractions do not wrap.
- The lifecycle: `SlotsAgree` and `SessionIsUp` speak of the time between calls. `Inv` says what each stage of a call
  still owes: the one pair of task and type whose records may disagree, for which a close is sure to come, and the thread
  without a session that is on its way to be stopped.
- User buffers: what the list and videobuf2 hold at each step of a start and of a stop, and which pins are
  whole at each step of a start. The properties hold at those steps only because of it.
- The device: what is held at each step. Each release is safe only for what the steps before it
  released, which the properties do not mention.

Only model-checked is liveness, because fairness and `ENABLED` are beyond the prover. The safety half of
each property, that whatever waits has something coming, is proved:

| Model-checked | Proved, for all constants |
|---|---|
| `EveryEventTaken` | `NoLostWakeup` |
| `EveryCallReturns` | `NoCompletionLost` (`CompletionArrives`): a caller that waits has its engine running, its completion on the way, or its event set; `NoStrandedCompletion` |
| `EveryMessageAcked` | `NoMessageForgotten` (`MessagesAreAttended`): a pending message is unread with its event or work item, or in the hands of the worker, for any number of threads |
| `EveryBufferReturns` | `NoSleepOverBuffers` (`OneSenderDrains`): the worker does not sleep over a FIFO with buffers; `NoBufferLost` |
| `EveryRequestReturns` | `NothingLeftBehind` |
| `CallReturns` | `StopIsHeard` (`JoinedThreadWasTold`): who waits for the thread to end has told it to, and nobody told it before |

## 6. Not modelled

- Tasks of the decoder: nothing in the repository allocates one (`CQLCodec_AllocEncodeTask` is the only
  way to `CTask_Alloc`), and `CDecoderTask_ProcessIoComplete` and `CDecoderTask_Start` are stubs.
- Messages with an unknown data code: `CTask_ReturnArmBuffer`, which answers them, is empty
  (`ctask/ctask_arm.c:1220`), so they are not even acknowledged. The model's ARM sends known codes.
- The side-band request (`m_pDmaRequest`) with its event, which nothing makes.
- `CancelBuffer`, the removal of an entry in the middle of a queue, and the pins' data path: stubs, or
  code without a caller.
- The builders of blocks for the YUV formats that are stubs, byte swapping, time stamps; a length
  that is no multiple of 4, which the driver credits in full.
- Task settings, format negotiation, controls and inputs of the V4L2 node: assignments to records.
- Register values, descriptor contents, the contents and sizes of firmware images, logging and the
  constructors of tables of function pointers: data that no property depends on.
- The bit-banged I2C transfers, the board chips' registers and GPIO: one thread, bounded retries; `Device` has their
  order and their failure.
- The check word of an event group in `qposm.c`: no group is deleted while in use.
- More than four DMA engines: the work item clears the bits of a fifth as unknown
  (`dma.c:92`).
- The FIFO refusing a message of the ARM: it has 0x201 entries, more than the ARM has buffers.
- A request at address 0, which looks like no request (`ctask/ctask_arm.c:36`): addresses are model values.
- Power states: nothing changes `m_PowerState` after the probe.
- Files that the Makefile does not name.
