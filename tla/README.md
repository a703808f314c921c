# Verification of the CoaxCapture CCG3-8M driver

The repository holds the Linux driver of a PCIe capture card (`src/xdma_v4l2`, a Xilinx XDMA
core with eight V4L2 video channels on top), the user-space library and the viewers that read the
cameras (`src/raw_v4l2_viewer/v4l2_viewer`) and command-line tools (`src/tools`). This
directory models the parts in which threads, interrupts, processes and hardware meet, checks the
models with TLC and proves theorems about them with TLAPS.

Paths below are relative to `src/xdma_v4l2/` unless they say otherwise; `pcie-hal` and
`pcie_release` are in `src/raw_v4l2_viewer/v4l2_viewer/`.

## 1. The system

### 1.1 Components

| component | source | state | operations |
|---|---|---|---|
| SG DMA engine | `libxdma.c` | per engine: `running`, `shutdown`, `transfer_list`, `desc_idx`, `desc_dequeued`, the descriptor ring, `desc_lock`, `lock`, the work item; per transfer: `state`, `desc_index`, `desc_num`, `last_in_request` | `xdma_xfer_submit`, `xdma_xfer_submit_nowait`, `xdma_xfer_aperture`, `xdma_xfer_completion`, `xdma_channel_irq`, `engine_service_work`, `xdma_device_open/offline/online/close` |
| video channel | `xdma_video.c` | `events_irq`, the wait queue `events_wq`, `vidq_queued`, `streaming_started`, `streaming_running`, `dummy_frame`, the frame counters, the format | `frame_sync_isr`, `xthread_video`, `buf_queue`, `start_streaming`, `stop_streaming`, the format ioctls, `video_free` |
| SG character device | `cdev_sgdma.c` | per asynchronous call: `struct cdev_async_io` with its counters, the array of callbacks; per engine: the measurement (`xdma_perf`) | `char_sgdma_read/write`, `cdev_aio_read/write`, `async_io_handler`, the aperture, address mode and PERF ioctls |
| completion threads | `xdma_thread.c` | per CPU: `work_list`, `work_cnt`, `schedule`, the wait queue | `xdma_thread_add_work`, `remove_work`, `xthread_main`, `xdma_threads_create/destroy` |
| user interrupt events | `cdev_events.c`, `libxdma.c` | per line: `events_irq`, `events_wq`, `events_lock` | `char_events_read`, `char_events_poll`, `xdma_isr`, `xdma_user_irq`, `user_irq_service` |
| PCI driver | `xdma_mod.c`, `xdma_cdev.c` | the device list, bound devices, groups of character devices | `probe_one`, `remove_one`, the error handlers |
| control, bypass, XVC devices | `cdev_ctrl.c`, `cdev_bypass.c`, `cdev_xvc.c` | none of their own | register reads and writes; the ioctls that take the device offline and online |
| camera library, polling form | `pcie-hal/src/pcie_camera.cpp`, `camera.cpp` | per camera: a FIFO of mapped V4L2 buffers, `readIndex`, `writeIndex`, the poll thread | `pcie_camera_init/destroy`, `CameraOpen`, `CameraCapture`, `getYuvFrame` |
| camera library, board form | `pcie-hal/src/hal_camera.cpp`, `PcieCamera.cpp` | the four boards' cameras, `running`, `data_mode`, `m_efds`, the callback threads | `hal_camera_init/start/stop/destroy` |
| viewer | `pcie_release/sample/view.cpp` | capture, display and main threads, a queue of frames per channel, exit flags | `main`, `View::cameraRun`, the three displays |
| board tool | `src/tools/pcie_a53_rw` | the command window shared with the board's processor; registers of serializers and deserializers | `serdes_channel_init`, `link_margin`, `send_cmd_to_a53_sync` |
| other tools, codecs | `src/tools`, `pcie-hal` | none that outlives a command or a frame | |

### 1.2 How they interact

* A frame sync interrupt (`xdma_isr` or a vector -> `user_irq_service` -> `frame_sync_isr`) puts an event in
  the channel's mailbox `events_irq` and wakes `xthread_video`. The thread takes the head of
  `vidq_queued`, calls `xdma_xfer_submit` to fill it and hands it to videobuf2. A user line without a handler
  sets the latch of its events device instead, which readers and pollers wait for.
* `xdma_xfer_submit` holds `engine->desc_lock` from end to end, so one blocking request uses an engine at a
  time. `xdma_xfer_submit_nowait` takes no such lock; its transfers share the ring and the queue
  with the blocking ones, and end in `xdma_xfer_completion`, in the work item's context.
* The engine's interrupt (`xdma_channel_irq`) masks itself and schedules `engine_service_work`,
  which takes the engine's lock, reads the status and the completed count, gives transfers their
  outcome, restarts the engine for the ones that wait, and unmasks the interrupt.
* In poll mode no interrupt is used: a completion thread, shared by the devices, calls `engine_service_poll`.
* A PCI error (`xdma_mod.c`) or an ioctl of the control device calls `xdma_device_offline` and
  `xdma_device_online`. Readers and writers are not kept out by any lock, only by a flag.
* `aio_write` and `aio_read` of a character device submit each element of a call with
  `xdma_xfer_submit_nowait`; `async_io_handler` is called back under `engine->lock` for each of them. A measurement (PERF
  ioctls) puts a cyclic transfer on the same queue, and its descriptors into the same ring.
* `probe_one` opens the device (`libxdma.c`), then creates the character devices and the video
  channels; `remove_one` takes them down, and so does the error path of `probe_one`.
* The application talks to `xdma_video.c` through videobuf2, which serialises its calls with
  `vb_mutex`, and not with the interrupt, the thread or the removal of the driver. Two programs may have a node open:
  one owns the buffers, both may set the format.
* The camera library maps the buffers of a node, dequeues and requeues them and hands the
  application pointers into them: by a poll thread (polling form), or by the caller or a callback thread (board form).
* The viewer has a capture thread per board that copies frames into queues, and display threads that take them out.
* `serdes_cfg` writes a command into a window of the card and waits until the board's processor, the A53, has
  executed it; each command is an I2C transfer to a chip of the camera links.

### 1.3 What is hard

* `engine->lock` protects the queue, but the hardware runs on while it is held: the work item reads
  the status and the count at two different times.
* A work item that is queued stays queued when the reason for it is gone: after a timeout or an abort the engine
  may have been started again for somebody else (`libxdma.c` 954, 1184).
* The ring is not checked for room on the non-blocking path (3003 has a TODO), and a measurement takes it from slot 0, whoever is there.
* `frame_sync_isr` reads flags under one lock, decides under none and posts under a second
  one; `stop_streaming` decides that the thread is idle by looking at its wait queue.
* `xdma_video_free` sets `events_irq` and then stops the thread, which may clear it in between.
* Readers of an events device test the latch without the lock and take it with it: another one may have been faster.
* Offline and online change the engine under its lock, submitters test the `offline` flag before
  they take it; offline, online, reset and close give interrupts back and request them, in an order nobody enforces.
* A completion thread looks at its engines' queues without their lock, and `schedule`, the only thing it waits for, is set by
  submitters and by the stop request alike; engines are given to threads under one lock after another.
* A failed probe is taken back by three different pieces of code, which share flags.
* The camera library's poll thread is never joined, and its FIFO holds pointers into buffers the driver is filling again; in the board form
  one flag stops the threads of all boards.
* A command the tool gave up is still executed, and answered, by the A53, while the next one is written.
* Serializers all come up at the same address: links must be selected, and addresses moved, in the right order.

`PROJECT.json` lists these hazards and others at their lines, with the property that covers each, or
the reason why none does.

### 1.4 What makes each component correct

* engine: what is on the queue is in flight; a running channel fetches only the descriptors of the
  transfer it was started for; what is reported as done was moved, each byte to its place and out of pages that are held; an interrupt is
  not lost; nothing runs while the device is offline; every request ends.
* video channel: buffers come back in order, once, with increasing sequence numbers; the buffer
  being filled is nobody else's; no wake-up is lost; stopping and removing end; buffers hold a frame of the format.
* completion threads: a request queued for polling is completed, a thread stops when it is told to, each engine has one.
* character device: an asynchronous call completes exactly once, after its last request; a measurement comes and goes whole.
* user events: an interrupt is reported to a reader, a read returns when there is an event.
* camera library: frames are returned in order, and not while they are overwritten; cameras outlive their threads; stopping ends.
* viewer: every frame is shown, once and in order; leaving ends.
* board tool: a result belongs to its command; settings reach the chip they are for; a measurement leaves the link as it was.
* PCI driver: a card is known for what it is; after a failed probe nothing is left behind; a removed device is not used.

## 2. The modules

| module | what it is |
|---|---|
| `DmaEngine` | the engine: submitters, hardware, interrupt, work item, offline and online |
| `DmaEngineProofs` | theorems about it: for any use, and for blocking callers |
| `MCDmaEngine` | symmetry for TLC |
| `SgTransfer` | one blocking or aperture call byte by byte: pages, scatter list, descriptors, what the card fetches |
| `PerfRun` | the performance measurement of an engine next to requests |
| `AsyncIo` | asynchronous calls on a character device, over an abstract engine |
| `SgDevice` | the character device: asynchronous calls (EXTENDS), one call byte by byte, or a measurement |
| `SgDeviceProofs` | theorems about the asynchronous calls, the measurement and the blocking call |
| `CompletionThread` | polled mode: the thread, its engines, their callers, the closing of the device |
| `CompletionThreadProofs` | theorems about it |
| `ThreadPool` | the list of devices and the completion threads they share |
| `CardSetup` | BARs, engines, kind of interrupt and vectors of a card, through open, offline, reset, online, close |
| `DeviceLifecycle` | binding a card to the driver, with any step failing, and removing it |
| `MCCard` | a card as one of the last three sees it |
| `UserInterrupts` | user lines, `xdma_isr` or vectors, readers and pollers of events devices |
| `CardProofs` | theorems about the views of `MCCard` and about the user interrupts |
| `FrameQueue` | the contract between a capture channel and videobuf2 |
| `VideoChannel` | the channel; implements `FrameQueue` |
| `VideoChannelProofs` | theorems about it, the refinement among them |
| `MCVideoChannel` | symmetry for TLC |
| `VideoFormat` | the format of a node: driver, videobuf2, the camera library's opening, another program |
| `CameraFifo` | the camera library in polling form: application, poll threads, FIFO, driver |
| `MCCamera` | one camera, its FIFO (EXTENDS) or its format |
| `CameraProofs` | theorems about both |
| `HalCamera` | the camera library in board form |
| `Viewer`, `MCViewer` | the viewer on top of `HalCamera` (EXTENDS); an instance |
| `ViewerProofs` | theorems about both |
| `CommandWindow` | commands of a tool to the A53 |
| `SerdesLinks` | what is sent to configure a channel: register tables as sequences |
| `BoardTool` | `serdes_cfg` with the chips on the bus, on top of the last two |
| `BoardToolProofs` | theorems about the window and the tool |

Modules that compose others (`SgDevice`, `MCCard`, `MCCamera`) choose with `use` which of them a behaviour is about: the parts
share no state, and a run of the sum costs what the runs of its parts would. `BoardTool` and `Viewer` are true compositions: their steps are
steps of the parts together. Each module states what it assumes of its constants; those that are composed by INSTANCE define the
assumption, and the composing module has an ASSUME for all of them.

Every module has one type invariant. It is a conjunct of the strongest invariant its run checks (`FrameKept`, `SetupHolds`, `PoolHolds`,
`CallMoves`, `MeasuredAlone`, `EndsAfterLast`, `HandlersHaveDevice`, `BuffersConserved`, `FormatHolds`) or is proved (`DmaEngine`,
`CompletionThread`, `UserInterrupts`, `CommandWindow`).

### 2.1 `DmaEngine`

A requester `r` is one caller. `Sync` callers run `xdma_xfer_submit`, `Aio` callers
`xdma_xfer_submit_nowait`. `pc[r]` says where the caller is:

| `pc` | code |
|---|---|
| `lock` | waits for `desc_lock` |
| `init` | about to call `transfer_init` |
| `queue`, `enqueue` | in `transfer_queue`, before the offline check, and before the lock |
| `wait` | in `swait_event_interruptible_timeout` |
| `reap` | before the `switch (xfer->state)` |
| `destroy` | before `transfer_destroy` |
| `async` | a non-blocking caller has returned; its callback has not been called |

A request of `n` descriptors is one transfer, or two when the chain would run over the
end of the ring (`ChainLength`). The non-blocking path keeps the two in `tfer[2]` of
`struct xdma_request_cb`; the blocking path reuses `tfer[0]`. A transfer is `<<r, k>>`; its fields are `xstate`
(`xfer->state`), `xidx` (`desc_index`), `xnum` (`desc_num`), `xlast` (`last_in_request`).

Critical sections of `engine->lock` are one action each, except the work item's: it is a sequence of
actions (`WorkBegin`, `WorkCount`, `WorkPop`, `WorkFinal`) during which nobody else takes the
lock (`LockFree`) and the hardware goes on. `hwBusy`, `hwPos`, `hwCount`, `hwStat`, `armed` stand for
the run bit and busy bit of the channel, the descriptor it fetches next, the completed-count register, the
status register and the interrupt mask of the engine. The hardware raises `done` at the last
descriptor of a chain and may report an error at any descriptor.

`hwXfer`, `moved` and `faulted` are history variables: for which transfer the channel was started, how many
descriptors it moved for each request, which transfers it reported an error in. `impatient`, chosen at the start, says
whether waits time out in this behaviour.

Assumptions on the hardware and the environment, each a constant or a named guard:

* clearing the run bit stops the channel at a descriptor boundary (`EngineStop`);
* `CanFail`, `FailAtFirst`: descriptor errors, and whether one may come before any descriptor of a run is
  complete; `CanVanish`: the status read of the abort path fails (`engine_status_read` returns an error
  only on the path that dumps registers); `CanTimeout`: a blocking wait may time out or meet a signal;
* `Overcommit = FALSE` adds `RingHasRoom` to `transfer_init`, which the code does not test. Blocking
  requests alone never need it;
* the bounds `MaxReqs` and `MaxResets`.

### 2.2 `VideoChannel` and `FrameQueue`

`ipc` is where `frame_sync_isr` is, `tpc` where `xthread_video` is, `vpc` where videobuf2's streaming calls
are, `rpc` where `xdma_video_free` is. `wait_event_interruptible` is spelled out (`ThreadWait`, `ThreadPrepare`, `ThreadRecheck`, `ThreadWoken`), because
`stop_streaming` spins on `waitqueue_active` and a lost wake-up is possible only at that level.
`onWq` is the thread's presence on the wait queue, `kicked` the wake-up of `kthread_stop`. `Unlisted` is `list_del`: the buffer goes from wherever
it is on the list, not only from the head.

* `SyncAtSwitch = FALSE` assumes that no frame sync is handled while the flags and counters of a
  session change, and that the thread sleeps when `stop_streaming` looks. The code does not ensure it;
  with `TRUE`, `MailboxHeld` and `DriverOwnsQueued` fail (a frame sync posted between the spin and the
  flags lets the thread fill a buffer that `clear_queue` gives back).
* `Surprise = TRUE` lets the device be removed while it streams; the two properties above and the
  refinement then fail.

`FrameQueue` is the abstract specification: a queue of the buffers the driver holds, the owner of each buffer, the last
sequence number. `VideoChannel` implements it with `queue <- InHand` (the list, and in front of it the buffer
the thread has taken off and not yet given back) and `last <- outSeq`.

### 2.3 `CompletionThread` and `ThreadPool`

`pc[r]` follows `xdma_xfer_submit` as in `DmaEngine`, with one more place, `wake`, between `transfer_queue` and
`xdma_kthread_wakeup`. Since the caller holds `desc_lock` all along, an engine's queue has at most one transfer (`queued[e]`), and a run
of the hardware is one step (`Hardware`), which moves the descriptors, sets the registers and writes the count back.

| `tpc` | `xthread_main` |
|---|---|
| `top`, `pending` | before the test of the stop flag; before the look at the queues, under the thread's lock and each engine's, that decides whether to sleep |
| `look`, `asleep` | in `wait_event`: before the test of `schedule`, and sleeping |
| `relock`, `clear` | about to take the lock again; with the lock, about to clear `schedule` and begin a round |
| `work` | between two engines of the round |
| `read`, `zero`, `test`, `service` | in `engine_service_poll`: reading the writeback, clearing it, testing it, servicing the engine |

`dpc` is the closing of the device: the engines leave the work list (`CloseRemove`, under the thread's lock), then
`xdma_kthread_stop` sets `schedule` (`StopSchedule`), sets the stop flag and wakes the thread (`StopStop`), and waits for it (`StopJoin`).

What holds only when no wait times out is stated with `~impatient`. The thread reads `desc_cmpl_th` of the head of a queue it has just seen non-empty; when the queue became empty in between, the
address lands in the list head's own structure (`shutdown_wq`, whose lock word is zero), so the model reads 0. No caller enters
a device that is being closed.

`ThreadPool` is what is around the thread: `xdev_list_add` and `xdev_list_remove` with the threads' creation (any of which may fail) and
destruction, and the search of `xdma_thread_add_work`, which looks at one thread after another (`Look`, `Place`) while other devices place and
remove engines. `poll_mode` may be written while devices are there (`Switch`). `mishap` records what takes the pool out of what the code handles.

### 2.4 `DeviceLifecycle` and `CardSetup`

`pos` is where the PCI core's thread is: the steps of `probe_one`, of the error labels and of `remove_one` in the
order of the code. The steps of `xdma_device_open` up to its engines are one action with two tables: `Opening` gives the step that
follows each, `Goto` the label a failure jumps to; `Undo` gives what each label releases, for the error path and for the end of
`xdma_device_close`, which repeats it. What has been acquired is `held` (memory, regions, mappings by name), `engines`, `irqs`, `cdevs`, `nodes`,
`threads`, `monTasks`, `handlers` (interrupt callbacks of video channels), `status` (their status files); `flags` are the `XDF_CDEV_*` bits. Interrupt handlers come and go (`handling`) as
long as their vector is requested and enabled. A transfer is here as far as it can meet the removal: `moving` says which caller (a channel's thread, or
`File`, a process) is in `xdma_xfer_submit` on which engine, `running` and `finished` what the engine does, and the interrupt of a finished engine
(`Interrupt`, masked until the work item is done) queues its work item (`work`), which services the engine under its lock (`serving`). `stray` is history: the engines whose
caller timed out with an interrupt or a work item under way. `free_irq` waits for a running handler; disabling does not.

`oops` means that a thread has followed a pointer that was never set or whose memory is gone; nothing follows it. MSI and legacy interrupts are
in `CardSetup`. H2C engines differ in having no monitor and are left out.

`CardSetup` takes any card (`card`: kinds of BARs in order, engines, capabilities, pin) through `xdma_device_open`: `map_bars` and `identify_bars`, the numbering of
engines (any may fail), `enable_msi_msix`, `irq_setup` with its vector registers, and then through any order of offline, reset of the card (its registers forget
everything), online and close. A vector register names the entry that was requested for it, so that "the interrupt arrives" (`Arrives`) relates what was
written into the card to what was asked of the kernel. `mishap` names the ways out of what the code handles: an engine or a request that
failed, offline twice or online twice (`unpaired`), a removal while offline, a polled device.

### 2.5 `UserInterrupts`

`Raise` is the board, `IsrRead`, `IsrClear`, `IsrServe`, `IsrDone` are `xdma_isr` with one register for all lines, `VectorIrq` is MSI-X;
`legacy` chooses. `pc[c]` follows `char_events_read` down to the wait queue (`test`, `prepare`, `retest`, `asleep`) and to `events_lock` (`take`), and
`char_events_poll`. `fresh`, `due` and `robbed` are history: lines raised and not yet serviced, serviced and not yet taken, callers
that lost an event they saw. `Register` is `xdma_user_isr_register` by the video part. `xdma_isr` masks lines 8 to 15 out of what it reads
while it clears all of them: `Reached` says which lines `ReaderServed` may promise.

### 2.6 `AsyncIo`, `SgTransfer`, `PerfRun`

`AsyncIo`: `pc[c]` is where the call is in the loop of `cdev_aio_write` (`cdev_aio_read` is the same loop): `check` before the element's
alignment and mapping, `submit` before `xdma_xfer_submit_nowait`, `over` after the return. `at` is `i + 1`, `count` the number of elements. `caio` is the
life of `struct cdev_async_io`; `cmpl_cnt`, `res` are its counters. `pinned`, `refused` and `moved` say of each element whether its
pages are mapped, whether the engine refused it, whether its data was moved. The engine is a queue whose head leaves it, moved or failed, with a call of the handler
in the same action, since it runs under `engine->lock` (so its `trylock` of the caio never fails). A reset of the device stops the
engine with requests on the queue, as `DmaEngine` has it. `wild` is set when freed memory is used; the model stops there.

`SgTransfer` looks at the data of one call. `MapPages` makes the scatter list of a buffer that begins anywhere in a page, merged or not by the mapping;
`Build` and `BuildAperture` are `transfer_build` and the loop of `xdma_xfer_aperture`, which fill as many
descriptors as there is room for; `CardMoves` fetches the block `engine_start` and `xdma_get_next_adj` announce and moves its bytes; `moved` is the sequence
of (address in memory, address on the card) so far. `AddrMode` is the ioctl that changes the addressing under a call. Widths matter in the aperture's
remainders, which are unsigned: they are taken modulo `Word`. A request is shorter than that, since its length is an unsigned int (`libxdma.h` 474); the kernel
cuts a `read` or `write` short of it, and what a longer aperture call would do is not modelled.

`PerfRun`: `at[i]` is where an ioctl is, `claim`, `fill`, `queue` for the start, `stop` and `copy` for the stop. `xdma_perf` and `perf_buf` are the engine's pointers, `list` its
transfer list, on which `Cyclic` and requests meet; `slots` says whose descriptors are in the first slots of the ring. `trouble` records refusals, overlaps, sharing, errors and resets,
`wrecked` that memory was misused.

### 2.7 `CameraFifo` and `VideoFormat`

`CameraFifo` is one camera with one channel, in the polling form (`pcie_camera.cpp`). `apc` is the application (`open`, `start`, `thread`: the steps of
`pcie_camera_init`, between which a thread of an earlier camera may run and meet one that is `new`, without a descriptor, or `opened`; `in`: it may call the library; `copy`: it has a frame's pointer and copies;
`stop`, `close`, `delete`: the steps of `pcie_camera_destroy`). Each `pcie_camera_init` makes a new `gen` of the camera and, unless the camera cannot be opened, a thread; `tpc[t]` follows
`cameraPoll` and `CameraCapture`: `born`, `loop`, `select`, `dqbuf`, `slot`, `qbuf`. `tgen[t]` is the camera the thread is capturing from: it takes the present one from a global in each round, which need not be the one it was made for. The driver
fills the buffers of `vq` in order and puts them on `doneq` (what `FrameQueue` promises); `content[b]` is the number of the frame in a buffer, which is what the application gets to see
at the end of its copy. `wild` is as in `AsyncIo`.

`VideoFormat`: one ioctl is one step, since the node's lock is held. The program sets and tries formats and requests buffers, known codes and others; the library
(`hpc`) goes through `CameraOpen`, `CameraStart`, `CameraCapture` and ignores what fails. `FrameBytes` is the size `queue_setup` computes, in an unsigned int
(`Word`). `odd` and `meddled` are history: a code that is not known was given or memory ran out; the library was refused or another
format was set under it.

### 2.8 `HalCamera` and `Viewer`

`HalCamera`: `calling` is the call the application is in and its step, `cam[b]` the life of a board's camera, `th[b][c]` the callback thread of a channel. `data_mode` and
`m_efds` are not initialised by the code: `unset` and `garbage`. `running` is the one flag of all boards. After a use of
a camera that is gone, `wild`.

`Viewer`: `vpc` is the main thread through `main`, the display it runs itself and the way out; `cap[b]` the capture threads, `disp[c]` the display threads of `multi`. `dataQueue` holds
frame numbers; `pushed` and `shown` count. `script` says whether `kill_view.sh` is found, which is how `multi` ends its display threads. A frame is a number and
its pixels are not modelled. `app = "callback"` is any application of `HalCamera` with callbacks instead.

### 2.9 `CommandWindow`, `SerdesLinks`, `BoardTool`

`CommandWindow`: `phase` follows `send_cmd_to_a53_sync`; `whole` says that the command in the window is complete, `irq` is the register at 0x30300. The A53 is external and
level-triggered: it takes what is in the window when it is free and the register is set. A command that was given up is still executed, and its answer
clears the register the next command has set.

`SerdesLinks` has the register tables the tool sends, as sequences of what their elements do to a chip (select links, move a serializer to an
address, translate a sensor's address, reset, set another register). Elements in a row that set other registers of the same chip are one `Set`. `serdes_channel_init` and
`serdes_channel_init_raw` are the order of these tables for each index.

`BoardTool`: `todo` is what is left of a run of the tool; `OnBus` what a command does to the chips that answer at its address, among the selected links that are there; `Answers` what a read returns. A result that could not
be had is the text of the command before. The measurement (`link_margin.c`) reads, changes and writes registers (`reg`), whose contents are a switch, a number
and the chip they belong to (`tag`): a value written to another chip than it was read from shows. `CheckTries` and `LockTries` scale its retries down.

### 2.10 Faults

A definition `X_Fault` placed before `X` is `X` with a plausible mistake (a dropped test, a missing reset,
a wrong end of a queue). No specification uses it. Put in the place of `X` it makes the property
listed with it in `PROJECT.json` (`mutants`) fail, which shows that the property depends on that code.

## 3. The runs

| run | question | instance |
|---|---|---|
| `dma_sync` | do blocking requests with splits, timeouts, errors and a device reset keep queue, lock and hardware consistent, is what is reported as done moved, and do they all return? | 2 blocking callers, a ring of 3, requests of 1 and 3 descriptors (3 is split unless it starts at slot 0), 2 requests, 1 reset |
| `dma_aio` | blocking and non-blocking callers share an engine: are descriptors left alone while the channel runs them, are outcomes right, is the engine attended, does every request end? | 1 + 2 callers, a ring of 4, requests of 1 and 2, 3 requests, errors; timeouts in the behaviours that are `impatient` |
| `dma_underflow` | counterexample, see 3.2 | 1 + 1 callers, a ring of 5, requests of 2, counts that wrap at 8 |
| `poll` | is no wake-up lost, are only listed engines polled, is what is reported as completed moved, does a closing end? | 2 engines, 2 callers, transfers of 1 and 2 descriptors, 2 requests, errors, timeouts, the closing |
| `life` | however a probe fails: does it unwind, does a removal leave nothing behind, do handlers, threads and work items find their memory? Is a card known for what it is, do its interrupts arrive and are they given back? Does every polled engine have one thread? | 2 engines, 2 channels and a process that use them; cards of up to 2 engines each way, 3 user interrupts, 2 vectors to a register, eight arrangements of BARs; 2 devices of up to 2 engines, 3 CPUs |
| `video_quiet` | does the channel keep its buffers, its mailbox and its counts, and implement `FrameQueue`? | 3 buffers, streaming from 2, 2 dummy frames, 5 frame syncs, 2 sessions |
| `video_live` | is no wake-up lost, does streaming stop, are events served, does a removal end? | 1 buffer, 2 frame syncs and the removal at any moment, 2 sessions |
| `sgdev` | is an asynchronous call completed once, after its last element, with what was moved? Is each byte of a call moved once, to its place, out of pages that are held? Does a measurement harm only those it shares the engine with? | 2 calls of 1 or 3 elements, 1 reset; calls of up to 11 bytes, pages of 2, a ring of 4, lengths up to 3, blocks of 2, apertures of 2, 3 and 4; 2 measurements next to a request |
| `fifo` | is no buffer lost, are frames read in order and intact for one round, do poll threads stop? Do buffers hold a frame of the format? | 2 buffers, 2 initialisations, 4 frames; 3 buffers, one known format code, a 9-bit unsigned int |
| `events` | does nobody sleep on an event, is no interrupt lost before a reader, does a read return nothing only after a lost race, is a pending event read? | lines 0 and 8 (the second beyond what `xdma_isr` serves), 2 callers, `xdma_isr` and vectors |
| `tool` | do commands stay apart, do settings reach the chips they are for, is the link left as it was, does the tool end? | every index the tool knows, rates 2 and 3, amplitudes of 2 and 3 steps above 1, 2 tries, 1 failure of the A53 |
| `viewer` | do cameras outlive their threads, are frames shown once and in order, are they all shown, does leaving end? | 2 boards or 2 channels, 2 frames, the three displays, an application with callbacks |

A pass of `life`, `sgdev` or `fifo` is a pass of each of the parts composed there (section 2): a behaviour belongs to one of them from its first
state, and the others stand still.

### 3.1 Bounds

A ring of 3 with requests of 1 and 3 reaches every shape `transfer_init` can make: a chain that fits,
one that ends at the end of the ring, and one that is cut and continued at slot 0. Two requests of up to two
transfers are enough for a transfer to be queued behind another, for a stale work item to meet the next transfer, and
for descriptors to be reused. One reset meets every phase of a request; a second one would meet the state the first one left, which
is the initial one with a queue. Requests longer than the ring are taken up in `SgTransfer` only.

In `poll` the second engine is what a round goes on to, and the second caller is what comes after a caller that gave up: on its engine (a stale
writeback) or on the other one (a wake-up used up by the first). In `video_quiet` five frame syncs are two dummy frames, one that is served, one that is lost while the
first is served, and one after; three buffers allow a queue with a middle; two sessions show what a stop leaves behind. Liveness needs fewer of
each: one event is enough to be lost. `life` has a first, a last and a repeated element in each of its loops; two vectors to a register make the third
line the first of a register; three CPUs and four engines make one thread take two. Two asynchronous calls interleave on the
queue, and three elements have a middle one. Eleven bytes in pages of two need more descriptors than a ring of four has, so that `xdma_xfer_submit` goes round it again. A FIFO of two (the
library has more) is overtaken by four frames, which go round it twice; two initialisations are what a
poll thread left over from the first can meet. In `tool` what matters of an amplitude is that it passes its end or meets the floor; of a retry, that there is another one
and that they run out. In `viewer` a second frame is one that may overtake, or be pushed while the first is shown.

Behaviours are finite by `MaxReqs`, `MaxResets`, `MaxSyncs`, `MaxSessions`, `MaxInits`, `MaxFrames`, `MaxStarts` (measurements), `MaxShares`
(handlers on a line that is requested again and again), `MaxIdx` and `MaxSwitches` (uses of `poll_mode`), `MaxFails` (of the A53), and a card whose probe crashed stays as it is; hence
`CHECK_DEADLOCK FALSE`: a system whose bounded environment has nothing more to ask stops. `events` is bounded by nothing and is checked for deadlock.

Registers that do not answer (`CanVanish`) and a ring that is overcommitted by non-blocking requests
break most properties of the engine, as 3.2 says of the code. What holds with them is proved, not run: `Attended` and `OfflineStaysQuiet` (section 4).

### 3.2 Disagreements with the documentation, and what the properties leave out

Kept as a run, a counterexample to what a comment says:

* `dma_underflow`: `desc_count` (1184) is the completed count minus `desc_dequeued`. If the channel is restarted for the next
  transfer between the interrupt and its work item, the difference is negative and, unsigned, completes transfers that were not moved
  (the comment at 850 says they were completed by the engine).

Met while modelling. The properties are stated so as to leave these out, with a history variable or a condition that names them:

* engine: a non-blocking request that fails at its first descriptor never completes, because `engine_service` (1160) returns early when the completed count is
  zero (`FailAtFirst`). A stale work item after a timeout fails the next transfer half-way (954). `transfer_abort` (2438)
  removes a transfer only if it is the head. The non-blocking path overwrites descriptors still in use when the ring is full (3003), and a request longer than twice the ring
  writes behind `tfer[2]`. `xdma_device_offline` does not wait for
  the engines, as the comment at 4618 says; it stops them with transfers on their queues.
* one call (`SgTransfer`): `xdma_xfer_aperture` never advances `req->sg`: each further pass of the ring begins at the first entry again, with an unsigned
  remainder that underflows, and may build no descriptor at all and end its chain in front of the ring. Windows whose size is not a power of two are wrong after the first pass. The addressing
  mode may be changed by another file between two passes. The array of pages is leaked when no page could be pinned.
* measurement (`PerfRun`): a start that fails leaves `engine->xdma_perf` set, so that every later one is refused; a refused queue forgets
  `engine->desc` and removes a transfer that is on no list; a stop takes no lock and frees whatever transfer is the head; a start writes over the ring from slot 0 whoever is using it; two starts
  may both find no measurement; nobody waits on `xdma_perf_wq`.
* completion threads: nothing but the thread that polls it clears the writeback location, so that what a run wrote back after its caller
  timed out and left is taken for the next transfer's (`PatientlyMoved` leaves out timeouts). `xdma_kthread_stop` sets `schedule` before the stop
  flag, and the thread waits for `schedule` alone: if it clears it in between it sleeps for ever (`DestroyEnds` asks that it is asleep). In `ThreadPool`: the search
  for the least loaded thread never updates the load it compares with, and gives the first engine to the second thread; two probes at a time pick the same idle thread; a
  thread that cannot be started frees the array under those that run; `poll_mode` may be written while devices are there, which leaves entries on a work list, or takes away what was never put there.
* video channel: the thread may clear the event of `xdma_video_free` before `kthread_stop`, so that the removal hangs if the thread then reaches
  the sleep before it is told to stop (`StopAndRemoveEnd` asks that it be asleep). A card removed while it streams loses the events
  `start_streaming` clears, and `stop_streaming` spins for ever once the thread has ended. A frame sync while a session starts or stops is not kept out (`SyncAtSwitch`).
* format (`VideoFormat`): a `VIDIOC_S_FMT` that is refused stores no format, which the next ioctl follows; `TRY_FMT` uses a four-character code as an index;
  any size is taken, `G_FMT` reports the card's; nothing compares the size of a buffer with what the card sends; the product of width, height and depth may
  overflow. `AtLeast` is the branch for kernels with `num_buffers`; where the kernel has `max_num_buffers`, the minimum of three buffers is not asked for, and `BuffersFit` does not speak of that build. The library ignores every failure of an ioctl. `s_input` takes any number and `g_input` returns 0.
* life cycle: `xpdev_free` frees the video channels while their interrupts are enabled and their handlers registered (`RunsOnLiveMemory` leaves that time out). Any probe that fails after `xpdev_alloc` ends in a crash, since `xpdev_free` takes down a video part that was never set up.
  The status files of a channel exist before the device's private data is set (`xdma_video.c` 1661, `xdma_mod.c` 229). Work items are never flushed: one whose transfer ended for its caller is over by then, because `xdma_xfer_submit` takes `engine->lock` after its
  wait and `kthread_stop` waits for the caller; one whose caller timed out (100 ms for a video channel) may run on freed memory, and so may the transfer of a process whose file is open (`CrashNeedsFailure` leaves these out).
* card (`CardSetup`): the ioctls take a device offline and online in any order, which gives interrupts back twice or adds a second handler; `irq_line` and
  `msix_irq_line` are never reset; a removal while offline gives them back twice. An engine that fails to initialise keeps its number, so that later vectors are written to the wrong place. A failed `irq_setup` leaves the
  engines' vectors requested, and `xdma_device_online` ignores that it failed. Polled devices do not get their user interrupts back after a reset. With three BARs and the configuration BAR last, the bypass BAR
  is taken for it. The video part uses `bar[user_bar_idx]` also when there is none. The probe enables user interrupts 0 to 7 although there are 16.
* user interrupts: `xdma_isr` masks lines 8 to 15 out of what it reads and clears them with the rest: without MSI-X, `CardSetup`'s `UserArrives` says of them only that they come as far as `xdma_isr`.
* asynchronous calls: a misaligned element frees the caio under the elements before it that are on the queue; a mapping that fails leaks the caio; an element
  the engine refuses (offline, not mapped, no memory) leaves the call incomplete for ever, with its pages pinned; the array of callbacks is freed through a pointer to its last element, which is its start only
  for calls of one element; a failed element is not reported, the result is only shorter.
* camera library, polling form: `getYuvFrame` chooses the slot before it corrects an overrun index, so that frames come twice or out of order; `pcie_camera_destroy` does not join the poll thread, which may set `pollExit`
  again, use the deleted camera, wait on the descriptor of the next one before that is set (`Camera`'s constructor does not set `fd`), or capture from it; the FIFO's pointers lead into buffers that are being filled again.
* camera library, board form, and viewer: `data_mode` and `m_efds` are used without having been given a value; one `running` flag stops the threads of all
  boards; callbacks are made after reads that failed; `closeCamera` closes the members of `m_efds` that were never set, which has no effect in the model. The display threads of `multi` end only through `kill_view.sh`; a single view that waits for a frame is not woken by Ctrl-C; queues have
  no bound; frames are allocated with `malloc` and released with `delete[]`.
* board tool: a late answer of the A53 ends the next command, with whatever the result area holds; the result of a command that failed is the text of the one before; rate 3 is accepted
  and not set; a result of 4096 bytes and more keeps its tail only. The tables of the sensors at index 6 reach none when both links are there; `serdes_channel_init_raw` has no branch for
  some chains (107, and 108 without its first link); B's serializer may answer for A's.

### 3.3 Fairness

Weak fairness of a caller inside a call, of the work queue, of the threads of the driver, the camera library and the viewer, of a closing that has begun, and of interrupts (`Isr`, `VectorIrq`): the kernel schedules what is
runnable, and a level-triggered interrupt that is armed is delivered. Weak fairness of the hardware: a running channel moves its next descriptor or reports
an error; in `AsyncIo` the engine completes the head of its queue, which leaves `FailAtFirst` to `DmaEngine`; in `CameraFifo` the driver fills the buffers it has. Weak
fairness of the tool and of the A53, which fails finitely often (`MaxFails`). Strong fairness of `LockDesc`: a kernel mutex hands the lock over to its waiters. Nobody is
obliged to make a request, raise a frame sync, send a frame, start streaming, reset or remove the device, close a window or press Ctrl-C.

## 4. The proofs

Every theorem is of the form `Spec => []P`, for all values of the constants that satisfy the module's assumption: any number of
callers, engines, buffers, lines, requests and sessions, any size of the ring.

**`DmaEngineProofs`**, under `EngineAssumption`, for any mix of requests:

| theorem | property |
|---|---|
| `TypeCorrect` | `TypeOK` |
| `IdleMeansIdle` | `BusyIsRunning`: a channel that runs is marked as running |
| `InterruptKept` | `InterruptNotLost` |
| `Attended` | `EngineAttended`, the last two together |
| `OfflineStaysQuiet` | `QuiescedOffline`: nothing starts the engine between the stop in `xdma_device_offline` and `xdma_device_online` |

`TypeOK` is not inductive: `hwPos' = hwPos + 1` stays in the ring only because the last descriptor of the ring
ends its chain, which in turn needs that a chain `transfer_init` makes fits in what is left of the ring
(`ChainLengthFits`). The inductive invariant `TypeInv` adds the facts on the ring and the transfers. The proof has a lemma per action, and
a frame lemma for the actions that touch no typed variable in an interesting way. `InterruptNotLost` is not inductive either: `ArmedOrServed` says that
whoever masked the interrupt left a work item, whatever the status is. `QuiescedOffline`
needs `StaysDown`, the same fact with the steps of the reset in it, and that `Resume` and `Enqueue`
start an engine only if no shutdown is requested or its queue was empty.

The same module has theorems with the hypothesis `Blocking` in addition: no non-blocking caller, registers answer, a request is shorter than what a count can count.
With non-blocking callers the statements are false (3.2).

| theorem | property |
|---|---|
| `OneInFlight` | `QueueIsInFlight` |
| `ToldWasMoved` | `DoneMeansMoved`, also after timeouts and resets |
| `RunsItsOwn` | `RunOwnsDescriptors` |
| `FailedHasFault` | `OutcomeIsTrue`, for behaviours without timeouts |

The inductive invariant `BlockInv` says that a call past its `mutex_lock` holds `desc_lock` (`LockHeld`), that the queue is the holder's (`QueueOfHolder`), that a request without a transfer shows no outcome (`Unbuilt`), that chains
in the ring stay those of their transfers (`ChainsKept`), that whoever runs serves the head of the queue and has counted only what was moved of it (`ServesHead`), that the channel is at the descriptor that follows (`AtNext`), and that what
is reported was moved (`DoneMoved`). A stale work item is what makes this hard: it may meet any later transfer, and `ServesHead` must
hold of the two. `PatientInv` adds that requests are short (`Short`) and that, without timeouts, there are no stale work items (`Fresh`).

**`CompletionThreadProofs`**, under `ThreadAssumption`:

| theorem | property |
|---|---|
| `ThreadTypesCorrect` | `TypeOK` |
| `QueueHeld` | `QueuedIsHeld`: what is on a queue belongs to the holder of `desc_lock`, and the channel runs nothing else |
| `WakeUpKept` | `NoSleepOnWork` |
| `PollsListed` | `PollsWorkList` |
| `PatientCompletion` | `PatientlyMoved`: with no timeout, what is reported as completed was moved |

The safety part of the inductive invariant, `SafeInv`, adds to these that the thread holds its lock during a round, whose engines therefore stay on the list (`RoundLocked`), that engines stay listed until the closing (`OpenListed`), that a thread about to test `schedule` has seen every transfer or
will find `schedule` set (`LookAwake`), that a transfer on a queue is submitted (`QueuedSubmitted`) and that a channel has counted nothing of a run that goes on (`RunFresh`). `PatientInv` adds that transfers are not empty and, for behaviours without
timeouts, that a non-zero writeback, in memory or in the thread's hands, is that of the transfer on the queue (`WritebackFresh`) and that a caller reaps only what has ended (`ReapsEnded`). It is the timeouts that
break these two (3.2). Each conjunct has a lemma of its own, with a step for each action that may disturb it.

**`CardProofs`**, under `CardsAssumption`, for any number of engines, channels, user interrupts, vectors to a register, devices and CPUs, and for any card:

| theorem | property |
|---|---|
| `LifeInvariant` | the inductive invariant of `DeviceLifecycle` itself |
| `NothingLeft` | `LeavesNothing` |
| `LiveMemory` | `RunsOnLiveMemory` |
| `SetupIsRight` | `SetupHolds` |
| `PoolServes` | `PoolHolds` |

`LeavesNothing` speaks of the end of an unwinding or of a removal, so the invariant `LifeInv` must say at every label what is still held and what is surely gone: a resource is absent at the labels before its acquisition and from the one that gives it back on
(`NoXdev`, `NoList`, ... follow the steps of `xdma_device_open`), and on the way back `failedAt` says which of them were ever there. Handlers, threads and work items are tied to what they use in the same way: a vector is handled only while it is requested and the device
was opened (`HandlersLive`), an engine that runs has a caller in its transfer, and one that has finished, or whose work item is under way, has one too unless that caller gave up (`stray`, `EnginesBusy`).

`SetupInv` and `PoolInv` are conditional on `mishap = {}` (or on `trouble` and `undisturbed`), which only grows, so that an offline card that was taken off twice needs no account. `SetupInv` keeps, of an orderly card, that the vectors written into it are those that were requested, in the order in which engines were
counted; a card with the first pin, or with none, is not told its pin and relies on vectors that are zero (`ZeroVectors`). `PoolInv` says that the threads' lists hold the engines that name the thread, unless something else than a switch went wrong (`Listed`), and that a search nobody disturbed has met no idle thread but the one it is about to take (`Searches`). Lemmas give what it needs of sequences
with an entry taken out (`RemoveAtProperties`).

**`CardProofs`** too, about `UserInterrupts`, for any lines, callers and kind of interrupt:

| theorem | property |
|---|---|
| `InterruptTypes` | `TypeOK` |
| `ReadersAwake` | `NoSleepOnEvent` |
| `NothingLost` | `QuietMeansRead` |
| `OnlyLosersReadNothing` | `ZeroMeansTaken` |

`NothingLost` rests on `OnItsWay`: a line that was raised is pending at the board, or in what `xdma_isr` has read, until it is serviced.
`OnlyLosersReadNothing` rests on `SeenOrRobbed`: a caller before `events_lock` has the event before it, or has been robbed.

**`SgDeviceProofs`**, under `DeviceAssumption`:

| theorem | property |
|---|---|
| `CallsEndOnce` | `AioHolds`: `EndsOnceAtLast` and `FreedOnlyByRefusal` |
| `MeasuresAlone` | `MeasuredAlone`: a measurement comes and goes whole on an engine used by nobody else |
| `CallsMove` | `CallMoves`: a blocking call moves its bytes, each once and to its place |

The inductive invariant `CallsInv` is a disjunction: either nothing of the heap was touched after it was freed, and then `Sound` holds, or it was, and what the step that did so left behind
still satisfies the property. `Sound` says of each call where the submitting and the completing side can be together (`Phases`), and that every element that was
submitted is on the engine's queue, or refused, or handled and counted in `cmpl_cnt` (`Accounted`); an element is on the queue once.

For the measurement, `PerfInv` says of the requests that one at a time has `desc_lock` (`OneCaller`) and where each one on the list is (`InFlight`, `Queued`). As long as ioctls come one after the other and nobody else uses the engine (`Undisturbed`), the list holds the measurement's transfer, a request's, or nothing (`OnList`), an ioctl finds what it left (`Underway`), and one that is over leaves transfer and buffer together (`Settled`).
`HarmNeedsCompany` is what is left of it once somebody else was there: memory is misused only after a kind of `trouble` that leads to it. A request takes the engine only when no other has it, because it holds `desc_lock` until it has its answer.

For the blocking call, lists of descriptors are described by what they hold, not by how they were made: `LaidFrom` says that they lie on the bytes of the buffer from byte `p` on, `Rightly` that they send them to the right place as well. The scatter list holds the buffer (`ScatterCovers`), the pieces of an
entry hold the entry (`PiecesCover`), so the request's descriptors hold the buffer (`RequestCovers`), and those of one transfer its part of it (`FilledRightly`). The walk of an aperture keeps two invariants from turn to turn: `Ordered`, that it has come to a byte of the list and its descriptors lie on those before it, and `Aimed`, that
it goes through the window and no descriptor crosses the window's end. They need that the walk starts in the entry the request has come to, which is so on the first pass or with a single entry, and that masking an offset by `aperture - 1` is its remainder (`AndModulo`), which is so on the first pass or with a power of two: the hypotheses of `Handled`
come from there. `SgInv` then says of each state that what was moved is what the call asked for, up to the descriptor the card has come to (`SgMoved`), that the transfer in the ring is a chain (`SgFetch`), and how far the request has come (`SgRequest`); `BlockMore` is the step of the card. The announced blocks stay within an aligned block of
the ring by `AdjacentStay`.

The recursive definitions (`Before`, the walk, `And`, `FlattenSeq`) are functions, and what they compute is proved from their equations. The library's induction rules cannot be used, so `Inductive` derives induction over a set from well-foundedness of the naturals: a set of numbers that is not empty has a smallest element.

**`VideoChannelProofs`**, with the hypothesis `Orderly` (`~SyncAtSwitch /\ ~Surprise`), without which the statements are false (2.2):

| theorem | property |
|---|---|
| `FilledFrameKept` | `FrameKept` |
| `SyncCountedOnce` | `CountedOnce` |
| `ChannelKeepsContract` | `RefinesFrameQueue`: `VideoChannel` implements `FrameQueue` |

The inductive invariant `ChannelInv` says beside `FrameKept` that a removed channel is idle (`RemovedIdle`), that outside a session the thread rests with an empty mailbox (`Rests`), that the flag is down then (`FlagDown`), that
a thread on the wait queue has no event (`WaitsForNothing`), that nothing is queued before and after a session (`NothingQueued`), that the buffer being given back is off the list (`TakenOff`), and that a number that was not given to a buffer is in the mailbox (`Numbered`). The refinement goes action by
action: each step of `VideoChannel` is a `Give`, `Take`, `Deliver`, `Restart` or `Flush` of `FrameQueue`, or a stutter. Taking a buffer off the list is one, since `InHand` puts it back in front.

**`CameraProofs`**, under `CameraAssumption`, for any number of buffers, initialisations, poll threads, frames and card formats:

| theorem | property |
|---|---|
| `NoBufferLost` | `BuffersConserved` |
| `FramesInOrder` | `FramesHold` |
| `FormatKept` | `FormatHolds` |

The inductive invariant `FifoInv` puts each buffer of a camera that streams in one place (`Places`: the driver's list, the list of filled buffers, or a thread before its `VIDIOC_QBUF`). `Numbered` says what number the frame in each buffer has: filled
buffers hold consecutive ones, those with a thread earlier ones, and a buffer that waits gets its next frame a `Round` after the one it holds, the buffers there are less the other threads that have captured. `Promises` says
that what is in the FIFO, or in the application's hands, is there still, or was overwritten at least a `Round` later. `InOrder` relates `writeIndex` to the frames dequeued as long as one thread captures; that two numbers less than `FRAMEFIFODEPTH` apart
have different slots is a lemma (`DifferentSlots`). `Beginning` goes with it: until a camera is started the threads left from earlier ones have not touched it, and the thread about to be created has no buffer.

For the format, `FormatInv` relates what the driver has stored, what videobuf2 has allocated and what the library has mapped: unless somebody meddled, a stored format is unknown only after an odd code (`OddCalls`), buffers keep the size that was stored when they were requested (`SizeKept`, `BuffersKept`), and the library looks into a buffer only once it was mapped (`Mapped`, `Looked`). That a buffer holds a frame needs that
no product overflows; the assumption asks it of the card's own formats only, as the code takes any width and height from a program and the property leaves the overflow in.

**`ViewerProofs`**, under `HalAssumption` and `ViewerAssumption`, for any boards, channels, frames and starting commands:

| theorem | property |
|---|---|
| `NoneReadsTheGone` | `CamerasOutlive` |
| `EachShownOnce` | `ShownInOrder`, a property of steps |

`ViewInv` has a part for the library and one for each kind of thread of the viewer. `Outliving`, of the library: the callback threads of a board were started by a `hal_camera_start` with callbacks, and are gone when the stop has come back from its joins, before the camera can be destroyed. `CaptureInv`: capture threads run
between the end of the initialisation and the join that precedes `View::deinit`, so the cameras they poll are there. `InOrder`, for a channel: what waits in its queue follows, number by number, what was taken out, and at most one thread, the main one or the channel's, holds one frame more than were shown. A step that shows a
frame therefore shows the next one; that the main thread and a display thread never both have the channel is what the hand-over of `multi` is for. The joins are steps of the main thread alone: the proof found that an earlier form of the model let it pass a join with no thread at all to join, which left its place open.

**`BoardToolProofs`**, under `BoardAssumption`, for any index, links, rates, amplitudes, numbers of tries and failures of the A53:

| theorem | property |
|---|---|
| `WindowHolds` | the window's inductive invariant, for `CommandWindow` by itself |
| `ToolCommandsApart` | `CommandsApart` of the tool, whose steps are steps of the window |
| `Measures` | `MarginHolds` |
| `LinksAnswer` | `LinkAnswered` |
| `SetsUp` | `LinksSetUp` |
| `ToolSafe` | `ToolHolds`: `CommandsApart`, `MarginHolds` and `LinkAnswered` together |

`PostedWhole` says that the register is set only for a whole command that the tool waits for, `DebtsPaid` that every command spoiled, or to be, is paid for by one that was given up.

The state of the tool says little without what it still has to do, so the other invariants are on `todo` as well. `MarginList` and `ChannelList` say which lists a run can have left, whatever the state; every
table and every list of `link_margin.c` is shown to be one of them, and its tail with it. `ToolInv` ties the A53 to the head of the list: it executes that command, or one was given up (`InStep`).

For a measurement, `Fed` and `AmplitudeFed`: what a step writes back was read from the same register of the same chip before, or will be by an earlier step of the list. `TurnedOff`: a switch that is on has its `off` ahead. `Restoring`, `Rated`, `Lowering`: the
amplitude is the first one, or the list puts it back; in the loop it is the one the tool counts, or will be before the loop decides, and stays between `Floor` and the first one.

For a configuration, the tables are parts (`Chunk`) that select a link before they move its serializer, and parts in a row are a part. So an address is one link's (`Guided`, `addr[l]` is 0x80 or the link's own), and a probe of an absent link is answered by nobody. `Told`: the i2cdetect
before each probe leaves an empty result, which is not an identity, so that a probe that fails finds no link.

That a configuration sets up what is there (`SetsUp`) needs to know where each table leaves the links. The two are looked at one by one. A `View` is what the end of a link has of the state: the links selected, whether its serializer has been moved, whether that
translates its sensor's address to the one the sensor's table is written for, and whether the table has reached the sensor. `Safe` says that a step finds the chip it is for at this end, and no other, `Becomes` what it does there; `Leads` that a list, step by step safe, leads from one set of views
to another. There is a rule for each kind of step (`SetGoes`, `MoveGoes`, `ResetGoes`, ...), a lemma for each table and each of the two links, and these compose: `AllStaged` says, for every index and every set of links that `Covered` has, that the list before the first probe brings a link that is
there to where the decision on link A takes it up, each later list to the next decision, and the last one to its end (`Final`).

The invariant of the state, `SetUpI`, holds as long as no command has failed: what is left of the list leads each link that is there from its present view to where that list ends (`OnCourse`), nothing went astray, and a link that is there has answered its probe (`Heard`, the converse of `Told`). `BusBecomes` is the step
from the bus to the views: what a command does to the chips at its address is, at each end, what `Becomes` says; that two serializers may not answer to one address is there a fact about each of them. `OnCourse` quantifies over functions to sets of views, which TLC cannot enumerate; TLC checks `LinksSetUp` itself, on
every index and every set of links that are there and are selected at first.

Every invariant the passing runs check is stated by a theorem, by itself or as part of a stronger one. Only model-checked: liveness (the prover has no rule for fairness) and `ENABLED`: `EveryRequestEnds`, `DestroyEnds`, `StopAndRemoveEnd`, `EventServed`, `CallEnds`, `PollStops`, `ReaderServed`, `ToolEnds`, `FrameShown`, `LeaveEnds`. The
finding `dma_underflow` is a counterexample, which only TLC gives.

## 5. Not modelled

* `cdev_ctrl.c` and `cdev_bypass.c` beyond the ioctls that take the device offline and online, and `cdev_xvc.c`: reads and writes of registers, which keep no state.
* The register maps (`libxdma.h`, `ccg3_8m.h`), the version and capability ioctls, the frame rate and input ioctls of the nodes, which store a number or return a constant.
* The monitor's request path of the video part (`xdma_video.c` 386 to 484), which nothing calls.
* The device manager of the library, register and frame dump tools: a straight line of reads, no state that outlives them.
* Image conversion, the codecs and headers of third parties, Qt's window: no control that meets another part.
* `open`, `close` and `llseek` of the character devices, and what a file that is still open does when the device is removed, beyond the transfer it may be in: the model
  of the removal ends with the probe's own objects.
* Streaming C2H (`eop_flush`, credits): the card's engines are memory mapped.
* What the register tables of `serdes_data.c` and `serdes_data_raw.c` do to an image. `SerdesLinks` models which chip they reach and in which order.

## 6. Plan

Done: the modules of section 2, the theorems of section 4. Next, in this order:

1. Open files in `DeviceLifecycle`: what `read`, `ioctl` and `close` of a file do once its device is gone.
2. An abstract specification "each call ends once", which `AsyncIo` and the blocking path of `DmaEngine` both implement.
