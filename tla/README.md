# A verification model of esp-video-components

TLA+ modules, TLC configurations and TLAPS proofs for the video framework in this
repository: `esp_video`, a V4L2-like device layer for Espressif SoCs, and the camera
controller drivers under it.

    VideoInit       which devices exist: buses, clocks, sensors, flags
      VideoDevice   one device object: open, close, events
        VideoStream the bookkeeping of one stream, used by
          CaptureStream --implements--> BufferFifo
          UvcStream     (composed with the callbacks of the USB host library)
          IspStats      (composed with the ISP interrupt and the ISP pipeline)
        M2MStream       two streams and a codec
    DvpController   the DVP driver under a capture stream
    SpiController   the SPI driver under a capture stream

    proofs: one module for each, named after it: VideoInitProofs, VideoDeviceProofs,
            CaptureStreamProofs, UvcStreamProofs, IspStatsProofs, M2MStreamProofs,
            DvpControllerProofs, SpiControllerProofs

## 1. Inventory

| Part | State it keeps | Operations | Correct when |
|---|---|---|---|
| Capture stream (`esp_video.c`, `esp_video_buffer.c`, `esp_video_ioctl.c`) | `queued_list`, `done_list`, a free flag per element, `ready_sem`, the storage, `started` | REQBUFS, QBUF, DQBUF, STREAMON, STREAMOFF, RESTART | every buffer has one owner, none is lost, the semaphore counts finished buffers, the order is the order of QBUF |
| Common capture device (`device/esp_video_device_common.c`) | `cam_ctrl_handle`, `cam_ctlr_mutex`, `backup_element`, `skip_count` | start, stop, restart, the driver callbacks `on_get_new_trans` and `on_trans_finished` | the controller only writes into buffers that exist and are its own |
| Device object (`esp_video.c`, `esp_video_vfs.c`) | `s_video_list`, `reference`, `inited`, `mutex` | create, open, close, destroy | count, object and hardware agree |
| Events (`esp_video.c`, `esp_video_device_common.c`) | `event_queue`, `event_sub`, `event_callback`, the sequence number | subscribe, unsubscribe, set callback, DQEVENT, the error interrupt | in order, none repeated; a disabled interrupt is reported; the queue outlives the interrupt |
| DVP controller driver (`esp_cam_ctlr_dvp_cam.c`) | `dvp_fsm`, `event_queue`, the DMA ring, the transfer | two interrupts, `dvp_task`, start, stop, delete | a delivered frame is one whole frame; a deleted controller is quiet |
| SPI controller driver (`esp_cam_ctlr_spi_cam.c`, `spi_slave.c`) | `spi_trans`, `setup_ll_buffer`, `dropped_frame_count`, the slave's queue, the message and decode queues, `spi_cam_fsm` | new, enable, start, stop, disable, delete, the transaction interrupts, the message task, the decode task | no buffer leaves circulation, only whole images are reported, no queue overflows |
| Memory-to-memory streams and codecs (`esp_video.c`, `device/*h264*`, `*jpeg*`) | two streams in step | QBUF on either side, process | pairs move together |
| ISP device (`esp_video_isp_device.c`) | `stats_buffer`, `capture_meta`, the blocks that are started | the statistics interrupts, start and stop of the blocks, the metadata stream | a buffer is complete and of one moment; the open buffer belongs to the interrupt alone |
| ISP pipeline (`esp_video_isp_pipeline.c`) | `s_esp_video_isp`, `s_isp_lock`, `isp_stats_queue` | init, deinit, `isp_task`, start, stop and use of the dump | the task and the receivers of dumps outlive nothing they use |
| USB UVC device (`esp_video_usb_uvc_device.c`) | `dev_addr`, `stream_hdl`, `priv_data` of the elements | start, stop, notify, frame and plug callbacks | every frame has one owner and goes back to an open stream |
| Initialisation (`esp_video_init.c`) | `s_video_device_inited_flags`, `s_i2c_dev`, `s_spi_dev`, which devices exist | init and deinit with flags | a failure leaves nothing behind, and no camera loses what it stands on |
| Sensors, motors, SCCB, controls, mmap, IPA | none of their own, or register tables | dispatch | not modelled |

The parts interact by calls (ioctl through the ops table to the device hooks to the
controller driver), by callbacks from interrupts or from a driver task into the stream
(`on_get_new_trans`, `on_trans_finished`, `on_error`, `uvc_frame_callback`, `isp_stats_done`),
and by shared memory: the element lists under the spinlock `stream_lock`, and flags such as
`started`, `capture_meta` and `setup_ll_buffer`, read without a lock.

What is hard: callbacks between any two steps of an ioctl; `started` tested before a mutex is
taken; lists emptied without their lock; a stop that fails half way; RESTART, which puts a
buffer back behind the driver's back; the interrupt and the close that race for the event
queue; `dvp_task`, which may start a capture after the stop; one SPI transaction descriptor
written by a task and an interrupt; a USB frame stored after its buffer is handed over; a
pipeline whose task is deleted after a fixed delay; and a set-up of many devices any step of
which may fail. `PROJECT.json` lists each hazard with its line and the properties that would
see it.

## 2. Modules

**VideoStream** is the bookkeeping of `struct esp_video_stream`: the two lists, the free
flags, the semaphore and the storage, with one operator per function (`QueueElement`,
`GetQueuedElement`, `DoneElement`, `SkipBuffer`, `GetDoneElement`, `SetupBuffer` and so on).

**CaptureStream** puts it into the program: tasks that call ioctls, tasks that react to
events with RESTART, and the interrupt (or driver task) that calls the two callbacks.
An action is one critical section, one callback step or one unlocked assignment: STREAMOFF is
`StreamOff`, `StreamOffController`, `StreamOffDrain`, `StreamOffLists`, `StreamOffReset`,
`StreamOffDone`, because the code takes no lock between them; the semaphore is given after
`stream_lock` is left, so `IsrDone` and `IsrGive` are two steps. Two orders of the callbacks
exist: the CSI driver asks for the next buffer before it reports the finished one
(`IsrGetFirst`), DVP and SPI after it (`IsrFinishFirst`). A device that keeps a backup element
(`UseBackup`) never runs out of buffers: it fills the backup again and drops that frame.

**BufferFifo** is what a stream promises: buffers come out in the order they went in, and turning the
stream off forgets all of them. `CaptureStream` implements it, checked as `FifoSpec`.

**VideoDevice** is the object around one stream of a CSI device: `Create`, `Destroy`, open
and close in their critical sections under `video->mutex`, and events. Its stream operations are
single steps, as `CaptureStream` details them; `allocated`, `started` and `ctlr` are all that
events and close need of a stream. `fds` counts descriptors in the VFS, which frees a descriptor
whatever `esp_video_close` returns: `lost` counts those whose close failed. The listener is the
task of `example_video_event.c`: it waits in DQEVENT, restarts the stream, and leaves
on the UNSUBSCRIBED event.

**DvpController** is the driver below the stream: the two interrupts post to the event queue
and lose what does not fit, `dvp_task` copies halves of the DMA ring into the transfer, and
another task starts, stops and deletes the controller at any point of it. The DMA ring holds
the frame and half last written into each of its two halves, so a copy taken too early, too
late or from the wrong half is seen. `CaptureStream`'s `HaltDriver` is `vTaskDelete` in it.

**SpiController** is the driver for cameras on SPI, on both interfaces. On "spi" the slave
driver's interrupt reports the packet (`Packet`, which is `spi_cam_receive_done`), sets up the
next transaction (`IsrNext`) and starts it (`IsrFetch`); on "parlio" it posts (`IsrPost`) to a
task that does (`MessageTask`). `SetupTransBuffer` and `ReceiveDone` are the functions of those
names, with the spare frame, the one-line buffer `spi_ll_buffer` and the dropped packets. The
decode task takes packets from a queue (`DecodeTake`, `DecodeReport`, `DecodeReject`). The
slave has no stop: the interrupt goes on after `Stop`. `image` and `settled` are history: which
buffers hold an image received whole.

**UvcStream** is the USB camera: the frames the host library fills have the index of their
element, `empty` are those the library has, and an element is in `priv_data` when its pointer
names its frame. The frame callback is `FrameDone`, `FrameGive`, `FrameStore`, because the frame
is stored after the element is in the done list and the semaphore given. QBUF is four steps:
it queues, takes an element (perhaps another task's), reads `priv_data` outside the lock and
returns the frame. `uvc_video_stop` returns the done frames one by one. `plugged`, `gone` and
`dev_addr` are what is on the bus, what the device has still to hear of, and what it believes.

**IspStats** is the statistics stream together with its consumer. The interrupt is
`IsrTest` (`capture_meta`, read without the lock), `IsrTake`, `IsrFill` and `IsrGive`; `content` is what each block
reported into the open buffer, as the age of its frame. `CameraOn`, `CameraOff`, `Toggle` and
`AppControl` start and stop the blocks. The pipeline's task is `TaskTake`, `TaskPop`,
`TaskSend`, `TaskQbuf`, `TaskProcess`, `TaskConfig`; init and deinit are a step per lock or
stream operation they cross; `dump_stats` leaves the lock while it waits.

**VideoInit** is one call of `esp_video_init_with_flags` or `esp_video_deinit_with_flags` at a
time: `todo` is what it has still to look at, in the code's order and with the detection array in its
place; `Due` is the test of both sets of flags for one device, and `Skip` passes over what is not
to be done. `at` is the step for the camera it is at (bus, SCCB handle, clock, sensor, device), with
the failure and the unwinding of each. `flags` is `s_video_device_inited_flags`; the rest is
what exists on the board.

**M2MStream** is a memory-to-memory device: both streams of one video object and the H.264
session. No task belongs to the codec: DQBUF on CAPTURE takes a pair, codes it, and waits, in the steps
`GetM2mQueuedElements`, `M2mProcess`, `DoneM2mElements`, `GiveOutput`, `GiveCapture`,
`DqbufTake`, `DqbufPop`; any number of tasks may be at any of them. STREAMON, STREAMOFF and
REQBUFS are single steps. `origin` and `owed` are history: which frame a CAPTURE buffer
holds, and which frames the application has had from one stream only.

The `MC` modules only declare model values and, for SPI and initialisation, the configurations
and the board.

### Assumptions about the application and what is outside

The framework leaves a protocol to its application; the models name what they assume.

* CaptureStream: REQBUFS and STREAMON when every application task is idle and no RESTART is
  under way (`MayControl`); QBUF and DQBUF not during STREAMON or STREAMOFF (`MayTransfer`);
  STREAMOFF when every other application task is idle (`MayStop`); RESTART not during these
  controls (`MayRestart`). STREAMON of a device with a backup element only when a buffer is queued, unless the
  element is not stale (`MayStart`): `esp_video_start_capture` does not test it. `Careless` is the set of rules the
  application breaks, empty in the passing runs; section 6 says what happens with `{"streamon"}`,
  `{"restart"}` or `{"streamoff"}`.
* VideoDevice: open and close do not overlap init and deinit (`Quiet`), control calls do not
  overlap a close (`MayControl`), a listener runs for as long as the application is subscribed,
  and a sensor that was deleted is not used further.
* DvpController: with `MayBeLate = FALSE`, `dvp_task` (priority `configMAX_PRIORITIES - 2`) has
  handled all events before the next half of the ring is full.
* SpiController: `Reusable = FALSE`, because the video device deletes a controller it stops. The code sends the exit
  message and deletes the queues without waiting for an answer (`esp_cam_ctlr_spi_cam.c:554`), so this is assumed:
  `Del` comes when the interrupt is between two packets and the message task at rest; a sensor's first packet of a session
  may be no image, for which the driver drops at least one (`DropFrames`).
* UvcStream: the USB host library calls back from one task, its stop is synchronous and may fail
  (`StreamOffHostFails`: the stream stays on), and it
  refuses to close a stream while a frame is outside. The application queues every buffer
  before STREAMON and only buffers it owns. `preempts` says whether its tasks may run inside a callback:
  with `{TRUE, FALSE}` the run covers both, and the parts of a property that need the slower
  application say `~preempts`.
* IspStats: `Reinit = FALSE`, because `esp_video_init` creates the device before it sets up the
  pipeline; the delay before `vTaskDelete` is long enough for the task to reach a call that blocks; the
  algorithms are external and may turn a block on or off; AE and histogram are the blocks a buffer never lacks.
  One optional block is enough for the properties, but not for every statement about them (section 4).
* VideoInit: calls are serialised by `s_init_lock`, opens and closes happen between calls, and, while
  `Careless = {}`, a deinitialisation is of everything and nothing is open. The clock pin is configured for SPI,
  the motor is on the bus of the CSI camera, deleting a sensor or an SCCB handle does not fail.
* M2MStream: no control call while a DQBUF is under way (`MayControl`); QBUF only of buffers the
  application owns; both streams have buffers when one is turned off; the buffers of one stream are
  requested again only when no frame waits in the other (`Settled`), since the frames there would lose
  their counterpart.

Controls that only forward to the sensor and formats are left out, and a stream has buffers
when it is turned on.

## 3. Runs

| Run | What it asks | Bounds |
|---|---|---|
| CaptureBackup | the device with a backup element: all list, semaphore, ownership and FIFO properties | 4 buffers, 2 application and 2 restarting tasks, failing allocation, stop, restart |
| CapturePlain | the device without it, with skipped frames: in-place processing happens once a frame | 3 buffers, 1 application task, none that restarts, 3 skipped frames, failing allocation, start, stop |
| CaptureLive | every control call returns, a waiting DQBUF is served | 3 buffers, 1 application and 2 restarting tasks, 2 skipped frames, failing allocation, start, stop, restart |
| DeviceSession | references, hardware, events, and that open, close and the listener end | 2 tasks, 2 descriptors, queue of 2, 3 errors per subscription, every fault |
| DvpFrames | whole frames, progress, and a quiet deletion | 3 halves a frame, queue of 3 |
| M2MPairs | pairs and semaphores of an H.264 device, and that DQBUF on CAPTURE returns | 2 tasks in DQBUF, 2 buffers a stream, failing allocation, start, stop |
| SpiFrames | circulation, whole images, queues, progress | 3 buffers, 1 dropped packet, all eight configurations |
| UvcFrames | ownership of frames, returns to an open stream, and that the stream can be turned off | 2 tasks, 2 buffers, 2 bus addresses, tasks that preempt the callback and tasks that do not |
| IspPipeline | the open buffer, complete statistics, deinitialisation, progress | 2 blocks always, 1 optional, 2 buffers, dump queue of 1, 2 receivers |
| InitCalls | what a camera stands on, exact resources, complete deinitialisation | ISP, UVC, H.264, the three cameras and a motor; 5 linked sensor drivers, two cameras on one bus; any step fails |
| CapturePlainRestart, InitSubset | violations, see section 6 | as CapturePlain with a restarting task; as InitCalls |

Why these are enough: a backup element, one element at the driver, one done and one queued need
four buffers. Two tasks are needed to overlap two calls, and all rules are
about pairs. An event queue of two places with three errors is full, evicts and drops. Three halves a frame
use both halves of the ring and one of them twice; two and four halves were tried as well.
With two tasks and two buffers a stream, two pairs are coded at once and one stream runs
ahead of the other by two frames. With three SPI buffers one is received into, one decoded and one with the
layer above. Two USB addresses tell a camera that came back from the one that left. Two blocks that are always on and
one that is not are the three kinds of report `isp_stats_done` tells apart (first, further, last), and two
receivers fill a queue of one. Two cameras on one bus and one alone cover a bus that may and may not be
deleted, and two drivers for one port a sensor that is tried after another failed or succeeded.
Buffers are not symmetric, since lists order them.

### Fairness

A call that has begun is weakly fair in each of its steps, because a FreeRTOS task that is
ready runs; nothing forces an application to begin a call. A task waiting for a
mutex, and a stop waiting for the driver to be between two callbacks, is strongly fair: the
mutex passes to a waiter, and a spinlock is released after a bounded time. The interrupts are
weakly fair while the controller runs, and so are the driver tasks. The sensor goes on
sending. `FramesDelivered` asks for delivery only if transfers are offered for ever, and
`StatsKeepComing` for statistics only while the blocks are left alone. An application that wants a USB
stream off gives back its buffers and calls STREAMOFF again while it fails (`StreamStops`, if the camera is
plugged in for good at last); the library's stop may fail often, but not every time (strong fairness of
`StreamOffHost`); the steps of its calls are strongly fair, because they wait while a callback
runs that they do not preempt. VideoInit has no
fairness: `DeinitCompletes` is about what a call that returns has done.

### Properties

`TypeOK` bounds every variable. It is a theorem of every component; that of
SpiController is part of a proved invariant. The others:

* `FreeFlagSound`: a buffer is in at most one list, once, and its flag says so.
* `ExclusiveOwnership`: application, lists and controller never share a buffer, apart from the
  backup element being filled again.
* `NoBufferLost`: every buffer is somewhere. `SemAccounting`: the semaphore is the number of
  finished buffers, less what is on its way. `ReservedForDriver`: with a backup element the controller
  always fills that element, which is in the storage, in no list and not the application's; true of an application
  that obeys `MayStart`. `ReprocessedOnce`: in-place processing sees every delivered frame once.
* `StorageOutlivesController`: storage is freed only when no controller can write into it.
* `FifoSpec`. `ControlReturns`: STREAMON, STREAMOFF and RESTART return whatever fails in them. `WaiterServed`: a task
  waiting in DQBUF is served, if the controller runs for good at last and is given buffers.
* `HardwareExact`: every descriptor leads to an object that counts it, and the hardware is on exactly while the
  object is open. `IsrQueueAlive`: the interrupt finds the event queue. `EventsExact`: events come in order, none
  twice, and a disabled interrupt is reported. `ListenerReleased`, `CallsReturn`.
* `FrameIntact` of DvpController, `DeletedIsQuiet`, `FramesDelivered`.
* `EachBufferOnce`, `FrameIntact`, `QueuesHaveRoom`, `FramesDelivered` of SpiController: circulation; what is
  reported is an image received whole; no queue is full when something is sent to it; frames keep coming.
* `FramesAccounted`: a USB frame is with the library, the application, one list or the one task that returns it, and
  none of an open stream is lost. `ReturnsToOpenStream`, although `priv_data` outlives its frame. `StreamStops`.
* `StatsAdjacent`: a buffer handed out has every part that is needed, and those always needed are of the same frame
  or the one before; the part of a block that was stopped meanwhile may be older. `OpenBufferExclusive`,
  `DeletesOnlyUnused`, `StatsKeepComing`.
* `SensorsSupported`: what another camera's failure takes down is not what a living sensor stands on.
  `ResourcesExact`: between calls there is nothing that the flags do not account for. `DeinitCompletes`.
* `EveryBufferOnce`: each memory-to-memory buffer is in one place, with any number of tasks coding.
* `CaptureNeverWaits`, `CaptureReturns`: the semaphores are exact, and DQBUF on CAPTURE takes the unit it gave,
  or another one, without blocking.
* `PairsMatch`: the two streams return the same frames in the same order. `EncoderExact` (proved only): an
  encoder exists exactly while CAPTURE is on.

Each property of a passing run has a mutant of the code's model that it rejects (`PROJECT.json`, "mutants").

## 4. Proofs

TLAPS checks all of the following, for every value of the constants that the modules' named
assumptions allow: any number of tasks, buffers, descriptors, blocks and queue places. The invariants were
tried with TLC on the component's run first. The assumptions are what the code gives: sets of tasks are finite where
their members are counted, and the statistics stream has room for more than one buffer (it requests two).

Every safety property of section 3, invariant or action property, is a theorem. The lemmas about what the
critical sections of VideoStream do to the lists (`QueueElementSound` and its like) stand at the head of
CaptureStreamProofs; UvcStreamProofs and IspStatsProofs have their own copy of those they use.

**CaptureStreamProofs**. The invariant is built in layers, each
inductive relative to the ones before: `TypeOK`; `Discipline`, where the calls of the application can
be; `MutexHeld`, who holds `cam_ctlr_mutex` and at which step; `Controller`, in which of these steps a
controller exists and a callback can run; `Places`, the lists, flags and owners. The layers are needed because
a buffer's owner depends on whether a callback can still run, which depends on the step of the task that stops the
controller. `Places` has two parts for the backup element: `Backup`, that while the stream is on it is in
the storage and nobody else's, and `Startable`, that a STREAMON on its way has a queued buffer or such an element to
start with, which `MayStart` provides and the code does not. From these follow `TypeCorrect`, `FreeFlags`, `Ownership`,
`Reserved` and `StorageSafe`; and with one more layer each:

* `Accounted` (`SemAccounting`), from `Wakeups`: the semaphore counts the done list at every step but between the two
  unlocked steps of STREAMOFF that empty them, and a stream with buffers has a semaphore. That the semaphore never
  meets its limit, where a give would be lost, is a pigeonhole argument: the done list has distinct elements of
  the storage (`DoneListBounded`).
* `HookOnce` (`ReprocessedOnce`), from `Fresh`: no frame in the done list has been through the hook, except the first
  one while its task is about to take it.
* `NothingLost` (`NoBufferLost`), from `Kept`: what is in no list and not with the controller is what `backup_element` names.
* `ImplementsFifo` (`FifoSpec`): every step is a step of BufferFifo or leaves it alone. The buffers of the
  abstract queue are `Finished \o Unfilled`; there is one lemma for each kind of step: QBUF appends,
  DQBUF takes the first, STREAMOFF forgets, finishing a frame moves the border between the two.

All but `TypeCorrect` assume `Careless = {}`, so that ioctls do not overlap and a buffer is queued before STREAMON, and all that speak of buffers `UseBackup \/ EventTasks = {}`: without
these they are false (section 6). `NothingLost` and `ImplementsFifo` assume that no start fails, `HookOnce` that one
task dequeues, and `ImplementsFifo` that no frames are skipped, which puts a filled buffer back at the end.

**UvcStreamProofs**: `TypeCorrect`; `Accounted` (`FramesAccounted`) and `ReturnsOpen` (`ReturnsToOpenStream`), whether
the tasks preempt the callback or not. `Session` says what the step of a call tells about the library's stream, and
`Owners` who has a frame. The link between them is that the queue is as long as there are tasks that have queued and
not yet taken an element: it is empty when STREAMON lends all frames, and each of these tasks finds one.

**VideoDeviceProofs**: `TypeCorrect`, `HardwareCounted` (`HardwareExact`), `QueueAlive` (`IsrQueueAlive`),
`EventsOrdered` (`EventsExact`). `Calls` says which calls exclude each other and who holds the mutex; `Counts`
that the reference count is the descriptors, the lost ones and the calls on their way; `Hardware` what the count says
of the power at each half of an open and close; `Subscription` that a controller which reports errors was started by a
subscriber whose queue lives on; `Sequences` that no event is newer than the last number given.

**IspStatsProofs**, if the pipeline is set up once per device (`~Reinit`, section 6): `TypeCorrect`, `BufferExclusive`
(`OpenBufferExclusive`), `DeletedUnused` (`DeletesOnlyUnused`), `PartsAdjacent` (`StatsAdjacent`). STREAMOFF empties the
lists without the lock and leaves the open buffer open, so the free flags say nothing while it
runs; `Ownership` is about where each element is instead. `PartsAdjacent` needs `Parts`: what a block that is always needed has written into the open
buffer is of this frame, or of the one before only while its report of this frame is still to come.
It does not extend to the part of an optional block: with two of those (more than the run has) one that is
stopped between two frames leaves a part that is older.

**DvpControllerProofs**: `TypeCorrect`; `DeletionQuiet`, from `Tasked`: `dvp_task` exists
exactly while its deletion has not begun, so that nothing undoes what the deletion stops; and `FramesWhole`, that
`FrameIntact` holds for every frame of at least two halves and queue of at least two places when `dvp_task`
keeps up. Its invariant `Assembly` says at each step of `dvp_task` which part of the frame is
copied, which is in the ring and which event is queued. It has to cover the captures
that start and stop around a `dvp_cam_ctlr_stop`: there the transfer is empty
and the size test drops it, which is why a frame of one half is excluded (section 6).

**M2MStreamProofs**: `TypeCorrect`; `BuffersPlaced`, that `EveryBufferOnce` holds; `EncoderOwned`;
`FramesPaired`, that `PairsMatch` holds; `NeverWaits`, that `CaptureNeverWaits` holds. `BuffersPlaced` is inductive as
it stands given the types. `PairsMatch` also needs `Coded`: a task past the codec has the frame of its own OUTPUT
buffer in its CAPTURE buffer, which lasts because no other task holds that CAPTURE buffer. The
frames of both done lists grow by the same frame at once, and a frame taken from one side
is either the oldest debt of that side or a new one of the other. `NeverWaits` counts: a task joins those that
wait on CAPTURE in the step that gives a unit, and leaves them with one, so the units suffice for all of them, whoever
takes which; no unit is lost since the done list is no longer than there are buffers.

**SpiControllerProofs**: `Intact`, `BufferOnce` and `Room`, that `FrameIntact`, `EachBufferOnce` and `QueuesHaveRoom`
hold for every number of buffers and dropped packets and every configuration, if `~Reusable`. The invariant has
six parts. `Life`: before the first start and after deletion nothing is under way. `Wired`: there is one
transaction, in the queue, the hardware, the interrupt or the message queue, and `spi_trans` names the buffer
of the one in the hardware; it is inductive only because a life has one start. `Apart` and `Kept`: a buffer is in one place, and until
the controller stops in at least one. `Images`: what is on its way up is an image. `Room` also needs that the buffers in
the decode queue are distinct, which bounds its length by their number.

**VideoInitProofs**, for every set of configured devices, every detection array and every assignment of I2C ports:
`TypeCorrect`, whatever the application does; `Supported` (`SensorsSupported`), if it is careful (`Careless = {}`,
section 6), for one and for two SPI devices, and then also `NothingElseOn` (`BoardExact`, proved only), that between
calls nothing is on but what the existing devices stand on; `Exact` (`ResourcesExact`) and `Completes`
(`DeinitCompletes`), if it is careful and there is one SPI device (section 6). None is inductive, since they speak of the time between calls. The invariant
says of each camera that exists, and of the one at hand by the step it is at, that it has its sensor, handle, clock and bus
and that nothing else is there (`SensorsKept`, `HandlesKept`, `ClocksKept`, `BusesKept`). Two parts carry it through failures:
`BusNew`, that `i2c_initialized` is set exactly when no other camera is on the bus, so that closing it takes it
from nobody and leaving it leaves none behind; and `Unwinding`, that a deinitialisation has all that is left to destroy ahead of
it, and the CSI device before the ISP. The last is why nothing is refused: when the ISP's turn comes, the
pipeline that has it open is gone. `Finishing` adds that the flags are what exists, which two SPI devices break.

Only model-checked:

* Liveness, which is out of the prover's reach as is ENABLED: `ControlReturns`, `WaiterServed`, `CallsReturn`,
  `ListenerReleased`, `CaptureReturns`, `StreamStops`, `StatsKeepComing` and `FramesDelivered`.

## 5. Left out

* USERPTR buffers, formats, controls, pixel data: they do not change who owns a buffer.
* JPEG frames over DVP, whose size is found by searching the data.
* `esp_video_skip_buffer` of an element of freed storage: the code would follow a null pointer;
  the model leaves the state alone. with a backup element it does not happen as long as a buffer is queued
  before STREAMON (`Reserved`).
* The branch of the error interrupt that enables it again (`esp_video_device_common.c:233`):
  it follows a failed send to a queue in which a place was just made.
* A failed STREAMON keeps the element it took for the first transfer until the next STREAMOFF;
  `NoBufferLost` is therefore stated of runs where starts do not fail.
* `esp_video_queue_m2m_elements`, which no device calls; open and close of a memory-to-memory device,
  which VideoDevice has for one stream; what the codec does to pixels. Two tasks that dequeue the same stream
  may hand its frames on in any order: `PairsMatch` is about the order in which the code gives them out.
* SPI: `spi_cam_get_internal_buffer`, buffers that are too short, `bk_buffer_dis` together with a spare frame, failing
  calls of the bus drivers and a start that fails; what the decoder does.
* UVC: which camera is assigned to which device, and formats. The host library is modelled as the device uses it.
* ISP: the numbers in the statistics, the registers the controls write, the algorithms.
* Initialisation: the task of the USB host library, and deletions that fail.
* Sensors, motors, the SCCB bus, camera controls and mmap keep no state beyond registers; the image
  processing library is binary. Most of the repository's lines are register tables, format tables and headers
  of that kind, on which there is nothing to check.

## 6. Where code and documentation differ

Two runs show a disagreement:

1. **CapturePlainRestart.** RESTART puts back `backup_element`, which without a backup mode may belong to the application.
2. **InitSubset.** `esp_video_deinit_with_flags` takes any combination of flags, but always deletes every I2C bus and
   stops every SPI clock: the cameras that stay lose theirs.

Others appear when a constant is changed; the violated property is given.

* CaptureStream, `Careless = {"streamon"}` (1 application task, 2 buffers, `UseBackup`): STREAMOFF leaves
  `backup_element` set (`esp_video_device_common.c:423`) and STREAMON does not look at the queue (`esp_video.c:667`). With
  QBUF, STREAMON, STREAMOFF, STREAMON `on_get_new_trans` offers the element of the session before
  (`esp_video_device_common.c:165`) and the controller fills a buffer that the application owns, after a REQBUFS in between
  one that was freed (`ReservedForDriver`, the theorem `Reserved` as well). `Kconfig:71` promises that one buffer is always
  reserved for the driver, and asks of the application only (line 81) that there be more than one.
* CaptureStream, `Careless = {"restart"}` (1 application task, 1 restarting, `UseBackup`): RESTART tests `started` before it takes the
  mutex; behind a STREAMOFF it starts the controller again on a stopped stream (`StorageOutlivesController`).
* CaptureStream, `Careless = {"streamoff"}` (2 application tasks): STREAMOFF empties lists and flags without
  `stream_lock`; a QBUF in between leaves a queued buffer marked free (`FreeFlagSound`).
* CaptureStream as in CapturePlain with 2 application tasks: the hook of DQBUF processes one frame twice (`ReprocessedOnce`).
* DvpController, `MayBeLate = TRUE`: at the V-sync `dvp_task` counts a last half whether it came or not, so a capture
  that began one half late is delivered as a complete frame. With `Halves = 1` the same test lets
  through a frame after a stop that interrupts the start of its capture (`FrameIntact`).
* SpiController, `Reusable = TRUE`: the slave receives after the stop, and the second start queues a second
  transaction: the assertion in the interrupt fails (`QueuesHaveRoom`).
* UvcStream, `Preempting = {TRUE}`: a task that takes and queues the buffer before the callback has stored
  its frame leaves the frame outside, and the stream cannot be closed (`CloseAfterFree`, which holds with `{FALSE}`).
* IspStats, `Reinit = TRUE`: STREAMOFF leaves `stats_buffer` pointing at its buffer, and the interrupt fills
  it after the storage was freed (`OpenBufferExclusive`).
* VideoInit, `SpiNum = 2`: `destroy_spi_video_device` returns the error of looking up the second device, which no
  code creates: every deinitialisation of an SPI camera fails and leaves what follows it (`DeinitCompletes`).
* VideoInit, `Careless = {"open"}`: a deinitialisation refused because the device is open has already deleted its
  sensor (`ResourcesExact`).

Two observations without a property: the last close frees the buffers but leaves the camera controller running, and
an initialisation that fails deinitialises the devices of earlier calls too.

## 7. What is left

1. The composition of a controller driver with `CaptureStream`, which has the drivers' order of callbacks already.
2. A queue that loses nothing although starts fail or frames are skipped: both put buffers where BufferFifo has no place
   for them, and an abstract specification with such a place would be the way to say what is kept.
