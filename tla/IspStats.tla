------------------------------- MODULE IspStats -------------------------------
(***************************************************************************)
(* The statistics of the image signal processor: the interrupt of the ISP    *)
(* device that gathers what each block reports into one buffer               *)
(* (esp_video_isp_device.c), the device's metadata stream, and the pipeline  *)
(* (esp_video_isp_pipeline.c), whose task hands the statistics to the        *)
(* algorithms and to an application that dumps them.                         *)
(*                                                                          *)
(* The pipeline's calls hold s_isp_lock, the device's calls its mutex; the   *)
(* interrupt takes neither.  The algorithms are not modelled: they may turn  *)
(* a block on or off, as an application may.                                 *)
(***************************************************************************)
EXTENDS VideoStream, FiniteSets

CONSTANTS
    Always,             \* ISP_STATS_FLAGS: a buffer is not complete without these
    Optional,           \* blocks a buffer needs only while they are started
    QueueSize,          \* the size of the dump queue
    Receivers,          \* tasks that call esp_video_isp_pipeline_dump_stats
    Reinit              \* the pipeline may be set up again on a device that is kept

ASSUME IspAssumption ==
    /\ IsFiniteSet(Always) /\ Cardinality(Always) > 1
    /\ IsFiniteSet(Optional) /\ Always \cap Optional = {}
    /\ MaxCount > 1            \* the storage of ISP_METADATA_BUFFER_COUNT buffers
    /\ QueueSize \in Nat \ {0}
    /\ Reinit \in BOOLEAN

VARIABLES
    capture_meta, stats_buffer,
    content,            \* per block, what the open buffer holds: None, or how many frames old it is
    running,            \* the blocks that are started
    pending,            \* the blocks that have not reported the current frame yet
    isr, block,         \* the step of the interrupt, and the block that raised it
    mutex,              \* isp_video->mutex: is it held by the pipeline's task?
    lock,               \* s_isp_lock is held for a call that takes several steps
    isp,                \* s_esp_video_isp is set
    ctl,                \* the step of esp_video_isp_pipeline_init or _deinit
    task, task_buf,     \* the step of isp_task, and the buffer it dequeued
    isp_stats_queue,    \* the number of statistics in the queue, NULL when there is none
    isp_stats_queue_is_receiving,
    receiver,           \* per receiver, the step of its call
    fresh               \* the device was created after the pipeline was last set up

Blocks == Always \cup Optional

None     == -1
Dangling == -2          \* a pointer into storage that has been freed
Count    == 2           \* ISP_METADATA_BUFFER_COUNT

deviceVars   == <<capture_meta, stats_buffer, content>>
blockVars    == <<running, pending>>
isrVars      == <<isr, block>>
taskVars     == <<task, task_buf>>
dumpVars     == <<isp_stats_queue, isp_stats_queue_is_receiving, receiver>>
pipelineVars == <<lock, isp, ctl, fresh>>
vars == <<streamVars, deviceVars, blockVars, isrVars, mutex, pipelineVars, taskVars, dumpVars>>

TypeOK ==
    /\ StreamTypeOK
    /\ capture_meta \in BOOLEAN
    /\ stats_buffer \in Elements \cup {NULL, Dangling}
    /\ content \in [Blocks -> {None} \cup 0 .. 2]
    /\ running \in SUBSET Blocks /\ pending \in SUBSET Blocks
    /\ isr \in {"idle", "fill", "give"} /\ block \in Blocks \cup {NULL}
    /\ mutex \in BOOLEAN /\ lock \in BOOLEAN /\ isp \in BOOLEAN /\ fresh \in BOOLEAN
    /\ ctl \in {"idle", "i_on", "i_task", "d_off", "d_drain", "d_lists", "d_reset", "d_task",
                "d_close"}
    /\ task \in {"none", "dqbuf", "took", "got", "qbuf", "process", "config"}
    /\ task_buf \in Elements \cup {NULL}
    /\ isp_stats_queue \in {NULL} \cup 0 .. QueueSize
    /\ isp_stats_queue_is_receiving \in BOOLEAN
    /\ receiver \in [Receivers -> {"idle", "receive", "return"}]

Empty == [b \in Blocks |-> None]

Init ==
    /\ StreamInit
    /\ capture_meta = FALSE
    /\ stats_buffer = NULL
    /\ content = Empty
    /\ running = {} /\ pending = {}
    /\ isr = "idle" /\ block = NULL
    /\ mutex = FALSE
    /\ lock = FALSE /\ isp = FALSE /\ ctl = "idle" /\ fresh = TRUE
    /\ task = "none" /\ task_buf = NULL
    /\ isp_stats_queue = NULL
    /\ isp_stats_queue_is_receiving = FALSE
    /\ receiver = [r \in Receivers |-> "idle"]

-------------------------------------------------------------------------------
(* The hardware: every started block reports once per frame, in any order. *)

\* One more frame was reported since the statistics in the open buffer were written.
Older(c) == [b \in Blocks |-> IF c[b] \in {0, 1} THEN c[b] + 1 ELSE c[b]]

FrameEnd ==
    /\ running # {} /\ pending = {} /\ isr = "idle"
    /\ pending' = running
    /\ content' = IF stats_buffer \in Elements THEN Older(content) ELSE content
    /\ UNCHANGED <<streamVars, capture_meta, stats_buffer, running, isrVars, mutex,
                   pipelineVars, taskVars, dumpVars>>

\* isp_stats_done reads capture_meta outside its spinlock.
IsrTest(b) ==
    /\ isr = "idle"
    /\ b \in pending
    /\ pending' = pending \ {b}
    /\ IF capture_meta THEN isr' = "fill" /\ block' = b ELSE UNCHANGED isrVars
    /\ UNCHANGED <<streamVars, deviceVars, running, mutex, pipelineVars, taskVars, dumpVars>>

Idle == isr' = "idle" /\ block' = NULL

FirstQueued == IF queued_list = <<>> THEN NULL ELSE Head(queued_list)
FirstDone   == IF done_list = <<>> THEN NULL ELSE Head(done_list)

\* Without an open buffer a queued one is opened.  One report never completes it.
IsrTake ==
    /\ isr = "fill"
    /\ stats_buffer = NULL
    /\ GetQueuedElement
    /\ stats_buffer' = FirstQueued
    /\ content' = IF FirstQueued = NULL THEN content ELSE [Empty EXCEPT ![block] = 0]
    /\ Idle
    /\ UNCHANGED <<started, memoryVars, ready_sem, capture_meta, blockVars, mutex,
                   pipelineVars, taskVars, dumpVars>>

Filled == [content EXCEPT ![block] = 0]

\* Mutant: only the blocks that are optional are waited for.
CompleteOptional == \A b \in running \ Always : Filled[b] # None

\* target_flags: a started block is waited for even if it was started just now.
Complete == \A b \in Always \cup running : Filled[b] # None

\* Mutant: the buffer stays open after it was handed over.
IsrFillKeeps ==
    /\ isr = "fill"
    /\ stats_buffer \in Elements
    /\ content' = Filled
    /\ IF Complete
       THEN /\ DoneElement(stats_buffer)
            /\ IF Accepted(stats_buffer) THEN isr' = "give" /\ block' = NULL ELSE Idle
       ELSE UNCHANGED listVars /\ Idle
    /\ UNCHANGED <<started, memoryVars, ready_sem, capture_meta, stats_buffer, blockVars,
                   mutex, pipelineVars, taskVars, dumpVars>>

\* The report goes into the open buffer, which is handed over when it is complete.  There is
\* no step for a buffer whose storage has been freed: OpenBufferExclusive excludes it.
IsrFill ==
    /\ isr = "fill"
    /\ stats_buffer \in Elements
    /\ content' = Filled
    /\ IF Complete
       THEN /\ DoneElement(stats_buffer)
            /\ IF Accepted(stats_buffer) THEN isr' = "give" /\ block' = NULL ELSE Idle
            /\ stats_buffer' = NULL
       ELSE UNCHANGED <<listVars, stats_buffer>> /\ Idle
    /\ UNCHANGED <<started, memoryVars, ready_sem, capture_meta, blockVars, mutex,
                   pipelineVars, taskVars, dumpVars>>

IsrGive ==
    /\ isr = "give"
    /\ GiveReady
    /\ Idle
    /\ UNCHANGED <<started, memoryVars, listVars, deviceVars, blockVars, mutex,
                   pipelineVars, taskVars, dumpVars>>

-------------------------------------------------------------------------------
(* The ISP device, under its mutex. *)

\* The camera stream starts: esp_video_isp_video_device_add_isp_proc.
CameraOn(on) ==
    /\ ~mutex
    /\ running = {}
    /\ Reinit \/ ctl \notin {"i_on", "i_task"}
    /\ running' = Always \cup on
    /\ pending' = Always \cup on
    /\ UNCHANGED <<streamVars, deviceVars, isrVars, mutex, pipelineVars, taskVars, dumpVars>>

\* It stops: esp_video_isp_video_device_remove_isp_proc.  The open buffer stays open.
CameraOff ==
    /\ ~mutex
    /\ running # {} /\ isr = "idle"
    /\ running' = {}
    /\ pending' = {}
    /\ UNCHANGED <<streamVars, deviceVars, isrVars, mutex, pipelineVars, taskVars, dumpVars>>

\* A control starts or stops an optional block while the camera runs.
Toggle(b) ==
    /\ running # {}
    /\ running' = IF b \in running THEN running \ {b} ELSE running \cup {b}
    /\ pending' = pending \cap running'

AppControl(b) ==
    /\ ~mutex
    /\ isr = "idle"
    /\ Toggle(b)
    /\ UNCHANGED <<streamVars, deviceVars, isrVars, mutex, pipelineVars, taskVars, dumpVars>>

\* The storage of the stream is freed.
Freed(p) == IF p \in Elements THEN Dangling ELSE p

\* esp_video_destroy_isp_video_device clears the structure.  The camera is gone by then.
DestroyDevice ==
    /\ ctl = "idle" /\ ~isp
    /\ running = {} /\ isr = "idle"
    /\ capture_meta' = FALSE
    /\ stats_buffer' = NULL
    /\ fresh' = TRUE
    /\ UNCHANGED <<streamVars, content, blockVars, isrVars, mutex, lock, isp, ctl, taskVars, dumpVars>>

-------------------------------------------------------------------------------
(* isp_task *)

TaskTake ==
    /\ task = "dqbuf"
    /\ TakeReady
    /\ task' = "took"
    /\ UNCHANGED <<started, memoryVars, listVars, deviceVars, blockVars, isrVars, mutex,
                   pipelineVars, task_buf, dumpVars>>

\* Finding no element is an error, and the task tries again.
TaskPop ==
    /\ task = "took"
    /\ GetDoneElement
    /\ task_buf' = FirstDone
    /\ task' = IF FirstDone = NULL THEN "dqbuf" ELSE "got"
    /\ UNCHANGED <<started, memoryVars, ready_sem, deviceVars, blockVars, isrVars, mutex,
                   pipelineVars, dumpVars>>

\* Mutant: a full queue is not respected.
TaskSendUnbounded ==
    /\ task = "got"
    /\ ~lock
    /\ isp_stats_queue' = IF isp_stats_queue = NULL THEN NULL ELSE isp_stats_queue + 1
    /\ task' = "qbuf"
    /\ UNCHANGED <<streamVars, deviceVars, blockVars, isrVars, mutex, pipelineVars, task_buf,
                   isp_stats_queue_is_receiving, receiver>>

\* isp_stats_to_queue: a full queue loses the statistics.
TaskSend ==
    /\ task = "got"
    /\ ~lock
    /\ isp_stats_queue' = IF isp_stats_queue \in {NULL, QueueSize} THEN isp_stats_queue
                          ELSE isp_stats_queue + 1
    /\ task' = "qbuf"
    /\ UNCHANGED <<streamVars, deviceVars, blockVars, isrVars, mutex, pipelineVars, task_buf,
                   isp_stats_queue_is_receiving, receiver>>

\* Mutant: the buffer is not queued again.
TaskQbufForgotten ==
    /\ task = "qbuf"
    /\ task_buf' = NULL
    /\ task' = "process"
    /\ UNCHANGED <<streamVars, deviceVars, blockVars, isrVars, mutex, pipelineVars, dumpVars>>

\* The statistics are copied for the algorithms, and the buffer is queued again.
TaskQbuf ==
    /\ task = "qbuf"
    /\ QueueElement(task_buf)
    /\ task_buf' = NULL
    /\ task' = "process"
    /\ UNCHANGED <<started, memoryVars, ready_sem, deviceVars, blockVars, isrVars, mutex,
                   pipelineVars, dumpVars>>

TaskProcessFails ==
    /\ task = "process"
    /\ task' = "dqbuf"
    /\ UNCHANGED <<streamVars, deviceVars, blockVars, isrVars, mutex, pipelineVars, task_buf,
                   dumpVars>>

\* config_isp_and_camera: what the algorithms decided is set with the device's controls.
TaskProcess ==
    /\ task = "process"
    /\ ~mutex
    /\ mutex' = TRUE
    /\ task' = "config"
    /\ UNCHANGED <<streamVars, deviceVars, blockVars, isrVars, pipelineVars, task_buf, dumpVars>>

TaskConfig ==
    /\ task = "config"
    /\ mutex' = FALSE
    /\ task' = "dqbuf"
    /\ \/ UNCHANGED blockVars
       \/ isr = "idle" /\ \E b \in Optional : Toggle(b)
    /\ UNCHANGED <<streamVars, deviceVars, isrVars, pipelineVars, task_buf, dumpVars>>

-------------------------------------------------------------------------------
(* esp_video_isp_pipeline_init and _deinit, with s_isp_lock held to the end *)

\* The device is opened, and both buffers are allocated and queued.  esp_video_init sets
\* the pipeline up on a device it has just created, before the camera can run.
InitLock ==
    /\ ctl = "idle" /\ ~lock /\ ~isp
    /\ Reinit \/ (fresh /\ running = {})
    /\ lock' = TRUE
    /\ ctl' = "i_on"
    /\ fresh' = FALSE
    /\ count' = Count
    /\ buffer' = 0 .. Count - 1
    /\ queued_list' = <<0, 1>>
    /\ done_list' = <<>>
    /\ free' = [e \in Elements |-> e \notin 0 .. Count - 1]
    /\ ready_sem' = 0
    /\ UNCHANGED <<started, deviceVars, blockVars, isrVars, mutex, isp, taskVars, dumpVars>>

\* VIDIOC_STREAMON, isp_video_start
InitOn ==
    /\ ctl = "i_on"
    /\ ~mutex
    /\ capture_meta' = TRUE
    /\ started' = TRUE
    /\ ctl' = "i_task"
    /\ UNCHANGED <<memoryVars, listVars, ready_sem, stats_buffer, content, blockVars, isrVars,
                   mutex, lock, isp, fresh, taskVars, dumpVars>>

InitTask ==
    /\ ctl = "i_task"
    /\ isp' = TRUE
    /\ task' = "dqbuf"
    /\ lock' = FALSE
    /\ ctl' = "idle"
    /\ UNCHANGED <<streamVars, deviceVars, blockVars, isrVars, mutex, fresh, task_buf, dumpVars>>

\* Closing the last descriptor frees the storage, whether the stream was on or not.
CloseDevice ==
    /\ started' = FALSE
    /\ queued_list' = <<>>
    /\ done_list' = <<>>
    /\ free' = [e \in Elements |-> TRUE]
    /\ ready_sem' = NULL
    /\ buffer' = {}
    /\ count' = 0
    /\ stats_buffer' = Freed(stats_buffer)
    /\ content' = Empty

\* The algorithms or the task cannot be set up: the device is closed without STREAMOFF.
InitFails ==
    /\ ctl = "i_task"
    /\ CloseDevice
    /\ lock' = FALSE
    /\ ctl' = "idle"
    /\ UNCHANGED <<capture_meta, blockVars, isrVars, mutex, isp, fresh, taskVars, dumpVars>>

\* Mutant: a task that receives is not waited for.
DeinitLockUntested ==
    /\ ctl = "idle" /\ ~lock /\ isp
    /\ lock' = TRUE
    /\ ctl' = "d_off"
    /\ UNCHANGED <<streamVars, deviceVars, blockVars, isrVars, mutex, isp, fresh, taskVars, dumpVars>>

\* A task that receives keeps the pipeline.
DeinitLock ==
    /\ ctl = "idle" /\ ~lock /\ isp
    /\ ~isp_stats_queue_is_receiving
    /\ lock' = TRUE
    /\ ctl' = "d_off"
    /\ UNCHANGED <<streamVars, deviceVars, blockVars, isrVars, mutex, isp, fresh, taskVars, dumpVars>>

\* VIDIOC_STREAMOFF: isp_video_stop, which leaves the open buffer open ...
DeinitOff ==
    /\ ctl = "d_off"
    /\ ~mutex
    /\ capture_meta' = FALSE
    /\ ctl' = "d_drain"
    /\ UNCHANGED <<streamVars, stats_buffer, content, blockVars, isrVars, mutex, lock, isp, fresh,
                   taskVars, dumpVars>>

\* ... and the steps of esp_video_stop_capture.
DeinitDrain ==
    /\ ctl = "d_drain"
    /\ DrainReady
    /\ ctl' = "d_lists"
    /\ UNCHANGED <<started, memoryVars, listVars, deviceVars, blockVars, isrVars, mutex, lock, isp,
                   fresh, taskVars, dumpVars>>

DeinitLists ==
    /\ ctl = "d_lists"
    /\ ResetLists
    /\ ctl' = "d_reset"
    /\ UNCHANGED <<started, memoryVars, ready_sem, deviceVars, blockVars, isrVars, mutex, lock, isp,
                   fresh, taskVars, dumpVars>>

DeinitReset ==
    /\ ctl = "d_reset"
    /\ BufferReset
    /\ started' = FALSE
    /\ ctl' = "d_task"
    /\ UNCHANGED <<memoryVars, ready_sem, deviceVars, blockVars, isrVars, mutex, lock, isp, fresh,
                   taskVars, dumpVars>>

\* The task has come to rest: it waits in DQBUF, or for s_isp_lock.
AtRest == (task = "dqbuf" /\ ready_sem = 0) \/ task = "got"

\* The delay before vTaskDelete is long enough for the interrupt to end and for the
\* task to come to rest.
DeinitTask ==
    /\ ctl = "d_task"
    /\ isr = "idle" /\ AtRest
    /\ task' = "none"
    /\ task_buf' = NULL
    /\ ctl' = "d_close"
    /\ UNCHANGED <<streamVars, deviceVars, blockVars, isrVars, mutex, lock, isp, fresh, dumpVars>>

DeinitClose ==
    /\ ctl = "d_close"
    /\ CloseDevice
    /\ isp_stats_queue' = NULL
    /\ isp' = FALSE
    /\ lock' = FALSE
    /\ ctl' = "idle"
    /\ UNCHANGED <<capture_meta, blockVars, isrVars, mutex, fresh, taskVars,
                   isp_stats_queue_is_receiving, receiver>>

-------------------------------------------------------------------------------
(* Dumping statistics *)

StartDump ==
    /\ ~lock /\ isp
    /\ isp_stats_queue = NULL
    /\ isp_stats_queue' = 0
    /\ isp_stats_queue_is_receiving' = FALSE
    /\ UNCHANGED <<streamVars, deviceVars, blockVars, isrVars, mutex, pipelineVars, taskVars, receiver>>

StopDump ==
    /\ ~lock /\ isp
    /\ isp_stats_queue # NULL
    /\ ~isp_stats_queue_is_receiving
    /\ isp_stats_queue' = NULL
    /\ UNCHANGED <<streamVars, deviceVars, blockVars, isrVars, mutex, pipelineVars, taskVars,
                   isp_stats_queue_is_receiving, receiver>>

\* esp_video_isp_pipeline_dump_stats leaves the lock to receive ...
Dump(r) ==
    /\ receiver[r] = "idle"
    /\ ~lock /\ isp
    /\ isp_stats_queue # NULL
    /\ ~isp_stats_queue_is_receiving
    /\ isp_stats_queue_is_receiving' = TRUE
    /\ receiver' = [receiver EXCEPT ![r] = "receive"]
    /\ UNCHANGED <<streamVars, deviceVars, blockVars, isrVars, mutex, pipelineVars, taskVars,
                   isp_stats_queue>>

\* ... until there is something or the time is over ...
DumpReceive(r) ==
    /\ receiver[r] = "receive"
    /\ isp_stats_queue' = IF isp_stats_queue > 0 THEN isp_stats_queue - 1 ELSE isp_stats_queue
    /\ receiver' = [receiver EXCEPT ![r] = "return"]
    /\ UNCHANGED <<streamVars, deviceVars, blockVars, isrVars, mutex, pipelineVars, taskVars,
                   isp_stats_queue_is_receiving>>

\* ... and takes it again to write into the pipeline.
DumpReturn(r) ==
    /\ receiver[r] = "return"
    /\ ~lock
    /\ isp_stats_queue_is_receiving' = FALSE
    /\ receiver' = [receiver EXCEPT ![r] = "idle"]
    /\ UNCHANGED <<streamVars, deviceVars, blockVars, isrVars, mutex, pipelineVars, taskVars,
                   isp_stats_queue>>

-------------------------------------------------------------------------------
Interrupt == (\E b \in Blocks : IsrTest(b)) \/ IsrTake \/ IsrFill \/ IsrGive

Device ==
    \/ \E on \in SUBSET Optional : CameraOn(on)
    \/ CameraOff
    \/ \E b \in Optional : AppControl(b)
    \/ DestroyDevice

Task ==
    \/ TaskTake \/ TaskPop \/ TaskSend \/ TaskQbuf
    \/ TaskProcessFails \/ TaskProcess \/ TaskConfig

Pipeline ==
    \/ InitLock \/ InitOn \/ InitTask \/ InitFails
    \/ DeinitLock \/ DeinitOff \/ DeinitDrain \/ DeinitLists \/ DeinitReset
    \/ DeinitTask \/ DeinitClose

Dumping ==
    \/ StartDump \/ StopDump
    \/ \E r \in Receivers : Dump(r) \/ DumpReceive(r) \/ DumpReturn(r)

Next == FrameEnd \/ Interrupt \/ Device \/ Task \/ Pipeline \/ Dumping

Spec == Init /\ [][Next]_vars

\* The sensor delivers frames, interrupts are served, and a task that can run runs.  A
\* task gets a lock that is free again and again.
Fairness ==
    /\ WF_vars(FrameEnd) /\ WF_vars(Interrupt)
    /\ WF_vars(TaskTake) /\ WF_vars(TaskPop) /\ SF_vars(TaskSend) /\ WF_vars(TaskQbuf)
    /\ SF_vars(TaskProcess \/ TaskProcessFails) /\ WF_vars(TaskConfig)
    /\ WF_vars(InitTask \/ InitFails \/ DeinitTask \/ DeinitClose)
    /\ SF_vars(InitOn \/ DeinitOff)
    /\ WF_vars(DeinitDrain \/ DeinitLists \/ DeinitReset)

FairSpec == Spec /\ Fairness

-------------------------------------------------------------------------------
(* Properties *)

\* The statistics handed to the algorithms hold a part of every block that is needed, and
\* the parts they always need are from the same frame or the one before, however the blocks
\* were started and stopped meanwhile and however long no buffer was free.  The part of a
\* block that was stopped since may be older.
StatsAdjacent ==
    [][\A e \in Elements : (e \notin Range(done_list) /\ e \in Range(done_list'))
       => /\ \A b \in Always : content'[b] \in 0 .. 1
          /\ \A b \in running : content'[b] # None]_vars

\* The interrupt writes into live storage, and into a buffer nobody else has: it is in no
\* list and not with the task, although the open buffer survives STREAMOFF.
OpenBufferExclusive ==
    /\ ListsSound
    /\ task_buf \notin Listed
    /\ stats_buffer \in Elements => stats_buffer \notin Listed \cup {task_buf}
    /\ isr = "fill" => stats_buffer # Dangling

\* Deinitialising deletes nothing that is in use: the queue a receiver waits on and the
\* pipeline it writes into afterwards outlive its call, and the task never dies inside a
\* call that holds the device's mutex, after which the camera could not be stopped.
DeletesOnlyUnused ==
    /\ \A r \in Receivers :
           /\ receiver[r] = "receive" => isp_stats_queue # NULL
           /\ receiver[r] # "idle" => isp /\ isp_stats_queue_is_receiving
    /\ mutex => task = "config"

\* While the pipeline is up, the camera runs and its blocks are left alone, the
\* algorithms get statistics again and again.
StatsKeepComing ==
    (<>[](isp /\ running # {}) /\ <>[][UNCHANGED running]_running) => []<>(task = "process")
===============================================================================
