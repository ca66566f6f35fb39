----------------------------- MODULE CaptureStream -----------------------------
(***************************************************************************)
(* A camera capture device (CSI, DVP or SPI): its one stream, the common     *)
(* device code that starts, stops and restarts the camera controller        *)
(* (esp_video_device_common.c), and the controller's interrupt, composed    *)
(* with the application's tasks.                                            *)
(*                                                                          *)
(* Application tasks issue the buffer and stream ioctls, event tasks issue  *)
(* VIDIOC_RESTART, and the interrupt moves buffers from the queued list      *)
(* through the controller to the done list.                                 *)
(*                                                                          *)
(* A task's pc is "idle" outside a call; inside one it names the step the    *)
(* call takes next.  Two steps of one call may have steps of   *)
(* the other tasks and of the interrupt between them.                       *)
(***************************************************************************)
EXTENDS VideoStream, FiniteSets

CONSTANTS
    AppTasks,           \* tasks of the application that use the stream
    EventTasks,         \* tasks that restart it
    UseBackup,          \* common->use_backup_element
    SkipFrames,         \* stream->param.skip_frames
    Reprocess,          \* CONFIG_ESP_VIDEO_ENABLE_DATA_PREPROCESSING, with a device hook
    Timed,              \* VIDIOC_DQBUF has a timeout
    Faults,             \* what may fail: "alloc", "start", "stop", "restart"
    Careless            \* the rules the application breaks: "streamon", "streamoff", "restart"

ASSUME CaptureAssumption ==
    /\ AppTasks \cap EventTasks = {}
    /\ "none" \notin AppTasks \cup EventTasks
    /\ IsFiniteSet(AppTasks)
    /\ UseBackup \in BOOLEAN
    /\ SkipFrames \in Nat
    /\ Reprocess \in BOOLEAN
    /\ Timed \in BOOLEAN
    /\ Faults \subseteq {"alloc", "start", "stop", "restart"}
    /\ Careless \subseteq {"streamon", "streamoff", "restart"}

Tasks == AppTasks \cup EventTasks

Own      == -2          \* the controller fills a buffer of its own, or waits for one
Dangling == -3          \* a pointer into storage that has been freed

VARIABLES
    pc,                 \* per task, the step of its call
    mutex,              \* common->cam_ctlr_mutex: its holder or "none"
    ctlr,               \* common->cam_ctrl_handle: NULL, running or stopped but not deleted
    cur,                \* the buffer the controller is filling
    fin,                \* the buffer whose transfer the interrupt is finishing
    isr,                \* the step of the interrupt, "idle" between frames
    backup_element,     \* common->backup_element
    skip_count,         \* stream->param.skip_count
    app,                \* the buffers the application owns
    reprocessed         \* per buffer, how often its frame went through the hook

ctlrVars == <<ctlr, cur, fin, isr, backup_element, skip_count>>
vars == <<streamVars, pc, mutex, ctlrVars, app, reprocessed>>

StartPcs   == {"on_start", "on_sensor", "on_done"}
StopPcs    == {"off_stop", "off_drain", "off_lists", "off_reset", "off_done"}
RestartPcs == {"rs_stop", "rs_skip", "rs_start", "rs_sensor"}
DqbufPcs   == {"wait", "took", "cooked"}
ControlPcs == StartPcs \cup StopPcs

TypeOK ==
    /\ StreamTypeOK
    /\ pc \in [Tasks -> {"idle"} \cup DqbufPcs \cup ControlPcs \cup RestartPcs]
    /\ mutex \in Tasks \cup {"none"}
    /\ ctlr \in {"null", "running", "halted"}
    /\ cur \in Elements \cup {NULL, Own, Dangling}
    /\ fin \in Elements \cup {NULL, Dangling}
    /\ isr \in {"idle", "finish", "give", "refill"}
    /\ backup_element \in Elements \cup {NULL, Dangling}
    /\ skip_count \in Nat
    /\ app \in SUBSET Elements
    /\ reprocessed \in [Elements -> 0 .. 2]

Init ==
    /\ StreamInit
    /\ pc = [t \in Tasks |-> "idle"]
    /\ mutex = "none"
    /\ ctlr = "null"
    /\ cur = NULL
    /\ fin = NULL
    /\ isr = "idle"
    /\ backup_element = NULL
    /\ skip_count = 0
    /\ app = {}
    /\ reprocessed = [e \in Elements |-> 0]

-------------------------------------------------------------------------------
(* What the application takes care of. *)

NoRestart == "restart" \in Careless \/ \A r \in EventTasks : pc[r] = "idle"

\* A task starts a control ioctl when no other ioctl is under way ...
MayControl(t) ==
    /\ NoRestart
    /\ \A u \in AppTasks : pc[u] = "idle"

\* ... except that STREAMOFF may overlap buffer ioctls of a careless application ...
MayStop(t) ==
    /\ NoRestart
    /\ pc[t] = "idle"
    /\ \A u \in AppTasks : pc[u] \notin ControlPcs
    /\ "streamoff" \in Careless \/ \A u \in AppTasks : pc[u] = "idle"

\* ... and a buffer ioctl when no control ioctl is.
MayTransfer(t) ==
    /\ pc[t] = "idle"
    /\ \A u \in AppTasks : pc[u] \notin StartPcs
    /\ "streamoff" \in Careless \/ \A u \in AppTasks : pc[u] \notin StopPcs

\* RESTART is for a stream that is on and is not being turned off.
MayRestart(r) ==
    /\ pc[r] = "idle"
    /\ "restart" \in Careless \/ \A u \in AppTasks : pc[u] \notin ControlPcs

\* A stream is turned on with a buffer queued since STREAMOFF or REQBUFS gave the
\* application all of them.  Without that the code offers the controller the buffer
\* of its last frame, if there was one (a start that failed may have kept it).  A
\* controller with a buffer of its own needs none of the queue, but STREAMOFF takes
\* the semaphore that comes with the storage.
MayStart ==
    \/ "streamon" \in Careless
    \/ IF UseBackup
       THEN queued_list # <<>> \/ backup_element \notin app \cup {Dangling}
       ELSE buffer # {}

Goto(t, step) == pc' = [pc EXCEPT ![t] = step]

-------------------------------------------------------------------------------
(* VIDIOC_REQBUFS *)

\* The old storage is freed: what pointed into it dangles.
Freed(p) == IF p \in Elements THEN Dangling ELSE p

StorageReplaced ==
    /\ app' = buffer'
    /\ cur' = Freed(cur)
    /\ fin' = Freed(fin)
    /\ backup_element' = Freed(backup_element)
    /\ reprocessed' = [e \in Elements |-> 0]
    /\ UNCHANGED <<pc, mutex, ctlr, isr, skip_count>>

ReqbufsSetup(t, n) ==
    /\ MayControl(t)
    /\ SetupBuffer(n)
    /\ StorageReplaced

ReqbufsNoMemory(t, n) ==
    /\ "alloc" \in Faults
    /\ MayControl(t)
    /\ SetupBufferFails(n)
    /\ StorageReplaced

ReqbufsRelease(t) ==
    /\ MayControl(t)
    /\ ReleaseBuffer
    /\ StorageReplaced

-------------------------------------------------------------------------------
(* VIDIOC_QBUF and VIDIOC_DQBUF *)

\* The application queues a buffer it owns, or by mistake one still in a list,
\* which is refused.
Qbuf(t, e) ==
    /\ MayTransfer(t)
    /\ e \in app \cup Listed
    /\ QueueElement(e)
    /\ app' = IF free[e] THEN app \ {e} ELSE app
    /\ UNCHANGED <<started, memoryVars, ready_sem, pc, mutex, ctlrVars, reprocessed>>

\* The application waits for frames of a stream that is on; the code does not test it.
Dqbuf(t) ==
    /\ MayTransfer(t)
    /\ started
    /\ Goto(t, "wait")
    /\ UNCHANGED <<streamVars, mutex, ctlrVars, app, reprocessed>>

DqbufTake(t) ==
    /\ pc[t] = "wait"
    /\ TakeReady
    /\ Goto(t, "took")
    /\ UNCHANGED <<started, memoryVars, listVars, mutex, ctlrVars, app, reprocessed>>

DqbufTimeout(t) ==
    /\ Timed
    /\ pc[t] = "wait"
    /\ ready_sem = 0
    /\ Goto(t, "idle")
    /\ UNCHANGED <<streamVars, mutex, ctlrVars, app, reprocessed>>

\* The first done element, NULL when there is none.
FirstDone == IF done_list = <<>> THEN NULL ELSE Head(done_list)

\* Mutant: the hook runs on the newest done element.
DqbufReprocessLast(t) ==
    /\ Reprocess
    /\ pc[t] = "took"
    /\ done_list # <<>>
    /\ reprocessed' = [reprocessed EXCEPT ![done_list[Len(done_list)]] = IF @ < 2 THEN @ + 1 ELSE @]
    /\ Goto(t, "cooked")
    /\ UNCHANGED <<streamVars, mutex, ctlrVars, app>>

\* ESP_VIDEO_DATA_PREPROCESSING: the hook rewrites the payload of the first done
\* element in place.  The list is read without stream_lock.
DqbufReprocess(t) ==
    /\ Reprocess
    /\ pc[t] = "took"
    /\ reprocessed' = [e \in Elements |->
           IF e = FirstDone /\ reprocessed[e] < 2 THEN reprocessed[e] + 1 ELSE reprocessed[e]]
    /\ Goto(t, "cooked")
    /\ UNCHANGED <<streamVars, mutex, ctlrVars, app>>

\* Finding no element ends the call with ESP_ERR_INVALID_STATE.
DqbufPop(t) ==
    /\ pc[t] = IF Reprocess THEN "cooked" ELSE "took"
    /\ GetDoneElement
    /\ app' = app \cup ({FirstDone} \ {NULL})
    /\ Goto(t, "idle")
    /\ UNCHANGED <<started, memoryVars, ready_sem, mutex, ctlrVars, reprocessed>>

-------------------------------------------------------------------------------
(* Starting and stopping the controller, under cam_ctlr_mutex. *)

\* The element on_get_new_trans offers the controller; NULL when it has none.
NewTrans ==
    IF queued_list # <<>> THEN Head(queued_list)
    ELSE IF UseBackup THEN backup_element ELSE NULL

\* Mutant: only the first element becomes the backup element.
OnGetNewTransFirstOnly ==
    /\ GetQueuedElement
    /\ backup_element' = IF backup_element = NULL THEN NewTrans ELSE backup_element
    /\ cur' = IF NewTrans = NULL THEN Own ELSE NewTrans

\* on_get_new_trans: the element becomes the backup element in every mode.
OnGetNewTrans ==
    /\ GetQueuedElement
    /\ backup_element' = IF NewTrans = NULL THEN backup_element ELSE NewTrans
    /\ cur' = IF NewTrans = NULL THEN Own ELSE NewTrans

\* A controller without a buffer of its own cannot start without an element.
CanStart == UseBackup => count > 1 /\ NewTrans # NULL

\* The DVP and SPI controllers ask for a transfer after their first frame only.
StartsEmpty ==
    /\ ~UseBackup
    /\ cur' = Own
    /\ UNCHANGED <<listVars, backup_element>>

\* esp_cam_ctlr_start, asking for the first transfer.  An existing handle is left
\* as it is.
StartController ==
    IF ctlr = "null"
    THEN /\ CanStart
         /\ OnGetNewTrans \/ StartsEmpty
         /\ ctlr' = "running"
    ELSE UNCHANGED <<listVars, backup_element, cur, ctlr>>

\* The driver is stopped between two callbacks, and what it was filling is dropped.
HaltDriver ==
    /\ isr \in {"idle", "refill"}
    /\ isr' = "idle"
    /\ cur' = NULL

StopController ==
    /\ HaltDriver
    /\ ctlr' = "null"

\* An error before the controller stops leaves it running, one after that leaves
\* a stopped controller that still has its handle.
StopControllerFails ==
    /\ "stop" \in Faults
    /\ ctlr # "null"
    /\ \/ UNCHANGED <<ctlr, cur, isr>>
       \/ /\ HaltDriver
          /\ ctlr' = "halted"

Lock(t)   == mutex = "none" /\ mutex' = t
Unlock(t) == mutex = t /\ mutex' = "none"

-------------------------------------------------------------------------------
(* VIDIOC_STREAMON *)

\* The code tests started only; an empty queue is the controller's to refuse.
StreamOn(t) ==
    /\ MayControl(t)
    /\ MayStart
    /\ ~started
    /\ skip_count' = 0
    /\ Goto(t, "on_start")
    /\ UNCHANGED <<streamVars, mutex, ctlr, cur, fin, isr, backup_element, app, reprocessed>>

StreamOnController(t) ==
    /\ pc[t] = "on_start"
    /\ mutex = "none"
    /\ StartController
    /\ mutex' = IF ctlr = "null" THEN t ELSE "none"
    /\ Goto(t, IF ctlr = "null" THEN "on_sensor" ELSE "on_done")
    /\ UNCHANGED <<started, memoryVars, ready_sem, fin, isr, skip_count, app, reprocessed>>

StreamOnControllerFails(t) ==
    /\ pc[t] = "on_start"
    /\ mutex = "none"
    /\ ctlr = "null"
    /\ "start" \in Faults \/ ~CanStart
    /\ Goto(t, "idle")
    /\ UNCHANGED <<streamVars, mutex, ctlrVars, app, reprocessed>>

StreamOnSensor(t) ==
    /\ pc[t] = "on_sensor"
    /\ Unlock(t)
    /\ Goto(t, "on_done")
    /\ UNCHANGED <<streamVars, ctlrVars, app, reprocessed>>

\* The sensor does not start: the controller is stopped and deleted again, and
\* what it was filling goes back to no list.
StreamOnSensorFails(t) ==
    /\ "start" \in Faults
    /\ pc[t] = "on_sensor"
    /\ StopController
    /\ Unlock(t)
    /\ Goto(t, "idle")
    /\ UNCHANGED <<streamVars, fin, backup_element, skip_count, app, reprocessed>>

\* started is set after the mutex is released.
StreamOnDone(t) ==
    /\ pc[t] = "on_done"
    /\ started' = TRUE
    /\ Goto(t, "idle")
    /\ UNCHANGED <<memoryVars, listVars, ready_sem, mutex, ctlrVars, app, reprocessed>>

-------------------------------------------------------------------------------
(* VIDIOC_STREAMOFF *)

StreamOff(t) ==
    /\ MayStop(t)
    /\ started
    /\ Goto(t, "off_stop")
    /\ UNCHANGED <<streamVars, mutex, ctlrVars, app, reprocessed>>

StreamOffController(t) ==
    /\ pc[t] = "off_stop"
    /\ mutex = "none"
    /\ StopController
    /\ Goto(t, "off_drain")
    /\ UNCHANGED <<streamVars, mutex, fin, backup_element, skip_count, app, reprocessed>>

\* Mutant: the error is not returned and the stream is turned off anyway.
StreamOffControllerFailsIgnored(t) ==
    /\ pc[t] = "off_stop"
    /\ mutex = "none"
    /\ StopControllerFails
    /\ Goto(t, "off_drain")
    /\ UNCHANGED <<streamVars, mutex, fin, backup_element, skip_count, app, reprocessed>>

StreamOffControllerFails(t) ==
    /\ pc[t] = "off_stop"
    /\ mutex = "none"
    /\ StopControllerFails
    /\ Goto(t, "idle")
    /\ UNCHANGED <<streamVars, mutex, fin, backup_element, skip_count, app, reprocessed>>

\* The rest of the call takes neither the mutex nor stream_lock.
StreamOffDrain(t) ==
    /\ pc[t] = "off_drain"
    /\ DrainReady
    /\ Goto(t, "off_lists")
    /\ UNCHANGED <<started, memoryVars, listVars, mutex, ctlrVars, app, reprocessed>>

StreamOffLists(t) ==
    /\ pc[t] = "off_lists"
    /\ ResetLists
    /\ Goto(t, "off_reset")
    /\ UNCHANGED <<started, memoryVars, ready_sem, mutex, ctlrVars, app, reprocessed>>

StreamOffReset(t) ==
    /\ pc[t] = "off_reset"
    /\ BufferReset
    /\ Goto(t, "off_done")
    /\ UNCHANGED <<started, memoryVars, ready_sem, mutex, ctlrVars, app, reprocessed>>

\* The call returns: the application owns every buffer.
StreamOffDone(t) ==
    /\ pc[t] = "off_done"
    /\ started' = FALSE
    /\ app' = buffer
    /\ Goto(t, "idle")
    /\ UNCHANGED <<memoryVars, listVars, ready_sem, mutex, ctlrVars, reprocessed>>

-------------------------------------------------------------------------------
(* VIDIOC_RESTART *)

\* started is read before the mutex is taken.
Restart(r) ==
    /\ MayRestart(r)
    /\ started
    /\ Goto(r, "rs_stop")
    /\ UNCHANGED <<streamVars, mutex, ctlrVars, app, reprocessed>>

RestartStop(r) ==
    /\ pc[r] = "rs_stop"
    /\ Lock(r)
    /\ StopController
    /\ Goto(r, "rs_skip")
    /\ UNCHANGED <<streamVars, fin, backup_element, skip_count, app, reprocessed>>

RestartStopFails(r) ==
    /\ pc[r] = "rs_stop"
    /\ mutex = "none"
    /\ StopControllerFails
    /\ Goto(r, "idle")
    /\ UNCHANGED <<streamVars, mutex, fin, backup_element, skip_count, app, reprocessed>>

\* Mutant: the buffer is forgotten instead of put back.
RestartSkipForgets(r) ==
    /\ pc[r] = "rs_skip"
    /\ backup_element' = NULL
    /\ Goto(r, "rs_start")
    /\ UNCHANGED <<streamVars, mutex, ctlr, cur, fin, isr, skip_count, app, reprocessed>>

\* The buffer the driver took last goes back to the head of the queue.
RestartSkip(r) ==
    /\ pc[r] = "rs_skip"
    /\ SkipBuffer(backup_element)
    /\ backup_element' = NULL
    /\ Goto(r, "rs_start")
    /\ UNCHANGED <<started, memoryVars, ready_sem, mutex, ctlr, cur, fin, isr, skip_count, app, reprocessed>>

RestartStart(r) ==
    /\ pc[r] = "rs_start"
    /\ StartController
    /\ Goto(r, "rs_sensor")
    /\ UNCHANGED <<started, memoryVars, ready_sem, mutex, fin, isr, skip_count, app, reprocessed>>

\* Mutant: the error returns with the mutex taken.
RestartStartFailsLocked(r) ==
    /\ pc[r] = "rs_start"
    /\ "restart" \in Faults \/ ~CanStart
    /\ Goto(r, "idle")
    /\ UNCHANGED <<streamVars, mutex, ctlrVars, app, reprocessed>>

RestartStartFails(r) ==
    /\ pc[r] = "rs_start"
    /\ "restart" \in Faults \/ ~CanStart
    /\ Unlock(r)
    /\ Goto(r, "idle")
    /\ UNCHANGED <<streamVars, ctlrVars, app, reprocessed>>

RestartSensor(r) ==
    /\ pc[r] = "rs_sensor"
    /\ Unlock(r)
    /\ Goto(r, "idle")
    /\ UNCHANGED <<streamVars, ctlrVars, app, reprocessed>>

RestartSensorFails(r) ==
    /\ "restart" \in Faults
    /\ pc[r] = "rs_sensor"
    /\ StopController
    /\ Unlock(r)
    /\ Goto(r, "idle")
    /\ UNCHANGED <<streamVars, fin, backup_element, skip_count, app, reprocessed>>

-------------------------------------------------------------------------------
(* The controller's interrupt, or the task of the DVP driver: it calls        *)
(* on_trans_finished and on_get_new_trans.  The CSI driver (external) asks    *)
(* for the next transfer before it reports the finished one; the DVP driver   *)
(* (dvp_task) and the SPI driver (spi_cam_post_trans_cb) report first.  A     *)
(* frame in the driver's own buffer is not reported.                          *)

\* The frame is complete and the next transfer is asked for first.
IsrGetFirst ==
    /\ isr = "idle"
    /\ ctlr = "running"
    /\ fin' = IF cur = Own THEN NULL ELSE cur
    /\ OnGetNewTrans
    /\ isr' = IF cur = Own THEN "idle" ELSE "finish"
    /\ UNCHANGED <<started, memoryVars, ready_sem, pc, mutex, ctlr, skip_count, app, reprocessed>>

\* The frame is complete and reported first.
IsrFinishFirst ==
    /\ ~UseBackup
    /\ isr = "idle"
    /\ ctlr = "running"
    /\ cur # Own
    /\ fin' = cur
    /\ cur' = NULL
    /\ isr' = "finish"
    /\ UNCHANGED <<streamVars, pc, mutex, ctlr, backup_element, skip_count, app, reprocessed>>

\* ... and the next transfer is asked for afterwards.
IsrGetLast ==
    /\ isr = "refill"
    /\ OnGetNewTrans
    /\ isr' = "idle"
    /\ UNCHANGED <<started, memoryVars, ready_sem, pc, mutex, ctlr, fin, skip_count, app, reprocessed>>

AfterFinish == IF cur = NULL THEN "refill" ELSE "idle"

\* One frame in skip_frames is delivered.
NextSkipCount == IF SkipFrames = 0 THEN skip_count ELSE (skip_count + 1) % SkipFrames

\* on_trans_finished for the backup element: the controller is still filling it,
\* so the frame is dropped.
IsrDrop ==
    /\ isr = "finish"
    /\ UseBackup
    /\ fin = backup_element
    /\ fin' = NULL
    /\ isr' = AfterFinish
    /\ UNCHANGED <<streamVars, pc, mutex, ctlr, cur, backup_element, skip_count, app, reprocessed>>

\* Mutant: the backup element is delivered like any other.
IsrDoneBackupToo ==
    /\ isr = "finish"
    /\ skip_count = 0
    /\ DoneElement(fin)
    /\ reprocessed' = [e \in Elements |-> IF e = fin THEN 0 ELSE reprocessed[e]]
    /\ fin' = NULL
    /\ isr' = IF Accepted(fin) THEN "give" ELSE AfterFinish
    /\ skip_count' = IF Accepted(fin) THEN skip_count ELSE NextSkipCount
    /\ UNCHANGED <<started, memoryVars, ready_sem, pc, mutex, ctlr, cur, backup_element, app>>

\* on_trans_finished for a frame that is delivered: the element joins the done
\* list; the semaphore is given in a step of its own.
IsrDone ==
    /\ isr = "finish"
    /\ UseBackup => fin # backup_element
    /\ skip_count = 0
    /\ DoneElement(fin)
    /\ reprocessed' = [e \in Elements |-> IF e = fin THEN 0 ELSE reprocessed[e]]
    /\ fin' = NULL
    /\ isr' = IF Accepted(fin) THEN "give" ELSE AfterFinish
    /\ skip_count' = IF Accepted(fin) THEN skip_count ELSE NextSkipCount
    /\ UNCHANGED <<started, memoryVars, ready_sem, pc, mutex, ctlr, cur, backup_element, app>>

IsrGive ==
    /\ isr = "give"
    /\ GiveReady
    /\ skip_count' = NextSkipCount
    /\ isr' = AfterFinish
    /\ UNCHANGED <<started, memoryVars, listVars, pc, mutex, ctlr, cur, fin, backup_element, app, reprocessed>>

\* Mutant: a skipped frame is not counted.
IsrSkipUncounted ==
    /\ isr = "finish"
    /\ UseBackup => fin # backup_element
    /\ skip_count # 0
    /\ SkipBuffer(fin)
    /\ fin' = NULL
    /\ isr' = AfterFinish
    /\ UNCHANGED <<started, memoryVars, ready_sem, pc, mutex, ctlr, cur, backup_element, skip_count, app, reprocessed>>

\* on_trans_finished for a frame that is skipped.
IsrSkip ==
    /\ isr = "finish"
    /\ UseBackup => fin # backup_element
    /\ skip_count # 0
    /\ SkipBuffer(fin)
    /\ fin' = NULL
    /\ skip_count' = NextSkipCount
    /\ isr' = AfterFinish
    /\ UNCHANGED <<started, memoryVars, ready_sem, pc, mutex, ctlr, cur, backup_element, app, reprocessed>>

-------------------------------------------------------------------------------
StreamOnNext(t) ==
    \/ StreamOn(t)
    \/ StreamOnController(t)
    \/ StreamOnControllerFails(t)
    \/ StreamOnSensor(t)
    \/ StreamOnSensorFails(t)
    \/ StreamOnDone(t)

StreamOffNext(t) ==
    \/ StreamOff(t)
    \/ StreamOffController(t)
    \/ StreamOffControllerFails(t)
    \/ StreamOffDrain(t)
    \/ StreamOffLists(t)
    \/ StreamOffReset(t)
    \/ StreamOffDone(t)

TransferNext(t) ==
    \/ \E e \in Elements : Qbuf(t, e)
    \/ Dqbuf(t)
    \/ DqbufTake(t)
    \/ DqbufTimeout(t)
    \/ DqbufReprocess(t)
    \/ DqbufPop(t)

ReqbufsNext(t) ==
    \/ \E n \in 1 .. MaxCount : ReqbufsSetup(t, n)
    \/ \E n \in 1 .. MaxCount : ReqbufsNoMemory(t, n)
    \/ ReqbufsRelease(t)

AppNext(t) == ReqbufsNext(t) \/ TransferNext(t) \/ StreamOnNext(t) \/ StreamOffNext(t)

RestartNext(r) ==
    \/ Restart(r)
    \/ RestartStop(r)
    \/ RestartStopFails(r)
    \/ RestartSkip(r)
    \/ RestartStart(r)
    \/ RestartStartFails(r)
    \/ RestartSensor(r)
    \/ RestartSensorFails(r)

IsrNext ==
    \/ IsrGetFirst
    \/ IsrFinishFirst
    \/ IsrGetLast
    \/ IsrDrop
    \/ IsrDone
    \/ IsrGive
    \/ IsrSkip

Next ==
    \/ \E t \in AppTasks : AppNext(t)
    \/ \E r \in EventTasks : RestartNext(r)
    \/ IsrNext

Spec == Init /\ [][Next]_vars

\* A call that has begun goes on (its task is scheduled), and frames keep coming
\* from a running controller (the interrupt).  A call waiting for the mutex, or for
\* the driver to stop between two interrupts, gets its turn although others may
\* get theirs first: FreeRTOS hands a mutex to the longest waiting task of a
\* priority.  Nothing makes the application begin a call.
DqbufStep(t)     == DqbufTake(t) \/ DqbufReprocess(t) \/ DqbufPop(t)
StreamOnStep(t)  == StreamOnControllerFails(t) \/ StreamOnSensor(t) \/ StreamOnDone(t)
StreamOffStep(t) == StreamOffDrain(t) \/ StreamOffLists(t) \/ StreamOffReset(t) \/ StreamOffDone(t)
RestartStep(r)   == RestartSkip(r) \/ RestartStart(r) \/ RestartStartFails(r) \/ RestartSensor(r)

Fairness ==
    /\ WF_vars(IsrNext)
    /\ \A t \in AppTasks :
           /\ WF_vars(DqbufStep(t))
           /\ WF_vars(StreamOnStep(t))
           /\ WF_vars(StreamOffStep(t))
           /\ SF_vars(StreamOnController(t))
           /\ SF_vars(StreamOffController(t))
    /\ \A r \in EventTasks :
           /\ WF_vars(RestartStep(r))
           /\ SF_vars(RestartStop(r))

FairSpec == Spec /\ Fairness

-------------------------------------------------------------------------------
(* Safety *)

\* The elements the controller has taken and not yet given back.
Held == {cur, fin} \cap Elements

\* STREAMOFF has emptied the lists and not yet returned.
Closing == \E t \in AppTasks : pc[t] \in {"off_reset", "off_done"}

\* The free flag is what QBUF and the interrupt trust before they insert an
\* element: it must tell exactly whether the element is in a list, no element may
\* be in the lists twice, and no list may reach outside the storage.  The flags
\* lag behind the lists only between the two unlocked resets of STREAMOFF
\* (esp_video_stop_capture).
FreeFlagSound ==
    /\ ListsSound
    /\ FlagsSound \/ \E t \in AppTasks : pc[t] = "off_reset"

\* A buffer the application owns is neither in a list nor with the controller, so
\* no frame is written over one that is being read; a buffer with the controller
\* is in no list.  The controller has one buffer twice only when it refills its
\* backup element (esp_video_device_common_on_get_new_trans).
ExclusiveOwnership ==
    /\ app \cap (Listed \cup Held) = {}
    /\ Held \cap Listed = {}
    /\ cur = fin /\ cur \in Elements => UseBackup /\ cur = backup_element

\* Every buffer is with the application, in a list, with the controller, or the
\* backup element that RESTART will put back: failures and restarts leak none.
NoBufferLost ==
    Closing \/ buffer \subseteq app \cup Listed \cup Held \cup {backup_element}

\* A frame in the done list is matched by a unit of the semaphore, by the give the
\* interrupt is about to do after leaving its critical section, or by a DQBUF that
\* has taken its unit.  So DQBUF never finds the list empty (ESP_ERR_INVALID_STATE)
\* and the semaphore never runs into its limit.
SemAccounting ==
    \/ \E t \in AppTasks : pc[t] = "off_lists"
    \/ Len(done_list) = (IF ready_sem = NULL THEN 0 ELSE ready_sem)
                      + (IF isr = "give" THEN 1 ELSE 0)
                      + Cardinality({t \in AppTasks : pc[t] \in {"took", "cooked"}})

\* A controller without a buffer of its own always has one of the stream's reserved
\* for it: while it runs, through restarts too, it fills the backup element, which is
\* in the storage, in no list, and not the application's.  True of an application that
\* queues a buffer before it turns the stream on (MayStart).
ReservedForDriver ==
    UseBackup /\ ctlr = "running" =>
        cur = backup_element /\ cur \in buffer \ (app \cup Listed)

\* The controller never writes into freed storage: the storage changes only when
\* no controller exists.
StorageOutlivesController == [][buffer' # buffer => ctlr = "null"]_vars

\* DQBUF hands out a frame that went through the data hook exactly once.
ReprocessedOnce ==
    [][Reprocess /\ started /\ started' => \A e \in app' \ app : reprocessed[e] = 1]_vars

-------------------------------------------------------------------------------
(* The stream implements BufferFifo. *)

\* The element only backup_element remembers: its controller is gone and RESTART,
\* or the next start, will use it.
Limbo == {backup_element} \cap (buffer \ (app \cup Listed \cup Held))

AsSeq(S) == IF S = {} THEN <<>> ELSE <<CHOOSE e \in S : TRUE>>

fifoPipe ==
    IF Closing THEN <<>>
    ELSE done_list \o AsSeq({fin} \cap Elements) \o AsSeq(({cur} \ {fin}) \cap Elements)
                   \o AsSeq(Limbo) \o queued_list

fifoApp == IF Closing THEN buffer ELSE app

Fifo == INSTANCE BufferFifo WITH
            Buffer <- Elements, buffers <- buffer, app <- fifoApp, pipe <- fifoPipe

\* With SkipFrames = 0 and a backup element, QBUF, DQBUF and STREAMOFF are the
\* operations of a FIFO, whatever the controller, the interrupt and RESTART do.
FifoSpec == Fifo!Spec

-------------------------------------------------------------------------------
(* Liveness *)

\* STREAMON, STREAMOFF and RESTART return: the mutex is released on every path
\* (common_video_start, _stop and _restart) and no call waits for ever for it.
ControlReturns ==
    \A t \in Tasks : pc[t] \in ControlPcs \cup RestartPcs ~> pc[t] = "idle"

\* Once the controller runs for good, a DQBUF that waits while it runs and a buffer is
\* queued returns, whatever restarts failed or succeeded before: no frame is left in the
\* done list without a unit of the semaphore, and neither the skipped frames nor the
\* backup element keep the queued buffers from being filled.
WaiterServed ==
    <>[](ctlr = "running") =>
        \A t \in AppTasks :
            (pc[t] = "wait" /\ ctlr = "running" /\ queued_list # <<>>) ~> (pc[t] # "wait")
===============================================================================
