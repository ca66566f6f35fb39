------------------------------- MODULE UvcStream -------------------------------
(***************************************************************************)
(* The USB camera device (esp_video_usb_uvc_device.c): its one stream, the   *)
(* frames it lends to the USB host library, and the library's callbacks,     *)
(* composed with the application's tasks.                                    *)
(*                                                                          *)
(* The library gets every buffer of the stream when the stream starts, as    *)
(* the frames it fills.  A frame it has filled belongs to the device until   *)
(* uvc_host_frame_return; VIDIOC_QBUF returns the frame that priv_data of    *)
(* the element names.  A frame has the index of its element.                 *)
(*                                                                          *)
(* The library is not in this repository: it is modelled as the device uses  *)
(* it.  It calls back from one task, stopping is synchronous, and it refuses *)
(* to close a stream while a frame is outside.                               *)
(***************************************************************************)
EXTENDS VideoStream, FiniteSets

CONSTANTS
    AppTasks,           \* tasks of the application that use the stream
    MaxAddr,            \* bound: the USB addresses a camera may get
    Preempting          \* may a task of the application run inside a callback?

ASSUME UvcAssumption ==
    /\ IsFiniteSet(AppTasks)
    /\ MaxAddr \in Nat \ {0}
    /\ Preempting \subseteq BOOLEAN

VARIABLES
    preempts,           \* chosen from Preempting, then fixed
    plugged,            \* the address of the camera on the bus, 0 when there is none
    dev_addr,           \* device->dev_addr
    gone,               \* the stream's camera is gone and the event is not delivered yet
    host,               \* the library's stream
    empty,              \* frames the library may fill
    priv_data,          \* elements whose priv_data names their frame
    cb, cb_frame,       \* the step of the frame callback, and its frame
    pc, held,           \* per task, the step of its call and the element it works on
    app,                \* the buffers the application owns
    closing             \* the application wants the stream off

deviceVars == <<plugged, dev_addr, gone>>
hostVars   == <<host, empty>>
cbVars     == <<cb, cb_frame>>
taskVars   == <<pc, held>>
vars == <<streamVars, preempts, deviceVars, hostVars, priv_data, cbVars, taskVars, app, closing>>

QbufPcs  == {"qb_notify", "qb_read", "qb_return"}
DqbufPcs == {"wait", "took"}
OnPcs    == {"on_start", "on_done"}
OffPcs   == {"off_host", "off_frames", "off_return", "off_close", "off_drain", "off_lists",
             "off_done"}

TypeOK ==
    /\ StreamTypeOK
    /\ preempts \in Preempting
    /\ plugged \in 0 .. MaxAddr
    /\ dev_addr \in 0 .. MaxAddr
    /\ gone \in BOOLEAN
    /\ host \in {"closed", "running", "stopped"}
    /\ empty \in SUBSET Elements
    /\ priv_data \in SUBSET Elements
    /\ cb \in {"idle", "give", "store"}
    /\ cb_frame \in Elements \cup {NULL}
    /\ pc \in [AppTasks -> {"idle"} \cup QbufPcs \cup DqbufPcs \cup OnPcs \cup OffPcs]
    /\ held \in [AppTasks -> Elements \cup {NULL}]
    /\ app \in SUBSET Elements
    /\ closing \in BOOLEAN

Init ==
    /\ StreamInit
    /\ preempts \in Preempting
    /\ plugged \in 0 .. MaxAddr
    /\ dev_addr = plugged
    /\ gone = FALSE
    /\ host = "closed"
    /\ empty = {}
    /\ priv_data = {}
    /\ cb = "idle"
    /\ cb_frame = NULL
    /\ pc = [t \in AppTasks |-> "idle"]
    /\ held = [t \in AppTasks |-> NULL]
    /\ app = {}
    /\ closing = FALSE

-------------------------------------------------------------------------------
(* The scheduler, and what the application takes care of. *)

MayRun == preempts \/ cb = "idle"

\* Storage and STREAMON are for an application that does nothing else.
Alone(t) == MayRun /\ \A u \in AppTasks : pc[u] = "idle"

\* A buffer ioctl overlaps no STREAMON and no STREAMOFF ...
MayTransfer(t) ==
    /\ MayRun
    /\ pc[t] = "idle"
    /\ \A u \in AppTasks : pc[u] \notin OnPcs \cup OffPcs

\* ... but a task may wait in DQBUF when another turns the stream off.
MayStop(t) ==
    /\ MayRun
    /\ pc[t] = "idle"
    /\ \A u \in AppTasks : pc[u] \in {"idle", "wait"}

At(t, step)   == MayRun /\ pc[t] = step
Goto(t, step) == pc' = [pc EXCEPT ![t] = step]
Hold(t, e)    == held' = [held EXCEPT ![t] = e]

-------------------------------------------------------------------------------
(* VIDIOC_REQBUFS: the elements are new, with priv_data NULL. *)

Reqbufs(t, n) ==
    /\ Alone(t)
    /\ IF n = 0 THEN ReleaseBuffer ELSE SetupBuffer(n)
    /\ app' = buffer'
    /\ priv_data' = {}
    /\ UNCHANGED <<preempts, deviceVars, hostVars, cbVars, taskVars, closing>>

-------------------------------------------------------------------------------
(* VIDIOC_QBUF, and uvc_video_notify for ESP_VIDEO_BUFFER_VALID *)

Qbuf(t, e) ==
    /\ MayTransfer(t)
    /\ e \in app
    /\ QueueElement(e)
    /\ app' = IF free[e] THEN app \ {e} ELSE app
    /\ Goto(t, IF free[e] THEN "qb_notify" ELSE "idle")
    /\ UNCHANGED <<started, memoryVars, ready_sem, preempts, deviceVars, hostVars, priv_data,
                   cbVars, held, closing>>

FirstQueued == IF queued_list = <<>> THEN NULL ELSE Head(queued_list)
FirstDone   == IF done_list = <<>> THEN NULL ELSE Head(done_list)

\* The element taken may be one another task has queued.
QbufNotify(t) ==
    /\ At(t, "qb_notify")
    /\ GetQueuedElement
    /\ Hold(t, FirstQueued)
    /\ Goto(t, IF FirstQueued = NULL THEN "idle" ELSE "qb_read")
    /\ UNCHANGED <<started, memoryVars, ready_sem, preempts, deviceVars, hostVars, priv_data,
                   cbVars, app, closing>>

\* priv_data is read outside stream_lock.  Without a frame there is nothing to return.
QbufRead(t) ==
    /\ At(t, "qb_read")
    /\ IF held[t] \in priv_data
       THEN Goto(t, "qb_return") /\ UNCHANGED held
       ELSE Goto(t, "idle") /\ Hold(t, NULL)
    /\ UNCHANGED <<streamVars, preempts, deviceVars, hostVars, priv_data, cbVars, app, closing>>

\* uvc_host_frame_return; priv_data keeps its value.
QbufReturn(t) ==
    /\ At(t, "qb_return")
    /\ empty' = empty \cup {held[t]}
    /\ Hold(t, NULL)
    /\ Goto(t, "idle")
    /\ UNCHANGED <<streamVars, preempts, deviceVars, host, priv_data, cbVars, app, closing>>

-------------------------------------------------------------------------------
(* VIDIOC_DQBUF *)

Dqbuf(t) ==
    /\ MayTransfer(t)
    /\ started /\ ~closing
    /\ Goto(t, "wait")
    /\ UNCHANGED <<streamVars, preempts, deviceVars, hostVars, priv_data, cbVars, held, app,
                   closing>>

DqbufTake(t) ==
    /\ At(t, "wait")
    /\ TakeReady
    /\ Goto(t, "took")
    /\ UNCHANGED <<started, memoryVars, listVars, preempts, deviceVars, hostVars, priv_data,
                   cbVars, held, app, closing>>

\* After a STREAMOFF that failed, units outlive the done frames.
DqbufPop(t) ==
    /\ At(t, "took")
    /\ GetDoneElement
    /\ app' = app \cup ({FirstDone} \ {NULL})
    /\ Goto(t, "idle")
    /\ UNCHANGED <<started, memoryVars, ready_sem, preempts, deviceVars, hostVars, priv_data,
                   cbVars, held, closing>>

-------------------------------------------------------------------------------
(* The library's callbacks, from its own task *)

\* uvc_frame_callback: the element is found by its payload and goes to the done list ...
FrameDone(e) ==
    /\ cb = "idle" /\ host = "running" /\ plugged # 0
    /\ e \in empty
    /\ empty' = empty \ {e}
    /\ DoneElement(e)
    /\ cb' = IF Accepted(e) THEN "give" ELSE "store"
    /\ cb_frame' = e
    /\ UNCHANGED <<started, memoryVars, ready_sem, preempts, deviceVars, host, priv_data,
                   taskVars, app, closing>>

\* ... the application is woken ...
FrameGive ==
    /\ cb = "give"
    /\ GiveReady
    /\ cb' = "store"
    /\ UNCHANGED <<started, memoryVars, listVars, preempts, deviceVars, hostVars, priv_data,
                   cb_frame, taskVars, app, closing>>

\* Mutant: the frame is not stored.
FrameStoreForgotten ==
    /\ cb = "store"
    /\ cb' = "idle"
    /\ cb_frame' = NULL
    /\ UNCHANGED <<streamVars, preempts, deviceVars, hostVars, priv_data, taskVars, app, closing>>

\* ... and only then the element learns its frame.
FrameStore ==
    /\ cb = "store"
    /\ priv_data' = priv_data \cup {cb_frame}
    /\ cb' = "idle"
    /\ cb_frame' = NULL
    /\ UNCHANGED <<streamVars, preempts, deviceVars, hostVars, taskVars, app, closing>>

\* The camera is pulled out.  The device hears of it only while it has a stream.
Unplug ==
    /\ plugged # 0
    /\ plugged' = 0
    /\ gone' = (host # "closed")
    /\ UNCHANGED <<streamVars, preempts, dev_addr, hostVars, priv_data, cbVars, taskVars, app,
                   closing>>

\* UVC_HOST_DEVICE_DISCONNECTED
Disconnected ==
    /\ gone /\ cb = "idle"
    /\ gone' = FALSE
    /\ dev_addr' = 0
    /\ UNCHANGED <<streamVars, preempts, plugged, hostVars, priv_data, cbVars, taskVars, app,
                   closing>>

\* UVC_HOST_DRIVER_EVENT_DEVICE_CONNECTED: only a device without an address takes the camera.
Connected(a) ==
    /\ plugged = 0 /\ ~gone /\ cb = "idle"
    /\ plugged' = a
    /\ dev_addr' = IF dev_addr = 0 THEN a ELSE dev_addr
    /\ UNCHANGED <<streamVars, preempts, gone, hostVars, priv_data, cbVars, taskVars, app, closing>>

-------------------------------------------------------------------------------
(* VIDIOC_STREAMON *)

\* The application has queued every buffer: the library will fill them all.
StreamOn(t) ==
    /\ Alone(t)
    /\ ~started
    /\ buffer # {} /\ app = {}
    /\ Goto(t, "on_start")
    /\ UNCHANGED <<streamVars, preempts, deviceVars, hostVars, priv_data, cbVars, held, app, closing>>

\* uvc_video_start
StreamOnHost(t) ==
    /\ At(t, "on_start")
    /\ dev_addr # 0 /\ dev_addr = plugged
    /\ priv_data' = {}
    /\ host' = "running"
    /\ empty' = buffer
    /\ Goto(t, "on_done")
    /\ UNCHANGED <<streamVars, preempts, deviceVars, cbVars, held, app, closing>>

\* The camera is unknown, cannot be opened at its old address, or refuses to start.  The
\* stream is closed again, and the buffers can be queued again.
StreamOnHostFails(t) ==
    /\ At(t, "on_start")
    /\ priv_data' = IF dev_addr = 0 THEN priv_data ELSE {}
    /\ app' = buffer
    /\ Goto(t, "idle")
    /\ UNCHANGED <<streamVars, preempts, deviceVars, hostVars, cbVars, held, closing>>

StreamOnDone(t) ==
    /\ At(t, "on_done")
    /\ started' = TRUE
    /\ Goto(t, "idle")
    /\ UNCHANGED <<memoryVars, listVars, ready_sem, preempts, deviceVars, hostVars, priv_data,
                   cbVars, held, app, closing>>

-------------------------------------------------------------------------------
(* VIDIOC_STREAMOFF, and uvc_video_stop *)

StreamOff(t) ==
    /\ MayStop(t)
    /\ started
    /\ closing' = TRUE
    /\ Goto(t, "off_host")
    /\ UNCHANGED <<streamVars, preempts, deviceVars, hostVars, priv_data, cbVars, held, app>>

StreamOffUnplugged(t) ==
    /\ At(t, "off_host")
    /\ dev_addr = 0
    /\ Goto(t, "idle")
    /\ UNCHANGED <<streamVars, preempts, deviceVars, hostVars, priv_data, cbVars, held, app, closing>>

\* uvc_host_stream_stop returns when no callback is running.
StreamOffHost(t) ==
    /\ At(t, "off_host")
    /\ dev_addr # 0
    /\ cb = "idle"
    /\ host' = "stopped"
    /\ Goto(t, "off_frames")
    /\ UNCHANGED <<streamVars, preempts, deviceVars, empty, priv_data, cbVars, held, app, closing>>

\* The library does not stop the stream: it stays on, and the application may try again.
StreamOffHostFails(t) ==
    /\ At(t, "off_host")
    /\ dev_addr # 0
    /\ Goto(t, "idle")
    /\ UNCHANGED <<streamVars, preempts, deviceVars, hostVars, priv_data, cbVars, held, app, closing>>

\* Mutant: the done frames are not returned.
StreamOffTakeNone(t) ==
    /\ At(t, "off_frames")
    /\ Goto(t, "off_close")
    /\ UNCHANGED <<streamVars, preempts, deviceVars, hostVars, priv_data, cbVars, held, app, closing>>

\* The done frames go back to the library, one by one.
StreamOffTake(t) ==
    /\ At(t, "off_frames")
    /\ GetDoneElement
    /\ Hold(t, FirstDone)
    /\ Goto(t, IF FirstDone = NULL THEN "off_close" ELSE "off_return")
    /\ UNCHANGED <<started, memoryVars, ready_sem, preempts, deviceVars, hostVars, priv_data,
                   cbVars, app, closing>>

\* Without a frame the library refuses, and the error is ignored.
StreamOffReturn(t) ==
    /\ At(t, "off_return")
    /\ empty' = empty \cup ({held[t]} \cap priv_data)
    /\ Hold(t, NULL)
    /\ Goto(t, "off_frames")
    /\ UNCHANGED <<streamVars, preempts, deviceVars, host, priv_data, cbVars, app, closing>>

\* Mutant: priv_data is not cleared.
StreamOffCloseKeeps(t) ==
    /\ At(t, "off_close")
    /\ empty = buffer
    /\ host' = "closed"
    /\ empty' = {}
    /\ gone' = FALSE
    /\ Goto(t, "off_drain")
    /\ UNCHANGED <<streamVars, preempts, plugged, dev_addr, priv_data, cbVars, held, app, closing>>

\* uvc_host_stream_close, then every priv_data is cleared.  Nobody reads priv_data then.
StreamOffClose(t) ==
    /\ At(t, "off_close")
    /\ empty = buffer
    /\ host' = "closed"
    /\ empty' = {}
    /\ gone' = FALSE
    /\ priv_data' = {}
    /\ Goto(t, "off_drain")
    /\ UNCHANGED <<streamVars, preempts, plugged, dev_addr, cbVars, held, app, closing>>

\* A frame is outside: the stream stays on, stopped, and the application may try again.
StreamOffCloseFails(t) ==
    /\ At(t, "off_close")
    /\ empty # buffer
    /\ Goto(t, "idle")
    /\ UNCHANGED <<streamVars, preempts, deviceVars, hostVars, priv_data, cbVars, held, app, closing>>

StreamOffDrain(t) ==
    /\ At(t, "off_drain")
    /\ DrainReady
    /\ Goto(t, "off_lists")
    /\ UNCHANGED <<started, memoryVars, listVars, preempts, deviceVars, hostVars, priv_data,
                   cbVars, held, app, closing>>

StreamOffLists(t) ==
    /\ At(t, "off_lists")
    /\ ResetLists
    /\ Goto(t, "off_done")
    /\ UNCHANGED <<started, memoryVars, ready_sem, preempts, deviceVars, hostVars, priv_data,
                   cbVars, held, app, closing>>

\* esp_video_buffer_reset, and the application owns every buffer again.
StreamOffDone(t) ==
    /\ At(t, "off_done")
    /\ BufferReset
    /\ started' = FALSE
    /\ app' = buffer
    /\ closing' = FALSE
    /\ Goto(t, "idle")
    /\ UNCHANGED <<memoryVars, ready_sem, preempts, deviceVars, hostVars, priv_data, cbVars, held>>

-------------------------------------------------------------------------------
Transfer(t) ==
    \/ \E e \in Elements : Qbuf(t, e)
    \/ QbufNotify(t) \/ QbufRead(t) \/ QbufReturn(t)
    \/ Dqbuf(t) \/ DqbufTake(t) \/ DqbufPop(t)

Control(t) ==
    \/ \E n \in 0 .. MaxCount : Reqbufs(t, n)
    \/ StreamOn(t) \/ StreamOnHost(t) \/ StreamOnHostFails(t) \/ StreamOnDone(t)
    \/ StreamOff(t) \/ StreamOffUnplugged(t) \/ StreamOffHost(t) \/ StreamOffHostFails(t)
    \/ StreamOffTake(t) \/ StreamOffReturn(t) \/ StreamOffClose(t) \/ StreamOffCloseFails(t)
    \/ StreamOffDrain(t) \/ StreamOffLists(t) \/ StreamOffDone(t)

HostTask ==
    \/ \E e \in Elements : FrameDone(e)
    \/ FrameGive \/ FrameStore
    \/ Disconnected
    \/ \E a \in 1 .. MaxAddr : Connected(a)

Next ==
    \/ \E t \in AppTasks : Transfer(t) \/ Control(t)
    \/ HostTask
    \/ Unplug

Spec == Init /\ [][Next]_vars

\* A call that was made ends, unless it waits in DQBUF.
CallSteps(t) ==
    \/ QbufNotify(t) \/ QbufRead(t) \/ QbufReturn(t)
    \/ DqbufPop(t)
    \/ StreamOffUnplugged(t)
    \/ StreamOffTake(t) \/ StreamOffReturn(t) \/ StreamOffClose(t) \/ StreamOffCloseFails(t)
    \/ StreamOffDrain(t) \/ StreamOffLists(t) \/ StreamOffDone(t)

\* The library's task runs, calls end, the library does not refuse for ever to stop its
\* stream, and an application that wants the stream off gives back the buffers it owns
\* and tries again.
Fairness ==
    /\ WF_vars(FrameGive) /\ WF_vars(FrameStore) /\ WF_vars(Disconnected)
    /\ \A t \in AppTasks :
           /\ SF_vars(CallSteps(t))
           /\ SF_vars(StreamOffHost(t))
           /\ SF_vars(closing /\ \E e \in Elements : Qbuf(t, e))
           /\ SF_vars(closing /\ StreamOff(t))

FairSpec == Spec /\ Fairness

-------------------------------------------------------------------------------
(* Properties *)

Held == {held[t] : t \in AppTasks} \ {NULL}

\* A frame has one owner: the library, the application, one list, or the one task that is
\* returning it.  The library never fills a buffer somebody reads, and no frame of an open
\* stream is lost, if the application does not overtake the callback that stores it.
FramesAccounted ==
    /\ ListsSound
    /\ empty \cap (app \cup Listed) = {}
    /\ app \cap Listed = {}
    /\ \A t, u \in AppTasks :
           held[t] # NULL =>
               /\ held[t] \notin empty \cup app \cup Listed
               /\ held[t] = held[u] => t = u
    /\ (~preempts /\ host # "closed") => buffer = empty \cup app \cup Listed \cup Held

\* The library's stream is used only while it exists, although priv_data outlives the
\* frame it names.
ReturnsToOpenStream ==
    \A t \in AppTasks : pc[t] \in {"qb_return", "off_return"} => host # "closed"

\* The comment in uvc_video_stop: once the cached frames are free, the stream can be
\* closed.  The application has queued every buffer.  True with Preempting = {FALSE}; a task
\* that runs between FrameGive and FrameStore makes it false.
CloseAfterFree ==
    \A t \in AppTasks : pc[t] = "off_close" /\ app = {} => empty = buffer

\* An application that wants the stream off gets it off, however often the camera was
\* pulled out before and a call failed, if it is plugged in again at last.
StreamStops ==
    (<>[](plugged # 0 /\ ~preempts)) => [](closing => <>(~closing))
===============================================================================
