------------------------------ MODULE VideoDevice ------------------------------
(***************************************************************************)
(* A CSI video device as an object (struct esp_video, esp_video.c): how     *)
(* esp_video_init and esp_video_deinit create and destroy it, how open and  *)
(* close count their descriptors and switch the hardware on and off, and     *)
(* how its events reach the task that waits in VIDIOC_DQEVENT.               *)
(*                                                                          *)
(* What a stream does with its buffers is in CaptureStream; here it is      *)
(* allocated or not, on or off, and its controller runs or not.             *)
(***************************************************************************)
EXTENDS Integers, Sequences, FiniteSets

CONSTANTS
    AppTasks,           \* tasks that open, close, control and destroy the device
    Listener,           \* the task that waits for events
    MaxReference,       \* bound: descriptors a device can have (UINT8_MAX in the code)
    EventQueueSize,     \* EVENT_QUEUE_SIZE
    MaxSequence,        \* bound: error interrupts of one subscription
    Faults              \* what may fail: "init", "deinit", "stop", "restart"

ASSUME DeviceAssumption ==
    /\ IsFiniteSet(AppTasks)
    /\ Listener \notin AppTasks
    /\ "none" \notin AppTasks
    /\ MaxReference \in Nat \ {0}
    /\ EventQueueSize \in Nat \ {0}
    /\ MaxSequence \in Nat
    /\ Faults \subseteq {"init", "deinit", "stop", "restart"}

VARIABLES
    object,             \* the object is in s_video_list
    sensor,             \* common->cam.sensor points to a sensor device
    mutex,              \* video->mutex: its holder or "none"
    reference,          \* video->reference
    inited,             \* video->inited
    power,              \* how often ops->init has switched the hardware on
    fds,                \* open descriptors
    lost,               \* descriptors whose close failed; the VFS has freed them
    pc,                 \* per task, the step of its call
    allocated,          \* stream->buffer # NULL
    started,            \* stream->started
    ctlr,               \* the camera controller runs
    on_error,           \* its error callback is registered
    intr,               \* its error interrupt is enabled
    event_sub,          \* video->event_sub.type # 0
    is_event_subscribed,
    callback,           \* common->event_callback.callback_func # NULL
    event_queue,        \* video->event_queue # NULL
    queued,             \* the events in it, oldest first
    sequence,           \* video->event.sequence
    received,           \* the sequence of the listener's last error event
    told                \* the listener knows that the interrupt is disabled

objectVars == <<object, sensor>>
openVars   == <<mutex, reference, inited, power, fds, lost>>
streamVars == <<allocated, started, ctlr, on_error, intr>>
eventVars  == <<event_sub, is_event_subscribed, callback, event_queue, queued, sequence>>
heardVars  == <<received, told>>
vars == <<objectVars, openVars, pc, streamVars, eventVars, heardVars>>

Event(t, s) == [type |-> t, sequence |-> s]

UNSUBSCRIBED == "unsubscribed"
CSI_ERROR    == "error"
DISABLED     == "interrupt_disable"

Events  == [type : {CSI_ERROR, DISABLED}, sequence : Nat] \cup {Event(UNSUBSCRIBED, 0)}

OpenPcs   == {"open_take", "open_init", "open_give"}
ClosePcs  == {"close_take", "close_deinit", "close_give"}
DeinitPcs == {"deinit_sensor", "deinit_destroy"}

TypeOK ==
    /\ object \in BOOLEAN /\ sensor \in BOOLEAN
    /\ mutex \in AppTasks \cup {"none"}
    /\ reference \in 0 .. MaxReference
    /\ inited \in BOOLEAN
    /\ power \in Nat
    /\ fds \in 0 .. MaxReference /\ lost \in 0 .. MaxReference
    /\ pc \in [AppTasks \cup {Listener} ->
                  {"idle", "out", "loop", "wait"} \cup OpenPcs \cup ClosePcs \cup DeinitPcs]
    /\ allocated \in BOOLEAN /\ started \in BOOLEAN
    /\ ctlr \in BOOLEAN /\ on_error \in BOOLEAN /\ intr \in BOOLEAN
    /\ event_sub \in BOOLEAN /\ is_event_subscribed \in BOOLEAN /\ callback \in BOOLEAN
    /\ event_queue \in BOOLEAN
    /\ queued \in Seq(Events) /\ Len(queued) <= EventQueueSize
    /\ sequence \in Nat
    /\ received \in Nat /\ told \in BOOLEAN

Init ==
    /\ object = FALSE /\ sensor = FALSE
    /\ mutex = "none"
    /\ reference = 0
    /\ inited = FALSE
    /\ power = 0
    /\ fds = 0 /\ lost = 0
    /\ pc = [t \in AppTasks \cup {Listener} |-> IF t = Listener THEN "out" ELSE "idle"]
    /\ allocated = FALSE /\ started = FALSE
    /\ ctlr = FALSE /\ on_error = FALSE /\ intr = FALSE
    /\ event_sub = FALSE /\ is_event_subscribed = FALSE /\ callback = FALSE
    /\ event_queue = FALSE
    /\ queued = <<>>
    /\ sequence = 0
    /\ received = 0 /\ told = FALSE

Goto(t, step) == pc' = [pc EXCEPT ![t] = step]

Among(steps) == {t \in AppTasks : pc[t] \in steps}

-------------------------------------------------------------------------------
(* esp_video_init and esp_video_deinit: the application calls them while no   *)
(* open or close is under way; descriptors may be open.                       *)

Quiet == Among(OpenPcs \cup ClosePcs \cup DeinitPcs) = {}

\* The sensor is detected and esp_video_create makes the object.
Create(t) ==
    /\ Quiet
    /\ ~object
    /\ object' = TRUE
    /\ sensor' = TRUE
    /\ reference' = 0
    /\ inited' = FALSE
    /\ UNCHANGED <<mutex, power, fds, lost, pc, streamVars, eventVars, heardVars>>

\* Descriptors may be open.  A sensor that is deleted already would be deleted again;
\* that is not followed any further.
Deinit(t) ==
    /\ Quiet
    /\ object
    /\ sensor
    /\ Goto(t, "deinit_sensor")
    /\ UNCHANGED <<objectVars, openVars, streamVars, eventVars, heardVars>>

\* destroy_csi_video_device deletes the sensor before it asks for the object.
DeinitSensor(t) ==
    /\ pc[t] = "deinit_sensor"
    /\ sensor' = FALSE
    /\ Goto(t, "deinit_destroy")
    /\ UNCHANGED <<object, openVars, streamVars, eventVars, heardVars>>

\* Mutant: the reference count is not tested.
DestroyUntested(t) ==
    /\ pc[t] = "deinit_destroy"
    /\ object' = FALSE
    /\ Goto(t, "idle")
    /\ UNCHANGED <<sensor, openVars, streamVars, eventVars, heardVars>>

\* esp_video_destroy: an object that is open is left alone (ESP_ERR_NOT_ALLOWED).
Destroy(t) ==
    /\ pc[t] = "deinit_destroy"
    /\ object' = (reference # 0)
    /\ Goto(t, "idle")
    /\ UNCHANGED <<sensor, openVars, streamVars, eventVars, heardVars>>

\* vQueueDelete, if there is a queue.
DeleteQueue ==
    /\ event_queue' = FALSE
    /\ queued' = <<>>

-------------------------------------------------------------------------------
(* open *)

\* esp_video_open finds the object; the bound leaves room for the reference.
Open(t) ==
    /\ pc[t] = "idle"
    /\ object
    /\ Among(DeinitPcs) = {}
    /\ fds + lost + Cardinality(Among(OpenPcs \cup ClosePcs)) < MaxReference
    /\ Goto(t, "open_take")
    /\ UNCHANGED <<objectVars, openVars, streamVars, eventVars, heardVars>>

OpenTake(t) ==
    /\ pc[t] = "open_take"
    /\ mutex = "none"
    /\ mutex' = t
    /\ reference' = reference + 1
    /\ Goto(t, IF reference = 0 /\ ~inited THEN "open_init" ELSE "open_give")
    /\ UNCHANGED <<objectVars, inited, power, fds, lost, streamVars, eventVars, heardVars>>

\* The hardware is on and the stream and the events start afresh.
OpenInit(t) ==
    /\ pc[t] = "open_init"
    /\ power' = power + 1
    /\ inited' = TRUE
    /\ allocated' = FALSE
    /\ event_sub' = FALSE
    /\ DeleteQueue
    /\ sequence' = 0
    /\ Goto(t, "open_give")
    /\ UNCHANGED <<objectVars, mutex, reference, fds, lost, started, ctlr, on_error, intr,
                   is_event_subscribed, callback, heardVars>>

\* Mutant: the mutex is kept when the hardware does not start.
OpenInitFailsLocked(t) ==
    /\ "init" \in Faults
    /\ pc[t] = "open_init"
    /\ reference' = reference - 1
    /\ Goto(t, "idle")
    /\ UNCHANGED <<objectVars, mutex, inited, power, fds, lost, streamVars, eventVars, heardVars>>

OpenInitFails(t) ==
    /\ "init" \in Faults
    /\ pc[t] = "open_init"
    /\ reference' = reference - 1
    /\ mutex' = "none"
    /\ Goto(t, "idle")
    /\ UNCHANGED <<objectVars, inited, power, fds, lost, streamVars, eventVars, heardVars>>

OpenGive(t) ==
    /\ pc[t] = "open_give"
    /\ mutex' = "none"
    /\ fds' = fds + 1
    /\ Goto(t, "idle")
    /\ UNCHANGED <<objectVars, reference, inited, power, lost, streamVars, eventVars, heardVars>>

-------------------------------------------------------------------------------
(* close *)

\* The VFS frees the descriptor whatever esp_video_close returns.  The stream may be
\* on.  The application waits for the listener to leave unless it is still
\* subscribed, which the code refuses.
Close(t) ==
    /\ pc[t] = "idle"
    /\ fds > 0
    /\ Among(DeinitPcs) = {}
    /\ pc[Listener] = "out" \/ event_sub
    /\ fds' = fds - 1
    /\ Goto(t, "close_take")
    /\ UNCHANGED <<objectVars, mutex, reference, inited, power, lost, streamVars, eventVars, heardVars>>

\* Mutant: the last close does not look at the subscription.
CloseTakeSubscribed(t) ==
    /\ pc[t] = "close_take"
    /\ mutex = "none"
    /\ mutex' = t
    /\ reference' = reference - 1
    /\ Goto(t, IF reference = 1 THEN "close_deinit" ELSE "close_give")
    /\ UNCHANGED <<objectVars, inited, power, fds, lost, streamVars, eventVars, heardVars>>

\* The last close is refused while the application is subscribed.
CloseTake(t) ==
    /\ pc[t] = "close_take"
    /\ mutex = "none"
    /\ mutex' = t
    /\ LET last    == reference = 1 /\ inited
           refused == last /\ event_sub
       IN  /\ reference' = IF refused \/ reference = 0 THEN reference ELSE reference - 1
           /\ lost' = IF refused THEN lost + 1 ELSE lost
           /\ Goto(t, IF last /\ ~refused THEN "close_deinit" ELSE "close_give")
    /\ UNCHANGED <<objectVars, inited, power, fds, streamVars, eventVars, heardVars>>

\* ops->deinit, the release of the buffers, and the end of the event queue.  The
\* camera controller is left as it is.
CloseDeinit(t) ==
    /\ pc[t] = "close_deinit"
    /\ power' = power - 1
    /\ inited' = FALSE
    /\ allocated' = FALSE
    /\ DeleteQueue
    /\ is_event_subscribed' = FALSE
    /\ started' = FALSE
    /\ Goto(t, "close_give")
    /\ UNCHANGED <<objectVars, mutex, reference, fds, lost, ctlr, on_error, intr,
                   event_sub, callback, sequence, heardVars>>

\* The reference comes back and the event queue goes all the same.
CloseDeinitFails(t) ==
    /\ "deinit" \in Faults
    /\ pc[t] = "close_deinit"
    /\ reference' = reference + 1
    /\ lost' = lost + 1
    /\ DeleteQueue
    /\ is_event_subscribed' = FALSE
    /\ Goto(t, "close_give")
    /\ UNCHANGED <<objectVars, mutex, inited, power, fds, streamVars, event_sub, callback, sequence, heardVars>>

CloseGive(t) ==
    /\ pc[t] = "close_give"
    /\ mutex' = "none"
    /\ Goto(t, "idle")
    /\ UNCHANGED <<objectVars, reference, inited, power, fds, lost, streamVars, eventVars, heardVars>>

-------------------------------------------------------------------------------
(* The stream, in as much detail as its events and its end need.  One task at  *)
(* a time controls an open device.                                             *)

MayControl(t) ==
    /\ pc[t] = "idle"
    /\ fds > 0
    /\ Among(ClosePcs) = {}

Reqbufs(t) ==
    /\ MayControl(t)
    /\ ~started
    /\ ~allocated
    /\ allocated' = TRUE
    /\ UNCHANGED <<objectVars, openVars, pc, started, ctlr, on_error, intr, eventVars, heardVars>>

\* A controller starts with its error interrupt enabled and, when the application is
\* subscribed, its error callback registered.  One that runs already is left alone.
StartController ==
    /\ ctlr' = TRUE
    /\ on_error' = IF ctlr THEN on_error ELSE is_event_subscribed
    /\ intr' = (ctlr => intr)
    /\ told' = (ctlr /\ told)

\* A sensor that is deleted is not followed any further.
StreamOn(t) ==
    /\ MayControl(t)
    /\ allocated
    /\ ~started
    /\ sensor
    /\ StartController
    /\ started' = TRUE
    /\ UNCHANGED <<objectVars, openVars, pc, allocated, eventVars, received>>

StreamOff(t) ==
    /\ MayControl(t)
    /\ started
    /\ sensor
    /\ ctlr' = FALSE
    /\ started' = FALSE
    /\ UNCHANGED <<objectVars, openVars, pc, allocated, on_error, intr, eventVars, heardVars>>

\* The controller stops and the rest fails: the stream is still on.
StreamOffFails(t) ==
    /\ "stop" \in Faults
    /\ MayControl(t)
    /\ started
    /\ sensor
    /\ ctlr' = FALSE
    /\ UNCHANGED <<objectVars, openVars, pc, allocated, started, on_error, intr, eventVars, heardVars>>

\* RESTART stops the controller and starts it again, with the error interrupt enabled.
MayRestart == started /\ sensor /\ fds > 0 /\ Among(ClosePcs) = {}

Restart(l) ==
    /\ pc[l] = "loop"
    /\ MayRestart
    /\ ctlr' = TRUE
    /\ on_error' = is_event_subscribed
    /\ intr' = TRUE
    /\ told' = FALSE
    /\ UNCHANGED <<objectVars, openVars, pc, allocated, started, eventVars, received>>

RestartFails(l) ==
    /\ "restart" \in Faults
    /\ pc[l] = "loop"
    /\ MayRestart
    /\ ctlr' = FALSE
    /\ UNCHANGED <<objectVars, openVars, pc, allocated, started, on_error, intr, eventVars, heardVars>>

-------------------------------------------------------------------------------
(* Subscriptions.  The application runs the listener for as long as it is      *)
(* subscribed.                                                                 *)

Subscribe(t) ==
    /\ MayControl(t)
    /\ ~started
    /\ pc[Listener] = "out"
    /\ event_queue' = TRUE
    /\ is_event_subscribed' = TRUE
    /\ event_sub' = TRUE
    /\ received' = 0
    /\ UNCHANGED <<objectVars, openVars, pc, streamVars, callback, queued, sequence, told>>

StartListener(t) ==
    /\ MayControl(t)
    /\ event_sub
    /\ pc[Listener] = "out"
    /\ Goto(Listener, "loop")
    /\ UNCHANGED <<objectVars, openVars, streamVars, eventVars, heardVars>>

SetEventCallback(t) ==
    /\ MayControl(t)
    /\ event_queue
    /\ ~started
    /\ callback' = TRUE
    /\ UNCHANGED <<objectVars, openVars, pc, streamVars, event_sub, is_event_subscribed,
                   event_queue, queued, sequence, heardVars>>

\* Mutant: the farewell is sent before the queue is reset.
UnsubscribeSendFirst(t) ==
    /\ MayControl(t)
    /\ ~started /\ event_sub
    /\ pc[Listener] # "out"
    /\ callback' = FALSE
    /\ is_event_subscribed' = FALSE
    /\ event_sub' = FALSE
    /\ sequence' = 0
    /\ queued' = <<>>
    /\ UNCHANGED <<objectVars, openVars, pc, streamVars, event_queue, heardVars>>

\* The queue is reset, then told that nothing more will come; it lives until the
\* device is closed.
Unsubscribe(t) ==
    /\ MayControl(t)
    /\ ~started /\ event_sub
    /\ pc[Listener] # "out"
    /\ callback' = FALSE
    /\ is_event_subscribed' = FALSE
    /\ event_sub' = FALSE
    /\ sequence' = 0
    /\ queued' = <<Event(UNSUBSCRIBED, 0)>>
    /\ UNCHANGED <<objectVars, openVars, pc, streamVars, event_queue, heardVars>>

-------------------------------------------------------------------------------
(* VIDIOC_DQEVENT, in the listener's loop. *)

GetEvent(l) ==
    /\ pc[l] = "loop"
    /\ fds > 0
    /\ event_queue
    /\ Goto(l, "wait")
    /\ UNCHANGED <<objectVars, openVars, streamVars, eventVars, heardVars>>

ReceiveEvent(l) ==
    /\ pc[l] = "wait"
    /\ queued # <<>>
    /\ queued' = Tail(queued)
    /\ LET e == Head(queued)
       IN  /\ Goto(l, IF e.type = UNSUBSCRIBED THEN "out" ELSE "loop")
           /\ received' = IF e.type = UNSUBSCRIBED THEN received ELSE e.sequence
           /\ told' = (told \/ e.type = DISABLED)
    /\ UNCHANGED <<objectVars, openVars, streamVars, event_sub, is_event_subscribed, callback, event_queue, sequence>>

-------------------------------------------------------------------------------
(* esp_video_device_common_on_error, the error interrupt *)

Raised ==
    /\ ctlr /\ on_error /\ intr
    /\ sequence < MaxSequence

Full(q) == Len(q) = EventQueueSize

\* Mutant: the sequence is taken from the event that was evicted.
OnErrorDisableEvicted ==
    /\ Raised
    /\ callback
    /\ intr' = FALSE
    /\ LET seq == IF Full(queued) THEN Head(queued).sequence + 1 ELSE sequence + 1
           q   == IF Full(queued) THEN Tail(queued) ELSE queued
       IN  /\ sequence' = seq
           /\ queued' = Append(q, Event(DISABLED, seq))
    /\ UNCHANGED <<objectVars, openVars, pc, allocated, started, ctlr, on_error,
                   event_sub, is_event_subscribed, callback, event_queue, heardVars>>

\* The callback asks to disable the interrupt: the last event it will raise goes
\* into the queue, at the expense of the oldest one.
OnErrorDisable ==
    /\ Raised
    /\ callback
    /\ intr' = FALSE
    /\ sequence' = sequence + 1
    /\ queued' = Append(IF Full(queued) THEN Tail(queued) ELSE queued,
                             Event(DISABLED, sequence + 1))
    /\ UNCHANGED <<objectVars, openVars, pc, allocated, started, ctlr, on_error,
                   event_sub, is_event_subscribed, callback, event_queue, heardVars>>

\* Mutant: the event is sent whether there is room or not.
OnErrorReportOverfull ==
    /\ Raised
    /\ is_event_subscribed
    /\ event_queue
    /\ sequence' = sequence + 1
    /\ queued' = Append(queued, Event(CSI_ERROR, sequence + 1))
    /\ UNCHANGED <<objectVars, openVars, pc, streamVars, event_sub, is_event_subscribed, callback, event_queue, heardVars>>

\* There is no callback, or it does not ask to: the event is dropped when the queue
\* is full, but counted.
OnErrorReport ==
    /\ Raised
    /\ is_event_subscribed
    /\ event_queue
    /\ sequence' = sequence + 1
    /\ queued' = IF Full(queued) THEN queued
                      ELSE Append(queued, Event(CSI_ERROR, sequence + 1))
    /\ UNCHANGED <<objectVars, openVars, pc, streamVars, event_sub, is_event_subscribed, callback, event_queue, heardVars>>

-------------------------------------------------------------------------------
ObjectNext(t) == Create(t) \/ Deinit(t) \/ DeinitSensor(t) \/ Destroy(t)

OpenNext(t) == Open(t) \/ OpenTake(t) \/ OpenInit(t) \/ OpenInitFails(t) \/ OpenGive(t)

CloseNext(t) == Close(t) \/ CloseTake(t) \/ CloseDeinit(t) \/ CloseDeinitFails(t) \/ CloseGive(t)

StreamNext(t) == Reqbufs(t) \/ StreamOn(t) \/ StreamOff(t) \/ StreamOffFails(t)

EventNext(t) == Subscribe(t) \/ StartListener(t) \/ SetEventCallback(t) \/ Unsubscribe(t)

ListenerNext(l) == GetEvent(l) \/ ReceiveEvent(l) \/ Restart(l) \/ RestartFails(l)

Next ==
    \/ \E t \in AppTasks :
           ObjectNext(t) \/ OpenNext(t) \/ CloseNext(t) \/ StreamNext(t) \/ EventNext(t)
    \/ ListenerNext(Listener)
    \/ OnErrorDisable
    \/ OnErrorReport

Spec == Init /\ [][Next]_vars

\* A call that has begun goes on; a task waiting for the mutex gets it although
\* others may get it first; xQueueReceive wakes its waiter.
OpenStep(t)  == OpenInit(t) \/ OpenInitFails(t) \/ OpenGive(t)
CloseStep(t) == CloseDeinit(t) \/ CloseDeinitFails(t) \/ CloseGive(t)

Fairness ==
    /\ \A t \in AppTasks :
           /\ WF_vars(OpenStep(t))
           /\ WF_vars(CloseStep(t))
           /\ WF_vars(DeinitSensor(t) \/ Destroy(t))
           /\ SF_vars(OpenTake(t))
           /\ SF_vars(CloseTake(t))
    /\ WF_vars(ReceiveEvent(Listener))

FairSpec == Spec /\ Fairness

-------------------------------------------------------------------------------
(* Safety *)

\* The object, its count and the hardware agree, whatever opens, closes and destroys
\* overlap or fail: video->reference counts exactly the open descriptors, the ones a failed
\* close has lost, and the calls between their count and their end; a descriptor works; and
\* between calls the hardware is on, once, exactly while the device is referenced.
HardwareExact ==
    /\ reference = fds + lost + Cardinality(Among({"open_init", "open_give", "close_take"}))
    /\ fds > 0 => object /\ inited
    /\ power <= 1
    /\ mutex = "none" => power = (IF reference > 0 THEN 1 ELSE 0)
    /\ allocated \/ fds > 0 => power = 1

\* The error interrupt never finds its event queue deleted, however streams,
\* subscriptions, descriptors and failing closes end (event_queue is used without
\* a test in esp_video_device_common_on_error).
IsrQueueAlive == ctlr /\ on_error => event_queue /\ inited

\* The places of the error events in the queue.
Errors == {i \in 1 .. Len(queued) : queued[i].type # UNSUBSCRIBED}

\* The listener gets the error events of its subscription in the order they were raised, each
\* once, through a full queue and evictions; and an interrupt that the callback has disabled
\* is never forgotten: the listener has been told, or will be by an event in the queue.
EventsExact ==
    /\ event_sub =>
           \A i \in Errors :
               /\ received < queued[i].sequence
               /\ \A j \in Errors : i < j => queued[i].sequence < queued[j].sequence
    /\ ctlr /\ on_error /\ ~intr =>
           told \/ \E i \in 1 .. Len(queued) : queued[i].type = DISABLED

-------------------------------------------------------------------------------
(* Liveness *)

\* Every open and close returns: each path gives the mutex back.
CallsReturn == \A t \in AppTasks : pc[t] \in OpenPcs \cup ClosePcs ~> pc[t] = "idle"

\* A listener that waits when the application unsubscribes does not wait for ever.
ListenerReleased == (pc[Listener] = "wait" /\ ~event_sub) ~> pc[Listener] # "wait"
===============================================================================
