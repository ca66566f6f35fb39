----------------------------- MODULE DvpController -----------------------------
(***************************************************************************)
(* The DVP camera controller (esp_cam_ctlr_dvp_cam.c): two interrupts post   *)
(* events to a short queue; dvp_task takes them out, copies each half of the *)
(* DMA ring that is full into the frame, and hands the frame to the video    *)
(* device when the V-sync that ends it arrives.  Another task starts, stops  *)
(* and deletes the controller meanwhile.                                     *)
(*                                                                          *)
(* A frame is a fixed number of halves of the ring (formats other than       *)
(* JPEG).  The callbacks into the video device are in CaptureStream; here a  *)
(* transfer is offered or not.                                               *)
(***************************************************************************)
EXTENDS Integers, Sequences

CONSTANTS
    Halves,             \* halves of the DMA ring that make up a frame
    QueueSize,          \* DVP_CAM_EVENT_QUEUE_SIZE
    MayBeLate           \* a half may be full before the task has handled all events

ASSUME DvpAssumption ==
    /\ Halves \in Nat \ {0}
    /\ QueueSize \in Nat \ {0}
    /\ MayBeLate \in BOOLEAN

VARIABLES
    ctlr,               \* the step of the task that starts, stops and deletes
    dvp_fsm,
    event_queue,
    vsync_intr,         \* the V-sync interrupt is enabled
    dma,                \* the DMA captures
    dma_half,           \* the half of the ring it fills
    dma_buffer,         \* per half of the ring, what is in it
    dma_desc_index,     \* the half dvp_task copies next
    trans,              \* what the transfer holds; its length is received_size
    pc,                 \* the step of dvp_task, "deleted" when there is none
    frame, sent,        \* the frame the sensor sends, and how many halves of it are sent
    late                \* since the capture began a half was full too early

hwVars     == <<dma, dma_half, dma_buffer>>
sensorVars == <<frame, sent>>
vars == <<ctlr, dvp_fsm, event_queue, vsync_intr, hwVars, dma_desc_index, trans, pc, sensorVars, late>>

SYNC_END  == "sync_end"
RECV_DATA == "recv_data"

Ring    == 0 .. 1                        \* DVP_CAM_BUFFER_COUNT
Data    == [frame : {0, 1}, half : 1 .. Halves]
Torn    == [frame |-> 0, half |-> 0]     \* a half of the ring being written, or never filled
Content == Data \cup {Torn}

CapturePcs == {"first_capture", "capture"}

TypeOK ==
    /\ ctlr \in {"none", "created", "running", "stopping", "stopped", "untasked", "unlinked"}
    /\ dvp_fsm \in {"init", "started", "rxing"}
    /\ event_queue \in Seq({SYNC_END, RECV_DATA}) /\ Len(event_queue) <= QueueSize
    /\ vsync_intr \in BOOLEAN
    /\ dma \in BOOLEAN /\ dma_half \in Ring /\ dma_buffer \in [Ring -> Content]
    /\ dma_desc_index \in Ring
    /\ trans \in Seq(Content) /\ Len(trans) <= Halves
    /\ pc \in {"deleted", "receive", "first", "first_capture", "copy", "finish", "next",
              "capture", "enable"}
    /\ frame \in {0, 1} /\ sent \in 0 .. Halves
    /\ late \in BOOLEAN

Init ==
    /\ ctlr = "none"
    /\ dvp_fsm = "init"
    /\ event_queue = <<>>
    /\ vsync_intr = FALSE
    /\ dma = FALSE /\ dma_half = 0 /\ dma_buffer = [h \in Ring |-> Torn]
    /\ dma_desc_index = 0
    /\ trans = <<>>
    /\ pc = "deleted"
    /\ frame = 0 /\ sent = 0
    /\ late = FALSE

-------------------------------------------------------------------------------
(* The sensor and the interrupts.  An event that finds the queue full is lost. *)

Post(e) == event_queue' = IF Len(event_queue) < QueueSize THEN Append(event_queue, e) ELSE event_queue

\* dvp_task has nothing left to do, or does not exist.
Handled == event_queue = <<>> /\ pc \in {"receive", "deleted"}

\* The sensor has sent a half.  When the DMA captures, a half of the ring is full
\* (dvp_receive_isr) and it goes on with the other one.
SensorHalf ==
    /\ sent < Halves
    /\ MayBeLate \/ Handled
    /\ sent' = sent + 1
    /\ IF dma
       THEN /\ dma_buffer' = [h \in Ring |-> IF h = dma_half
                                             THEN [frame |-> frame, half |-> sent + 1] ELSE Torn]
            /\ dma_half' = 1 - dma_half
            /\ late' = (late \/ ~Handled)
            /\ Post(RECV_DATA)
       ELSE UNCHANGED <<dma_buffer, dma_half, late, event_queue>>
    /\ UNCHANGED <<ctlr, dvp_fsm, vsync_intr, dma, dma_desc_index, trans, pc, frame>>

\* The frame is complete (dvp_vsync_isr).
SensorVsync ==
    /\ sent = Halves
    /\ sent' = 0
    /\ frame' = 1 - frame
    /\ IF vsync_intr THEN Post(SYNC_END) ELSE UNCHANGED event_queue
    /\ UNCHANGED <<ctlr, dvp_fsm, vsync_intr, hwVars, dma_desc_index, trans, pc, late>>

-------------------------------------------------------------------------------
(* Starting, stopping and deleting *)

\* esp_cam_new_dvp_ctlr makes the task and the queue.
NewController ==
    /\ ctlr = "none"
    /\ ctlr' = "created"
    /\ dvp_fsm' = "init"
    /\ event_queue' = <<>>
    /\ pc' = "receive"
    /\ trans' = <<>>
    /\ dma_desc_index' = 0
    /\ UNCHANGED <<vsync_intr, hwVars, sensorVars, late>>

Start ==
    /\ ctlr = "created"
    /\ ctlr' = "running"
    /\ dvp_fsm' = "started"
    /\ vsync_intr' = TRUE
    /\ UNCHANGED <<event_queue, hwVars, dma_desc_index, trans, pc, sensorVars, late>>

\* dvp_cam_ctlr_stop writes the state first ...
Stop ==
    /\ ctlr = "running"
    /\ ctlr' = "stopping"
    /\ dvp_fsm' = "init"
    /\ UNCHANGED <<event_queue, vsync_intr, hwVars, dma_desc_index, trans, pc, sensorVars, late>>

\* ... and stops the capture after it.
StopCapturing ==
    /\ ctlr = "stopping"
    /\ ctlr' = "stopped"
    /\ vsync_intr' = FALSE
    /\ dma' = FALSE
    /\ UNCHANGED <<dvp_fsm, event_queue, dma_half, dma_buffer, dma_desc_index, trans, pc, sensorVars, late>>

\* dvp_cam_ctlr_del deletes dvp_task, wherever it is ...
DeleteTask ==
    /\ ctlr = "stopped"
    /\ ctlr' = "untasked"
    /\ pc' = "deleted"
    /\ UNCHANGED <<dvp_fsm, event_queue, vsync_intr, hwVars, dma_desc_index, trans, sensorVars, late>>

\* Mutant: the capture is not stopped again.
DeleteInterruptOnly ==
    /\ ctlr = "untasked"
    /\ ctlr' = "unlinked"
    /\ vsync_intr' = FALSE
    /\ UNCHANGED <<dvp_fsm, event_queue, hwVars, dma_desc_index, trans, pc, sensorVars, late>>

\* ... then the interrupt and the capture that dvp_task may have started again ...
DeleteInterrupt ==
    /\ ctlr = "untasked"
    /\ ctlr' = "unlinked"
    /\ vsync_intr' = FALSE
    /\ dma' = FALSE
    /\ UNCHANGED <<dvp_fsm, event_queue, dma_half, dma_buffer, dma_desc_index, trans, pc, sensorVars, late>>

\* ... and frees the ring and the queue.
DeleteMemory ==
    /\ ctlr = "unlinked"
    /\ ctlr' = "none"
    /\ dma_buffer' = [h \in Ring |-> Torn]
    /\ event_queue' = <<>>
    /\ trans' = <<>>
    /\ UNCHANGED <<dvp_fsm, vsync_intr, dma, dma_half, dma_desc_index, pc, sensorVars, late>>

-------------------------------------------------------------------------------
(* dvp_task *)

Received(e) ==
    /\ pc = "receive"
    /\ event_queue # <<>>
    /\ Head(event_queue) = e
    /\ event_queue' = Tail(event_queue)

CopyHalf == Append(trans, dma_buffer[dma_desc_index])

\* A half is copied unless it is the last one, which is left to the V-sync.
RecvData ==
    /\ Received(RECV_DATA)
    /\ IF dvp_fsm = "rxing" /\ Len(trans) + 1 < Halves
       THEN /\ trans' = CopyHalf
            /\ dma_desc_index' = 1 - dma_desc_index
       ELSE UNCHANGED <<trans, dma_desc_index>>
    /\ UNCHANGED <<ctlr, dvp_fsm, vsync_intr, hwVars, pc, sensorVars, late>>

SyncIgnored ==
    /\ Received(SYNC_END)
    /\ dvp_fsm = "init"
    /\ UNCHANGED <<ctlr, dvp_fsm, vsync_intr, hwVars, dma_desc_index, trans, pc, sensorVars, late>>

\* A frame begins and a transfer is to be asked for.
SyncStarted ==
    /\ Received(SYNC_END)
    /\ dvp_fsm = "started"
    /\ pc' = "first"
    /\ UNCHANGED <<ctlr, dvp_fsm, vsync_intr, hwVars, dma_desc_index, trans, sensorVars, late>>

\* A frame ends.  Events that are in the queue already stay there.
SyncRxing ==
    /\ Received(SYNC_END)
    /\ dvp_fsm = "rxing"
    /\ dma' = FALSE
    /\ vsync_intr' = FALSE
    /\ pc' = "copy"
    /\ UNCHANGED <<ctlr, dvp_fsm, dma_half, dma_buffer, dma_desc_index, trans, sensorVars, late>>

\* Mutant: the size of the frame is not tested.
CopyLastUntested ==
    /\ pc = "copy"
    /\ trans' = CopyHalf
    /\ pc' = "finish"
    /\ UNCHANGED <<ctlr, dvp_fsm, event_queue, vsync_intr, hwVars, dma_desc_index, sensorVars, late>>

\* The last half; a frame of another size is dropped and its transfer used again.
CopyLast ==
    /\ pc = "copy"
    /\ IF Len(trans) + 1 = Halves
       THEN /\ trans' = CopyHalf
            /\ pc' = "finish"
            /\ UNCHANGED <<dvp_fsm, dma_desc_index>>
       ELSE /\ trans' = <<>>
            /\ dma_desc_index' = 0
            /\ dvp_fsm' = "rxing"
            /\ pc' = "capture"
    /\ UNCHANGED <<ctlr, event_queue, vsync_intr, hwVars, sensorVars, late>>

\* on_trans_finished
Finish ==
    /\ pc = "finish"
    /\ pc' = "next"
    /\ UNCHANGED <<ctlr, dvp_fsm, event_queue, vsync_intr, hwVars, dma_desc_index, trans, sensorVars, late>>

\* on_get_new_trans offers a transfer.
NewTrans ==
    /\ pc \in {"first", "next"}
    /\ trans' = <<>>
    /\ dma_desc_index' = 0
    /\ dvp_fsm' = "rxing"
    /\ pc' = IF pc = "first" THEN "first_capture" ELSE "capture"
    /\ UNCHANGED <<ctlr, event_queue, vsync_intr, hwVars, sensorVars, late>>

\* Mutant: the V-sync interrupt stays disabled when there is no transfer.
NoTransDisabled ==
    /\ pc \in {"first", "next"}
    /\ dvp_fsm' = "started"
    /\ pc' = "receive"
    /\ UNCHANGED <<ctlr, event_queue, vsync_intr, hwVars, dma_desc_index, trans, sensorVars, late>>

\* It offers none: the driver asks again with the next frame.
NoTrans ==
    /\ pc \in {"first", "next"}
    /\ dvp_fsm' = IF pc = "next" THEN "started" ELSE dvp_fsm
    /\ pc' = IF pc = "next" THEN "enable" ELSE "receive"
    /\ UNCHANGED <<ctlr, event_queue, vsync_intr, hwVars, dma_desc_index, trans, sensorVars, late>>

\* dvp_start_capturing: the DMA begins with the first half of the ring.  The first
\* transfer finds the interrupt enabled and leaves it so.
StartCapturing ==
    /\ pc \in CapturePcs
    /\ dma' = TRUE
    /\ dma_half' = 0
    /\ dma_buffer' = [dma_buffer EXCEPT ![0] = Torn]
    /\ late' = FALSE
    /\ pc' = IF pc = "capture" THEN "enable" ELSE "receive"
    /\ UNCHANGED <<ctlr, dvp_fsm, event_queue, vsync_intr, dma_desc_index, trans, sensorVars>>

EnableInterrupt ==
    /\ pc = "enable"
    /\ vsync_intr' = TRUE
    /\ pc' = "receive"
    /\ UNCHANGED <<ctlr, dvp_fsm, event_queue, hwVars, dma_desc_index, trans, sensorVars, late>>

-------------------------------------------------------------------------------
SensorNext == SensorHalf \/ SensorVsync

ControlNext ==
    \/ NewController \/ Start \/ Stop \/ StopCapturing
    \/ DeleteTask \/ DeleteInterrupt \/ DeleteMemory

\* What dvp_task does without the help of the video device.
TaskStep ==
    \/ RecvData
    \/ SyncIgnored \/ SyncStarted \/ SyncRxing
    \/ CopyLast \/ Finish
    \/ StartCapturing \/ EnableInterrupt

TaskNext == TaskStep \/ NewTrans \/ NoTrans

Next == SensorNext \/ ControlNext \/ TaskNext

Spec == Init /\ [][Next]_vars

\* The sensor goes on sending and dvp_task, which has almost the highest priority,
\* runs; a stop that has begun ends with the deletion of the controller
\* (common_video_stop_impl).
Fairness ==
    /\ WF_vars(SensorNext)
    /\ WF_vars(TaskStep)
    /\ WF_vars(NewTrans \/ NoTrans)
    /\ WF_vars(StopCapturing \/ DeleteTask \/ DeleteInterrupt \/ DeleteMemory)

FairSpec == Spec /\ Fairness

-------------------------------------------------------------------------------
Intact(f) == \E n \in {0, 1} : f = [i \in 1 .. Halves |-> [frame |-> n, half |-> i]]

\* A frame handed to the video device is one frame of the sensor, whole and in order,
\* if dvp_task kept up while it was captured: the driver tests the size only
\* (dvp_task), whatever stops, restarts and missing transfers came before.
FrameIntact == pc = "finish" /\ ~late => Intact(trans)

\* Once the controller is deleted nothing captures into its ring any more, although
\* dvp_task may have started a capture after the stop (dvp_cam_ctlr_stop and
\* dvp_cam_ctlr_del against dvp_task).
DeletedIsQuiet == ctlr \in {"unlinked", "none"} => ~dma /\ ~vsync_intr

\* A controller that is not stopped asks for transfers for ever, and delivers frames
\* for ever when it gets them: no dropped frame and no missing transfer leaves
\* dvp_task stuck.
FramesDelivered ==
    <>[](ctlr = "running") =>
        /\ []<>(pc \in {"first", "next", "finish"})
        /\ []<>(pc \in CapturePcs) => []<>(pc = "finish")
===============================================================================
