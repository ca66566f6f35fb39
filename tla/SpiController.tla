----------------------------- MODULE SpiController -----------------------------
(***************************************************************************)
(* The SPI camera controller (esp_cam_ctlr_spi_cam.c) on its two interfaces. *)
(* On "spi" the interrupt of the slave driver (spi_slave.c) reports a packet, *)
(* sets up the next transaction and starts it.  On "parlio" the interrupt    *)
(* reports the packet and a task sets up the next one.  Reported packets may *)
(* pass through a task that decodes them.                                    *)
(*                                                                          *)
(* There is one transaction descriptor, spi_trans.  It is written by the     *)
(* task that starts the controller and by the interrupt, and read when the   *)
(* hardware is done.  The slave cannot be stopped: after spi_cam_stop the    *)
(* interrupt goes on without reporting.                                      *)
(*                                                                          *)
(* The layer above appears as two sets: the buffers it will hand out and the *)
(* buffers it got back.  CaptureStream has the lists behind them.            *)
(***************************************************************************)
EXTENDS Integers, Sequences, FiniteSets, Functions

CONSTANTS
    Buffers,            \* the buffers of the stream
    Spare,              \* the driver's own buffer: frame_buffer or spi_ll_buffer
    None,               \* no buffer
    DropFrames,         \* frame_info->drop_frame_count
    Configs,            \* the configurations a controller may be created with
    Reusable            \* a stopped controller may be started again without being deleted

Interfaces == {"spi", "parlio"}

\* backup: the driver has a whole spare frame (CAM_CTLR_SPI_HAS_BACKUP_BUFFER).
Config == [intf : Interfaces, auto_decode : BOOLEAN, backup : BOOLEAN]

ASSUME SpiAssumption ==
    /\ IsFiniteSet(Buffers)
    /\ Spare \notin Buffers /\ None \notin Buffers /\ Spare # None
    /\ DropFrames \in Nat \ {0}
    /\ Configs \subseteq Config
    /\ Reusable \in BOOLEAN

VARIABLES
    config, fsm,
    starting,           \* spi_cam_start is between queueing the transaction and its last line
    used,               \* the controller was started before
    rx_buffer,          \* spi_trans.rx_buffer
    setup_ll_buffer, dropped_frame_count,
    trans_queue,        \* transactions queued for the hardware
    hw,                 \* the buffer the hardware receives into
    isr,                \* the step of the interrupt
    ms_queue,           \* frames the message task of the parlio interface has to follow up
    recv_queue,         \* packets for the decode task
    decoding,           \* the packet it decodes
    queued, done,       \* the layer above: buffers to hand out, buffers it got back
    rejected,           \* buffers whose packet could not be decoded
    settled,            \* the sensor has sent the packet that is no image
    image               \* buffers that hold a whole image of this session

upperVars == <<queued, done>>
transVars == <<rx_buffer, setup_ll_buffer, dropped_frame_count>>
decodeVars == <<recv_queue, decoding, rejected>>
vars == <<config, fsm, starting, used, transVars, trans_queue, hw, isr, ms_queue, decodeVars,
          upperVars, settled, image>>

Targets == Buffers \cup {Spare}

TransQueueSize == 1                              \* slvcfg.queue_size
\* Mutant: one place less than there are buffers.
RecvQueueSizeShort == Cardinality(Buffers) - 1

RecvQueueSize  == Cardinality(Buffers) + 1       \* frame_buffer_count + 1

TypeOK ==
    /\ config \in Configs
    /\ fsm \in {"none", "init", "enabled", "started"}
    /\ starting \in BOOLEAN /\ used \in BOOLEAN
    /\ rx_buffer \in Targets
    /\ setup_ll_buffer \in BOOLEAN
    /\ dropped_frame_count \in 0 .. DropFrames
    /\ trans_queue \in Seq(Targets)
    /\ hw \in Targets \cup {None}
    /\ isr \in {"idle", "setup", "post"}
    /\ ms_queue \in Nat
    /\ recv_queue \in Seq(Targets)
    /\ decoding \in Targets \cup {None}
    /\ queued \subseteq Buffers /\ done \subseteq Targets /\ rejected \subseteq Targets
    /\ settled \in BOOLEAN
    /\ image \subseteq Buffers

Init ==
    /\ config \in Configs
    /\ fsm = "none"
    /\ starting = FALSE /\ used = FALSE
    /\ rx_buffer = Spare /\ setup_ll_buffer = FALSE /\ dropped_frame_count = 0
    /\ trans_queue = <<>> /\ hw = None /\ isr = "idle"
    /\ ms_queue = 0
    /\ recv_queue = <<>> /\ decoding = None /\ rejected = {}
    /\ queued = Buffers /\ done = {}
    /\ settled = FALSE
    /\ image = {}

-------------------------------------------------------------------------------
(* Setting up a transaction, and reporting one that is over *)

\* Mutant: the layer above is asked before the packets to drop are counted.
SetupTransBufferAsked(n) ==
    /\ queued # {}
    /\ \E b \in queued :
            /\ rx_buffer' = IF n >= DropFrames THEN b ELSE Spare
            /\ queued' = queued \ {b}
            /\ image' = image \ {b}
            /\ setup_ll_buffer' = (n < DropFrames)

\* The next buffer of the layer above, or the spare one while packets are dropped
\* (n so far) and when there is none.
SetupTransBuffer(n) ==
    IF n >= DropFrames /\ queued # {}
    THEN \E b \in queued :
            /\ rx_buffer' = b
            /\ queued' = queued \ {b}
            /\ image' = image \ {b}
            /\ setup_ll_buffer' = FALSE
    ELSE /\ rx_buffer' = Spare
         /\ setup_ll_buffer' = TRUE
         /\ UNCHANGED <<queued, image>>

\* Mutant: the driver's own buffer is reported too.
ForUpperUntested(b) == TRUE

\* Whether the packet in b is for the layer above: the driver compares the buffer, or
\* without a spare frame looks at a flag of the last transaction it set up.
ForUpper(b) == IF config.backup THEN b # Spare ELSE ~setup_ll_buffer

\* Mutant: the packets that are dropped are not counted.
ReceiveDoneUncounted(b) ==
    /\ IF fsm = "started" /\ dropped_frame_count = DropFrames /\ ForUpper(b)
       THEN done' = done \cup {b} ELSE UNCHANGED done
    /\ UNCHANGED <<dropped_frame_count, recv_queue>>

\* The packet in b is reported, passed to the decode task, or dropped.  A decode
\* queue that is full loses it.
ReceiveDone(b) ==
    \/ /\ fsm # "started"
       /\ UNCHANGED <<dropped_frame_count, recv_queue, done>>
    \/ /\ fsm = "started" /\ dropped_frame_count < DropFrames
       /\ dropped_frame_count' = dropped_frame_count + 1
       /\ UNCHANGED <<recv_queue, done>>
    \/ /\ fsm = "started" /\ dropped_frame_count = DropFrames
       /\ IF ForUpper(b) /\ config.auto_decode /\ Len(recv_queue) < RecvQueueSize
          THEN recv_queue' = Append(recv_queue, b) ELSE UNCHANGED recv_queue
       /\ done' = IF ForUpper(b) /\ ~config.auto_decode THEN done \cup {b} ELSE done
       /\ UNCHANGED dropped_frame_count

\* The sensor ends a packet; the hardware has it in its buffer.  The first one of a
\* session is no image.
Packet ==
    /\ isr = "idle" /\ hw # None
    /\ fsm \in {"enabled", "started"}
    /\ image' = IF settled THEN image \cup ({hw} \cap Buffers) ELSE image
    /\ settled' = TRUE
    /\ hw' = None
    /\ IF config.intf = "spi"
       THEN ReceiveDone(rx_buffer) /\ isr' = "setup"
       ELSE ReceiveDone(hw) /\ isr' = "post"
    /\ UNCHANGED <<config, fsm, starting, used, rx_buffer, setup_ll_buffer, trans_queue, ms_queue,
                   decoding, rejected, queued>>

\* spi: the interrupt sets up the next transaction and takes it from the queue again.
\* With a queue that is full the assertion of spi_cam_post_trans_cb ends the program.
IsrNext ==
    /\ isr = "setup"
    /\ Len(trans_queue) < TransQueueSize
    /\ SetupTransBuffer(dropped_frame_count)
    /\ hw' = rx_buffer'
    /\ isr' = "idle"
    /\ UNCHANGED <<config, fsm, starting, used, dropped_frame_count, trans_queue, ms_queue,
                   decodeVars, done, settled>>

\* The interrupt takes the first transaction of a session from the queue.
IsrFetch ==
    /\ isr = "idle" /\ hw = None /\ trans_queue # <<>>
    /\ hw' = Head(trans_queue)
    /\ trans_queue' = Tail(trans_queue)
    /\ UNCHANGED <<config, fsm, starting, used, transVars, isr, ms_queue, decodeVars, upperVars,
                   settled, image>>

\* parlio: the interrupt sends a message.
IsrPost ==
    /\ isr = "post"
    /\ ms_queue' = ms_queue + 1
    /\ isr' = "idle"
    /\ UNCHANGED <<config, fsm, starting, used, transVars, trans_queue, hw, decodeVars, upperVars,
                   settled, image>>

\* parlio: the message task sets up the next transaction.  A unit that is disabled
\* or busy refuses it, which is logged.
MessageTask ==
    /\ ms_queue > 0
    /\ ms_queue' = ms_queue - 1
    /\ SetupTransBuffer(dropped_frame_count)
    /\ hw' = IF hw = None /\ fsm \in {"enabled", "started"} THEN rx_buffer' ELSE hw
    /\ UNCHANGED <<config, fsm, starting, used, dropped_frame_count, trans_queue, isr, decodeVars,
                   done, settled>>

-------------------------------------------------------------------------------
(* The decode task *)

DecodeTake ==
    /\ decoding = None /\ recv_queue # <<>>
    /\ decoding' = Head(recv_queue)
    /\ recv_queue' = Tail(recv_queue)
    /\ UNCHANGED <<config, fsm, starting, used, transVars, trans_queue, hw, isr, ms_queue, rejected,
                   upperVars, settled, image>>

\* The image is copied together in place and reported.
DecodeReport ==
    /\ decoding # None
    /\ done' = done \cup {decoding}
    /\ decoding' = None
    /\ UNCHANGED <<config, fsm, starting, used, transVars, trans_queue, hw, isr, ms_queue, recv_queue,
                   rejected, queued, settled, image>>

\* A header does not match: the packet is reported to nobody.
DecodeReject ==
    /\ decoding # None
    /\ rejected' = rejected \cup {decoding}
    /\ decoding' = None
    /\ UNCHANGED <<config, fsm, starting, used, transVars, trans_queue, hw, isr, ms_queue, recv_queue,
                   upperVars, settled, image>>

-------------------------------------------------------------------------------
(* The task that controls the controller, and the layer above *)

New ==
    /\ fsm = "none"
    /\ fsm' = "init"
    /\ used' = FALSE
    /\ config' \in Configs
    /\ setup_ll_buffer' = FALSE /\ dropped_frame_count' = 0
    /\ UNCHANGED <<starting, rx_buffer, trans_queue, hw, isr, ms_queue, decodeVars, upperVars,
                   settled, image>>

Enable ==
    /\ fsm = "init"
    /\ fsm' = "enabled"
    /\ UNCHANGED <<config, starting, used, transVars, trans_queue, hw, isr, ms_queue, decodeVars,
                   upperVars, settled, image>>

\* The first transaction is set up and given to the hardware; a queue that is full is
\* waited for.  Then the sensor is started.
Start ==
    /\ fsm = "enabled" /\ ~starting
    /\ Reusable \/ ~used
    /\ starting' = TRUE /\ used' = TRUE
    /\ dropped_frame_count' = 0
    /\ SetupTransBuffer(0)
    /\ IF config.intf = "spi"
       THEN /\ Len(trans_queue) < TransQueueSize
            /\ trans_queue' = Append(trans_queue, rx_buffer')
            /\ UNCHANGED hw
       ELSE hw' = rx_buffer' /\ UNCHANGED trans_queue
    /\ settled' = FALSE
    /\ UNCHANGED <<config, fsm, isr, ms_queue, decodeVars, done>>

StartDone ==
    /\ starting
    /\ starting' = FALSE
    /\ fsm' = "started"
    /\ UNCHANGED <<config, used, transVars, trans_queue, hw, isr, ms_queue, decodeVars, upperVars,
                   settled, image>>

Stop ==
    /\ fsm = "started"
    /\ fsm' = "enabled"
    /\ UNCHANGED <<config, starting, used, transVars, trans_queue, hw, isr, ms_queue, decodeVars,
                   upperVars, settled, image>>

\* The clock of the slave is off, or the parlio unit drops its transaction.
Disable ==
    /\ fsm = "enabled" /\ ~starting
    /\ fsm' = "init"
    /\ hw' = IF config.intf = "parlio" THEN None ELSE hw
    /\ UNCHANGED <<config, starting, used, transVars, trans_queue, isr, ms_queue, decodeVars,
                   upperVars, settled, image>>

\* The tasks and queues are deleted, and then the interface, between two interrupts
\* and with the message task at rest.  The layer above takes all its buffers back.
Del ==
    /\ fsm = "init"
    /\ isr = "idle" /\ ms_queue = 0
    /\ fsm' = "none"
    /\ trans_queue' = <<>> /\ hw' = None
    /\ recv_queue' = <<>> /\ decoding' = None /\ rejected' = {}
    /\ queued' = Buffers /\ done' = {}
    /\ image' = {}
    /\ UNCHANGED <<config, starting, used, transVars, isr, ms_queue, settled>>

\* The application has seen a frame and queues its buffer again.
Requeue(b) ==
    /\ b \in done \cap Buffers
    /\ done' = done \ {b}
    /\ queued' = queued \cup {b}
    /\ UNCHANGED <<config, fsm, starting, used, transVars, trans_queue, hw, isr, ms_queue,
                   decodeVars, settled, image>>

-------------------------------------------------------------------------------
Interrupt == Packet \/ IsrNext \/ IsrFetch \/ IsrPost
DecodeTask == DecodeTake \/ DecodeReport \/ DecodeReject
Control == New \/ Enable \/ Start \/ StartDone \/ Stop \/ Disable \/ Del

Next == Interrupt \/ MessageTask \/ DecodeTask \/ Control \/ \E b \in Buffers : Requeue(b)

Spec == Init /\ [][Next]_vars

\* The sensor goes on sending, interrupts are served and the tasks run.
Fairness ==
    /\ WF_vars(Packet) /\ WF_vars(IsrNext) /\ WF_vars(IsrFetch) /\ WF_vars(IsrPost)
    /\ WF_vars(MessageTask)
    /\ WF_vars(DecodeTake) /\ WF_vars(DecodeReport \/ DecodeReject)

FairSpec == Spec /\ Fairness

-------------------------------------------------------------------------------
(* Properties *)

Places == <<queued, done, rejected, {hw}, Range(trans_queue), Range(recv_queue), {decoding}>>

\* A buffer is in one place: with the layer above, with the hardware, or on its way
\* through the decode task.  While the controller is started none is missing, except
\* that a packet the decode task rejects keeps its buffer (spi_cam_task).
EachBufferOnce ==
    /\ \A i, j \in DOMAIN Places : i # j => Places[i] \cap Places[j] \cap Buffers = {}
    /\ IsInjective(recv_queue)
    /\ fsm = "started" => Buffers \subseteq UNION Range(Places)

\* What is reported is an image received whole into the reported buffer, never the first
\* packet of a session or the driver's own buffer, although the interrupt reads the
\* buffer from a descriptor it shares with spi_cam_start.
FrameIntact == done \subseteq image

\* No queue is full when something is sent to it: the slave driver takes the next
\* transaction, which spi_cam_post_trans_cb asserts, and the message and decode
\* queues never lose a packet.
QueuesHaveRoom ==
    /\ isr = "setup" => Len(trans_queue) < TransQueueSize
    /\ isr = "post" => ms_queue < RecvQueueSize
    /\ hw \in Buffers => Len(recv_queue) < RecvQueueSize

\* A controller that stays started and is offered buffers delivers frames: dropping the
\* first ones, and receiving into its own buffer, both come to an end.
FramesDelivered == <>[](fsm = "started") => []<>(queued = {} \/ done # {})
===============================================================================
