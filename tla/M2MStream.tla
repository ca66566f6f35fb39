------------------------------- MODULE M2MStream -------------------------------
(***************************************************************************)
(* A memory-to-memory device (H.264 encoder, JPEG encoder or decoder): the   *)
(* two streams of one video object and the codec between them               *)
(* (esp_video.c, esp_video_h264_device.c).                                   *)
(*                                                                          *)
(* The application queues frames on OUTPUT and empty buffers on CAPTURE.     *)
(* There is no codec task: VIDIOC_DQBUF on CAPTURE takes the oldest pair,    *)
(* codes it, puts both buffers into their done lists, gives both semaphores  *)
(* and only then waits like any DQBUF.  DQBUF on OUTPUT just waits.  Several  *)
(* tasks may be in DQBUF at once, so a task may be woken by the semaphore     *)
(* another one gave and take the frame another one coded.                   *)
(*                                                                          *)
(* A task's pc is "idle" outside DQBUF and otherwise names its next step.    *)
(***************************************************************************)
EXTENDS Integers, Sequences, Functions, FiniteSets

CONSTANTS
    Task,               \* tasks that call VIDIOC_DQBUF
    MaxCount,           \* bound: the largest buffer count an application requests
    Session,            \* the codec has a session from STREAMON to STREAMOFF (H.264)
    Timed,              \* VIDIOC_DQBUF has a timeout
    Faults              \* what may fail: "alloc", "start", "stop"

ASSUME M2MAssumption ==
    /\ IsFiniteSet(Task)
    /\ MaxCount \in Nat \ {0}
    /\ Session \in BOOLEAN
    /\ Timed \in BOOLEAN
    /\ Faults \subseteq {"alloc", "start", "stop"}

Capture == "capture"
Output  == "output"
Stream  == {Capture, Output}
Other(s) == IF s = Capture THEN Output ELSE Capture

Elements == 0 .. MaxCount - 1
NULL == -1

VARIABLES
    started, buffer, count, queued_list, done_list, free, ready_sem,
                        \* per stream, the fields of struct esp_video_stream
    encoder,            \* h264_video->enc_handle: "null", "open", or "closed" but not deleted
    pc, type, pair,     \* per task: its step in DQBUF, on which stream, and the pair it codes
    origin,             \* per CAPTURE buffer, the OUTPUT buffer whose frame it holds
    app,                \* per stream, the buffers the application owns
    owed                \* per stream, the frames the application has had from the
                        \* other stream and not yet from this one

listVars   == <<queued_list, done_list, free>>
memoryVars == <<buffer, count, ready_sem>>
taskVars   == <<pc, type, pair>>
vars == <<started, memoryVars, listVars, encoder, taskVars, origin, app, owed>>

CodingPcs == {"code", "done"}
GivePcs   == {"give_output", "give_capture"}

Listed(s) == Range(queued_list[s]) \cup Range(done_list[s])

\* The buffer of stream s that task t is coding from or into.
HeldBy(t, s) == IF pc[t] \in CodingPcs THEN {pair[t][s]} ELSE {}
Held(s) == UNION {HeldBy(t, s) : t \in Task}

TypeOK ==
    /\ started \in [Stream -> BOOLEAN]
    /\ buffer \in [Stream -> SUBSET Elements]
    /\ count \in [Stream -> 0 .. MaxCount]
    /\ queued_list \in [Stream -> Seq(Elements)]
    /\ done_list \in [Stream -> Seq(Elements)]
    /\ free \in [Stream -> [Elements -> BOOLEAN]]
    /\ ready_sem \in [Stream -> Nat \cup {NULL}]
    /\ encoder \in {"null", "open", "closed"}
    /\ pc \in [Task -> {"idle", "take", "took"} \cup CodingPcs \cup GivePcs]
    /\ type \in [Task -> Stream]
    /\ pair \in [Task -> [Stream -> Elements]]
    /\ origin \in [Elements -> Elements]
    /\ app \in [Stream -> SUBSET Elements]
    /\ owed \in [Stream -> Seq(Elements)]

Init ==
    /\ started = [s \in Stream |-> FALSE]
    /\ buffer = [s \in Stream |-> {}]
    /\ count = [s \in Stream |-> 0]
    /\ queued_list = [s \in Stream |-> <<>>]
    /\ done_list = [s \in Stream |-> <<>>]
    /\ free = [s \in Stream |-> [e \in Elements |-> TRUE]]
    /\ ready_sem = [s \in Stream |-> NULL]
    /\ encoder = "null"
    /\ pc = [t \in Task |-> "idle"]
    /\ type = [t \in Task |-> Output]
    /\ pair = [t \in Task |-> [s \in Stream |-> 0]]
    /\ origin = [e \in Elements |-> 0]
    /\ app = [s \in Stream |-> {}]
    /\ owed = [s \in Stream |-> <<>>]

-------------------------------------------------------------------------------
(* Storage, while no DQBUF is under way. *)

MayControl == \A t \in Task : pc[t] = "idle"

\* Stream s gets new lists and storage for n buffers, S of which exist.
Replace(s, n, S, sem) ==
    /\ MayControl
    /\ ~started[s]
    /\ queued_list' = [queued_list EXCEPT ![s] = <<>>]
    /\ done_list' = [done_list EXCEPT ![s] = <<>>]
    /\ free' = [free EXCEPT ![s] = [e \in Elements |-> TRUE]]
    /\ buffer' = [buffer EXCEPT ![s] = S]
    /\ count' = [count EXCEPT ![s] = n]
    /\ ready_sem' = [ready_sem EXCEPT ![s] = sem]
    /\ app' = [app EXCEPT ![s] = S]
    /\ owed' = [u \in Stream |-> <<>>]
    /\ UNCHANGED <<started, encoder, taskVars, origin>>

\* Frames of the other stream that still wait there lose their counterpart: the
\* application requests the buffers of one stream when it has had all frames of
\* the other.
Settled(s) == done_list[Other(s)] = <<>>

\* Requests that change nothing, a second release, are left out.
Reqbufs(s, n) == Settled(s) /\ Replace(s, n, 0 .. n - 1, 0)

ReqbufsRelease(s) == Settled(s) /\ buffer[s] # {} /\ Replace(s, 0, {}, NULL)

ReqbufsNoMemory(s, n) == "alloc" \in Faults /\ Settled(s) /\ Replace(s, n, {}, NULL)

-------------------------------------------------------------------------------
(* STREAMON and STREAMOFF, per stream.  Only CAPTURE starts the H.264 encoder. *)

\* The encoder cannot be created, or cannot be opened and is deleted again.
StreamOnFails(s) ==
    /\ "start" \in Faults
    /\ Session
    /\ MayControl
    /\ s = Capture
    /\ ~started[s]
    /\ encoder' = "null"
    /\ UNCHANGED <<started, memoryVars, listVars, taskVars, origin, app, owed>>

StreamOn(s) ==
    /\ MayControl
    /\ ~started[s]
    /\ encoder' = IF Session /\ s = Capture THEN "open" ELSE encoder
    /\ started' = [started EXCEPT ![s] = TRUE]
    /\ UNCHANGED <<memoryVars, listVars, taskVars, origin, app, owed>>

\* The encoder of a stopped CAPTURE stream is closed and deleted.
StopCodec(s) == encoder' = IF Session /\ s = Capture THEN "null" ELSE encoder

\* Closing fails, or deleting what was closed: the stream stays on.
StreamOffFails(s) ==
    /\ "stop" \in Faults
    /\ Session
    /\ MayControl
    /\ s = Capture
    /\ started[s]
    /\ encoder' \in {encoder, "closed"}
    /\ UNCHANGED <<started, memoryVars, listVars, taskVars, origin, app, owed>>

\* Mutant: only the stream that is turned off is emptied.
StreamOffOne(s) ==
    /\ MayControl
    /\ started[s]
    /\ \A u \in Stream : buffer[u] # {}
    /\ StopCodec(s)
    /\ ready_sem' = [ready_sem EXCEPT ![s] = 0]
    /\ queued_list' = [queued_list EXCEPT ![s] = <<>>]
    /\ done_list' = [done_list EXCEPT ![s] = <<>>]
    /\ free' = [free EXCEPT ![s] = [e \in Elements |-> TRUE]]
    /\ started' = [started EXCEPT ![s] = FALSE]
    /\ app' = buffer
    /\ owed' = [u \in Stream |-> <<>>]
    /\ UNCHANGED <<buffer, count, taskVars, origin>>

\* Turning off either stream empties both, and so gives all buffers back, but only
\* the named one counts as off.  The code follows the pointers of both streams: it
\* needs both to have buffers.
StreamOff(s) ==
    /\ MayControl
    /\ started[s]
    /\ \A u \in Stream : buffer[u] # {}
    /\ StopCodec(s)
    /\ ready_sem' = [u \in Stream |-> 0]
    /\ queued_list' = [u \in Stream |-> <<>>]
    /\ done_list' = [u \in Stream |-> <<>>]
    /\ free' = [u \in Stream |-> [e \in Elements |-> TRUE]]
    /\ started' = [started EXCEPT ![s] = FALSE]
    /\ app' = buffer
    /\ owed' = [u \in Stream |-> <<>>]
    /\ UNCHANGED <<buffer, count, taskVars, origin>>

-------------------------------------------------------------------------------
(* QBUF, at any time and by any task. *)

Qbuf(s, e) ==
    /\ e \in app[s]
    /\ free[s][e]
    /\ queued_list' = [queued_list EXCEPT ![s] = Append(@, e)]
    /\ free' = [free EXCEPT ![s][e] = FALSE]
    /\ app' = [app EXCEPT ![s] = @ \ {e}]
    /\ UNCHANGED <<started, memoryVars, done_list, encoder, taskVars, origin, owed>>

-------------------------------------------------------------------------------
(* DQBUF on CAPTURE codes one pair first. *)

\* A call without a pair fails at once (ESP_ERR_NO_MEM) and changes nothing, even
\* when a coded frame is in the done list.
PairQueued == \A s \in Stream : queued_list[s] # <<>>

\* Mutant: the CAPTURE buffer stays in its list.
GetM2mQueuedElementsSkewed(t) ==
    /\ pc[t] = "idle"
    /\ PairQueued
    /\ pair' = [pair EXCEPT ![t] = [s \in Stream |-> Head(queued_list[s])]]
    /\ queued_list' = [queued_list EXCEPT ![Output] = Tail(@)]
    /\ free' = [s \in Stream |-> [free[s] EXCEPT ![Head(queued_list[s])] = TRUE]]
    /\ type' = [type EXCEPT ![t] = Capture]
    /\ pc' = [pc EXCEPT ![t] = "code"]
    /\ UNCHANGED <<started, memoryVars, done_list, encoder, origin, app, owed>>

\* The oldest buffer of each stream is taken, both in one critical section.
GetM2mQueuedElements(t) ==
    /\ pc[t] = "idle"
    /\ PairQueued
    /\ pair' = [pair EXCEPT ![t] = [s \in Stream |-> Head(queued_list[s])]]
    /\ queued_list' = [s \in Stream |-> Tail(queued_list[s])]
    /\ free' = [s \in Stream |-> [free[s] EXCEPT ![Head(queued_list[s])] = TRUE]]
    /\ type' = [type EXCEPT ![t] = Capture]
    /\ pc' = [pc EXCEPT ![t] = "code"]
    /\ UNCHANGED <<started, memoryVars, done_list, encoder, origin, app, owed>>

\* The codec fills the CAPTURE buffer.  When it fails, the size of the frame is 0,
\* which DQBUF reports as an error; the pair goes on in either case.
M2mProcess(t) ==
    /\ pc[t] = "code"
    /\ origin' = [origin EXCEPT ![pair[t][Capture]] = pair[t][Output]]
    /\ pc' = [pc EXCEPT ![t] = "done"]
    /\ UNCHANGED <<started, memoryVars, listVars, encoder, type, pair, app, owed>>

\* Both buffers enter their done lists in one critical section, unless somebody
\* queued one of them meanwhile: then neither does and the call fails.
DoneM2mElements(t) ==
    /\ pc[t] = "done"
    /\ IF \A s \in Stream : free[s][pair[t][s]]
       THEN /\ done_list' = [s \in Stream |-> Append(done_list[s], pair[t][s])]
            /\ free' = [s \in Stream |-> [free[s] EXCEPT ![pair[t][s]] = FALSE]]
            /\ pc' = [pc EXCEPT ![t] = "give_output"]
       ELSE /\ pc' = [pc EXCEPT ![t] = "idle"]
            /\ UNCHANGED <<done_list, free>>
    /\ UNCHANGED <<started, memoryVars, queued_list, encoder, type, pair, origin, app, owed>>

\* The semaphores are given after the lock is left, OUTPUT (the source) first.
GiveReady(s) ==
    ready_sem' = [ready_sem EXCEPT ![s] = IF @ < count[s] THEN @ + 1 ELSE @]

\* Mutant: only the semaphore of the source is given.
GiveOutputOnly(t) ==
    /\ pc[t] = "give_output"
    /\ GiveReady(Output)
    /\ pc' = [pc EXCEPT ![t] = "take"]
    /\ UNCHANGED <<started, buffer, count, listVars, encoder, type, pair, origin, app, owed>>

GiveOutput(t) ==
    /\ pc[t] = "give_output"
    /\ GiveReady(Output)
    /\ pc' = [pc EXCEPT ![t] = "give_capture"]
    /\ UNCHANGED <<started, buffer, count, listVars, encoder, type, pair, origin, app, owed>>

\* Mutant: one semaphore is given twice, the other one never.
GiveCaptureSwapped(t) ==
    /\ pc[t] = "give_capture"
    /\ GiveReady(Output)
    /\ pc' = [pc EXCEPT ![t] = "take"]
    /\ UNCHANGED <<started, buffer, count, listVars, encoder, type, pair, origin, app, owed>>

GiveCapture(t) ==
    /\ pc[t] = "give_capture"
    /\ GiveReady(Capture)
    /\ pc' = [pc EXCEPT ![t] = "take"]
    /\ UNCHANGED <<started, buffer, count, listVars, encoder, type, pair, origin, app, owed>>

-------------------------------------------------------------------------------
(* The wait, on either stream. *)

DqbufOutput(t) ==
    /\ pc[t] = "idle"
    /\ buffer[Output] # {}
    /\ type' = [type EXCEPT ![t] = Output]
    /\ pc' = [pc EXCEPT ![t] = "take"]
    /\ UNCHANGED <<started, memoryVars, listVars, encoder, pair, origin, app, owed>>

DqbufTake(t) ==
    /\ pc[t] = "take"
    /\ ready_sem[type[t]] > 0
    /\ ready_sem' = [ready_sem EXCEPT ![type[t]] = @ - 1]
    /\ pc' = [pc EXCEPT ![t] = "took"]
    /\ UNCHANGED <<started, buffer, count, listVars, encoder, type, pair, origin, app, owed>>

DqbufTimeout(t) ==
    /\ Timed
    /\ pc[t] = "take"
    /\ ready_sem[type[t]] = 0
    /\ pc' = [pc EXCEPT ![t] = "idle"]
    /\ UNCHANGED <<started, memoryVars, listVars, encoder, type, pair, origin, app, owed>>

\* The frame in buffer e of stream s: the OUTPUT buffer it was in.
Frame(s, e) == IF s = Output THEN e ELSE origin[e]

\* The application has frame f from stream s: that settles its oldest debt, or
\* makes a new one on the other side.
Receive(s, f) ==
    owed' = IF owed[s] # <<>> THEN [owed EXCEPT ![s] = Tail(@)]
            ELSE [owed EXCEPT ![Other(s)] = Append(@, f)]

DqbufPop(t) ==
    LET s == type[t]
        e == Head(done_list[s])
    IN  /\ pc[t] = "took"
        /\ pc' = [pc EXCEPT ![t] = "idle"]
        /\ IF done_list[s] # <<>>
           THEN /\ done_list' = [done_list EXCEPT ![s] = Tail(@)]
                /\ free' = [free EXCEPT ![s][e] = TRUE]
                /\ app' = [app EXCEPT ![s] = @ \cup {e}]
                /\ Receive(s, Frame(s, e))
           ELSE UNCHANGED <<done_list, free, app, owed>>
        /\ UNCHANGED <<started, memoryVars, queued_list, encoder, type, pair, origin>>

-------------------------------------------------------------------------------
Next ==
    \/ \E s \in Stream :
           \/ \E n \in 1 .. MaxCount : Reqbufs(s, n) \/ ReqbufsNoMemory(s, n)
           \/ ReqbufsRelease(s)
           \/ StreamOn(s)
           \/ StreamOnFails(s)
           \/ StreamOff(s)
           \/ StreamOffFails(s)
           \/ \E e \in Elements : Qbuf(s, e)
    \/ \E t \in Task :
           \/ GetM2mQueuedElements(t)
           \/ M2mProcess(t)
           \/ DoneM2mElements(t)
           \/ GiveOutput(t)
           \/ GiveCapture(t)
           \/ DqbufOutput(t)
           \/ DqbufTake(t)
           \/ DqbufTimeout(t)
           \/ DqbufPop(t)

Spec == Init /\ [][Next]_vars

\* A task inside DQBUF is scheduled until it waits.
DqbufStep(t) ==
    \/ M2mProcess(t) \/ DoneM2mElements(t) \/ GiveOutput(t) \/ GiveCapture(t)
    \/ DqbufTake(t) \/ DqbufPop(t)

FairSpec == Spec /\ \A t \in Task : WF_vars(DqbufStep(t))

-------------------------------------------------------------------------------
(* Safety *)

\* Every buffer is in exactly one place: with the application, in one list of its
\* stream, or with the one task that codes it, and its flag says free exactly when
\* no list has it.  esp_video_m2m_process marks a buffer free while it codes, so
\* nothing but this keeps two tasks from coding into one buffer.
EveryBufferOnce ==
    \A s \in Stream :
        /\ IsInjective(queued_list[s]) /\ IsInjective(done_list[s])
        /\ Range(queued_list[s]) \cap Range(done_list[s]) = {}
        /\ app[s] \cap (Listed(s) \cup Held(s)) = {}
        /\ Held(s) \cap Listed(s) = {}
        /\ \A t, u \in Task : t # u => HeldBy(t, s) \cap HeldBy(u, s) = {}
        /\ buffer[s] = app[s] \cup Listed(s) \cup Held(s)
        /\ \A e \in buffer[s] : free[s][e] <=> e \notin Listed(s)

\* Tasks that have put a pair into the done lists and not yet given the semaphore
\* of stream s.
Giving(s) == {t \in Task : pc[t] \in IF s = Output THEN {"give_output"} ELSE GivePcs}

Taken(s) == {t \in Task : pc[t] = "took" /\ type[t] = s}

\* Each stream's semaphore counts its done list, less what is about to be given, plus what
\* was taken for a frame still in the list.  So DQBUF never finds an empty list, and on
\* CAPTURE, which gives before it waits, it never blocks, although other tasks may take
\* what it gave.
CaptureNeverWaits ==
    /\ \A s \in Stream :
           Len(done_list[s]) = (IF ready_sem[s] = NULL THEN 0 ELSE ready_sem[s])
                               + Cardinality(Giving(s)) + Cardinality(Taken(s))
    /\ LET Waiting == {t \in Task : pc[t] = "take" /\ type[t] = Capture}
       IN  Waiting # {} => ready_sem[Capture] >= Cardinality(Waiting)

Frames(s) == [i \in 1 .. Len(done_list[s]) |-> Frame(s, done_list[s][i])]

\* The two streams return the same frames in the same order, however many tasks
\* code and however far the application lets one stream run ahead: the k-th CAPTURE
\* buffer holds the frame of the k-th OUTPUT buffer.
PairsMatch ==
    \E s \in Stream :
        /\ owed[s] = <<>>
        /\ Frames(Other(s)) = owed[Other(s)] \o Frames(s)

\* The H.264 encoder exists exactly while CAPTURE is on, after failed starts and
\* failed stops as well, so that none is leaked and none deleted twice.
EncoderExact == Session => (encoder # "null" <=> started[Capture])

-------------------------------------------------------------------------------
(* Liveness *)

\* Once it has a pair, DQBUF on CAPTURE returns, although any other task may take
\* its unit of the semaphore and its frame.
CaptureReturns ==
    \A t \in Task : (pc[t] # "idle" /\ type[t] = Capture) ~> (pc[t] = "idle")
===============================================================================
