------------------------------ MODULE VideoStream ------------------------------
(***************************************************************************)
(* The buffer bookkeeping of one stream of a video object                   *)
(* (struct esp_video_stream, esp_video.c and esp_video_buffer.c): the two    *)
(* lists, the free flag of every element, the counting semaphore that wakes *)
(* VIDIOC_DQBUF, and the storage VIDIOC_REQBUFS allocates.                   *)
(*                                                                          *)
(* Each operator is one critical section of the code (what one task or the  *)
(* interrupt does under stream_lock), or one of the steps the code takes    *)
(* WITHOUT the lock when a stream is stopped.  The modules of the devices    *)
(* compose them into handlers.                                              *)
(***************************************************************************)
EXTENDS Integers, Sequences, Functions

CONSTANT MaxCount       \* bound: the largest buffer count an application requests

ASSUME MaxCountAssumption == MaxCount \in Nat \ {0}

VARIABLES
    started,            \* stream->started
    count,              \* stream->buf_info.count
    buffer,             \* the elements of stream->buffer, {} when the pointer is NULL
    queued_list,        \* elements the driver may take, oldest first
    done_list,          \* elements with a frame, oldest first
    free,               \* ELEMENT_IS_FREE: the element is in neither list
    ready_sem           \* the count of the semaphore, NULL when it does not exist

listVars   == <<queued_list, done_list, free>>
memoryVars == <<count, buffer>>
streamVars == <<started, count, buffer, queued_list, done_list, free, ready_sem>>

NULL == -1

\* Element indices; the pointers of the code are indices into stream->buffer.
Elements == 0 .. MaxCount - 1

Listed == Range(queued_list) \cup Range(done_list)

ListTypeOK ==
    /\ queued_list \in Seq(Elements)
    /\ done_list \in Seq(Elements)
    /\ free \in [Elements -> BOOLEAN]

StreamTypeOK ==
    /\ started \in BOOLEAN
    /\ count \in 0 .. MaxCount
    /\ buffer \in SUBSET Elements
    /\ ListTypeOK
    /\ ready_sem \in Nat \cup {NULL}

\* No element is in the lists twice, and the lists stay inside the storage.
ListsSound ==
    /\ IsInjective(queued_list)
    /\ IsInjective(done_list)
    /\ Range(queued_list) \cap Range(done_list) = {}
    /\ Listed \subseteq buffer

\* The free flag tells whether an element is in a list.
FlagsSound == \A e \in buffer : free[e] <=> e \notin Listed

StreamInit ==
    /\ started = FALSE
    /\ count = 0
    /\ buffer = {}
    /\ queued_list = <<>>
    /\ done_list = <<>>
    /\ free = [e \in Elements |-> TRUE]
    /\ ready_sem = NULL

-------------------------------------------------------------------------------
(* Critical sections under stream_lock. *)

\* Mutant: the free flag is not tested.
QueueElementUntested(e) ==
    /\ queued_list' = Append(queued_list, e)
    /\ free' = [free EXCEPT ![e] = FALSE]
    /\ UNCHANGED done_list

\* The application queues an element.  One that is in a list is refused.
QueueElement(e) ==
    IF free[e]
    THEN /\ queued_list' = Append(queued_list, e)
         /\ free' = [free EXCEPT ![e] = FALSE]
         /\ UNCHANGED done_list
    ELSE UNCHANGED listVars

\* The driver takes the oldest queued element, if there is one.
GetQueuedElement ==
    IF queued_list # <<>>
    THEN /\ queued_list' = Tail(queued_list)
         /\ free' = [free EXCEPT ![Head(queued_list)] = TRUE]
         /\ UNCHANGED done_list
    ELSE UNCHANGED listVars

\* The driver knows an element by its payload, which is looked up in the storage.
Accepted(e) == e \in buffer /\ free[e]

\* The driver hands over a filled element; the semaphore is given afterwards,
\* outside the critical section, and only for an element that was accepted.
DoneElement(e) ==
    IF Accepted(e)
    THEN /\ done_list' = Append(done_list, e)
         /\ free' = [free EXCEPT ![e] = FALSE]
         /\ UNCHANGED queued_list
    ELSE UNCHANGED listVars

\* Mutant: the element goes to the end of the queue.
SkipBufferAtTail(e) ==
    IF Accepted(e)
    THEN /\ queued_list' = Append(queued_list, e)
         /\ free' = [free EXCEPT ![e] = FALSE]
         /\ UNCHANGED done_list
    ELSE UNCHANGED listVars

\* The driver gives an element back unused: it is the next one to be taken.
SkipBuffer(e) ==
    IF Accepted(e)
    THEN /\ queued_list' = <<e>> \o queued_list
         /\ free' = [free EXCEPT ![e] = FALSE]
         /\ UNCHANGED done_list
    ELSE UNCHANGED listVars

\* The application takes the oldest element with a frame, if there is one.
GetDoneElement ==
    IF done_list # <<>>
    THEN /\ done_list' = Tail(done_list)
         /\ free' = [free EXCEPT ![Head(done_list)] = TRUE]
         /\ UNCHANGED queued_list
    ELSE UNCHANGED listVars

-------------------------------------------------------------------------------
(* The semaphore: a FreeRTOS counting semaphore whose limit is the count. *)

\* Giving a full semaphore is lost.
GiveReady ==
    ready_sem' = IF ready_sem < count THEN ready_sem + 1 ELSE ready_sem

\* Mutant: the result of the take is not tested.
TakeReadyUntested == ready_sem' = ready_sem - 1

TakeReady ==
    /\ ready_sem > 0
    /\ ready_sem' = ready_sem - 1

\* Mutant: one unit is taken instead of all.
DrainReadyOnce == ready_sem' = IF ready_sem > 0 THEN ready_sem - 1 ELSE ready_sem

\* The loop of esp_video_stop_capture that empties the semaphore.  Taking one that
\* does not exist fails an assertion of FreeRTOS: the program ends.
DrainReady ==
    /\ ready_sem # NULL
    /\ ready_sem' = 0

-------------------------------------------------------------------------------
(* Steps taken without stream_lock, when a stream is stopped. *)

ResetLists ==
    /\ queued_list' = <<>>
    /\ done_list' = <<>>
    /\ UNCHANGED free

BufferReset ==
    /\ free' = [e \in Elements |-> TRUE]
    /\ UNCHANGED <<queued_list, done_list>>

-------------------------------------------------------------------------------
(* Storage: allocation and release, only while the stream is stopped. *)

ReleaseBuffer ==
    /\ ~started
    /\ queued_list' = <<>>
    /\ done_list' = <<>>
    /\ free' = [e \in Elements |-> TRUE]
    /\ ready_sem' = NULL
    /\ buffer' = {}
    /\ count' = 0
    /\ UNCHANGED started

\* A request for n buffers: the old ones are released, n are allocated.
SetupBuffer(n) ==
    /\ ~started
    /\ queued_list' = <<>>
    /\ done_list' = <<>>
    /\ free' = [e \in Elements |-> TRUE]
    /\ ready_sem' = 0
    /\ buffer' = 0 .. n - 1
    /\ count' = n
    /\ UNCHANGED started

\* Out of memory: the old storage is gone, and the count stays at n although
\* there is neither a buffer nor a semaphore.
SetupBufferFails(n) ==
    /\ ~started
    /\ queued_list' = <<>>
    /\ done_list' = <<>>
    /\ free' = [e \in Elements |-> TRUE]
    /\ ready_sem' = NULL
    /\ buffer' = {}
    /\ count' = n
    /\ UNCHANGED started
===============================================================================
