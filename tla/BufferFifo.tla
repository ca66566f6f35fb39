------------------------------ MODULE BufferFifo ------------------------------
(***************************************************************************)
(* What a capture stream promises the application about its buffers        *)
(* (VIDIOC_REQBUFS / QBUF / DQBUF / STREAMOFF): every buffer is either with *)
(* the application or in one first-in first-out pipe, and the pipe gives    *)
(* the buffers back in the order in which they were queued.  The test       *)
(* "V4L2 Video Buffer Sequence" (test_posix_v4l2.c) relies on it.           *)
(*                                                                          *)
(* How the pipe is made of a queued list, a buffer being filled by the      *)
(* camera controller, a finished buffer and a done list is the business of  *)
(* CaptureStream, which implements this specification.                      *)
(***************************************************************************)
EXTENDS Sequences, FiniteSets

CONSTANT Buffer         \* the buffers a stream may be given

VARIABLES
    buffers,            \* the buffers the last request allocated
    app,                \* those the application owns
    pipe                \* those it has queued and not yet taken back, in order

vars == <<buffers, app, pipe>>

Init ==
    /\ buffers = {}
    /\ app = {}
    /\ pipe = <<>>

\* A request replaces all buffers, the queued ones too; S = {} releases them.
Request(S) ==
    /\ buffers' = S
    /\ app' = S
    /\ pipe' = <<>>

Queue(e) ==
    /\ e \in app
    /\ app' = app \ {e}
    /\ pipe' = Append(pipe, e)
    /\ UNCHANGED buffers

Dequeue ==
    /\ pipe # <<>>
    /\ app' = app \cup {Head(pipe)}
    /\ pipe' = Tail(pipe)
    /\ UNCHANGED buffers

\* Turning the stream off hands everything back at once.
StreamOff ==
    /\ app' = buffers
    /\ pipe' = <<>>
    /\ UNCHANGED buffers

Next ==
    \/ \E S \in SUBSET Buffer : Request(S)
    \/ \E e \in Buffer : Queue(e)
    \/ Dequeue
    \/ StreamOff

Spec == Init /\ [][Next]_vars
===============================================================================
