----------------------------- MODULE IspStatsProofs -----------------------------
(***************************************************************************)
(* Proofs about IspStats, for every set of blocks, every number of receivers *)
(* and every size of the dump queue, when the pipeline is set up once per    *)
(* device (~Reinit): TypeCorrect, BufferExclusive (OpenBufferExclusive),     *)
(* DeletedUnused (DeletesOnlyUnused) and PartsAdjacent (StatsAdjacent).      *)
(*                                                                          *)
(* STREAMOFF empties the lists without the lock and leaves the open buffer   *)
(* open, so the free flags say nothing while a stream stops.  The proofs use *)
(* where each element is instead (Ownership): in one list, with the task, or *)
(* open.                                                                     *)
(***************************************************************************)
EXTENDS IspStats, FiniteSetTheorems, SequenceTheorems, TLAPS

-------------------------------------------------------------------------------
(* What the critical sections of VideoStream do to the lists, as in CaptureStreamProofs *)

(* Adding at the end. *)
LEMMA AppendRange ==
    ASSUME NEW S, NEW s \in Seq(S), NEW e \in S
    PROVE  /\ Append(s, e) \in Seq(S)
           /\ Range(Append(s, e)) = Range(s) \cup {e}
           /\ IsInjective(s) /\ e \notin Range(s) => IsInjective(Append(s, e))
<1>1. Range(Append(s, e)) = Range(s) \cup {e}
  BY RangeConcatenation, AppendIsConcat, <<e>> \in Seq(S), Range(<<e>>) = {e} DEF Range
<1> QED BY <1>1, AppendProperties, LenProperties DEF Range, IsInjective

(* Taking from the front. *)
LEMMA TailRange ==
    ASSUME NEW S, NEW s \in Seq(S), s # <<>>, IsInjective(s)
    PROVE  /\ Head(s) \in S
           /\ Head(s) \in Range(s)
           /\ Tail(s) \in Seq(S)
           /\ Range(Tail(s)) = Range(s) \ {Head(s)}
           /\ IsInjective(Tail(s))
<1> DEFINE t == Tail(s)
<1>1. /\ Head(s) \in S
      /\ t \in Seq(S)
      /\ Len(t) = Len(s) - 1
      /\ \A i \in 1 .. Len(t) : t[i] = s[i + 1]
      /\ Len(s) \in Nat
      /\ Len(s) > 0
  BY HeadTailProperties, LenProperties, EmptySeq
<1>2. /\ DOMAIN t = 1 .. Len(s) - 1
      /\ DOMAIN s = 1 .. Len(s)
      /\ Head(s) = s[1]
  BY <1>1, LenProperties
<1> HIDE DEF t
<1>3. Head(s) \in Range(s)
  BY <1>1, <1>2 DEF Range
<1>4. Range(t) = Range(s) \ {Head(s)}
  <2>1. ASSUME NEW x \in Range(t)
        PROVE  x \in Range(s) \ {Head(s)}
    <3>1. PICK i \in 1 .. Len(s) - 1 : x = s[i + 1]
      BY <1>1, <1>2 DEF Range
    <3>2. i + 1 \in DOMAIN s /\ 1 \in DOMAIN s /\ i + 1 # 1
      BY <1>1, <1>2
    <3> QED BY <1>2, <3>1, <3>2 DEF Range, IsInjective
  <2>2. ASSUME NEW x \in Range(s) \ {Head(s)}
        PROVE  x \in Range(t)
    <3>1. PICK i \in 1 .. Len(s) : x = s[i]
      BY <1>2 DEF Range
    <3>2. i # 1 /\ i - 1 \in 1 .. Len(s) - 1 /\ (i - 1) + 1 = i
      BY <1>1, <1>2, <3>1
    <3>3. t[i - 1] = s[i]
      BY <1>1, <3>2
    <3> QED BY <1>2, <3>1, <3>2, <3>3 DEF Range
  <2> QED BY <2>1, <2>2
<1>5. IsInjective(t)
  BY <1>1, <1>2 DEF IsInjective
<1> QED BY <1>1, <1>3, <1>4, <1>5 DEF t

LEMMA EmptyRange == Range(<<>>) = {} /\ IsInjective(<<>>)
BY DEF Range, IsInjective

LEMMA StreamInitTypes == StreamInit => StreamTypeOK
<1> SUFFICES ASSUME StreamInit PROVE StreamTypeOK
  OBVIOUS
<1>1. ListTypeOK
  BY EmptySeq DEF StreamInit, ListTypeOK
<1>2. 0 \in 0 .. MaxCount
  BY MaxCountAssumption
<1> QED BY <1>1, <1>2 DEF StreamInit, StreamTypeOK

LEMMA QueueElementTypes ==
    ASSUME ListTypeOK, NEW e \in Elements, QueueElement(e)
    PROVE  ListTypeOK'
<1>1. Append(queued_list, e) \in Seq(Elements)
  BY AppendRange DEF ListTypeOK
<1> QED BY <1>1 DEF ListTypeOK, QueueElement, listVars

LEMMA DoneElementTypes ==
    ASSUME ListTypeOK, buffer \subseteq Elements, NEW e, DoneElement(e)
    PROVE  ListTypeOK'
<1>1. CASE Accepted(e)
  <2>1. Append(done_list, e) \in Seq(Elements)
    BY <1>1, AppendRange DEF ListTypeOK, Accepted
  <2> QED BY <1>1, <2>1 DEF ListTypeOK, DoneElement
<1>2. CASE ~Accepted(e)
  BY <1>2 DEF ListTypeOK, DoneElement, listVars
<1> QED BY <1>1, <1>2

LEMMA GetQueuedElementTypes ==
    ASSUME ListTypeOK, GetQueuedElement
    PROVE  ListTypeOK'
<1>1. queued_list # <<>> => Tail(queued_list) \in Seq(Elements)
  BY HeadTailProperties DEF ListTypeOK
<1> QED BY <1>1 DEF ListTypeOK, GetQueuedElement, listVars

LEMMA GetDoneElementTypes ==
    ASSUME ListTypeOK, GetDoneElement
    PROVE  ListTypeOK'
<1>1. done_list # <<>> => Tail(done_list) \in Seq(Elements)
  BY HeadTailProperties DEF ListTypeOK
<1> QED BY <1>1 DEF ListTypeOK, GetDoneElement, listVars

(* Empty lists are sound, and a stream without listed elements has all flags set
   once they are reset. *)
LEMMA EmptyListsSound ==
    ASSUME queued_list = <<>>, done_list = <<>>
    PROVE  /\ Listed = {}
           /\ ListsSound
           /\ buffer \subseteq Elements /\ free = [e \in Elements |-> TRUE] => FlagsSound
BY EmptyRange DEF Listed, ListsSound, FlagsSound

-------------------------------------------------------------------------------
(* The inductive invariant *)

InitSteps == {"i_on", "i_task"}
DeinitSteps == {"d_off", "d_drain", "d_lists", "d_reset", "d_task", "d_close"}

(* The steps that follow VIDIOC_STREAMOFF. *)
OffSteps == DeinitSteps \ {"d_off"}

(* The pipeline's calls hold the lock from their first step to their last.  The device is
   set up before the camera can run, and a task exists from the end of the one call to the
   last step but one of the other. *)
Phases ==
    /\ lock <=> ctl # "idle"
    /\ ctl \in InitSteps => ~isp /\ running = {} /\ isr = "idle" /\ stats_buffer = NULL
    /\ ctl \in DeinitSteps => isp
    /\ ctl \in OffSteps => ~capture_meta
    /\ ctl = "d_close" => isr = "idle"
    /\ task # "none" <=> isp /\ ctl # "d_close"
    /\ fresh => /\ ctl = "idle" /\ ~isp /\ isr = "idle"
                /\ ~capture_meta /\ stats_buffer = NULL
    /\ mutex <=> task = "config"

(* The hardware: either no block runs, or at least those that are always needed. *)
Hardware ==
    /\ pending \subseteq running
    /\ running # {} => Always \subseteq running
    /\ isr = "fill" => block \in Blocks

(* A task that receives keeps the queue and the pipeline, and there is one at most. *)
Receiving ==
    /\ \A r \in Receivers :
           receiver[r] # "idle" => isp /\ isp_stats_queue # NULL /\ isp_stats_queue_is_receiving
    /\ \A r, u \in Receivers : receiver[r] # "idle" /\ receiver[u] # "idle" => r = u
    /\ ctl \in DeinitSteps => ~isp_stats_queue_is_receiving

(* Every element of the storage is in one list at most, with the task, or open; without a
   pipeline there is no storage. *)
Ownership ==
    /\ ListsSound
    /\ ~isp /\ ctl = "idle" => buffer = {} /\ stats_buffer \notin Elements
    /\ task_buf # NULL <=> task \in {"got", "qbuf"}
    /\ task_buf # NULL => task_buf \in buffer /\ task_buf \notin Listed
    /\ stats_buffer \in Elements => stats_buffer \in buffer
    /\ stats_buffer \in Elements => stats_buffer \notin Listed /\ stats_buffer # task_buf
    /\ stats_buffer = Dangling => ~capture_meta /\ isr = "idle"

(* What the blocks that are always needed have written into the open buffer: a part of the
   frame before is one that is still to come from the current frame. *)
Parts ==
    stats_buffer \in Elements /\ (capture_meta \/ isr = "fill") =>
        \A b \in Always :
            /\ content[b] \in {None, 0, 1}
            /\ content[b] = 1 /\ running # {} => b \in pending \/ (isr = "fill" /\ block = b)

IInv == TypeOK /\ Phases /\ Hardware /\ Receiving /\ Ownership /\ Parts

-------------------------------------------------------------------------------
(* The lists, whatever the free flags say *)

(* Inserting an element that is in no list keeps every element in one list at most. *)
LEMMA QueueElementOwned ==
    ASSUME StreamTypeOK, ListsSound, buffer' = buffer,
           NEW e \in buffer, e \notin Listed, QueueElement(e)
    PROVE  ListsSound' /\ Listed' \subseteq Listed \cup {e}
<1>1. CASE free[e]
  <2>1. queued_list' = Append(queued_list, e) /\ done_list' = done_list
    BY <1>1 DEF QueueElement
  <2>2. e \in Elements /\ queued_list \in Seq(Elements) /\ e \notin Range(queued_list)
    BY DEF StreamTypeOK, ListTypeOK, Listed
  <2>3. Range(queued_list') = Range(queued_list) \cup {e} /\ IsInjective(queued_list')
    BY <2>1, <2>2, AppendRange DEF ListsSound
  <2>4. Listed' = Listed \cup {e}
    BY <2>1, <2>3 DEF Listed
  <2> QED BY <2>1, <2>3, <2>4 DEF ListsSound, Listed
<1>2. CASE ~free[e]
  BY <1>2 DEF QueueElement, listVars, ListsSound, Listed
<1> QED BY <1>1, <1>2

LEMMA DoneElementOwned ==
    ASSUME StreamTypeOK, ListsSound, buffer' = buffer,
           NEW e \in buffer, e \notin Listed, DoneElement(e)
    PROVE  ListsSound' /\ Listed' \subseteq Listed \cup {e}
<1>1. CASE Accepted(e)
  <2>1. done_list' = Append(done_list, e) /\ queued_list' = queued_list
    BY <1>1 DEF DoneElement
  <2>2. e \in Elements /\ done_list \in Seq(Elements) /\ e \notin Range(done_list)
    BY DEF StreamTypeOK, ListTypeOK, Listed
  <2>3. Range(done_list') = Range(done_list) \cup {e} /\ IsInjective(done_list')
    BY <2>1, <2>2, AppendRange DEF ListsSound
  <2>4. Listed' = Listed \cup {e}
    BY <2>1, <2>3 DEF Listed
  <2> QED BY <2>1, <2>3, <2>4 DEF ListsSound, Listed
<1>2. CASE ~Accepted(e)
  BY <1>2 DEF DoneElement, listVars, ListsSound, Listed
<1> QED BY <1>1, <1>2

(* What is taken from a list was in the storage and is in no list any more. *)
LEMMA GetQueuedElementOwned ==
    ASSUME StreamTypeOK, ListsSound, buffer' = buffer, GetQueuedElement
    PROVE  /\ ListsSound' /\ Listed' = Listed \ {FirstQueued}
           /\ FirstQueued \in Listed \cup {NULL}
<1>1. CASE queued_list # <<>>
  <2> DEFINE h == Head(queued_list)
  <2>1. queued_list' = Tail(queued_list) /\ done_list' = done_list
    BY <1>1 DEF GetQueuedElement
  <2>2. /\ h \in Range(queued_list)
        /\ Range(queued_list') = Range(queued_list) \ {h}
        /\ IsInjective(queued_list')
    BY <1>1, <2>1, TailRange DEF StreamTypeOK, ListTypeOK, ListsSound
  <2>3. FirstQueued = h
    BY <1>1 DEF FirstQueued
  <2> HIDE DEF h
  <2>4. h \in Listed /\ Listed' = Listed \ {h}
    BY <2>1, <2>2 DEF Listed, ListsSound
  <2>5. ListsSound'
    BY <2>1, <2>2, <2>4 DEF ListsSound, Listed
  <2> QED BY <2>3, <2>4, <2>5
<1>2. CASE queued_list = <<>>
  <2>1. FirstQueued = NULL /\ NULL \notin Listed
    BY <1>2, MaxCountAssumption DEF FirstQueued, ListsSound, StreamTypeOK, Elements, NULL
  <2> QED BY <1>2, <2>1 DEF GetQueuedElement, listVars, ListsSound, Listed
<1> QED BY <1>1, <1>2

LEMMA GetDoneElementOwned ==
    ASSUME StreamTypeOK, ListsSound, buffer' = buffer, GetDoneElement
    PROVE  /\ ListsSound' /\ Listed' = Listed \ {FirstDone}
           /\ FirstDone \in Listed \cup {NULL}
           /\ Range(done_list') \subseteq Range(done_list)
<1>1. CASE done_list # <<>>
  <2> DEFINE h == Head(done_list)
  <2>1. done_list' = Tail(done_list) /\ queued_list' = queued_list
    BY <1>1 DEF GetDoneElement
  <2>2. /\ h \in Range(done_list)
        /\ Range(done_list') = Range(done_list) \ {h}
        /\ IsInjective(done_list')
    BY <1>1, <2>1, TailRange DEF StreamTypeOK, ListTypeOK, ListsSound
  <2>3. FirstDone = h
    BY <1>1 DEF FirstDone
  <2> HIDE DEF h
  <2>4. h \in Listed /\ Listed' = Listed \ {h}
    BY <2>1, <2>2 DEF Listed, ListsSound
  <2>5. ListsSound'
    BY <2>1, <2>2, <2>4 DEF ListsSound, Listed
  <2> QED BY <2>2, <2>3, <2>4, <2>5
<1>2. CASE done_list = <<>>
  <2>1. FirstDone = NULL /\ NULL \notin Listed
    BY <1>2, MaxCountAssumption DEF FirstDone, ListsSound, StreamTypeOK, Elements, NULL
  <2> QED BY <1>2, <2>1 DEF GetDoneElement, listVars, ListsSound, Listed
<1> QED BY <1>1, <1>2

(* The two buffers that are allocated and queued when the device is opened. *)
LEMMA FirstLists ==
    ASSUME InitLock
    PROVE  /\ StreamTypeOK' <=> started' \in BOOLEAN
           /\ ListsSound'
<1>1. /\ queued_list' = <<0, 1>> /\ done_list' = <<>> /\ buffer' = {0, 1}
      /\ free' \in [Elements -> BOOLEAN] /\ count' = 2 /\ ready_sem' = 0
  BY DEF InitLock, Count
<1>2. 0 \in Elements /\ 1 \in Elements /\ 2 \in 0 .. MaxCount
  BY IspAssumption, MaxCountAssumption DEF Elements
<1>3. <<0, 1>> \in Seq(Elements)
  BY <1>2
<1>4. Range(<<0, 1>>) = {0, 1} /\ IsInjective(<<0, 1>>)
  BY DEF Range, IsInjective
<1>5. StreamTypeOK' <=> started' \in BOOLEAN
  BY <1>1, <1>2, <1>3, EmptySeq DEF StreamTypeOK, ListTypeOK
<1>6. ListsSound'
  BY <1>1, <1>4, EmptyRange DEF ListsSound, Listed
<1> QED BY <1>5, <1>6

-------------------------------------------------------------------------------
(* Types and phases *)

(* The first element of a list, if there is one. *)
LEMMA FirstElement ==
    ASSUME ListTypeOK
    PROVE  FirstQueued \in Elements \cup {NULL} /\ FirstDone \in Elements \cup {NULL}
<1>1. queued_list # <<>> => Head(queued_list) \in Elements
  BY HeadTailProperties DEF ListTypeOK
<1>2. done_list # <<>> => Head(done_list) \in Elements
  BY HeadTailProperties DEF ListTypeOK
<1> QED BY <1>1, <1>2 DEF FirstQueued, FirstDone

(* Closing the device leaves no storage. *)
LEMMA Closed ==
    ASSUME TypeOK, CloseDevice
    PROVE  /\ StreamTypeOK' /\ ListsSound' /\ Listed' = {} /\ buffer' = {}
           /\ stats_buffer' \in {NULL, Dangling}
           /\ content' \in [Blocks -> {None} \cup 0 .. 2]
           /\ stats_buffer = NULL => stats_buffer' = NULL
<1>1. /\ queued_list' = <<>> /\ done_list' = <<>> /\ buffer' = {} /\ count' = 0
      /\ free' = [e \in Elements |-> TRUE] /\ ready_sem' = NULL /\ started' = FALSE
      /\ stats_buffer' = Freed(stats_buffer) /\ content' = Empty
  BY DEF CloseDevice
<1>2. 0 \in 0 .. MaxCount
  BY MaxCountAssumption
<1>3. StreamTypeOK'
  BY <1>1, <1>2, EmptySeq DEF StreamTypeOK, ListTypeOK
<1>4. Listed' = {} /\ ListsSound'
  BY <1>1, EmptyRange DEF Listed, ListsSound
<1>5. NULL \notin Elements
  BY MaxCountAssumption DEF NULL, Elements
<1>6. stats_buffer' \in {NULL, Dangling} /\ (stats_buffer = NULL => stats_buffer' = NULL)
  BY <1>1, <1>5 DEF TypeOK, Freed
<1>7. Empty \in [Blocks -> {None} \cup 0 .. 2]
  BY DEF Empty
<1> QED BY <1>1, <1>3, <1>4, <1>6, <1>7

(* A report writes one part of the buffer. *)
LEMMA Written ==
    ASSUME NEW c \in [Blocks -> {None} \cup 0 .. 2]
    PROVE  [c EXCEPT ![block] = 0] \in [Blocks -> {None} \cup 0 .. 2]
<1> DEFINE A == {None} \cup 0 .. 2
<1>1. 0 \in A
  OBVIOUS
<1> HIDE DEF A
<1>2. ASSUME c \in [Blocks -> A] PROVE [c EXCEPT ![block] = 0] \in [Blocks -> A]
  BY <1>1, <1>2
<1> QED BY <1>2 DEF A

(* Every step keeps the types. *)
LEMMA TypesStep ==
    ASSUME TypeOK, Hardware, Ownership, [Next]_vars
    PROVE  TypeOK'
<1>1. CASE FrameEnd
  <2>1. Older(content) \in [Blocks -> {None} \cup 0 .. 2]
    BY DEF TypeOK, Older, None
  <2> QED
    BY <1>1, <2>1
       DEF TypeOK, StreamTypeOK, ListTypeOK, FrameEnd, streamVars, isrVars, taskVars,
           dumpVars, pipelineVars
<1>2. ASSUME NEW b \in Blocks, IsrTest(b)
      PROVE  TypeOK'
  BY <1>2
     DEF TypeOK, StreamTypeOK, ListTypeOK, IsrTest, streamVars, deviceVars, isrVars,
         taskVars, dumpVars, pipelineVars
<1>3. CASE IsrTake
  <2>1. ListTypeOK'
    BY <1>3, GetQueuedElementTypes DEF TypeOK, StreamTypeOK, IsrTake
  <2>2. [Empty EXCEPT ![block] = 0] \in [Blocks -> {None} \cup 0 .. 2]
    BY Written DEF Empty
  <2>3. FirstQueued \in Elements \cup {NULL}
    BY FirstElement DEF TypeOK, StreamTypeOK
  <2> QED
    BY <1>3, <2>1, <2>2, <2>3
       DEF TypeOK, StreamTypeOK, IsrTake, Idle, memoryVars, blockVars, taskVars, dumpVars,
           pipelineVars
<1>4. CASE IsrFill
  <2>1. CASE Complete
    <3>1. DoneElement(stats_buffer)
      BY <1>4, <2>1 DEF IsrFill
    <3>2. ListTypeOK'
      BY <3>1, DoneElementTypes DEF TypeOK, StreamTypeOK
    <3>3. content' \in [Blocks -> {None} \cup 0 .. 2]
      BY <1>4, Written DEF TypeOK, IsrFill, Filled
    <3> QED
      BY <1>4, <2>1, <3>2, <3>3
         DEF TypeOK, StreamTypeOK, IsrFill, Idle, memoryVars, listVars, blockVars, taskVars,
             dumpVars, pipelineVars
  <2>2. CASE ~Complete
    <3>1. content' \in [Blocks -> {None} \cup 0 .. 2]
      BY <1>4, Written DEF TypeOK, IsrFill, Filled
    <3> QED
      BY <1>4, <2>2, <3>1
         DEF TypeOK, StreamTypeOK, ListTypeOK, IsrFill, Idle, memoryVars, listVars,
             blockVars, taskVars, dumpVars, pipelineVars
  <2> QED BY <2>1, <2>2
<1>5. CASE IsrGive
  <2>1. ready_sem' \in Nat \cup {NULL}
    BY <1>5, MaxCountAssumption DEF TypeOK, StreamTypeOK, IsrGive, GiveReady, NULL
  <2> QED
    BY <1>5, <2>1
       DEF TypeOK, StreamTypeOK, ListTypeOK, IsrGive, Idle, memoryVars, listVars,
           deviceVars, blockVars, taskVars, dumpVars, pipelineVars
<1>6. ASSUME NEW on \in SUBSET Optional, CameraOn(on)
      PROVE  TypeOK'
  <2>1. running' \in SUBSET Blocks /\ pending' \in SUBSET Blocks
    BY <1>6 DEF TypeOK, CameraOn, Blocks
  <2> QED
    BY <1>6, <2>1
       DEF TypeOK, StreamTypeOK, ListTypeOK, CameraOn, streamVars, deviceVars, isrVars,
           taskVars, dumpVars, pipelineVars
<1>7. CASE CameraOff
  BY <1>7
     DEF TypeOK, StreamTypeOK, ListTypeOK, CameraOff, streamVars, deviceVars, isrVars,
         taskVars, dumpVars, pipelineVars
<1>8. ASSUME NEW b \in Optional, AppControl(b)
      PROVE  TypeOK'
  <2>1. running' \in SUBSET Blocks /\ pending' \in SUBSET Blocks
    BY <1>8 DEF TypeOK, AppControl, Toggle, Blocks
  <2> QED
    BY <1>8, <2>1
       DEF TypeOK, StreamTypeOK, ListTypeOK, AppControl, streamVars, deviceVars, isrVars,
           taskVars, dumpVars, pipelineVars
<1>9. CASE DestroyDevice
  BY <1>9
     DEF TypeOK, StreamTypeOK, ListTypeOK, DestroyDevice, streamVars, blockVars, isrVars,
         taskVars, dumpVars
<1>10. CASE TaskTake
  <2>1. ready_sem' \in Nat \cup {NULL}
    BY <1>10 DEF TypeOK, StreamTypeOK, TaskTake, TakeReady, NULL
  <2> QED
    BY <1>10, <2>1
       DEF TypeOK, StreamTypeOK, ListTypeOK, TaskTake, memoryVars, listVars, deviceVars,
           blockVars, isrVars, dumpVars, pipelineVars
<1>11. CASE TaskPop
  <2>1. ListTypeOK'
    BY <1>11, GetDoneElementTypes DEF TypeOK, StreamTypeOK, TaskPop
  <2>2. FirstDone \in Elements \cup {NULL}
    BY FirstElement DEF TypeOK, StreamTypeOK
  <2> QED
    BY <1>11, <2>1, <2>2
       DEF TypeOK, StreamTypeOK, TaskPop, memoryVars, deviceVars, blockVars, isrVars,
           dumpVars, pipelineVars
<1>12. CASE TaskSend
  <2>1. isp_stats_queue' \in {NULL} \cup 0 .. QueueSize
    BY <1>12, IspAssumption DEF TypeOK, TaskSend
  <2> QED
    BY <1>12, <2>1
       DEF TypeOK, StreamTypeOK, ListTypeOK, TaskSend, streamVars, deviceVars, blockVars,
           isrVars, pipelineVars
<1>13. CASE TaskQbuf
  <2>1. task_buf \in Elements
    BY <1>13 DEF TypeOK, Ownership, TaskQbuf
  <2>2. ListTypeOK'
    BY <1>13, <2>1, QueueElementTypes DEF TypeOK, StreamTypeOK, TaskQbuf
  <2> QED
    BY <1>13, <2>2
       DEF TypeOK, StreamTypeOK, TaskQbuf, memoryVars, deviceVars, blockVars, isrVars,
           dumpVars, pipelineVars
<1>14. CASE TaskProcessFails
  BY <1>14
     DEF TypeOK, StreamTypeOK, ListTypeOK, TaskProcessFails, streamVars, deviceVars,
         blockVars, isrVars, dumpVars, pipelineVars
<1>15. CASE TaskProcess
  BY <1>15
     DEF TypeOK, StreamTypeOK, ListTypeOK, TaskProcess, streamVars, deviceVars, blockVars,
         isrVars, dumpVars, pipelineVars
<1>16. CASE TaskConfig
  <2>1. running' \in SUBSET Blocks /\ pending' \in SUBSET Blocks
    <3>1. CASE UNCHANGED blockVars
      BY <3>1 DEF TypeOK, blockVars
    <3>2. ASSUME NEW b \in Optional, Toggle(b)
          PROVE  running' \in SUBSET Blocks /\ pending' \in SUBSET Blocks
      BY <3>2 DEF TypeOK, Toggle, Blocks
    <3> QED BY <1>16, <3>1, <3>2 DEF TaskConfig
  <2>2. mutex' \in BOOLEAN
    BY <1>16 DEF TaskConfig
  <2> QED
    BY <1>16, <2>1, <2>2
       DEF TypeOK, StreamTypeOK, ListTypeOK, TaskConfig, streamVars, deviceVars, isrVars,
           dumpVars, pipelineVars
<1>17. CASE InitLock
  <2>1. StreamTypeOK'
    BY <1>17, FirstLists DEF TypeOK, StreamTypeOK, InitLock
  <2>2. lock' \in BOOLEAN /\ fresh' \in BOOLEAN
    BY <1>17 DEF InitLock
  <2> QED
    BY <1>17, <2>2, <2>1
       DEF TypeOK, InitLock, deviceVars, blockVars, isrVars, taskVars, dumpVars
<1>18. CASE InitOn
  <2>1. capture_meta' \in BOOLEAN /\ started' \in BOOLEAN
    BY <1>18 DEF TypeOK, InitOn
  <2> QED
    BY <1>18, <2>1
       DEF TypeOK, StreamTypeOK, ListTypeOK, InitOn, memoryVars, listVars, blockVars,
           isrVars, taskVars, dumpVars
<1>19. CASE InitTask
  <2>1. isp' \in BOOLEAN /\ lock' \in BOOLEAN
    BY <1>19 DEF TypeOK, InitTask
  <2> QED
    BY <1>19, <2>1
       DEF TypeOK, StreamTypeOK, ListTypeOK, InitTask, streamVars, deviceVars, blockVars,
           isrVars, dumpVars
<1>20. CASE InitFails
  <2>1. CloseDevice
    BY <1>20 DEF InitFails
  <2>2. /\ StreamTypeOK' /\ stats_buffer' \in {NULL, Dangling}
        /\ content' \in [Blocks -> {None} \cup 0 .. 2]
    BY <2>1, Closed
  <2>3. lock' \in BOOLEAN
    BY <1>20 DEF InitFails
  <2> QED
    BY <1>20, <2>3, <2>2 DEF TypeOK, InitFails, blockVars, isrVars, taskVars, dumpVars
<1>21. CASE DeinitLock
  BY <1>21
     DEF TypeOK, StreamTypeOK, ListTypeOK, DeinitLock, streamVars, deviceVars, blockVars,
         isrVars, taskVars, dumpVars
<1>22. CASE DeinitOff
  <2>1. capture_meta' \in BOOLEAN
    BY <1>22 DEF TypeOK, DeinitOff
  <2> QED
    BY <1>22, <2>1
       DEF TypeOK, StreamTypeOK, ListTypeOK, DeinitOff, streamVars, blockVars, isrVars,
           taskVars, dumpVars
<1>23. CASE DeinitDrain
  <2>1. ready_sem' \in Nat \cup {NULL}
    BY <1>23 DEF TypeOK, StreamTypeOK, DeinitDrain, DrainReady, NULL
  <2> QED
    BY <1>23, <2>1
       DEF TypeOK, StreamTypeOK, ListTypeOK, DeinitDrain, memoryVars, listVars, deviceVars,
           blockVars, isrVars, taskVars, dumpVars
<1>24. CASE DeinitLists
  <2>1. <<>> \in Seq(Elements)
    BY EmptySeq
  <2> QED
    BY <1>24, <2>1
       DEF TypeOK, StreamTypeOK, ListTypeOK, DeinitLists, ResetLists, memoryVars,
           deviceVars, blockVars, isrVars, taskVars, dumpVars
<1>25. CASE DeinitReset
  <2>1. free' \in [Elements -> BOOLEAN]
    BY <1>25 DEF DeinitReset, BufferReset
  <2>2. started' \in BOOLEAN
    BY <1>25 DEF DeinitReset
  <2> QED
    BY <1>25, <2>2, <2>1
       DEF TypeOK, StreamTypeOK, ListTypeOK, DeinitReset, BufferReset, memoryVars,
           deviceVars, blockVars, isrVars, taskVars, dumpVars
<1>26. CASE DeinitTask
  BY <1>26
     DEF TypeOK, StreamTypeOK, ListTypeOK, DeinitTask, streamVars, deviceVars, blockVars,
         isrVars, dumpVars
<1>27. CASE DeinitClose
  <2>1. CloseDevice
    BY <1>27 DEF DeinitClose
  <2>2. /\ StreamTypeOK' /\ stats_buffer' \in {NULL, Dangling}
        /\ content' \in [Blocks -> {None} \cup 0 .. 2]
    BY <2>1, Closed
  <2>3. lock' \in BOOLEAN /\ isp' \in BOOLEAN
    BY <1>27 DEF DeinitClose
  <2> QED
    BY <1>27, <2>3, <2>2 DEF TypeOK, DeinitClose, blockVars, isrVars, taskVars
<1>28. CASE StartDump
  <2>1. 0 \in 0 .. QueueSize
    BY IspAssumption
  <2>2. isp_stats_queue_is_receiving' \in BOOLEAN
    BY <1>28 DEF StartDump
  <2> QED
    BY <1>28, <2>2, <2>1
       DEF TypeOK, StreamTypeOK, ListTypeOK, StartDump, streamVars, deviceVars, blockVars,
           isrVars, taskVars, pipelineVars
<1>29. CASE StopDump
  BY <1>29
     DEF TypeOK, StreamTypeOK, ListTypeOK, StopDump, streamVars, deviceVars, blockVars,
         isrVars, taskVars, pipelineVars
<1>30. ASSUME NEW r \in Receivers, Dump(r)
      PROVE  TypeOK'
  BY <1>30
     DEF TypeOK, StreamTypeOK, ListTypeOK, Dump, streamVars, deviceVars, blockVars, isrVars,
         taskVars, pipelineVars
<1>31. ASSUME NEW r \in Receivers, DumpReceive(r)
      PROVE  TypeOK'
  <2>1. isp_stats_queue' \in {NULL} \cup 0 .. QueueSize
    BY <1>31, IspAssumption DEF TypeOK, DumpReceive, NULL
  <2> QED
    BY <1>31, <2>1
       DEF TypeOK, StreamTypeOK, ListTypeOK, DumpReceive, streamVars, deviceVars, blockVars,
           isrVars, taskVars, pipelineVars
<1>32. ASSUME NEW r \in Receivers, DumpReturn(r)
      PROVE  TypeOK'
  <2>1. isp_stats_queue_is_receiving' \in BOOLEAN
    BY <1>32 DEF TypeOK, DumpReturn
  <2> QED
    BY <1>32, <2>1
       DEF TypeOK, StreamTypeOK, ListTypeOK, DumpReturn, streamVars, deviceVars, blockVars,
           isrVars, taskVars, pipelineVars
<1>33. CASE UNCHANGED vars
  BY <1>33
     DEF TypeOK, StreamTypeOK, ListTypeOK, vars, streamVars, memoryVars, listVars,
         deviceVars, blockVars, isrVars, taskVars, dumpVars, pipelineVars
<1> QED
  BY <1>1, <1>2, <1>3, <1>4, <1>5, <1>6, <1>7, <1>8, <1>9, <1>10, <1>11, <1>12, <1>13,
     <1>14, <1>15, <1>16, <1>17, <1>18, <1>19, <1>20, <1>21, <1>22, <1>23, <1>24, <1>25,
     <1>26, <1>27, <1>28, <1>29, <1>30, <1>31, <1>32, <1>33
     DEF Next, Interrupt, Device, Task, Pipeline, Dumping

(* Every step keeps the phases of the pipeline. *)
LEMMA PhasesStep ==
    ASSUME ~Reinit, TypeOK, Phases, Hardware, [Next]_vars
    PROVE  Phases'
<1>1. CASE FrameEnd
  BY <1>1
     DEF TypeOK, Phases, InitSteps, DeinitSteps, OffSteps, FrameEnd, streamVars, isrVars,
         taskVars, dumpVars, pipelineVars
<1>2. ASSUME NEW b \in Blocks, IsrTest(b)
      PROVE  Phases'
  <2>1. running # {}
    BY <1>2 DEF Hardware, IsrTest
  <2> QED
    BY <1>2, <2>1
       DEF Phases, InitSteps, DeinitSteps, OffSteps, IsrTest, streamVars, deviceVars,
           isrVars, taskVars, dumpVars, pipelineVars
<1>3. CASE IsrTake
  BY <1>3
     DEF TypeOK, Phases, InitSteps, DeinitSteps, OffSteps, IsrTake, Idle, memoryVars,
         blockVars, taskVars, dumpVars, pipelineVars
<1>4. CASE IsrFill
  BY <1>4
     DEF TypeOK, Phases, InitSteps, DeinitSteps, OffSteps, IsrFill, Idle, memoryVars,
         listVars, blockVars, taskVars, dumpVars, pipelineVars
<1>5. CASE IsrGive
  BY <1>5
     DEF TypeOK, Phases, InitSteps, DeinitSteps, OffSteps, IsrGive, Idle, memoryVars,
         listVars, deviceVars, blockVars, taskVars, dumpVars, pipelineVars
<1>6. ASSUME NEW on \in SUBSET Optional, CameraOn(on)
      PROVE  Phases'
  <2>1. ctl \notin InitSteps
    BY <1>6 DEF CameraOn, InitSteps
  <2> QED
    BY <1>6, <2>1
       DEF Phases, DeinitSteps, OffSteps, CameraOn, streamVars, deviceVars, isrVars,
           taskVars, dumpVars, pipelineVars
<1>7. CASE CameraOff
  BY <1>7
     DEF TypeOK, Phases, InitSteps, DeinitSteps, OffSteps, CameraOff, streamVars,
         deviceVars, isrVars, taskVars, dumpVars, pipelineVars
<1>8. ASSUME NEW b \in Optional, AppControl(b)
      PROVE  Phases'
  BY <1>8
     DEF TypeOK, Phases, InitSteps, DeinitSteps, OffSteps, AppControl, Toggle, streamVars,
         deviceVars, isrVars, taskVars, dumpVars, pipelineVars
<1>9. CASE DestroyDevice
  BY <1>9
     DEF TypeOK, Phases, InitSteps, DeinitSteps, OffSteps, DestroyDevice, streamVars,
         blockVars, isrVars, taskVars, dumpVars
<1>10. CASE TaskTake
  BY <1>10
     DEF TypeOK, Phases, InitSteps, DeinitSteps, OffSteps, TaskTake, memoryVars, listVars,
         deviceVars, blockVars, isrVars, dumpVars, pipelineVars
<1>11. CASE TaskPop
  BY <1>11
     DEF TypeOK, Phases, InitSteps, DeinitSteps, OffSteps, TaskPop, memoryVars, deviceVars,
         blockVars, isrVars, dumpVars, pipelineVars
<1>12. CASE TaskSend
  BY <1>12
     DEF TypeOK, Phases, InitSteps, DeinitSteps, OffSteps, TaskSend, streamVars, deviceVars,
         blockVars, isrVars, pipelineVars
<1>13. CASE TaskQbuf
  BY <1>13
     DEF TypeOK, Phases, InitSteps, DeinitSteps, OffSteps, TaskQbuf, memoryVars, deviceVars,
         blockVars, isrVars, dumpVars, pipelineVars
<1>14. CASE TaskProcessFails
  BY <1>14
     DEF TypeOK, Phases, InitSteps, DeinitSteps, OffSteps, TaskProcessFails, streamVars,
         deviceVars, blockVars, isrVars, dumpVars, pipelineVars
<1>15. CASE TaskProcess
  BY <1>15
     DEF TypeOK, Phases, InitSteps, DeinitSteps, OffSteps, TaskProcess, streamVars,
         deviceVars, blockVars, isrVars, dumpVars, pipelineVars
<1>16. CASE TaskConfig
  BY <1>16
     DEF TypeOK, Phases, InitSteps, DeinitSteps, OffSteps, TaskConfig, Toggle, streamVars,
         deviceVars, blockVars, isrVars, dumpVars, pipelineVars
<1>17. CASE InitLock
  BY <1>17
     DEF TypeOK, Phases, InitSteps, DeinitSteps, OffSteps, InitLock, deviceVars, blockVars,
         isrVars, taskVars, dumpVars
<1>18. CASE InitOn
  BY <1>18
     DEF TypeOK, Phases, InitSteps, DeinitSteps, OffSteps, InitOn, memoryVars, listVars,
         blockVars, isrVars, taskVars, dumpVars
<1>19. CASE InitTask
  BY <1>19
     DEF TypeOK, Phases, InitSteps, DeinitSteps, OffSteps, InitTask, streamVars, deviceVars,
         blockVars, isrVars, dumpVars
<1>20. CASE InitFails
  <2>1. stats_buffer' = NULL
    BY <1>20, Closed DEF Phases, InitSteps, InitFails
  <2> QED
    BY <1>20, <2>1
       DEF Phases, InitSteps, DeinitSteps, OffSteps, InitFails, blockVars, isrVars,
           taskVars, dumpVars
<1>21. CASE DeinitLock
  BY <1>21
     DEF TypeOK, Phases, InitSteps, DeinitSteps, OffSteps, DeinitLock, streamVars,
         deviceVars, blockVars, isrVars, taskVars, dumpVars
<1>22. CASE DeinitOff
  BY <1>22
     DEF TypeOK, Phases, InitSteps, DeinitSteps, OffSteps, DeinitOff, streamVars, blockVars,
         isrVars, taskVars, dumpVars
<1>23. CASE DeinitDrain
  BY <1>23
     DEF TypeOK, Phases, InitSteps, DeinitSteps, OffSteps, DeinitDrain, memoryVars,
         listVars, deviceVars, blockVars, isrVars, taskVars, dumpVars
<1>24. CASE DeinitLists
  BY <1>24
     DEF TypeOK, Phases, InitSteps, DeinitSteps, OffSteps, DeinitLists, memoryVars,
         deviceVars, blockVars, isrVars, taskVars, dumpVars
<1>25. CASE DeinitReset
  BY <1>25
     DEF TypeOK, Phases, InitSteps, DeinitSteps, OffSteps, DeinitReset, memoryVars,
         deviceVars, blockVars, isrVars, taskVars, dumpVars
<1>26. CASE DeinitTask
  <2>1. task \in {"dqbuf", "got"}
    BY <1>26 DEF DeinitTask, AtRest
  <2> QED
    BY <1>26, <2>1
       DEF Phases, InitSteps, DeinitSteps, OffSteps, DeinitTask, streamVars, deviceVars,
           blockVars, isrVars, dumpVars
<1>27. CASE DeinitClose
  BY <1>27
     DEF TypeOK, Phases, InitSteps, DeinitSteps, OffSteps, DeinitClose, blockVars, isrVars,
         taskVars
<1>28. CASE StartDump
  BY <1>28
     DEF TypeOK, Phases, InitSteps, DeinitSteps, OffSteps, StartDump, streamVars,
         deviceVars, blockVars, isrVars, taskVars, pipelineVars
<1>29. CASE StopDump
  BY <1>29
     DEF TypeOK, Phases, InitSteps, DeinitSteps, OffSteps, StopDump, streamVars, deviceVars,
         blockVars, isrVars, taskVars, pipelineVars
<1>30. ASSUME NEW r \in Receivers, Dump(r)
      PROVE  Phases'
  BY <1>30
     DEF TypeOK, Phases, InitSteps, DeinitSteps, OffSteps, Dump, streamVars, deviceVars,
         blockVars, isrVars, taskVars, pipelineVars
<1>31. ASSUME NEW r \in Receivers, DumpReceive(r)
      PROVE  Phases'
  BY <1>31
     DEF TypeOK, Phases, InitSteps, DeinitSteps, OffSteps, DumpReceive, streamVars,
         deviceVars, blockVars, isrVars, taskVars, pipelineVars
<1>32. ASSUME NEW r \in Receivers, DumpReturn(r)
      PROVE  Phases'
  BY <1>32
     DEF TypeOK, Phases, InitSteps, DeinitSteps, OffSteps, DumpReturn, streamVars,
         deviceVars, blockVars, isrVars, taskVars, pipelineVars
<1>33. CASE UNCHANGED vars
  BY <1>33
     DEF Phases, vars, streamVars, memoryVars, listVars, deviceVars, blockVars, isrVars,
         taskVars, dumpVars, pipelineVars
<1> QED
  BY <1>1, <1>2, <1>3, <1>4, <1>5, <1>6, <1>7, <1>8, <1>9, <1>10, <1>11, <1>12, <1>13,
     <1>14, <1>15, <1>16, <1>17, <1>18, <1>19, <1>20, <1>21, <1>22, <1>23, <1>24, <1>25,
     <1>26, <1>27, <1>28, <1>29, <1>30, <1>31, <1>32, <1>33
     DEF Next, Interrupt, Device, Task, Pipeline, Dumping

(* Turning an optional block on or off. *)
LEMMA ToggleKeeps ==
    ASSUME Hardware, NEW b \in Optional, Toggle(b), UNCHANGED isrVars
    PROVE  /\ Hardware'
           /\ \A c \in Always : c \in pending' <=> c \in pending
           /\ running' # {}
<1>1. /\ running # {}
      /\ running' = IF b \in running THEN running \ {b} ELSE running \cup {b}
      /\ pending' = pending \cap running'
  BY DEF Toggle
<1>2. Always \subseteq running' /\ pending \subseteq running
  BY <1>1, IspAssumption DEF Hardware
<1>3. Always # {}
  BY IspAssumption, FS_EmptySet
<1> QED BY <1>1, <1>2, <1>3 DEF Hardware, isrVars

(* Every step keeps what is known of the hardware. *)
LEMMA HardwareStep ==
    ASSUME TypeOK, Hardware, [Next]_vars
    PROVE  Hardware'
<1>1. CASE FrameEnd
  BY <1>1
     DEF TypeOK, Hardware, FrameEnd, streamVars, isrVars, taskVars, dumpVars, pipelineVars
<1>2. ASSUME NEW b \in Blocks, IsrTest(b)
      PROVE  Hardware'
  BY <1>2
     DEF TypeOK, Hardware, IsrTest, streamVars, deviceVars, isrVars, taskVars, dumpVars,
         pipelineVars
<1>3. CASE IsrTake
  BY <1>3
     DEF TypeOK, Hardware, IsrTake, Idle, memoryVars, blockVars, taskVars, dumpVars,
         pipelineVars
<1>4. CASE IsrFill
  BY <1>4
     DEF TypeOK, Hardware, IsrFill, Idle, memoryVars, listVars, blockVars, taskVars,
         dumpVars, pipelineVars
<1>5. CASE IsrGive
  BY <1>5
     DEF TypeOK, Hardware, IsrGive, Idle, memoryVars, listVars, deviceVars, blockVars,
         taskVars, dumpVars, pipelineVars
<1>6. ASSUME NEW on \in SUBSET Optional, CameraOn(on)
      PROVE  Hardware'
  BY <1>6
     DEF TypeOK, Hardware, CameraOn, streamVars, deviceVars, isrVars, taskVars, dumpVars,
         pipelineVars
<1>7. CASE CameraOff
  BY <1>7
     DEF TypeOK, Hardware, CameraOff, streamVars, deviceVars, isrVars, taskVars, dumpVars,
         pipelineVars
<1>8. ASSUME NEW b \in Optional, AppControl(b)
      PROVE  Hardware'
  <2>1. Toggle(b) /\ UNCHANGED isrVars
    BY <1>8 DEF AppControl
  <2> QED BY <2>1, ToggleKeeps
<1>9. CASE DestroyDevice
  BY <1>9
     DEF TypeOK, Hardware, DestroyDevice, streamVars, blockVars, isrVars, taskVars, dumpVars
<1>10. CASE TaskTake
  BY <1>10
     DEF TypeOK, Hardware, TaskTake, memoryVars, listVars, deviceVars, blockVars, isrVars,
         dumpVars, pipelineVars
<1>11. CASE TaskPop
  BY <1>11
     DEF TypeOK, Hardware, TaskPop, memoryVars, deviceVars, blockVars, isrVars, dumpVars,
         pipelineVars
<1>12. CASE TaskSend
  BY <1>12
     DEF TypeOK, Hardware, TaskSend, streamVars, deviceVars, blockVars, isrVars,
         pipelineVars
<1>13. CASE TaskQbuf
  BY <1>13
     DEF TypeOK, Hardware, TaskQbuf, memoryVars, deviceVars, blockVars, isrVars, dumpVars,
         pipelineVars
<1>14. CASE TaskProcessFails
  BY <1>14
     DEF TypeOK, Hardware, TaskProcessFails, streamVars, deviceVars, blockVars, isrVars,
         dumpVars, pipelineVars
<1>15. CASE TaskProcess
  BY <1>15
     DEF TypeOK, Hardware, TaskProcess, streamVars, deviceVars, blockVars, isrVars,
         dumpVars, pipelineVars
<1>16. CASE TaskConfig
  <2>1. CASE UNCHANGED blockVars
    BY <1>16, <2>1
       DEF Hardware, TaskConfig, streamVars, deviceVars, blockVars, isrVars, dumpVars,
           pipelineVars
  <2>2. ASSUME NEW b \in Optional, Toggle(b)
        PROVE  Hardware'
    <3>1. UNCHANGED isrVars
      BY <1>16 DEF TaskConfig
    <3> QED BY <2>2, <3>1, ToggleKeeps
  <2> QED BY <1>16, <2>1, <2>2 DEF TaskConfig
<1>17. CASE InitLock
  BY <1>17
     DEF TypeOK, Hardware, InitLock, deviceVars, blockVars, isrVars, taskVars, dumpVars
<1>18. CASE InitOn
  BY <1>18
     DEF TypeOK, Hardware, InitOn, memoryVars, listVars, blockVars, isrVars, taskVars,
         dumpVars
<1>19. CASE InitTask
  BY <1>19
     DEF TypeOK, Hardware, InitTask, streamVars, deviceVars, blockVars, isrVars, dumpVars
<1>20. CASE InitFails
  BY <1>20 DEF TypeOK, Hardware, InitFails, blockVars, isrVars, taskVars, dumpVars
<1>21. CASE DeinitLock
  BY <1>21
     DEF TypeOK, Hardware, DeinitLock, streamVars, deviceVars, blockVars, isrVars, taskVars,
         dumpVars
<1>22. CASE DeinitOff
  BY <1>22
     DEF TypeOK, Hardware, DeinitOff, streamVars, blockVars, isrVars, taskVars, dumpVars
<1>23. CASE DeinitDrain
  BY <1>23
     DEF TypeOK, Hardware, DeinitDrain, memoryVars, listVars, deviceVars, blockVars,
         isrVars, taskVars, dumpVars
<1>24. CASE DeinitLists
  BY <1>24
     DEF TypeOK, Hardware, DeinitLists, memoryVars, deviceVars, blockVars, isrVars,
         taskVars, dumpVars
<1>25. CASE DeinitReset
  BY <1>25
     DEF TypeOK, Hardware, DeinitReset, memoryVars, deviceVars, blockVars, isrVars,
         taskVars, dumpVars
<1>26. CASE DeinitTask
  BY <1>26
     DEF TypeOK, Hardware, DeinitTask, streamVars, deviceVars, blockVars, isrVars, dumpVars
<1>27. CASE DeinitClose
  BY <1>27 DEF TypeOK, Hardware, DeinitClose, blockVars, isrVars, taskVars
<1>28. CASE StartDump
  BY <1>28
     DEF TypeOK, Hardware, StartDump, streamVars, deviceVars, blockVars, isrVars, taskVars,
         pipelineVars
<1>29. CASE StopDump
  BY <1>29
     DEF TypeOK, Hardware, StopDump, streamVars, deviceVars, blockVars, isrVars, taskVars,
         pipelineVars
<1>30. ASSUME NEW r \in Receivers, Dump(r)
      PROVE  Hardware'
  BY <1>30
     DEF TypeOK, Hardware, Dump, streamVars, deviceVars, blockVars, isrVars, taskVars,
         pipelineVars
<1>31. ASSUME NEW r \in Receivers, DumpReceive(r)
      PROVE  Hardware'
  BY <1>31
     DEF TypeOK, Hardware, DumpReceive, streamVars, deviceVars, blockVars, isrVars,
         taskVars, pipelineVars
<1>32. ASSUME NEW r \in Receivers, DumpReturn(r)
      PROVE  Hardware'
  BY <1>32
     DEF TypeOK, Hardware, DumpReturn, streamVars, deviceVars, blockVars, isrVars, taskVars,
         pipelineVars
<1>33. CASE UNCHANGED vars
  BY <1>33
     DEF Hardware, vars, streamVars, memoryVars, listVars, deviceVars, blockVars, isrVars,
         taskVars, dumpVars, pipelineVars
<1> QED
  BY <1>1, <1>2, <1>3, <1>4, <1>5, <1>6, <1>7, <1>8, <1>9, <1>10, <1>11, <1>12, <1>13,
     <1>14, <1>15, <1>16, <1>17, <1>18, <1>19, <1>20, <1>21, <1>22, <1>23, <1>24, <1>25,
     <1>26, <1>27, <1>28, <1>29, <1>30, <1>31, <1>32, <1>33
     DEF Next, Interrupt, Device, Task, Pipeline, Dumping

(* Every step keeps the queue and the pipeline of a task that receives. *)
LEMMA ReceivingStep ==
    ASSUME TypeOK, Phases, Receiving, [Next]_vars
    PROVE  Receiving'
<1>1. CASE FrameEnd
  BY <1>1
     DEF TypeOK, Phases, Receiving, InitSteps, DeinitSteps, FrameEnd, streamVars, isrVars,
         taskVars, dumpVars, pipelineVars
<1>2. ASSUME NEW b \in Blocks, IsrTest(b)
      PROVE  Receiving'
  BY <1>2
     DEF TypeOK, Phases, Receiving, InitSteps, DeinitSteps, IsrTest, streamVars, deviceVars,
         isrVars, taskVars, dumpVars, pipelineVars
<1>3. CASE IsrTake
  BY <1>3
     DEF TypeOK, Phases, Receiving, InitSteps, DeinitSteps, IsrTake, Idle, memoryVars,
         blockVars, taskVars, dumpVars, pipelineVars
<1>4. CASE IsrFill
  BY <1>4
     DEF TypeOK, Phases, Receiving, InitSteps, DeinitSteps, IsrFill, Idle, memoryVars,
         listVars, blockVars, taskVars, dumpVars, pipelineVars
<1>5. CASE IsrGive
  BY <1>5
     DEF TypeOK, Phases, Receiving, InitSteps, DeinitSteps, IsrGive, Idle, memoryVars,
         listVars, deviceVars, blockVars, taskVars, dumpVars, pipelineVars
<1>6. ASSUME NEW on \in SUBSET Optional, CameraOn(on)
      PROVE  Receiving'
  BY <1>6
     DEF TypeOK, Phases, Receiving, InitSteps, DeinitSteps, CameraOn, streamVars,
         deviceVars, isrVars, taskVars, dumpVars, pipelineVars
<1>7. CASE CameraOff
  BY <1>7
     DEF TypeOK, Phases, Receiving, InitSteps, DeinitSteps, CameraOff, streamVars,
         deviceVars, isrVars, taskVars, dumpVars, pipelineVars
<1>8. ASSUME NEW b \in Optional, AppControl(b)
      PROVE  Receiving'
  BY <1>8
     DEF TypeOK, Phases, Receiving, InitSteps, DeinitSteps, AppControl, streamVars,
         deviceVars, isrVars, taskVars, dumpVars, pipelineVars
<1>9. CASE DestroyDevice
  BY <1>9
     DEF TypeOK, Phases, Receiving, InitSteps, DeinitSteps, DestroyDevice, streamVars,
         blockVars, isrVars, taskVars, dumpVars
<1>10. CASE TaskTake
  BY <1>10
     DEF TypeOK, Phases, Receiving, InitSteps, DeinitSteps, TaskTake, memoryVars, listVars,
         deviceVars, blockVars, isrVars, dumpVars, pipelineVars
<1>11. CASE TaskPop
  BY <1>11
     DEF TypeOK, Phases, Receiving, InitSteps, DeinitSteps, TaskPop, memoryVars, deviceVars,
         blockVars, isrVars, dumpVars, pipelineVars
<1>12. CASE TaskSend
  <2>1. isp_stats_queue = NULL <=> isp_stats_queue' = NULL
    BY <1>12, IspAssumption DEF TypeOK, TaskSend, NULL
  <2> QED
    BY <1>12, <2>1
       DEF Receiving, DeinitSteps, TaskSend, streamVars, deviceVars, blockVars, isrVars,
           pipelineVars
<1>13. CASE TaskQbuf
  BY <1>13
     DEF TypeOK, Phases, Receiving, InitSteps, DeinitSteps, TaskQbuf, memoryVars,
         deviceVars, blockVars, isrVars, dumpVars, pipelineVars
<1>14. CASE TaskProcessFails
  BY <1>14
     DEF TypeOK, Phases, Receiving, InitSteps, DeinitSteps, TaskProcessFails, streamVars,
         deviceVars, blockVars, isrVars, dumpVars, pipelineVars
<1>15. CASE TaskProcess
  BY <1>15
     DEF TypeOK, Phases, Receiving, InitSteps, DeinitSteps, TaskProcess, streamVars,
         deviceVars, blockVars, isrVars, dumpVars, pipelineVars
<1>16. CASE TaskConfig
  BY <1>16
     DEF TypeOK, Phases, Receiving, InitSteps, DeinitSteps, TaskConfig, streamVars,
         deviceVars, blockVars, isrVars, dumpVars, pipelineVars
<1>17. CASE InitLock
  BY <1>17
     DEF TypeOK, Phases, Receiving, InitSteps, DeinitSteps, InitLock, deviceVars, blockVars,
         isrVars, taskVars, dumpVars
<1>18. CASE InitOn
  BY <1>18
     DEF TypeOK, Phases, Receiving, InitSteps, DeinitSteps, InitOn, memoryVars, listVars,
         blockVars, isrVars, taskVars, dumpVars
<1>19. CASE InitTask
  BY <1>19
     DEF TypeOK, Phases, Receiving, InitSteps, DeinitSteps, InitTask, streamVars,
         deviceVars, blockVars, isrVars, dumpVars
<1>20. CASE InitFails
  BY <1>20
     DEF TypeOK, Phases, Receiving, InitSteps, DeinitSteps, InitFails, blockVars, isrVars,
         taskVars, dumpVars
<1>21. CASE DeinitLock
  BY <1>21
     DEF TypeOK, Phases, Receiving, InitSteps, DeinitSteps, DeinitLock, streamVars,
         deviceVars, blockVars, isrVars, taskVars, dumpVars
<1>22. CASE DeinitOff
  BY <1>22
     DEF TypeOK, Phases, Receiving, InitSteps, DeinitSteps, DeinitOff, streamVars,
         blockVars, isrVars, taskVars, dumpVars
<1>23. CASE DeinitDrain
  BY <1>23
     DEF TypeOK, Phases, Receiving, InitSteps, DeinitSteps, DeinitDrain, memoryVars,
         listVars, deviceVars, blockVars, isrVars, taskVars, dumpVars
<1>24. CASE DeinitLists
  BY <1>24
     DEF TypeOK, Phases, Receiving, InitSteps, DeinitSteps, DeinitLists, memoryVars,
         deviceVars, blockVars, isrVars, taskVars, dumpVars
<1>25. CASE DeinitReset
  BY <1>25
     DEF TypeOK, Phases, Receiving, InitSteps, DeinitSteps, DeinitReset, memoryVars,
         deviceVars, blockVars, isrVars, taskVars, dumpVars
<1>26. CASE DeinitTask
  BY <1>26
     DEF TypeOK, Phases, Receiving, InitSteps, DeinitSteps, DeinitTask, streamVars,
         deviceVars, blockVars, isrVars, dumpVars
<1>27. CASE DeinitClose
  BY <1>27
     DEF TypeOK, Phases, Receiving, InitSteps, DeinitSteps, DeinitClose, blockVars, isrVars,
         taskVars
<1>28. CASE StartDump
  BY <1>28
     DEF TypeOK, Phases, Receiving, InitSteps, DeinitSteps, StartDump, streamVars,
         deviceVars, blockVars, isrVars, taskVars, pipelineVars
<1>29. CASE StopDump
  BY <1>29
     DEF TypeOK, Phases, Receiving, InitSteps, DeinitSteps, StopDump, streamVars,
         deviceVars, blockVars, isrVars, taskVars, pipelineVars
<1>30. ASSUME NEW r \in Receivers, Dump(r)
      PROVE  Receiving'
  BY <1>30
     DEF TypeOK, Phases, Receiving, InitSteps, DeinitSteps, Dump, streamVars, deviceVars,
         blockVars, isrVars, taskVars, pipelineVars
<1>31. ASSUME NEW r \in Receivers, DumpReceive(r)
      PROVE  Receiving'
  <2>1. isp_stats_queue = NULL <=> isp_stats_queue' = NULL
    BY <1>31, IspAssumption DEF TypeOK, DumpReceive, NULL
  <2>2. \A u \in Receivers : receiver'[u] # "idle" <=> receiver[u] # "idle"
    BY <1>31 DEF TypeOK, DumpReceive
  <2> QED
    BY <1>31, <2>1, <2>2
       DEF Receiving, DeinitSteps, DumpReceive, streamVars, deviceVars, blockVars, isrVars,
           taskVars, pipelineVars
<1>32. ASSUME NEW r \in Receivers, DumpReturn(r)
      PROVE  Receiving'
  <2>1. ctl \notin DeinitSteps
    BY <1>32 DEF Phases, DeinitSteps, DumpReturn
  <2>2. \A u \in Receivers : receiver'[u] = "idle"
    BY <1>32 DEF TypeOK, Receiving, DumpReturn
  <2> QED
    BY <1>32, <2>1, <2>2
       DEF Receiving, DumpReturn, streamVars, deviceVars, blockVars, isrVars, taskVars,
           pipelineVars
<1>33. CASE UNCHANGED vars
  BY <1>33
     DEF Receiving, vars, streamVars, memoryVars, listVars, deviceVars, blockVars, isrVars,
         taskVars, dumpVars, pipelineVars
<1> QED
  BY <1>1, <1>2, <1>3, <1>4, <1>5, <1>6, <1>7, <1>8, <1>9, <1>10, <1>11, <1>12, <1>13,
     <1>14, <1>15, <1>16, <1>17, <1>18, <1>19, <1>20, <1>21, <1>22, <1>23, <1>24, <1>25,
     <1>26, <1>27, <1>28, <1>29, <1>30, <1>31, <1>32, <1>33
     DEF Next, Interrupt, Device, Task, Pipeline, Dumping

-------------------------------------------------------------------------------
(* Owners *)

LEMMA Pointers == NULL \notin Elements /\ Dangling \notin Elements /\ NULL # Dangling
BY MaxCountAssumption DEF NULL, Dangling, Elements

(* Every step keeps every element with one owner. *)
LEMMA OwnershipStep ==
    ASSUME ~Reinit, TypeOK, Phases, Ownership, [Next]_vars
    PROVE  Ownership'
<1>1. CASE FrameEnd
  BY <1>1
     DEF Phases, Ownership, ListsSound, Listed, InitSteps, DeinitSteps, OffSteps, FrameEnd,
         streamVars, isrVars, taskVars, dumpVars, pipelineVars
<1>2. ASSUME NEW b \in Blocks, IsrTest(b)
      PROVE  Ownership'
  BY <1>2
     DEF Phases, Ownership, ListsSound, Listed, InitSteps, DeinitSteps, OffSteps, IsrTest,
         streamVars, deviceVars, isrVars, taskVars, dumpVars, pipelineVars
<1>3. CASE IsrTake
  <2>1. ListsSound' /\ Listed' = Listed \ {FirstQueued} /\ FirstQueued \in Listed \cup {NULL}
    BY <1>3, GetQueuedElementOwned DEF TypeOK, Ownership, IsrTake, memoryVars
  <2>2. UNCHANGED <<isp, ctl, buffer, task, task_buf, capture_meta>> /\ isr' = "idle"
    BY <1>3 DEF IsrTake, Idle, memoryVars, pipelineVars, taskVars
  <2>3. stats_buffer' = FirstQueued
    BY <1>3 DEF IsrTake
  <2>4. Listed \subseteq buffer /\ buffer \subseteq Elements
    BY DEF Ownership, ListsSound, TypeOK, StreamTypeOK
  <2> QED BY <2>1, <2>2, <2>3, <2>4, Pointers DEF Ownership
<1>4. CASE IsrFill
  <2>1. UNCHANGED <<isp, ctl, buffer, task, task_buf, capture_meta>>
    BY <1>4 DEF IsrFill, memoryVars, pipelineVars, taskVars
  <2>2. CASE Complete
    <3>1. DoneElement(stats_buffer) /\ stats_buffer' = NULL /\ stats_buffer \in Elements
      BY <1>4, <2>2 DEF IsrFill
    <3>2. stats_buffer \in buffer /\ stats_buffer \notin Listed /\ stats_buffer # task_buf
      BY <3>1 DEF Ownership
    <3>3. ListsSound' /\ Listed' \subseteq Listed \cup {stats_buffer}
      BY <2>1, <3>1, <3>2, DoneElementOwned DEF TypeOK, Ownership
    <3> QED BY <2>1, <3>1, <3>2, <3>3, Pointers DEF Ownership
  <2>3. CASE ~Complete
    <3>1. UNCHANGED listVars /\ stats_buffer' = stats_buffer /\ isr' = "idle"
      BY <1>4, <2>3 DEF IsrFill, Idle
    <3> QED BY <2>1, <3>1 DEF Ownership, ListsSound, Listed, listVars
  <2> QED BY <2>2, <2>3
<1>5. CASE IsrGive
  BY <1>5
     DEF Phases, Ownership, ListsSound, Listed, InitSteps, DeinitSteps, OffSteps, IsrGive,
         Idle, memoryVars, listVars, deviceVars, blockVars, taskVars, dumpVars, pipelineVars
<1>6. ASSUME NEW on \in SUBSET Optional, CameraOn(on)
      PROVE  Ownership'
  BY <1>6
     DEF Phases, Ownership, ListsSound, Listed, InitSteps, DeinitSteps, OffSteps, CameraOn,
         streamVars, deviceVars, isrVars, taskVars, dumpVars, pipelineVars
<1>7. CASE CameraOff
  BY <1>7
     DEF Phases, Ownership, ListsSound, Listed, InitSteps, DeinitSteps, OffSteps, CameraOff,
         streamVars, deviceVars, isrVars, taskVars, dumpVars, pipelineVars
<1>8. ASSUME NEW b \in Optional, AppControl(b)
      PROVE  Ownership'
  BY <1>8
     DEF Phases, Ownership, ListsSound, Listed, InitSteps, DeinitSteps, OffSteps,
         AppControl, Toggle, streamVars, deviceVars, isrVars, taskVars, dumpVars,
         pipelineVars
<1>9. CASE DestroyDevice
  <2>1. stats_buffer' = NULL /\ UNCHANGED <<streamVars, isp, ctl, task, task_buf>>
    BY <1>9 DEF DestroyDevice, taskVars
  <2> QED BY <2>1, Pointers DEF Ownership, ListsSound, Listed, streamVars
<1>10. CASE TaskTake
  BY <1>10
     DEF Phases, Ownership, ListsSound, Listed, InitSteps, DeinitSteps, OffSteps, TaskTake,
         memoryVars, listVars, deviceVars, blockVars, isrVars, dumpVars, pipelineVars
<1>11. CASE TaskPop
  <2>1. ListsSound' /\ Listed' = Listed \ {FirstDone} /\ FirstDone \in Listed \cup {NULL}
    BY <1>11, GetDoneElementOwned DEF TypeOK, Ownership, TaskPop, memoryVars
  <2>2. UNCHANGED <<isp, ctl, buffer, stats_buffer, capture_meta, isr>>
    BY <1>11 DEF TaskPop, memoryVars, pipelineVars, deviceVars, isrVars
  <2>3. task_buf' = FirstDone /\ task' = IF FirstDone = NULL THEN "dqbuf" ELSE "got"
    BY <1>11 DEF TaskPop
  <2>4. Listed \subseteq buffer /\ buffer \subseteq Elements
    BY DEF Ownership, ListsSound, TypeOK, StreamTypeOK
  <2> QED BY <2>1, <2>2, <2>3, <2>4, Pointers DEF Ownership
<1>12. CASE TaskSend
  BY <1>12
     DEF Phases, Ownership, ListsSound, Listed, InitSteps, DeinitSteps, OffSteps, TaskSend,
         streamVars, deviceVars, blockVars, isrVars, pipelineVars
<1>13. CASE TaskQbuf
  <2>1. QueueElement(task_buf) /\ task_buf' = NULL /\ task' = "process" /\ task = "qbuf"
    BY <1>13 DEF TaskQbuf
  <2>2. UNCHANGED <<isp, ctl, buffer, stats_buffer, capture_meta, isr>>
    BY <1>13 DEF TaskQbuf, memoryVars, pipelineVars, deviceVars, isrVars
  <2>3. task_buf \in buffer /\ task_buf \notin Listed
    BY <2>1 DEF Ownership
  <2>4. ListsSound' /\ Listed' \subseteq Listed \cup {task_buf}
    BY <2>1, <2>2, <2>3, QueueElementOwned DEF TypeOK, Ownership
  <2> QED BY <2>1, <2>2, <2>3, <2>4, Pointers DEF Ownership
<1>14. CASE TaskProcessFails
  BY <1>14
     DEF Phases, Ownership, ListsSound, Listed, InitSteps, DeinitSteps, OffSteps,
         TaskProcessFails, streamVars, deviceVars, blockVars, isrVars, dumpVars,
         pipelineVars
<1>15. CASE TaskProcess
  BY <1>15
     DEF Phases, Ownership, ListsSound, Listed, InitSteps, DeinitSteps, OffSteps,
         TaskProcess, streamVars, deviceVars, blockVars, isrVars, dumpVars, pipelineVars
<1>16. CASE TaskConfig
  BY <1>16
     DEF Phases, Ownership, ListsSound, Listed, InitSteps, DeinitSteps, OffSteps,
         TaskConfig, Toggle, streamVars, deviceVars, blockVars, isrVars, dumpVars,
         pipelineVars
<1>17. CASE InitLock
  <2>1. ~isp /\ fresh /\ ctl' = "i_on"
    BY <1>17 DEF InitLock
  <2>2. stats_buffer = NULL /\ task = "none" /\ task_buf = NULL
    BY <2>1 DEF Phases, Ownership
  <2>3. UNCHANGED <<isp, stats_buffer, task, task_buf>>
    BY <1>17 DEF InitLock, deviceVars, taskVars
  <2>4. ListsSound'
    BY <1>17, FirstLists
  <2> QED BY <2>1, <2>2, <2>3, <2>4, Pointers DEF Ownership
<1>18. CASE InitOn
  BY <1>18, Pointers
     DEF Phases, Ownership, ListsSound, Listed, InitSteps, DeinitSteps, OffSteps, InitOn,
         memoryVars, listVars, blockVars, isrVars, taskVars, dumpVars
<1>19. CASE InitTask
  BY <1>19
     DEF Phases, Ownership, ListsSound, Listed, InitSteps, DeinitSteps, OffSteps, InitTask,
         streamVars, deviceVars, blockVars, isrVars, dumpVars
<1>20. CASE InitFails
  <2>1. CloseDevice /\ ~isp /\ task = "none" /\ stats_buffer = NULL
    BY <1>20 DEF Phases, InitSteps, InitFails
  <2>2. ListsSound' /\ Listed' = {} /\ buffer' = {} /\ stats_buffer' = NULL
    BY <2>1, Closed
  <2>3. UNCHANGED <<task, task_buf>> /\ task_buf = NULL
    BY <1>20, <2>1 DEF InitFails, taskVars, Ownership
  <2> QED BY <2>2, <2>3, Pointers DEF Ownership
<1>21. CASE DeinitLock
  BY <1>21
     DEF Phases, Ownership, ListsSound, Listed, InitSteps, DeinitSteps, OffSteps,
         DeinitLock, streamVars, deviceVars, blockVars, isrVars, taskVars, dumpVars
<1>22. CASE DeinitOff
  BY <1>22
     DEF Phases, Ownership, ListsSound, Listed, InitSteps, DeinitSteps, OffSteps, DeinitOff,
         streamVars, blockVars, isrVars, taskVars, dumpVars
<1>23. CASE DeinitDrain
  BY <1>23
     DEF Phases, Ownership, ListsSound, Listed, InitSteps, DeinitSteps, OffSteps,
         DeinitDrain, memoryVars, listVars, deviceVars, blockVars, isrVars, taskVars,
         dumpVars
<1>24. CASE DeinitLists
  <2>1. ListsSound' /\ Listed' = {}
    BY <1>24, EmptyRange DEF DeinitLists, ResetLists, ListsSound, Listed
  <2>2. UNCHANGED <<isp, buffer, stats_buffer, task, task_buf, capture_meta, isr>> /\ ctl' # "idle"
    BY <1>24 DEF DeinitLists, memoryVars, deviceVars, taskVars, isrVars
  <2> QED BY <2>1, <2>2 DEF Ownership
<1>25. CASE DeinitReset
  BY <1>25
     DEF Phases, Ownership, ListsSound, Listed, InitSteps, DeinitSteps, OffSteps,
         DeinitReset, BufferReset, memoryVars, deviceVars, blockVars, isrVars, taskVars,
         dumpVars
<1>26. CASE DeinitTask
  BY <1>26, Pointers
     DEF Phases, Ownership, ListsSound, Listed, InitSteps, DeinitSteps, OffSteps,
         DeinitTask, streamVars, deviceVars, blockVars, isrVars, dumpVars
<1>27. CASE DeinitClose
  <2>1. CloseDevice /\ task = "none" /\ ~capture_meta /\ isr = "idle"
    BY <1>27 DEF Phases, OffSteps, DeinitSteps, DeinitClose
  <2>2. ListsSound' /\ Listed' = {} /\ buffer' = {} /\ stats_buffer' \in {NULL, Dangling}
    BY <2>1, Closed
  <2>3. UNCHANGED <<task, task_buf, capture_meta, isr>> /\ task_buf = NULL
    BY <1>27, <2>1 DEF DeinitClose, taskVars, isrVars, Ownership
  <2> QED BY <2>1, <2>2, <2>3, Pointers DEF Ownership
<1>28. CASE StartDump
  BY <1>28
     DEF Phases, Ownership, ListsSound, Listed, InitSteps, DeinitSteps, OffSteps, StartDump,
         streamVars, deviceVars, blockVars, isrVars, taskVars, pipelineVars
<1>29. CASE StopDump
  BY <1>29
     DEF Phases, Ownership, ListsSound, Listed, InitSteps, DeinitSteps, OffSteps, StopDump,
         streamVars, deviceVars, blockVars, isrVars, taskVars, pipelineVars
<1>30. ASSUME NEW r \in Receivers, Dump(r)
      PROVE  Ownership'
  BY <1>30
     DEF Phases, Ownership, ListsSound, Listed, InitSteps, DeinitSteps, OffSteps, Dump,
         streamVars, deviceVars, blockVars, isrVars, taskVars, pipelineVars
<1>31. ASSUME NEW r \in Receivers, DumpReceive(r)
      PROVE  Ownership'
  BY <1>31
     DEF Phases, Ownership, ListsSound, Listed, InitSteps, DeinitSteps, OffSteps,
         DumpReceive, streamVars, deviceVars, blockVars, isrVars, taskVars, pipelineVars
<1>32. ASSUME NEW r \in Receivers, DumpReturn(r)
      PROVE  Ownership'
  BY <1>32
     DEF Phases, Ownership, ListsSound, Listed, InitSteps, DeinitSteps, OffSteps,
         DumpReturn, streamVars, deviceVars, blockVars, isrVars, taskVars, pipelineVars
<1>33. CASE UNCHANGED vars
  BY <1>33
     DEF Ownership, ListsSound, Listed, vars, streamVars, memoryVars, listVars, deviceVars,
         blockVars, isrVars, taskVars, dumpVars, pipelineVars
<1> QED
  BY <1>1, <1>2, <1>3, <1>4, <1>5, <1>6, <1>7, <1>8, <1>9, <1>10, <1>11, <1>12, <1>13,
     <1>14, <1>15, <1>16, <1>17, <1>18, <1>19, <1>20, <1>21, <1>22, <1>23, <1>24, <1>25,
     <1>26, <1>27, <1>28, <1>29, <1>30, <1>31, <1>32, <1>33
     DEF Next, Interrupt, Device, Task, Pipeline, Dumping

-------------------------------------------------------------------------------
(* The parts of the open buffer *)

(* Every step keeps the age of the parts. *)
LEMMA PartsStep ==
    ASSUME TypeOK, Phases, Hardware, Parts, [Next]_vars
    PROVE  Parts'
<1>1. CASE FrameEnd
  <2>1. /\ running # {} /\ pending = {} /\ isr = "idle" /\ pending' = running
        /\ UNCHANGED <<capture_meta, stats_buffer, running, isr, block>>
    BY <1>1 DEF FrameEnd, isrVars
  <2>2. SUFFICES ASSUME stats_buffer \in Elements, capture_meta, NEW b \in Always
                 PROVE  content'[b] \in {None, 0, 1} /\ b \in pending'
    BY <2>1 DEF Parts
  <2>3. content[b] \in {None, 0}
    BY <2>1, <2>2 DEF Parts
  <2>4. content' = Older(content) /\ b \in Blocks
    BY <1>1, <2>2 DEF FrameEnd, Blocks
  <2>5. content'[b] \in {None, 0, 1}
    <3>1. content'[b] = IF content[b] \in {0, 1} THEN content[b] + 1 ELSE content[b]
      BY <2>4 DEF Older
    <3>2. CASE content[b] = 0
      BY <3>1, <3>2
    <3>3. CASE content[b] = None
      BY <3>1, <3>3 DEF None
    <3> QED BY <2>3, <3>2, <3>3
  <2>6. b \in pending'
    BY <2>1, <2>2 DEF Hardware
  <2> QED BY <2>5, <2>6
<1>2. ASSUME NEW b \in Blocks, IsrTest(b)
      PROVE  Parts'
  <2>1. UNCHANGED <<stats_buffer, content, capture_meta, running>> /\ pending' = pending \ {b} /\ isr = "idle"
    BY <1>2 DEF IsrTest, deviceVars
  <2>2. CASE capture_meta
    <3>1. isr' = "fill" /\ block' = b
      BY <1>2, <2>2 DEF IsrTest
    <3> QED BY <2>1, <2>2, <3>1 DEF Parts
  <2>3. CASE ~capture_meta
    <3>1. isr' = "idle"
      BY <1>2, <2>1, <2>3 DEF IsrTest, isrVars
    <3> QED BY <2>1, <2>3, <3>1 DEF Parts
  <2> QED BY <2>2, <2>3
<1>3. CASE IsrTake
  <2>1. ASSUME stats_buffer' \in Elements, NEW b \in Always
        PROVE  content'[b] \in {None, 0}
    <3>1. content' = [Empty EXCEPT ![block] = 0]
      BY <1>3, <2>1, Pointers DEF IsrTake
    <3> QED BY <3>1 DEF Empty, Blocks
  <2> QED BY <2>1 DEF Parts, None
<1>4. CASE IsrFill
  <2>1. CASE Complete
    <3>1. stats_buffer' \notin Elements
      BY <1>4, <2>1, Pointers DEF IsrFill
    <3> QED BY <3>1 DEF Parts
  <2>2. CASE ~Complete
    <3>1. /\ stats_buffer \in Elements /\ isr = "fill" /\ isr' = "idle"
          /\ UNCHANGED <<stats_buffer, capture_meta, pending, running>>
          /\ content' = [content EXCEPT ![block] = 0]
      BY <1>4, <2>2 DEF IsrFill, Idle, Filled, blockVars
    <3>2. ASSUME NEW b \in Always, b = block
          PROVE  content'[b] = 0
      BY <3>1, <3>2 DEF TypeOK, Blocks
    <3>3. ASSUME NEW b \in Always, b # block
          PROVE  content'[b] = content[b]
      BY <3>1, <3>3 DEF TypeOK, Blocks
    <3> QED BY <3>1, <3>2, <3>3 DEF Parts
  <2> QED BY <2>1, <2>2
<1>5. CASE IsrGive
  BY <1>5
     DEF Parts, IsrGive, Idle, memoryVars, listVars, deviceVars, blockVars, taskVars,
         dumpVars, pipelineVars
<1>6. ASSUME NEW on \in SUBSET Optional, CameraOn(on)
      PROVE  Parts'
  <2>1. UNCHANGED <<stats_buffer, content, capture_meta, isr, block>> /\ Always \subseteq pending'
    BY <1>6 DEF CameraOn, deviceVars, isrVars
  <2>2. running = {}
    BY <1>6 DEF CameraOn
  <2> QED BY <2>1, <2>2 DEF Parts
<1>7. CASE CameraOff
  BY <1>7
     DEF Parts, CameraOff, streamVars, deviceVars, isrVars, taskVars, dumpVars, pipelineVars
<1>8. ASSUME NEW b \in Optional, AppControl(b)
      PROVE  Parts'
  <2>1. Toggle(b) /\ UNCHANGED isrVars /\ UNCHANGED deviceVars
    BY <1>8 DEF AppControl
  <2>2. \A c \in Always : c \in pending' <=> c \in pending
    BY <2>1, ToggleKeeps
  <2>3. running # {}
    BY <2>1 DEF Toggle
  <2> QED BY <2>1, <2>2, <2>3 DEF Parts, isrVars, deviceVars
<1>9. CASE DestroyDevice
  <2>1. stats_buffer' \notin Elements
    BY <1>9, Pointers DEF DestroyDevice
  <2> QED BY <2>1 DEF Parts
<1>10. CASE TaskTake
  BY <1>10
     DEF Parts, TaskTake, memoryVars, listVars, deviceVars, blockVars, isrVars, dumpVars,
         pipelineVars
<1>11. CASE TaskPop
  BY <1>11
     DEF Parts, TaskPop, memoryVars, deviceVars, blockVars, isrVars, dumpVars, pipelineVars
<1>12. CASE TaskSend
  BY <1>12 DEF Parts, TaskSend, streamVars, deviceVars, blockVars, isrVars, pipelineVars
<1>13. CASE TaskQbuf
  BY <1>13
     DEF Parts, TaskQbuf, memoryVars, deviceVars, blockVars, isrVars, dumpVars, pipelineVars
<1>14. CASE TaskProcessFails
  BY <1>14
     DEF Parts, TaskProcessFails, streamVars, deviceVars, blockVars, isrVars, dumpVars,
         pipelineVars
<1>15. CASE TaskProcess
  BY <1>15
     DEF Parts, TaskProcess, streamVars, deviceVars, blockVars, isrVars, dumpVars,
         pipelineVars
<1>16. CASE TaskConfig
  <2>1. UNCHANGED isrVars /\ UNCHANGED deviceVars
    BY <1>16 DEF TaskConfig
  <2>2. CASE UNCHANGED blockVars
    BY <2>1, <2>2 DEF Parts, isrVars, deviceVars, blockVars
  <2>3. ASSUME NEW b \in Optional, Toggle(b)
        PROVE  Parts'
    <3>1. \A c \in Always : c \in pending' <=> c \in pending
      BY <2>1, <2>3, ToggleKeeps
    <3>2. running # {}
      BY <2>3 DEF Toggle
    <3> QED BY <2>1, <3>1, <3>2 DEF Parts, isrVars, deviceVars
  <2> QED BY <1>16, <2>2, <2>3 DEF TaskConfig
<1>17. CASE InitLock
  BY <1>17 DEF Parts, InitLock, deviceVars, blockVars, isrVars, taskVars, dumpVars
<1>18. CASE InitOn
  <2>1. stats_buffer' \notin Elements
    BY <1>18, Pointers DEF Phases, InitSteps, InitOn
  <2> QED BY <2>1 DEF Parts
<1>19. CASE InitTask
  BY <1>19 DEF Parts, InitTask, streamVars, deviceVars, blockVars, isrVars, dumpVars
<1>20. CASE InitFails
  <2>1. stats_buffer' \notin Elements
    BY <1>20, Closed, Pointers DEF InitFails
  <2> QED BY <2>1 DEF Parts
<1>21. CASE DeinitLock
  BY <1>21
     DEF Parts, DeinitLock, streamVars, deviceVars, blockVars, isrVars, taskVars, dumpVars
<1>22. CASE DeinitOff
  BY <1>22 DEF Parts, DeinitOff, streamVars, blockVars, isrVars, taskVars, dumpVars
<1>23. CASE DeinitDrain
  BY <1>23
     DEF Parts, DeinitDrain, memoryVars, listVars, deviceVars, blockVars, isrVars, taskVars,
         dumpVars
<1>24. CASE DeinitLists
  BY <1>24
     DEF Parts, DeinitLists, memoryVars, deviceVars, blockVars, isrVars, taskVars, dumpVars
<1>25. CASE DeinitReset
  BY <1>25
     DEF Parts, DeinitReset, memoryVars, deviceVars, blockVars, isrVars, taskVars, dumpVars
<1>26. CASE DeinitTask
  BY <1>26 DEF Parts, DeinitTask, streamVars, deviceVars, blockVars, isrVars, dumpVars
<1>27. CASE DeinitClose
  <2>1. stats_buffer' \notin Elements
    BY <1>27, Closed, Pointers DEF DeinitClose
  <2> QED BY <2>1 DEF Parts
<1>28. CASE StartDump
  BY <1>28
     DEF Parts, StartDump, streamVars, deviceVars, blockVars, isrVars, taskVars,
         pipelineVars
<1>29. CASE StopDump
  BY <1>29
     DEF Parts, StopDump, streamVars, deviceVars, blockVars, isrVars, taskVars, pipelineVars
<1>30. ASSUME NEW r \in Receivers, Dump(r)
      PROVE  Parts'
  BY <1>30
     DEF Parts, Dump, streamVars, deviceVars, blockVars, isrVars, taskVars, pipelineVars
<1>31. ASSUME NEW r \in Receivers, DumpReceive(r)
      PROVE  Parts'
  BY <1>31
     DEF Parts, DumpReceive, streamVars, deviceVars, blockVars, isrVars, taskVars,
         pipelineVars
<1>32. ASSUME NEW r \in Receivers, DumpReturn(r)
      PROVE  Parts'
  BY <1>32
     DEF Parts, DumpReturn, streamVars, deviceVars, blockVars, isrVars, taskVars,
         pipelineVars
<1>33. CASE UNCHANGED vars
  BY <1>33
     DEF Parts, vars, streamVars, memoryVars, listVars, deviceVars, blockVars, isrVars,
         taskVars, dumpVars, pipelineVars
<1> QED
  BY <1>1, <1>2, <1>3, <1>4, <1>5, <1>6, <1>7, <1>8, <1>9, <1>10, <1>11, <1>12, <1>13,
     <1>14, <1>15, <1>16, <1>17, <1>18, <1>19, <1>20, <1>21, <1>22, <1>23, <1>24, <1>25,
     <1>26, <1>27, <1>28, <1>29, <1>30, <1>31, <1>32, <1>33
     DEF Next, Interrupt, Device, Task, Pipeline, Dumping

(* Statistics are handed over by the interrupt that completes them only. *)
LEMMA OnlyFillHandsOver ==
    ASSUME TypeOK, Ownership, [Next]_vars
    PROVE  Range(done_list') \subseteq Range(done_list) \/ (IsrFill /\ Complete)
<1>1. CASE FrameEnd
  BY <1>1 DEF FrameEnd, streamVars
<1>2. ASSUME NEW b \in Blocks, IsrTest(b)
      PROVE  Range(done_list') \subseteq Range(done_list) \/ (IsrFill /\ Complete)
  BY <1>2 DEF IsrTest, streamVars
<1>3. CASE IsrTake
  BY <1>3 DEF IsrTake, GetQueuedElement, listVars
<1>4. CASE IsrFill
  BY <1>4 DEF IsrFill, listVars
<1>5. CASE IsrGive
  BY <1>5 DEF IsrGive, listVars
<1>6. ASSUME NEW on \in SUBSET Optional, CameraOn(on)
      PROVE  Range(done_list') \subseteq Range(done_list) \/ (IsrFill /\ Complete)
  BY <1>6 DEF CameraOn, streamVars
<1>7. CASE CameraOff
  BY <1>7 DEF CameraOff, streamVars
<1>8. ASSUME NEW b \in Optional, AppControl(b)
      PROVE  Range(done_list') \subseteq Range(done_list) \/ (IsrFill /\ Complete)
  BY <1>8 DEF AppControl, streamVars
<1>9. CASE DestroyDevice
  BY <1>9 DEF DestroyDevice, streamVars
<1>10. CASE TaskTake
  BY <1>10 DEF TaskTake, listVars
<1>11. CASE TaskPop
  BY <1>11, GetDoneElementOwned DEF TypeOK, Ownership, TaskPop, memoryVars
<1>12. CASE TaskSend
  BY <1>12 DEF TaskSend, streamVars
<1>13. CASE TaskQbuf
  BY <1>13 DEF TaskQbuf, QueueElement, listVars
<1>14. CASE TaskProcessFails
  BY <1>14 DEF TaskProcessFails, streamVars
<1>15. CASE TaskProcess
  BY <1>15 DEF TaskProcess, streamVars
<1>16. CASE TaskConfig
  BY <1>16 DEF TaskConfig, streamVars
<1>17. CASE InitLock
  BY <1>17, EmptyRange DEF InitLock
<1>18. CASE InitOn
  BY <1>18 DEF InitOn, listVars
<1>19. CASE InitTask
  BY <1>19 DEF InitTask, streamVars
<1>20. CASE InitFails
  BY <1>20, EmptyRange DEF InitFails, CloseDevice
<1>21. CASE DeinitLock
  BY <1>21 DEF DeinitLock, streamVars
<1>22. CASE DeinitOff
  BY <1>22 DEF DeinitOff, streamVars
<1>23. CASE DeinitDrain
  BY <1>23 DEF DeinitDrain, listVars
<1>24. CASE DeinitLists
  BY <1>24, EmptyRange DEF DeinitLists, ResetLists
<1>25. CASE DeinitReset
  BY <1>25 DEF DeinitReset, BufferReset
<1>26. CASE DeinitTask
  BY <1>26 DEF DeinitTask, streamVars
<1>27. CASE DeinitClose
  BY <1>27, EmptyRange DEF DeinitClose, CloseDevice
<1>28. CASE StartDump
  BY <1>28 DEF StartDump, streamVars
<1>29. CASE StopDump
  BY <1>29 DEF StopDump, streamVars
<1>30. ASSUME NEW r \in Receivers, Dump(r)
      PROVE  Range(done_list') \subseteq Range(done_list) \/ (IsrFill /\ Complete)
  BY <1>30 DEF Dump, streamVars
<1>31. ASSUME NEW r \in Receivers, DumpReceive(r)
      PROVE  Range(done_list') \subseteq Range(done_list) \/ (IsrFill /\ Complete)
  BY <1>31 DEF DumpReceive, streamVars
<1>32. ASSUME NEW r \in Receivers, DumpReturn(r)
      PROVE  Range(done_list') \subseteq Range(done_list) \/ (IsrFill /\ Complete)
  BY <1>32 DEF DumpReturn, streamVars
<1>33. CASE UNCHANGED vars
  BY <1>33 DEF vars, streamVars
<1> QED
  BY <1>1, <1>2, <1>3, <1>4, <1>5, <1>6, <1>7, <1>8, <1>9, <1>10, <1>11, <1>12, <1>13,
     <1>14, <1>15, <1>16, <1>17, <1>18, <1>19, <1>20, <1>21, <1>22, <1>23, <1>24, <1>25,
     <1>26, <1>27, <1>28, <1>29, <1>30, <1>31, <1>32, <1>33
     DEF Next, Interrupt, Device, Task, Pipeline, Dumping

-------------------------------------------------------------------------------
(* The theorems *)

LEMMA InitIInv == Init => IInv
<1> SUFFICES ASSUME Init PROVE IInv
  OBVIOUS
<1>1. TypeOK
  <2>1. StreamTypeOK
    BY StreamInitTypes DEF Init
  <2> QED BY <2>1 DEF Init, TypeOK, Empty
<1>2. ListsSound /\ Listed = {} /\ buffer = {}
  BY EmptyListsSound DEF Init, StreamInit
<1>3. Ownership
  BY <1>2, Pointers DEF Init, Ownership
<1>4. Phases
  BY DEF Init, Phases, InitSteps, DeinitSteps, OffSteps
<1>5. Hardware /\ Parts
  BY Pointers DEF Init, Hardware, Parts
<1>6. Receiving
  BY DEF Init, Receiving, DeinitSteps
<1> QED BY <1>1, <1>3, <1>4, <1>5, <1>6 DEF IInv

LEMMA NextIInv == ~Reinit /\ IInv /\ [Next]_vars => IInv'
<1> SUFFICES ASSUME ~Reinit, IInv, [Next]_vars PROVE IInv'
  OBVIOUS
<1>1. TypeOK'
  BY TypesStep DEF IInv
<1>2. Phases'
  BY PhasesStep DEF IInv
<1>3. Hardware'
  BY HardwareStep DEF IInv
<1>4. Receiving'
  BY ReceivingStep DEF IInv
<1>5. Ownership'
  BY OwnershipStep DEF IInv
<1>6. Parts'
  BY PartsStep DEF IInv
<1> QED BY <1>1, <1>2, <1>3, <1>4, <1>5, <1>6 DEF IInv

LEMMA Invariance == ~Reinit => (Spec => []IInv)
<1> SUFFICES ASSUME ~Reinit PROVE Spec => []IInv
  OBVIOUS
<1>1. IInv /\ [Next]_vars => IInv'
  BY NextIInv
<1> QED BY InitIInv, <1>1, PTL DEF Spec

(* The types of the device, of its stream and of the pipeline (TypeOK). *)
THEOREM TypeCorrect == ~Reinit => (Spec => []TypeOK)
<1> SUFFICES ASSUME ~Reinit PROVE Spec => []TypeOK
  OBVIOUS
<1>1. IInv => TypeOK
  BY DEF IInv
<1> QED BY <1>1, Invariance, PTL

(* The interrupt writes into live storage, and into a buffer that is in no list and not  *)
(* with the task, however STREAMOFF, which leaves the open buffer open and empties the   *)
(* lists without their lock, meets the interrupt and the task.                            *)
THEOREM BufferExclusive == ~Reinit => (Spec => []OpenBufferExclusive)
<1> SUFFICES ASSUME ~Reinit PROVE Spec => []OpenBufferExclusive
  OBVIOUS
<1>1. IInv => OpenBufferExclusive
  <2> SUFFICES ASSUME IInv PROVE OpenBufferExclusive
    OBVIOUS
  <2>1. task_buf \notin Listed
    <3>1. NULL \notin Listed
      BY Pointers DEF IInv, Ownership, ListsSound, TypeOK, StreamTypeOK
    <3> QED BY <3>1 DEF IInv, Ownership
  <2> QED BY <2>1 DEF IInv, Ownership, OpenBufferExclusive
<1> QED BY <1>1, Invariance, PTL

(* The queue a task receives from and the pipeline it writes into afterwards outlive its *)
(* call of dump_stats, and vTaskDelete never takes isp_task out of a call that holds the *)
(* mutex of the device.                                                                   *)
THEOREM DeletedUnused == ~Reinit => (Spec => []DeletesOnlyUnused)
<1> SUFFICES ASSUME ~Reinit PROVE Spec => []DeletesOnlyUnused
  OBVIOUS
<1>1. IInv => DeletesOnlyUnused
  BY DEF IInv, Receiving, Phases, DeletesOnlyUnused
<1> QED BY <1>1, Invariance, PTL

(* The parts a buffer always needs are of the frame in which it is handed over or of the *)
(* one before, whatever blocks are started and stopped while it is open.                 *)
THEOREM PartsAdjacent == ~Reinit => (Spec => StatsAdjacent)
<1> DEFINE Handed == \A e \in Elements : (e \notin Range(done_list) /\ e \in Range(done_list'))
                        => /\ \A b \in Always : content'[b] \in 0 .. 1
                           /\ \A b \in running : content'[b] # None
<1> SUFFICES ASSUME ~Reinit PROVE Spec => StatsAdjacent
  OBVIOUS
<1>1. ASSUME IInv, [Next]_vars
      PROVE  Handed
  <2>1. CASE Range(done_list') \subseteq Range(done_list)
    BY <2>1
  <2>2. CASE IsrFill /\ Complete
    <3>1. /\ content' = Filled /\ stats_buffer \in Elements /\ isr = "fill"
          /\ \A b \in Always \cup running : Filled[b] # None
      BY <2>2 DEF IsrFill, Complete
    <3>2. ASSUME NEW b \in Always
          PROVE  Filled[b] \in {None, 0, 1}
      <4>1. CASE b = block
        BY <1>1, <4>1 DEF IInv, TypeOK, Blocks, Filled
      <4>2. CASE b # block
        <5>1. Filled[b] = content[b]
          BY <1>1, <4>2 DEF IInv, TypeOK, Blocks, Filled
        <5> QED BY <1>1, <3>1, <5>1 DEF IInv, Parts
      <4> QED BY <4>1, <4>2
    <3> QED BY <3>1, <3>2
  <2> QED BY <1>1, <2>1, <2>2, OnlyFillHandsOver DEF IInv
<1>2. IInv /\ [Next]_vars => [Handed]_vars
  BY <1>1
<1> HIDE DEF Handed
<1>3. Spec => [][Handed]_vars
  BY <1>2, Invariance, PTL DEF Spec
<1> QED BY <1>3, PTL DEF Handed, StatsAdjacent
===============================================================================
