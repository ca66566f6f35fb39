---------------------------- MODULE UvcStreamProofs ----------------------------
(***************************************************************************)
(* Proofs about UvcStream, for any number of application tasks, of buffers    *)
(* and of addresses, whether the tasks may run inside a callback or not.      *)
(*                                                                          *)
(* FramesAccounted and ReturnsToOpenStream are not inductive.  Calls says      *)
(* which calls may overlap, Session what a call's step says of the library's  *)
(* stream, Owners that a buffer has one owner and that every queued element   *)
(* has a task about to take it, so that the queue is empty when STREAMON      *)
(* lends all buffers; Stored that only the frame of the running callback is   *)
(* not in its element yet.                                                   *)
(***************************************************************************)
EXTENDS UvcStream, FiniteSetTheorems, SequenceTheorems, TLAPS

-------------------------------------------------------------------------------
(* What the critical sections of VideoStream do to the lists, as in CaptureStreamProofs *)

(* Adding at the end. *)
LEMMA AppendRange ==
    ASSUME NEW S, NEW s \in Seq(S), NEW e \in S
    PROVE  /\ Append(s, e) \in Seq(S)
           /\ Range(Append(s, e)) = Range(s) \cup {e}
           /\ IsInjective(s) /\ e \notin Range(s) => IsInjective(Append(s, e))
<1>1. Range(Append(s, e)) = Range(s) \cup {e}
  BY RangeConcatenation, AppendIsConcat, <<e>> \in Seq(S), Range(<<e>>) = {e} DEF Range
<1> QED BY <1>1, AppendProperties, LenProperties DEF Range, IsInjective

(* Taking from the front. *)
LEMMA TailRange ==
    ASSUME NEW S, NEW s \in Seq(S), s # <<>>, IsInjective(s)
    PROVE  /\ Head(s) \in S
           /\ Head(s) \in Range(s)
           /\ Tail(s) \in Seq(S)
           /\ Range(Tail(s)) = Range(s) \ {Head(s)}
           /\ IsInjective(Tail(s))
<1> DEFINE t == Tail(s)
<1>1. /\ Head(s) \in S
      /\ t \in Seq(S)
      /\ Len(t) = Len(s) - 1
      /\ \A i \in 1 .. Len(t) : t[i] = s[i + 1]
      /\ Len(s) \in Nat
      /\ Len(s) > 0
  BY HeadTailProperties, LenProperties, EmptySeq
<1>2. /\ DOMAIN t = 1 .. Len(s) - 1
      /\ DOMAIN s = 1 .. Len(s)
      /\ Head(s) = s[1]
  BY <1>1, LenProperties
<1> HIDE DEF t
<1>3. Head(s) \in Range(s)
  BY <1>1, <1>2 DEF Range
<1>4. Range(t) = Range(s) \ {Head(s)}
  <2>1. ASSUME NEW x \in Range(t)
        PROVE  x \in Range(s) \ {Head(s)}
    <3>1. PICK i \in 1 .. Len(s) - 1 : x = s[i + 1]
      BY <1>1, <1>2 DEF Range
    <3>2. i + 1 \in DOMAIN s /\ 1 \in DOMAIN s /\ i + 1 # 1
      BY <1>1, <1>2
    <3> QED BY <1>2, <3>1, <3>2 DEF Range, IsInjective
  <2>2. ASSUME NEW x \in Range(s) \ {Head(s)}
        PROVE  x \in Range(t)
    <3>1. PICK i \in 1 .. Len(s) : x = s[i]
      BY <1>2 DEF Range
    <3>2. i # 1 /\ i - 1 \in 1 .. Len(s) - 1 /\ (i - 1) + 1 = i
      BY <1>1, <1>2, <3>1
    <3>3. t[i - 1] = s[i]
      BY <1>1, <3>2
    <3> QED BY <1>2, <3>1, <3>2, <3>3 DEF Range
  <2> QED BY <2>1, <2>2
<1>5. IsInjective(t)
  BY <1>1, <1>2 DEF IsInjective
<1> QED BY <1>1, <1>3, <1>4, <1>5 DEF t

LEMMA EmptyRange == Range(<<>>) = {} /\ IsInjective(<<>>)
BY DEF Range, IsInjective

LEMMA StreamInitTypes == StreamInit => StreamTypeOK
<1> SUFFICES ASSUME StreamInit PROVE StreamTypeOK
  OBVIOUS
<1>1. ListTypeOK
  BY EmptySeq DEF StreamInit, ListTypeOK
<1>2. 0 \in 0 .. MaxCount
  BY MaxCountAssumption
<1> QED BY <1>1, <1>2 DEF StreamInit, StreamTypeOK

LEMMA QueueElementTypes ==
    ASSUME ListTypeOK, NEW e \in Elements, QueueElement(e)
    PROVE  ListTypeOK'
<1>1. Append(queued_list, e) \in Seq(Elements)
  BY AppendRange DEF ListTypeOK
<1> QED BY <1>1 DEF ListTypeOK, QueueElement, listVars

LEMMA DoneElementTypes ==
    ASSUME ListTypeOK, buffer \subseteq Elements, NEW e, DoneElement(e)
    PROVE  ListTypeOK'
<1>1. CASE Accepted(e)
  <2>1. Append(done_list, e) \in Seq(Elements)
    BY <1>1, AppendRange DEF ListTypeOK, Accepted
  <2> QED BY <1>1, <2>1 DEF ListTypeOK, DoneElement
<1>2. CASE ~Accepted(e)
  BY <1>2 DEF ListTypeOK, DoneElement, listVars
<1> QED BY <1>1, <1>2

LEMMA GetQueuedElementTypes ==
    ASSUME ListTypeOK, GetQueuedElement
    PROVE  ListTypeOK'
<1>1. queued_list # <<>> => Tail(queued_list) \in Seq(Elements)
  BY HeadTailProperties DEF ListTypeOK
<1> QED BY <1>1 DEF ListTypeOK, GetQueuedElement, listVars

LEMMA GetDoneElementTypes ==
    ASSUME ListTypeOK, GetDoneElement
    PROVE  ListTypeOK'
<1>1. done_list # <<>> => Tail(done_list) \in Seq(Elements)
  BY HeadTailProperties DEF ListTypeOK
<1> QED BY <1>1 DEF ListTypeOK, GetDoneElement, listVars

(* Inserting an element that is in the storage leaves it in exactly one list. *)
LEMMA QueueElementSound ==
    ASSUME StreamTypeOK, ListsSound, FlagsSound, buffer' = buffer,
           NEW e \in buffer, QueueElement(e)
    PROVE  ListsSound' /\ FlagsSound' /\ Listed' = Listed \cup {e}
<1>1. CASE free[e]
  <2>1. /\ queued_list' = Append(queued_list, e)
        /\ done_list' = done_list
        /\ free' = [free EXCEPT ![e] = FALSE]
    BY <1>1 DEF QueueElement
  <2>2. e \in Elements /\ e \notin Listed /\ queued_list \in Seq(Elements)
    BY <1>1 DEF StreamTypeOK, ListTypeOK, FlagsSound
  <2>3. /\ Range(queued_list') = Range(queued_list) \cup {e}
        /\ IsInjective(queued_list')
    BY <2>1, <2>2, AppendRange DEF ListsSound, Listed
  <2>4. Listed' = Listed \cup {e}
    BY <2>1, <2>3 DEF Listed
  <2>5. ListsSound'
    BY <2>1, <2>2, <2>3, <2>4 DEF ListsSound, Listed
  <2>6. FlagsSound'
    BY <2>1, <2>4 DEF FlagsSound, StreamTypeOK, ListTypeOK
  <2> QED BY <2>4, <2>5, <2>6
<1>2. CASE ~free[e]
  BY <1>2 DEF QueueElement, listVars, ListsSound, FlagsSound, Listed
<1> QED BY <1>1, <1>2

LEMMA DoneElementSound ==
    ASSUME StreamTypeOK, ListsSound, FlagsSound, buffer' = buffer,
           NEW e, DoneElement(e)
    PROVE  ListsSound' /\ FlagsSound' /\ Listed' = Listed \cup ({e} \cap buffer)
<1>1. CASE Accepted(e)
  <2>1. /\ done_list' = Append(done_list, e)
        /\ queued_list' = queued_list
        /\ free' = [free EXCEPT ![e] = FALSE]
    BY <1>1 DEF DoneElement
  <2>2. e \in buffer /\ e \in Elements /\ e \notin Listed /\ done_list \in Seq(Elements)
    BY <1>1 DEF StreamTypeOK, ListTypeOK, FlagsSound, Accepted
  <2>3. /\ Range(done_list') = Range(done_list) \cup {e}
        /\ IsInjective(done_list')
    BY <2>1, <2>2, AppendRange DEF ListsSound, Listed
  <2>4. Listed' = Listed \cup {e}
    BY <2>1, <2>3 DEF Listed
  <2>5. ListsSound'
    BY <2>1, <2>2, <2>3, <2>4 DEF ListsSound, Listed
  <2>6. FlagsSound'
    BY <2>1, <2>2, <2>4 DEF FlagsSound, StreamTypeOK, ListTypeOK
  <2> QED BY <2>2, <2>4, <2>5, <2>6
<1>2. CASE ~Accepted(e)
  BY <1>2 DEF DoneElement, Accepted, listVars, ListsSound, FlagsSound, Listed
<1> QED BY <1>1, <1>2

(* Taking the head of a list leaves it in no list. *)
LEMMA GetQueuedElementSound ==
    ASSUME StreamTypeOK, ListsSound, FlagsSound, buffer' = buffer, GetQueuedElement
    PROVE  /\ ListsSound' /\ FlagsSound'
           /\ queued_list = <<>> => Listed' = Listed
           /\ queued_list # <<>> => /\ Head(queued_list) \in Listed
                                    /\ Listed' = Listed \ {Head(queued_list)}
<1>1. CASE queued_list # <<>>
  <2> DEFINE h == Head(queued_list)
  <2>1. /\ queued_list' = Tail(queued_list)
        /\ done_list' = done_list
        /\ free' = [free EXCEPT ![h] = TRUE]
    BY <1>1 DEF GetQueuedElement
  <2>2. /\ h \in Elements
        /\ h \in Range(queued_list)
        /\ Range(queued_list') = Range(queued_list) \ {h}
        /\ IsInjective(queued_list')
    BY <1>1, <2>1, TailRange DEF StreamTypeOK, ListTypeOK, ListsSound
  <2> HIDE DEF h
  <2>3. h \in Listed /\ Listed' = Listed \ {h}
    BY <2>1, <2>2 DEF Listed, ListsSound
  <2>4. ListsSound'
    BY <2>1, <2>2, <2>3 DEF ListsSound, Listed
  <2>5. FlagsSound'
    BY <2>1, <2>2, <2>3 DEF FlagsSound, StreamTypeOK, ListTypeOK
  <2> QED BY <1>1, <2>3, <2>4, <2>5 DEF h
<1>2. CASE queued_list = <<>>
  BY <1>2 DEF GetQueuedElement, listVars, ListsSound, FlagsSound, Listed
<1> QED BY <1>1, <1>2

LEMMA GetDoneElementSound ==
    ASSUME StreamTypeOK, ListsSound, FlagsSound, buffer' = buffer, GetDoneElement
    PROVE  /\ ListsSound' /\ FlagsSound'
           /\ done_list = <<>> => Listed' = Listed
           /\ done_list # <<>> => /\ Head(done_list) \in Listed
                                  /\ Listed' = Listed \ {Head(done_list)}
<1>1. CASE done_list # <<>>
  <2> DEFINE h == Head(done_list)
  <2>1. /\ done_list' = Tail(done_list)
        /\ queued_list' = queued_list
        /\ free' = [free EXCEPT ![h] = TRUE]
    BY <1>1 DEF GetDoneElement
  <2>2. /\ h \in Elements
        /\ h \in Range(done_list)
        /\ Range(done_list') = Range(done_list) \ {h}
        /\ IsInjective(done_list')
    BY <1>1, <2>1, TailRange DEF StreamTypeOK, ListTypeOK, ListsSound
  <2> HIDE DEF h
  <2>3. h \in Listed /\ Listed' = Listed \ {h}
    BY <2>1, <2>2 DEF Listed, ListsSound
  <2>4. ListsSound'
    BY <2>1, <2>2, <2>3 DEF ListsSound, Listed
  <2>5. FlagsSound'
    BY <2>1, <2>2, <2>3 DEF FlagsSound, StreamTypeOK, ListTypeOK
  <2> QED BY <1>1, <2>3, <2>4, <2>5 DEF h
<1>2. CASE done_list = <<>>
  BY <1>2 DEF GetDoneElement, listVars, ListsSound, FlagsSound, Listed
<1> QED BY <1>1, <1>2

(* Empty lists are sound, and a stream without listed elements has all flags set
   once they are reset. *)
LEMMA EmptyListsSound ==
    ASSUME queued_list = <<>>, done_list = <<>>
    PROVE  /\ Listed = {}
           /\ ListsSound
           /\ buffer \subseteq Elements /\ free = [e \in Elements |-> TRUE] => FlagsSound
BY EmptyRange DEF Listed, ListsSound, FlagsSound

HoldPcs   == {"qb_read", "qb_return", "off_return"}
ClosedPcs == {"off_drain", "off_lists", "off_done"}
StopPcs   == {"off_frames", "off_return", "off_close"}

Calls ==
    /\ \A t, u \in AppTasks : pc[t] \in OnPcs /\ u # t => pc[u] = "idle"
    /\ \A t, u \in AppTasks : pc[t] \in OffPcs /\ u # t => pc[u] \in {"idle", "wait", "took"}
    /\ \A t \in AppTasks : held[t] # NULL <=> pc[t] \in HoldPcs
    /\ cb = "idle" <=> cb_frame = NULL

Session ==
    /\ host = "closed" => empty = {} /\ priv_data = {} /\ done_list = <<>>
    /\ cb # "idle" => host = "running"
    /\ ~started => host = "closed" \/ \E t \in AppTasks : pc[t] = "on_done"
    /\ started => host # "closed" \/ \E t \in AppTasks : pc[t] \in ClosedPcs
    /\ \A t \in AppTasks :
           /\ pc[t] = "on_start" => ~started /\ app = {}
           /\ pc[t] = "on_done" => host = "running"
           /\ pc[t] \in OffPcs => started
           /\ pc[t] \in StopPcs => host = "stopped"
           /\ pc[t] \in ClosedPcs => host = "closed"
           /\ pc[t] = "off_close" => done_list = <<>>
           /\ pc[t] = "qb_return" => host # "closed"

\* The tasks that have queued an element and will take one.
Notifying == {t \in AppTasks : pc[t] = "qb_notify"}

Owners ==
    /\ ListsSound /\ FlagsSound
    /\ empty \subseteq buffer /\ app \subseteq buffer
    /\ empty \cap (app \cup Listed) = {}
    /\ app \cap Listed = {}
    /\ \A t \in AppTasks :
           held[t] # NULL => held[t] \in buffer /\ held[t] \notin empty \cup app \cup Listed
    /\ \A t, u \in AppTasks : held[t] # NULL /\ held[t] = held[u] => t = u
    /\ Len(queued_list) = Cardinality(Notifying)

Stored ==
    ~preempts /\ host # "closed" =>
        /\ buffer \subseteq empty \cup app \cup Listed \cup Held
        /\ buffer \subseteq empty \cup priv_data \cup (IF cb = "idle" THEN {} ELSE {cb_frame})

IInv == TypeOK /\ Calls /\ Session /\ Owners /\ Stored

-------------------------------------------------------------------------------
(* Types and calls *)

(* The first element of a list, if there is one. *)
LEMMA FirstElement ==
    ASSUME ListTypeOK
    PROVE  /\ FirstQueued \in Elements \cup {NULL} /\ FirstDone \in Elements \cup {NULL}
           /\ queued_list = <<>> <=> FirstQueued = NULL
           /\ done_list = <<>> <=> FirstDone = NULL
           /\ queued_list # <<>> => FirstQueued = Head(queued_list)
           /\ done_list # <<>> => FirstDone = Head(done_list)
<1>1. NULL \notin Elements
  BY MaxCountAssumption DEF NULL, Elements
<1>2. queued_list # <<>> => Head(queued_list) \in Elements
  BY HeadTailProperties DEF ListTypeOK
<1>3. done_list # <<>> => Head(done_list) \in Elements
  BY HeadTailProperties DEF ListTypeOK
<1> QED BY <1>1, <1>2, <1>3 DEF FirstQueued, FirstDone

(* Every step keeps the types. *)
LEMMA TypesStep ==
    ASSUME TypeOK, Calls, [Next]_vars
    PROVE  TypeOK'
<1>1. ASSUME NEW t \in AppTasks, NEW n \in 0 .. MaxCount, Reqbufs(t, n)
      PROVE  TypeOK'
  <2>1. /\ buffer' \in SUBSET Elements /\ count' \in 0 .. MaxCount
        /\ started' = started /\ ready_sem' \in Nat \cup {NULL}
        /\ queued_list' = <<>> /\ done_list' = <<>>
        /\ free' = [e \in Elements |-> TRUE]
    <3>1. CASE n = 0
      BY <1>1, <3>1, MaxCountAssumption DEF Reqbufs, ReleaseBuffer
    <3>2. CASE n # 0
      <4>1. 0 .. n - 1 \subseteq Elements
        BY MaxCountAssumption DEF Elements
      <4> QED BY <1>1, <3>2, <4>1, MaxCountAssumption DEF Reqbufs, SetupBuffer
    <3> QED BY <3>1, <3>2
  <2>2. ListTypeOK'
    BY <2>1, EmptySeq DEF ListTypeOK
  <2> QED
    BY <1>1, <2>1, <2>2
       DEF TypeOK, StreamTypeOK, Reqbufs, deviceVars, hostVars, cbVars, taskVars
<1>2. ASSUME NEW t \in AppTasks, NEW e \in Elements, Qbuf(t, e)
      PROVE  TypeOK'
  BY <1>2, QueueElementTypes, FirstElement
     DEF TypeOK, StreamTypeOK, Qbuf, Goto, QbufPcs, DqbufPcs, OnPcs, OffPcs, deviceVars,
         hostVars, cbVars, memoryVars
<1>3. ASSUME NEW t \in AppTasks, QbufNotify(t)
      PROVE  TypeOK'
  BY <1>3, GetQueuedElementTypes, FirstElement
     DEF TypeOK, StreamTypeOK, QbufNotify, Goto, Hold, QbufPcs, DqbufPcs, OnPcs, OffPcs,
         deviceVars, hostVars, cbVars, memoryVars
<1>4. ASSUME NEW t \in AppTasks, QbufRead(t)
      PROVE  TypeOK'
  BY <1>4
     DEF TypeOK, StreamTypeOK, ListTypeOK, QbufRead, At, Goto, Hold, QbufPcs, DqbufPcs,
         OnPcs, OffPcs, deviceVars, hostVars, cbVars, streamVars
<1>5. ASSUME NEW t \in AppTasks, QbufReturn(t)
      PROVE  TypeOK'
  <2>1. pc[t] = "qb_return"
    BY <1>5 DEF QbufReturn, At
  <2>2. held[t] # NULL
    BY <2>1 DEF Calls, HoldPcs
  <2>3. held[t] \in Elements
    BY <2>2 DEF TypeOK
  <2> QED
    BY <1>5, <2>3
       DEF TypeOK, StreamTypeOK, ListTypeOK, QbufReturn, Goto, Hold, deviceVars, cbVars,
           streamVars
<1>6. ASSUME NEW t \in AppTasks, Dqbuf(t)
      PROVE  TypeOK'
  BY <1>6
     DEF TypeOK, StreamTypeOK, ListTypeOK, Dqbuf, Goto, QbufPcs, DqbufPcs, OnPcs, OffPcs,
         deviceVars, hostVars, cbVars, streamVars
<1>7. ASSUME NEW t \in AppTasks, DqbufTake(t)
      PROVE  TypeOK'
  <2>1. ready_sem' \in Nat \cup {NULL}
    BY <1>7 DEF TypeOK, StreamTypeOK, DqbufTake, TakeReady, NULL
  <2> QED
    BY <1>7, <2>1
       DEF TypeOK, StreamTypeOK, ListTypeOK, DqbufTake, Goto, QbufPcs, DqbufPcs, OnPcs,
           OffPcs, deviceVars, hostVars, cbVars, memoryVars, listVars
<1>8. ASSUME NEW t \in AppTasks, DqbufPop(t)
      PROVE  TypeOK'
  BY <1>8, GetDoneElementTypes, FirstElement
     DEF TypeOK, StreamTypeOK, DqbufPop, Goto, QbufPcs, DqbufPcs, OnPcs, OffPcs, deviceVars,
         hostVars, cbVars, memoryVars
<1>9. ASSUME NEW t \in AppTasks, StreamOn(t)
      PROVE  TypeOK'
  BY <1>9
     DEF TypeOK, StreamTypeOK, ListTypeOK, StreamOn, Goto, QbufPcs, DqbufPcs, OnPcs, OffPcs,
         deviceVars, hostVars, cbVars, streamVars
<1>10. ASSUME NEW t \in AppTasks, StreamOnHost(t)
      PROVE  TypeOK'
  BY <1>10
     DEF TypeOK, StreamTypeOK, ListTypeOK, StreamOnHost, At, Goto, QbufPcs, DqbufPcs, OnPcs,
         OffPcs, deviceVars, cbVars, streamVars
<1>11. ASSUME NEW t \in AppTasks, StreamOnHostFails(t)
      PROVE  TypeOK'
  BY <1>11
     DEF TypeOK, StreamTypeOK, ListTypeOK, StreamOnHostFails, At, Goto, QbufPcs, DqbufPcs,
         OnPcs, OffPcs, deviceVars, hostVars, cbVars, streamVars
<1>12. ASSUME NEW t \in AppTasks, StreamOnDone(t)
      PROVE  TypeOK'
  BY <1>12
     DEF TypeOK, StreamTypeOK, ListTypeOK, StreamOnDone, At, Goto, QbufPcs, DqbufPcs, OnPcs,
         OffPcs, deviceVars, hostVars, cbVars, memoryVars, listVars
<1>13. ASSUME NEW t \in AppTasks, StreamOff(t)
      PROVE  TypeOK'
  BY <1>13
     DEF TypeOK, StreamTypeOK, ListTypeOK, StreamOff, Goto, QbufPcs, DqbufPcs, OnPcs,
         OffPcs, deviceVars, hostVars, cbVars, streamVars
<1>14. ASSUME NEW t \in AppTasks, StreamOffUnplugged(t)
      PROVE  TypeOK'
  BY <1>14
     DEF TypeOK, StreamTypeOK, ListTypeOK, StreamOffUnplugged, At, Goto, QbufPcs, DqbufPcs,
         OnPcs, OffPcs, deviceVars, hostVars, cbVars, streamVars
<1>15. ASSUME NEW t \in AppTasks, StreamOffHost(t)
      PROVE  TypeOK'
  BY <1>15
     DEF TypeOK, StreamTypeOK, ListTypeOK, StreamOffHost, At, Goto, QbufPcs, DqbufPcs,
         OnPcs, OffPcs, deviceVars, cbVars, streamVars
<1>16. ASSUME NEW t \in AppTasks, StreamOffTake(t)
      PROVE  TypeOK'
  BY <1>16, GetDoneElementTypes, FirstElement
     DEF TypeOK, StreamTypeOK, StreamOffTake, Goto, Hold, QbufPcs, DqbufPcs, OnPcs, OffPcs,
         deviceVars, hostVars, cbVars, memoryVars
<1>17. ASSUME NEW t \in AppTasks, StreamOffReturn(t)
      PROVE  TypeOK'
  BY <1>17, MaxCountAssumption
     DEF TypeOK, StreamTypeOK, ListTypeOK, StreamOffReturn, Goto, Hold, QbufPcs, DqbufPcs,
         OnPcs, OffPcs, deviceVars, cbVars, streamVars
<1>18. ASSUME NEW t \in AppTasks, StreamOffClose(t)
      PROVE  TypeOK'
  BY <1>18
     DEF TypeOK, StreamTypeOK, ListTypeOK, StreamOffClose, At, Goto, QbufPcs, DqbufPcs,
         OnPcs, OffPcs, cbVars, streamVars
<1>19. ASSUME NEW t \in AppTasks, StreamOffCloseFails(t)
      PROVE  TypeOK'
  BY <1>19
     DEF TypeOK, StreamTypeOK, ListTypeOK, StreamOffCloseFails, At, Goto, QbufPcs, DqbufPcs,
         OnPcs, OffPcs, deviceVars, hostVars, cbVars, streamVars
<1>20. ASSUME NEW t \in AppTasks, StreamOffDrain(t)
      PROVE  TypeOK'
  BY <1>20
     DEF TypeOK, StreamTypeOK, ListTypeOK, StreamOffDrain, DrainReady, Goto, QbufPcs,
         DqbufPcs, OnPcs, OffPcs, deviceVars, hostVars, cbVars, memoryVars, listVars
<1>21. ASSUME NEW t \in AppTasks, StreamOffLists(t)
      PROVE  TypeOK'
  BY <1>21, EmptySeq
     DEF TypeOK, StreamTypeOK, ListTypeOK, StreamOffLists, ResetLists, Goto, QbufPcs,
         DqbufPcs, OnPcs, OffPcs, deviceVars, hostVars, cbVars, memoryVars
<1>22. ASSUME NEW t \in AppTasks, StreamOffDone(t)
      PROVE  TypeOK'
  BY <1>22
     DEF TypeOK, StreamTypeOK, ListTypeOK, StreamOffDone, BufferReset, Goto, QbufPcs,
         DqbufPcs, OnPcs, OffPcs, deviceVars, hostVars, cbVars, memoryVars
<1>23. ASSUME NEW e \in Elements, FrameDone(e)
      PROVE  TypeOK'
  BY <1>23, DoneElementTypes
     DEF TypeOK, StreamTypeOK, FrameDone, deviceVars, taskVars, memoryVars
<1>24. CASE FrameGive
  <2>1. ready_sem' \in Nat \cup {NULL}
    BY <1>24 DEF TypeOK, StreamTypeOK, FrameGive, GiveReady, NULL
  <2> QED
    BY <1>24, <2>1
       DEF TypeOK, StreamTypeOK, ListTypeOK, FrameGive, deviceVars, hostVars, taskVars,
           memoryVars, listVars
<1>25. CASE FrameStore
  <2>1. cb_frame \in Elements
    BY <1>25 DEF TypeOK, Calls, FrameStore
  <2> QED
    BY <1>25, <2>1
       DEF TypeOK, StreamTypeOK, ListTypeOK, FrameStore, deviceVars, hostVars, taskVars,
           streamVars
<1>26. CASE Disconnected
  <2>1. 0 \in 0 .. MaxAddr
    BY UvcAssumption
  <2> QED
    BY <1>26, <2>1
       DEF TypeOK, StreamTypeOK, ListTypeOK, Disconnected, hostVars, cbVars, taskVars,
           streamVars
<1>27. ASSUME NEW a \in 1 .. MaxAddr, Connected(a)
      PROVE  TypeOK'
  BY <1>27, UvcAssumption
     DEF TypeOK, StreamTypeOK, ListTypeOK, Connected, hostVars, cbVars, taskVars, streamVars
<1>28. CASE Unplug
  BY <1>28, UvcAssumption
     DEF TypeOK, StreamTypeOK, ListTypeOK, Unplug, hostVars, cbVars, taskVars, streamVars
<1>29. CASE UNCHANGED vars
  BY <1>29
     DEF TypeOK, StreamTypeOK, ListTypeOK, vars, deviceVars, hostVars, cbVars, taskVars,
         streamVars
<1>30. ASSUME NEW t \in AppTasks, StreamOffHostFails(t)
      PROVE  TypeOK'
  BY <1>30
     DEF TypeOK, StreamTypeOK, ListTypeOK, StreamOffHostFails, At, Goto, QbufPcs, DqbufPcs,
         OnPcs, OffPcs, deviceVars, hostVars, cbVars, streamVars
<1> QED
  BY <1>1, <1>2, <1>3, <1>4, <1>5, <1>6, <1>7, <1>8, <1>9, <1>10, <1>11, <1>12, <1>13,
     <1>14, <1>15, <1>16, <1>17, <1>18, <1>19, <1>20, <1>21, <1>22, <1>23, <1>24, <1>25,
     <1>26, <1>27, <1>28, <1>29, <1>30
     DEF Next, Transfer, Control, HostTask

(* Which calls overlap. *)
LEMMA CallsStep ==
    ASSUME TypeOK, Calls, ListTypeOK, [Next]_vars
    PROVE  Calls'
<1>1. ASSUME NEW t \in AppTasks, NEW n \in 0 .. MaxCount, Reqbufs(t, n)
      PROVE  Calls'
  BY <1>1
     DEF TypeOK, Calls, Reqbufs, QbufPcs, DqbufPcs, OnPcs, OffPcs, HoldPcs, Alone, taskVars,
         cbVars
<1>2. ASSUME NEW t \in AppTasks, NEW e \in Elements, Qbuf(t, e)
      PROVE  Calls'
  BY <1>2
     DEF TypeOK, Calls, Qbuf, Goto, QbufPcs, DqbufPcs, OnPcs, OffPcs, HoldPcs, MayTransfer,
         cbVars
<1>3. ASSUME NEW t \in AppTasks, QbufNotify(t)
      PROVE  Calls'
  BY <1>3
     DEF TypeOK, Calls, QbufNotify, At, Goto, Hold, QbufPcs, DqbufPcs, OnPcs, OffPcs,
         HoldPcs, cbVars
<1>4. ASSUME NEW t \in AppTasks, QbufRead(t)
      PROVE  Calls'
  BY <1>4
     DEF TypeOK, Calls, QbufRead, At, Goto, Hold, QbufPcs, DqbufPcs, OnPcs, OffPcs, HoldPcs,
         cbVars
<1>5. ASSUME NEW t \in AppTasks, QbufReturn(t)
      PROVE  Calls'
  BY <1>5
     DEF TypeOK, Calls, QbufReturn, At, Goto, Hold, QbufPcs, DqbufPcs, OnPcs, OffPcs,
         HoldPcs, cbVars
<1>6. ASSUME NEW t \in AppTasks, Dqbuf(t)
      PROVE  Calls'
  BY <1>6
     DEF TypeOK, Calls, Dqbuf, Goto, QbufPcs, DqbufPcs, OnPcs, OffPcs, HoldPcs, MayTransfer,
         cbVars
<1>7. ASSUME NEW t \in AppTasks, DqbufTake(t)
      PROVE  Calls'
  BY <1>7
     DEF TypeOK, Calls, DqbufTake, At, Goto, QbufPcs, DqbufPcs, OnPcs, OffPcs, HoldPcs,
         cbVars
<1>8. ASSUME NEW t \in AppTasks, DqbufPop(t)
      PROVE  Calls'
  BY <1>8
     DEF TypeOK, Calls, DqbufPop, At, Goto, QbufPcs, DqbufPcs, OnPcs, OffPcs, HoldPcs,
         cbVars
<1>9. ASSUME NEW t \in AppTasks, StreamOn(t)
      PROVE  Calls'
  BY <1>9
     DEF TypeOK, Calls, StreamOn, Goto, QbufPcs, DqbufPcs, OnPcs, OffPcs, HoldPcs, Alone,
         cbVars
<1>10. ASSUME NEW t \in AppTasks, StreamOnHost(t)
      PROVE  Calls'
  BY <1>10
     DEF TypeOK, Calls, StreamOnHost, At, Goto, QbufPcs, DqbufPcs, OnPcs, OffPcs, HoldPcs,
         cbVars
<1>11. ASSUME NEW t \in AppTasks, StreamOnHostFails(t)
      PROVE  Calls'
  BY <1>11
     DEF TypeOK, Calls, StreamOnHostFails, At, Goto, QbufPcs, DqbufPcs, OnPcs, OffPcs,
         HoldPcs, cbVars
<1>12. ASSUME NEW t \in AppTasks, StreamOnDone(t)
      PROVE  Calls'
  BY <1>12
     DEF TypeOK, Calls, StreamOnDone, At, Goto, QbufPcs, DqbufPcs, OnPcs, OffPcs, HoldPcs,
         cbVars
<1>13. ASSUME NEW t \in AppTasks, StreamOff(t)
      PROVE  Calls'
  BY <1>13
     DEF TypeOK, Calls, StreamOff, Goto, QbufPcs, DqbufPcs, OnPcs, OffPcs, HoldPcs, MayStop,
         cbVars
<1>14. ASSUME NEW t \in AppTasks, StreamOffUnplugged(t)
      PROVE  Calls'
  BY <1>14
     DEF TypeOK, Calls, StreamOffUnplugged, At, Goto, QbufPcs, DqbufPcs, OnPcs, OffPcs,
         HoldPcs, cbVars
<1>15. ASSUME NEW t \in AppTasks, StreamOffHost(t)
      PROVE  Calls'
  BY <1>15
     DEF TypeOK, Calls, StreamOffHost, At, Goto, QbufPcs, DqbufPcs, OnPcs, OffPcs, HoldPcs,
         cbVars
<1>16. ASSUME NEW t \in AppTasks, StreamOffTake(t)
      PROVE  Calls'
  BY <1>16
     DEF TypeOK, Calls, StreamOffTake, At, Goto, Hold, QbufPcs, DqbufPcs, OnPcs, OffPcs,
         HoldPcs, cbVars
<1>17. ASSUME NEW t \in AppTasks, StreamOffReturn(t)
      PROVE  Calls'
  BY <1>17
     DEF TypeOK, Calls, StreamOffReturn, At, Goto, Hold, QbufPcs, DqbufPcs, OnPcs, OffPcs,
         HoldPcs, cbVars
<1>18. ASSUME NEW t \in AppTasks, StreamOffClose(t)
      PROVE  Calls'
  BY <1>18
     DEF TypeOK, Calls, StreamOffClose, At, Goto, QbufPcs, DqbufPcs, OnPcs, OffPcs, HoldPcs,
         cbVars
<1>19. ASSUME NEW t \in AppTasks, StreamOffCloseFails(t)
      PROVE  Calls'
  BY <1>19
     DEF TypeOK, Calls, StreamOffCloseFails, At, Goto, QbufPcs, DqbufPcs, OnPcs, OffPcs,
         HoldPcs, cbVars
<1>20. ASSUME NEW t \in AppTasks, StreamOffDrain(t)
      PROVE  Calls'
  BY <1>20
     DEF TypeOK, Calls, StreamOffDrain, At, Goto, QbufPcs, DqbufPcs, OnPcs, OffPcs, HoldPcs,
         cbVars
<1>21. ASSUME NEW t \in AppTasks, StreamOffLists(t)
      PROVE  Calls'
  BY <1>21
     DEF TypeOK, Calls, StreamOffLists, At, Goto, QbufPcs, DqbufPcs, OnPcs, OffPcs, HoldPcs,
         cbVars
<1>22. ASSUME NEW t \in AppTasks, StreamOffDone(t)
      PROVE  Calls'
  BY <1>22
     DEF TypeOK, Calls, StreamOffDone, At, Goto, QbufPcs, DqbufPcs, OnPcs, OffPcs, HoldPcs,
         cbVars
<1>23. ASSUME NEW e \in Elements, FrameDone(e)
      PROVE  Calls'
  <2>1. e # NULL
    BY MaxCountAssumption DEF Elements, NULL
  <2> QED BY <1>23, <2>1 DEF Calls, FrameDone, taskVars
<1>24. CASE FrameGive
  BY <1>24 DEF TypeOK, Calls, FrameGive, QbufPcs, DqbufPcs, OnPcs, OffPcs, HoldPcs, taskVars
<1>25. CASE FrameStore
  BY <1>25
     DEF TypeOK, Calls, FrameStore, QbufPcs, DqbufPcs, OnPcs, OffPcs, HoldPcs, taskVars
<1>26. CASE Disconnected
  BY <1>26
     DEF TypeOK, Calls, Disconnected, QbufPcs, DqbufPcs, OnPcs, OffPcs, HoldPcs, taskVars,
         cbVars
<1>27. ASSUME NEW a \in 1 .. MaxAddr, Connected(a)
      PROVE  Calls'
  BY <1>27
     DEF TypeOK, Calls, Connected, QbufPcs, DqbufPcs, OnPcs, OffPcs, HoldPcs, taskVars,
         cbVars
<1>28. CASE Unplug
  BY <1>28
     DEF TypeOK, Calls, Unplug, QbufPcs, DqbufPcs, OnPcs, OffPcs, HoldPcs, taskVars, cbVars
<1>29. CASE UNCHANGED vars
  BY <1>29 DEF Calls, vars, taskVars, cbVars
<1>30. ASSUME NEW t \in AppTasks, StreamOffHostFails(t)
      PROVE  Calls'
  BY <1>30
     DEF TypeOK, Calls, StreamOffHostFails, At, Goto, QbufPcs, DqbufPcs, OnPcs, OffPcs,
         HoldPcs, cbVars
<1> QED
  BY <1>1, <1>2, <1>3, <1>4, <1>5, <1>6, <1>7, <1>8, <1>9, <1>10, <1>11, <1>12, <1>13,
     <1>14, <1>15, <1>16, <1>17, <1>18, <1>19, <1>20, <1>21, <1>22, <1>23, <1>24, <1>25,
     <1>26, <1>27, <1>28, <1>29, <1>30
     DEF Next, Transfer, Control, HostTask

-------------------------------------------------------------------------------
(* The library's stream *)

(* What the steps of a call say of the library's stream. *)
LEMMA SessionStep ==
    ASSUME TypeOK, Calls, Session, [Next]_vars
    PROVE  Session'
<1>1. ASSUME NEW t \in AppTasks, NEW n \in 0 .. MaxCount, Reqbufs(t, n)
      PROVE  Session'
  <2>1. done_list' = <<>> /\ started' = started /\ ~started
    BY <1>1 DEF Reqbufs, ReleaseBuffer, SetupBuffer
  <2> QED
    BY <1>1, <2>1
       DEF Session, Reqbufs, Alone, OffPcs, StopPcs, ClosedPcs, deviceVars, hostVars,
           cbVars, taskVars
<1>2. ASSUME NEW t \in AppTasks, NEW e \in Elements, Qbuf(t, e)
      PROVE  Session'
  BY <1>2
     DEF TypeOK, Calls, Session, Qbuf, QueueElement, Goto, QbufPcs, DqbufPcs, OnPcs, OffPcs,
         StopPcs, ClosedPcs, HoldPcs, MayTransfer, deviceVars, hostVars, cbVars, memoryVars,
         listVars
<1>3. ASSUME NEW t \in AppTasks, QbufNotify(t)
      PROVE  Session'
  BY <1>3
     DEF TypeOK, Calls, Session, QbufNotify, GetQueuedElement, At, Goto, QbufPcs, DqbufPcs,
         OnPcs, OffPcs, StopPcs, ClosedPcs, HoldPcs, deviceVars, hostVars, cbVars,
         memoryVars, listVars
<1>4. ASSUME NEW t \in AppTasks, QbufRead(t)
      PROVE  Session'
  BY <1>4
     DEF TypeOK, Calls, Session, QbufRead, At, Goto, QbufPcs, DqbufPcs, OnPcs, OffPcs,
         StopPcs, ClosedPcs, HoldPcs, deviceVars, hostVars, cbVars, streamVars
<1>5. ASSUME NEW t \in AppTasks, QbufReturn(t)
      PROVE  Session'
  BY <1>5
     DEF TypeOK, Calls, Session, QbufReturn, At, Goto, QbufPcs, DqbufPcs, OnPcs, OffPcs,
         StopPcs, ClosedPcs, HoldPcs, deviceVars, cbVars, streamVars
<1>6. ASSUME NEW t \in AppTasks, Dqbuf(t)
      PROVE  Session'
  BY <1>6
     DEF TypeOK, Calls, Session, Dqbuf, Goto, QbufPcs, DqbufPcs, OnPcs, OffPcs, StopPcs,
         ClosedPcs, HoldPcs, MayTransfer, deviceVars, hostVars, cbVars, streamVars
<1>7. ASSUME NEW t \in AppTasks, DqbufTake(t)
      PROVE  Session'
  BY <1>7
     DEF TypeOK, Calls, Session, DqbufTake, At, Goto, QbufPcs, DqbufPcs, OnPcs, OffPcs,
         StopPcs, ClosedPcs, HoldPcs, deviceVars, hostVars, cbVars, memoryVars, listVars
<1>8. ASSUME NEW t \in AppTasks, DqbufPop(t)
      PROVE  Session'
  BY <1>8
     DEF TypeOK, Calls, Session, DqbufPop, GetDoneElement, At, Goto, QbufPcs, DqbufPcs,
         OnPcs, OffPcs, StopPcs, ClosedPcs, HoldPcs, deviceVars, hostVars, cbVars,
         memoryVars, listVars
<1>9. ASSUME NEW t \in AppTasks, StreamOn(t)
      PROVE  Session'
  BY <1>9
     DEF TypeOK, Calls, Session, StreamOn, Goto, QbufPcs, DqbufPcs, OnPcs, OffPcs, StopPcs,
         ClosedPcs, HoldPcs, Alone, deviceVars, hostVars, cbVars, streamVars
<1>10. ASSUME NEW t \in AppTasks, StreamOnHost(t)
      PROVE  Session'
  BY <1>10
     DEF TypeOK, Calls, Session, StreamOnHost, At, Goto, QbufPcs, DqbufPcs, OnPcs, OffPcs,
         StopPcs, ClosedPcs, HoldPcs, deviceVars, cbVars, streamVars
<1>11. ASSUME NEW t \in AppTasks, StreamOnHostFails(t)
      PROVE  Session'
  BY <1>11
     DEF TypeOK, Calls, Session, StreamOnHostFails, At, Goto, QbufPcs, DqbufPcs, OnPcs,
         OffPcs, StopPcs, ClosedPcs, HoldPcs, deviceVars, hostVars, cbVars, streamVars
<1>12. ASSUME NEW t \in AppTasks, StreamOnDone(t)
      PROVE  Session'
  BY <1>12
     DEF TypeOK, Calls, Session, StreamOnDone, At, Goto, QbufPcs, DqbufPcs, OnPcs, OffPcs,
         StopPcs, ClosedPcs, HoldPcs, deviceVars, hostVars, cbVars, memoryVars, listVars
<1>13. ASSUME NEW t \in AppTasks, StreamOff(t)
      PROVE  Session'
  BY <1>13
     DEF TypeOK, Calls, Session, StreamOff, Goto, QbufPcs, DqbufPcs, OnPcs, OffPcs, StopPcs,
         ClosedPcs, HoldPcs, MayStop, deviceVars, hostVars, cbVars, streamVars
<1>14. ASSUME NEW t \in AppTasks, StreamOffUnplugged(t)
      PROVE  Session'
  BY <1>14
     DEF TypeOK, Calls, Session, StreamOffUnplugged, At, Goto, QbufPcs, DqbufPcs, OnPcs,
         OffPcs, StopPcs, ClosedPcs, HoldPcs, deviceVars, hostVars, cbVars, streamVars
<1>15. ASSUME NEW t \in AppTasks, StreamOffHost(t)
      PROVE  Session'
  BY <1>15
     DEF TypeOK, Calls, Session, StreamOffHost, At, Goto, QbufPcs, DqbufPcs, OnPcs, OffPcs,
         StopPcs, ClosedPcs, HoldPcs, deviceVars, cbVars, streamVars
<1>16. ASSUME NEW t \in AppTasks, StreamOffTake(t)
      PROVE  Session'
  <2>1. pc[t] = "off_frames" /\ host = "stopped"
    BY <1>16 DEF Session, StreamOffTake, At, StopPcs
  <2>2. FirstDone = NULL => done_list = <<>> /\ done_list' = <<>>
    BY <1>16, FirstElement DEF TypeOK, StreamTypeOK, StreamOffTake, GetDoneElement, listVars
  <2> QED
    BY <1>16, <2>1, <2>2
       DEF TypeOK, Calls, Session, StreamOffTake, Goto, QbufPcs, DqbufPcs, OnPcs, OffPcs,
           StopPcs, ClosedPcs, deviceVars, hostVars, cbVars, memoryVars
<1>17. ASSUME NEW t \in AppTasks, StreamOffReturn(t)
      PROVE  Session'
  BY <1>17
     DEF TypeOK, Calls, Session, StreamOffReturn, At, Goto, QbufPcs, DqbufPcs, OnPcs,
         OffPcs, StopPcs, ClosedPcs, HoldPcs, deviceVars, cbVars, streamVars
<1>18. ASSUME NEW t \in AppTasks, StreamOffClose(t)
      PROVE  Session'
  BY <1>18
     DEF TypeOK, Calls, Session, StreamOffClose, At, Goto, QbufPcs, DqbufPcs, OnPcs, OffPcs,
         StopPcs, ClosedPcs, HoldPcs, cbVars, streamVars
<1>19. ASSUME NEW t \in AppTasks, StreamOffCloseFails(t)
      PROVE  Session'
  BY <1>19
     DEF TypeOK, Calls, Session, StreamOffCloseFails, At, Goto, QbufPcs, DqbufPcs, OnPcs,
         OffPcs, StopPcs, ClosedPcs, HoldPcs, deviceVars, hostVars, cbVars, streamVars
<1>20. ASSUME NEW t \in AppTasks, StreamOffDrain(t)
      PROVE  Session'
  BY <1>20
     DEF TypeOK, Calls, Session, StreamOffDrain, At, Goto, QbufPcs, DqbufPcs, OnPcs, OffPcs,
         StopPcs, ClosedPcs, HoldPcs, deviceVars, hostVars, cbVars, memoryVars, listVars
<1>21. ASSUME NEW t \in AppTasks, StreamOffLists(t)
      PROVE  Session'
  BY <1>21
     DEF TypeOK, Calls, Session, StreamOffLists, ResetLists, At, Goto, QbufPcs, DqbufPcs,
         OnPcs, OffPcs, StopPcs, ClosedPcs, HoldPcs, deviceVars, hostVars, cbVars,
         memoryVars
<1>22. ASSUME NEW t \in AppTasks, StreamOffDone(t)
      PROVE  Session'
  BY <1>22
     DEF TypeOK, Calls, Session, StreamOffDone, BufferReset, At, Goto, QbufPcs, DqbufPcs,
         OnPcs, OffPcs, StopPcs, ClosedPcs, HoldPcs, deviceVars, hostVars, cbVars,
         memoryVars
<1>23. ASSUME NEW e \in Elements, FrameDone(e)
      PROVE  Session'
  BY <1>23
     DEF TypeOK, Calls, Session, FrameDone, QbufPcs, DqbufPcs, OnPcs, OffPcs, StopPcs,
         ClosedPcs, HoldPcs, deviceVars, taskVars, memoryVars
<1>24. CASE FrameGive
  BY <1>24
     DEF TypeOK, Calls, Session, FrameGive, QbufPcs, DqbufPcs, OnPcs, OffPcs, StopPcs,
         ClosedPcs, HoldPcs, deviceVars, hostVars, taskVars, memoryVars, listVars
<1>25. CASE FrameStore
  BY <1>25
     DEF TypeOK, Calls, Session, FrameStore, QbufPcs, DqbufPcs, OnPcs, OffPcs, StopPcs,
         ClosedPcs, HoldPcs, deviceVars, hostVars, taskVars, streamVars
<1>26. CASE Disconnected
  BY <1>26
     DEF TypeOK, Calls, Session, Disconnected, QbufPcs, DqbufPcs, OnPcs, OffPcs, StopPcs,
         ClosedPcs, HoldPcs, hostVars, cbVars, taskVars, streamVars
<1>27. ASSUME NEW a \in 1 .. MaxAddr, Connected(a)
      PROVE  Session'
  BY <1>27
     DEF TypeOK, Calls, Session, Connected, QbufPcs, DqbufPcs, OnPcs, OffPcs, StopPcs,
         ClosedPcs, HoldPcs, hostVars, cbVars, taskVars, streamVars
<1>28. CASE Unplug
  BY <1>28
     DEF TypeOK, Calls, Session, Unplug, QbufPcs, DqbufPcs, OnPcs, OffPcs, StopPcs,
         ClosedPcs, HoldPcs, hostVars, cbVars, taskVars, streamVars
<1>29. CASE UNCHANGED vars
  BY <1>29 DEF Session, vars, deviceVars, hostVars, cbVars, taskVars, streamVars
<1>30. ASSUME NEW t \in AppTasks, StreamOffHostFails(t)
      PROVE  Session'
  BY <1>30
     DEF TypeOK, Calls, Session, StreamOffHostFails, At, Goto, QbufPcs, DqbufPcs, OnPcs,
         OffPcs, StopPcs, ClosedPcs, HoldPcs, deviceVars, hostVars, cbVars, streamVars
<1> QED
  BY <1>1, <1>2, <1>3, <1>4, <1>5, <1>6, <1>7, <1>8, <1>9, <1>10, <1>11, <1>12, <1>13,
     <1>14, <1>15, <1>16, <1>17, <1>18, <1>19, <1>20, <1>21, <1>22, <1>23, <1>24, <1>25,
     <1>26, <1>27, <1>28, <1>29, <1>30
     DEF Next, Transfer, Control, HostTask

-------------------------------------------------------------------------------
(* Owners *)

(* A step that moves no buffer. *)
LEMMA OwnersKept ==
    ASSUME Owners, UNCHANGED <<buffer, queued_list, done_list, free, empty, app, held>>,
           Notifying' = Notifying
    PROVE  Owners'
BY DEF Owners, ListsSound, FlagsSound, Listed

(* The queue is as long as there are tasks about to take from it. *)
LEMMA QueueLength ==
    ASSUME TypeOK, Owners
    PROVE  /\ IsFiniteSet(Notifying)
           /\ Notifying = {} => queued_list = <<>>
           /\ Notifying # {} => queued_list # <<>>
<1>1. IsFiniteSet(Notifying)
  BY UvcAssumption, FS_Subset DEF Notifying
<1>2. Cardinality(Notifying) = 0 <=> Notifying = {}
  BY <1>1, FS_EmptySet
<1>3. Len(queued_list) = 0 <=> queued_list = <<>>
  BY EmptySeq DEF TypeOK, StreamTypeOK, ListTypeOK
<1> QED BY <1>1, <1>2, <1>3 DEF Owners

(* When every other task is idle, the lists of a closed stream are empty and no task *)
(* holds an element. *)
LEMMA Quiet ==
    ASSUME TypeOK, Calls, Session, Owners, host = "closed", NEW t \in AppTasks,
           pc[t] \notin HoldPcs \cup {"qb_notify"}, 
           \A u \in AppTasks : u # t => pc[u] \in {"idle", "wait", "took"}
    PROVE  /\ queued_list = <<>> /\ done_list = <<>> /\ Listed = {} /\ Notifying = {}
           /\ empty = {}
           /\ \A u \in AppTasks : held[u] = NULL
<1>1. Notifying = {}
  BY DEF Notifying
<1>2. queued_list = <<>> /\ done_list = <<>> /\ empty = {}
  BY <1>1, QueueLength DEF Session
<1>3. \A u \in AppTasks : held[u] = NULL
  BY DEF Calls, HoldPcs
<1> QED BY <1>1, <1>2, <1>3, EmptyListsSound

(* Every buffer keeps one owner. *)
LEMMA OwnersStep ==
    ASSUME TypeOK, Calls, Session, Owners, [Next]_vars
    PROVE  Owners'
<1>1. ASSUME NEW t \in AppTasks, NEW n \in 0 .. MaxCount, Reqbufs(t, n)
      PROVE  Owners'
  <2>1. /\ host = "closed" /\ pc[t] = "idle"
        /\ \A u \in AppTasks : pc[u] = "idle"
    BY <1>1 DEF Session, Reqbufs, ReleaseBuffer, SetupBuffer, Alone
  <2>2. /\ empty = {} /\ Notifying = {}
        /\ \A u \in AppTasks : held[u] = NULL
    BY <2>1, Quiet DEF HoldPcs
  <2>3. /\ queued_list' = <<>> /\ done_list' = <<>>
        /\ free' = [e \in Elements |-> TRUE]
    BY <1>1 DEF Reqbufs, ReleaseBuffer, SetupBuffer
  <2>4. buffer' \subseteq Elements
    BY <1>1, TypesStep, Zenon DEF TypeOK, StreamTypeOK, Next, Control
  <2>5. Listed' = {} /\ ListsSound'
    BY <2>3, EmptyRange, EmptySeq DEF Listed, ListsSound
  <2>6. FlagsSound'
    BY <2>3, <2>4, <2>5 DEF FlagsSound
  <2>7. Len(queued_list') = Cardinality(Notifying')
    BY <1>1, <2>2, <2>3, FS_EmptySet, EmptySeq DEF Reqbufs, taskVars, Notifying
  <2> QED
    BY <1>1, <2>2, <2>5, <2>6, <2>7 DEF Owners, Reqbufs, hostVars, taskVars
<1>2. ASSUME NEW t \in AppTasks, NEW e \in Elements, Qbuf(t, e)
      PROVE  Owners'
  <2>1. e \in app /\ e \in buffer /\ e \notin Listed /\ e \notin empty /\ free[e]
    BY <1>2 DEF Qbuf, Owners, FlagsSound
  <2>2. ListsSound' /\ FlagsSound' /\ Listed' = Listed \cup {e}
    BY <1>2, <2>1, QueueElementSound DEF Qbuf, Owners, TypeOK, memoryVars
  <2>3. Notifying' = Notifying \cup {t} /\ t \notin Notifying
    BY <1>2, <2>1 DEF TypeOK, Notifying, Qbuf, Goto, MayTransfer
  <2>4. Cardinality(Notifying') = Cardinality(Notifying) + 1
    BY <2>3, QueueLength, FS_AddElement
  <2>5. Len(queued_list') = Len(queued_list) + 1
    BY <1>2, <2>1, AppendProperties DEF TypeOK, StreamTypeOK, ListTypeOK, Qbuf, QueueElement
  <2>6. app' = app \ {e} /\ UNCHANGED <<buffer, empty, held>>
    BY <1>2, <2>1 DEF Qbuf, memoryVars, hostVars
  <2> QED BY <2>1, <2>2, <2>4, <2>5, <2>6 DEF Owners
<1>3. ASSUME NEW t \in AppTasks, QbufNotify(t)
      PROVE  Owners'
  <2>1. t \in Notifying /\ queued_list # <<>> /\ pc[t] = "qb_notify"
    BY <1>3, QueueLength DEF QbufNotify, At, Notifying
  <2> DEFINE h == Head(queued_list)
  <2>2. /\ ListsSound' /\ FlagsSound'
        /\ h \in Listed /\ Listed' = Listed \ {h}
    BY <1>3, <2>1, GetQueuedElementSound DEF QbufNotify, Owners, TypeOK, memoryVars
  <2>3. held' = [held EXCEPT ![t] = h] /\ pc' = [pc EXCEPT ![t] = "qb_read"]
    BY <1>3, <2>1, FirstElement DEF TypeOK, StreamTypeOK, QbufNotify, Hold, Goto
  <2>4. Notifying' = Notifying \ {t}
    BY <2>3 DEF TypeOK, Notifying
  <2>5. Cardinality(Notifying') = Cardinality(Notifying) - 1
    BY <2>1, <2>4, QueueLength, FS_RemoveElement
  <2>6. Len(queued_list') = Len(queued_list) - 1
    BY <1>3, <2>1, HeadTailProperties
       DEF TypeOK, StreamTypeOK, ListTypeOK, QbufNotify, GetQueuedElement
  <2>7. UNCHANGED <<buffer, empty, app>>
    BY <1>3 DEF QbufNotify, memoryVars, hostVars
  <2>8. h \in buffer
    BY <2>2 DEF Owners, ListsSound
  <2> HIDE DEF h
  <2>9. Len(queued_list') = Cardinality(Notifying')
    BY <2>5, <2>6 DEF Owners
  <2> QED BY <2>2, <2>3, <2>7, <2>8, <2>9 DEF Owners, TypeOK
<1>4. ASSUME NEW t \in AppTasks, QbufRead(t)
      PROVE  Owners'
  <2>1. Notifying' = Notifying
    BY <1>4 DEF TypeOK, Notifying, QbufRead, At, Goto
  <2>2. \A u \in AppTasks : held'[u] # NULL => held'[u] = held[u]
    BY <1>4 DEF TypeOK, QbufRead, Hold
  <2>3. UNCHANGED <<buffer, queued_list, done_list, free, empty, app>>
    BY <1>4 DEF QbufRead, hostVars, streamVars
  <2>4. ListsSound' /\ FlagsSound' /\ Listed' = Listed
    BY <2>3 DEF Owners, ListsSound, FlagsSound, Listed
  <2> QED BY <2>1, <2>2, <2>3, <2>4 DEF Owners
<1>5. ASSUME NEW t \in AppTasks, QbufReturn(t)
      PROVE  Owners'
  <2>1. Notifying' = Notifying
    BY <1>5 DEF TypeOK, Notifying, QbufReturn, At, Goto
  <2>2. held[t] # NULL
    BY <1>5 DEF Calls, QbufReturn, At, HoldPcs
  <2>3. \A u \in AppTasks : held'[u] # NULL => u # t /\ held'[u] = held[u]
    BY <1>5 DEF TypeOK, QbufReturn, Hold
  <2>4. empty' \subseteq empty \cup {held[t]}
    BY <1>5 DEF QbufReturn
  <2>5. UNCHANGED <<buffer, queued_list, done_list, free, app>>
    BY <1>5 DEF QbufReturn, streamVars
  <2>6. ListsSound' /\ FlagsSound' /\ Listed' = Listed
    BY <2>5 DEF Owners, ListsSound, FlagsSound, Listed
  <2> QED BY <2>1, <2>2, <2>3, <2>4, <2>5, <2>6 DEF Owners
<1>6. ASSUME NEW t \in AppTasks, Dqbuf(t)
      PROVE  Owners'
  <2>1. Notifying' = Notifying
    BY <1>6 DEF TypeOK, Notifying, Dqbuf, Goto, MayTransfer
  <2> QED
    BY <1>6, <2>1, OwnersKept DEF Dqbuf, hostVars, streamVars
<1>7. ASSUME NEW t \in AppTasks, DqbufTake(t)
      PROVE  Owners'
  <2>1. Notifying' = Notifying
    BY <1>7 DEF TypeOK, Notifying, DqbufTake, At, Goto
  <2> QED
    BY <1>7, <2>1, OwnersKept DEF DqbufTake, hostVars, memoryVars, listVars
<1>8. ASSUME NEW t \in AppTasks, DqbufPop(t)
      PROVE  Owners'
  <2>1. Notifying' = Notifying
    BY <1>8 DEF TypeOK, Notifying, DqbufPop, At, Goto
  <2>2. UNCHANGED <<buffer, queued_list, empty, held>>
    BY <1>8 DEF DqbufPop, GetDoneElement, memoryVars, hostVars, listVars
  <2>3. ListsSound' /\ FlagsSound'
    BY <1>8, GetDoneElementSound DEF DqbufPop, Owners, TypeOK, memoryVars
  <2>4. \E S \in SUBSET Listed : app' = app \cup S /\ Listed' = Listed \ S
    <3>1. CASE done_list = <<>>
      <4>1. app' = app /\ Listed' = Listed
        BY <1>8, <3>1, GetDoneElementSound, FirstElement
           DEF DqbufPop, Owners, TypeOK, StreamTypeOK, memoryVars
      <4> QED BY <4>1
    <3>2. CASE done_list # <<>>
      <4>1. /\ app' = app \cup {Head(done_list)}
            /\ Head(done_list) \in Listed /\ Listed' = Listed \ {Head(done_list)}
        BY <1>8, <3>2, GetDoneElementSound, FirstElement
           DEF DqbufPop, Owners, TypeOK, StreamTypeOK, memoryVars
      <4> QED BY <4>1
    <3> QED BY <3>1, <3>2
  <2>5. Listed \subseteq buffer
    BY DEF Owners, ListsSound
  <2> QED BY <2>1, <2>2, <2>3, <2>4, <2>5 DEF Owners
<1>9. ASSUME NEW t \in AppTasks, StreamOn(t)
      PROVE  Owners'
  <2>1. Notifying' = Notifying
    BY <1>9 DEF TypeOK, Notifying, StreamOn, Goto, Alone
  <2> QED
    BY <1>9, <2>1, OwnersKept DEF StreamOn, hostVars, streamVars
<1>10. ASSUME NEW t \in AppTasks, StreamOnHost(t)
      PROVE  Owners'
  <2>1. /\ host = "closed" /\ pc[t] = "on_start"
        /\ \A u \in AppTasks : u # t => pc[u] \in {"idle", "wait", "took"}
    BY <1>10 DEF Calls, Session, StreamOnHost, At, OnPcs, OffPcs, ClosedPcs
  <2>2. /\ queued_list = <<>> /\ done_list = <<>> /\ Listed = {} /\ Notifying = {}
        /\ empty = {}
        /\ \A u \in AppTasks : held[u] = NULL
    BY <2>1, Quiet DEF HoldPcs
  <2>3. app = {}
    BY <2>1 DEF Session
  <2>4. Notifying' = Notifying
    BY <1>10, <2>1 DEF TypeOK, Notifying, StreamOnHost, Goto
  <2>5. UNCHANGED <<buffer, queued_list, done_list, free, app, held>> /\ empty' = buffer
    BY <1>10 DEF StreamOnHost, streamVars
  <2>6. ListsSound' /\ FlagsSound' /\ Listed' = Listed
    BY <2>5 DEF Owners, ListsSound, FlagsSound, Listed
  <2> QED BY <2>2, <2>3, <2>4, <2>5, <2>6 DEF Owners
<1>11. ASSUME NEW t \in AppTasks, StreamOnHostFails(t)
      PROVE  Owners'
  <2>1. /\ host = "closed" /\ pc[t] = "on_start"
        /\ \A u \in AppTasks : u # t => pc[u] \in {"idle", "wait", "took"}
    BY <1>11 DEF Calls, Session, StreamOnHostFails, At, OnPcs, OffPcs, ClosedPcs
  <2>2. /\ queued_list = <<>> /\ done_list = <<>> /\ Listed = {} /\ Notifying = {}
        /\ empty = {}
        /\ \A u \in AppTasks : held[u] = NULL
    BY <2>1, Quiet DEF HoldPcs
  <2>4. Notifying' = Notifying
    BY <1>11, <2>1 DEF TypeOK, Notifying, StreamOnHostFails, Goto
  <2>5. UNCHANGED <<buffer, queued_list, done_list, free, empty, held>> /\ app' = buffer
    BY <1>11 DEF StreamOnHostFails, streamVars, hostVars
  <2>6. ListsSound' /\ FlagsSound' /\ Listed' = Listed
    BY <2>5 DEF Owners, ListsSound, FlagsSound, Listed
  <2> QED BY <2>2, <2>4, <2>5, <2>6 DEF Owners
<1>12. ASSUME NEW t \in AppTasks, StreamOnDone(t)
      PROVE  Owners'
  <2>1. Notifying' = Notifying
    BY <1>12 DEF TypeOK, Notifying, StreamOnDone, At, Goto
  <2> QED
    BY <1>12, <2>1, OwnersKept DEF StreamOnDone, hostVars, memoryVars, listVars
<1>13. ASSUME NEW t \in AppTasks, StreamOff(t)
      PROVE  Owners'
  <2>1. Notifying' = Notifying
    BY <1>13 DEF TypeOK, Notifying, StreamOff, Goto, MayStop
  <2> QED
    BY <1>13, <2>1, OwnersKept DEF StreamOff, hostVars, streamVars
<1>14. ASSUME NEW t \in AppTasks, StreamOffUnplugged(t)
      PROVE  Owners'
  <2>1. Notifying' = Notifying
    BY <1>14 DEF TypeOK, Notifying, StreamOffUnplugged, At, Goto
  <2> QED
    BY <1>14, <2>1, OwnersKept DEF StreamOffUnplugged, hostVars, streamVars
<1>15. ASSUME NEW t \in AppTasks, StreamOffHost(t)
      PROVE  Owners'
  <2>1. Notifying' = Notifying
    BY <1>15 DEF TypeOK, Notifying, StreamOffHost, At, Goto
  <2> QED
    BY <1>15, <2>1, OwnersKept DEF StreamOffHost, streamVars
<1>16. ASSUME NEW t \in AppTasks, StreamOffTake(t)
      PROVE  Owners'
  <2>1. Notifying' = Notifying
    BY <1>16 DEF TypeOK, Notifying, StreamOffTake, At, Goto
  <2>2. UNCHANGED <<buffer, queued_list, empty, app>>
    BY <1>16 DEF StreamOffTake, GetDoneElement, memoryVars, hostVars, listVars
  <2>3. ListsSound' /\ FlagsSound'
    BY <1>16, GetDoneElementSound DEF StreamOffTake, Owners, TypeOK, memoryVars
  <2>4. held' = [held EXCEPT ![t] = FirstDone]
    BY <1>16 DEF StreamOffTake, Hold
  <2>5. /\ Listed' = Listed \ {FirstDone}
        /\ FirstDone # NULL => FirstDone \in Listed
    <3>1. CASE done_list = <<>>
      <4>1. NULL \notin Listed
        BY MaxCountAssumption DEF Owners, ListsSound, TypeOK, StreamTypeOK, Elements, NULL
      <4> QED
        BY <1>16, <3>1, <4>1, GetDoneElementSound, FirstElement
           DEF StreamOffTake, Owners, TypeOK, StreamTypeOK, memoryVars
    <3>2. CASE done_list # <<>>
      BY <1>16, <3>2, GetDoneElementSound, FirstElement
         DEF StreamOffTake, Owners, TypeOK, StreamTypeOK, memoryVars
    <3> QED BY <3>1, <3>2
  <2>6. Listed \subseteq buffer
    BY DEF Owners, ListsSound
  <2>7. \A u \in AppTasks : held'[u] = IF u = t THEN FirstDone ELSE held[u]
    BY <2>4 DEF TypeOK
  <2> QED BY <2>1, <2>2, <2>3, <2>5, <2>6, <2>7 DEF Owners
<1>17. ASSUME NEW t \in AppTasks, StreamOffReturn(t)
      PROVE  Owners'
  <2>1. Notifying' = Notifying
    BY <1>17 DEF TypeOK, Notifying, StreamOffReturn, At, Goto
  <2>2. held[t] # NULL
    BY <1>17 DEF Calls, StreamOffReturn, At, HoldPcs
  <2>3. \A u \in AppTasks : held'[u] # NULL => u # t /\ held'[u] = held[u]
    BY <1>17 DEF TypeOK, StreamOffReturn, Hold
  <2>4. empty' \subseteq empty \cup {held[t]}
    BY <1>17 DEF StreamOffReturn
  <2>5. UNCHANGED <<buffer, queued_list, done_list, free, app>>
    BY <1>17 DEF StreamOffReturn, streamVars
  <2>6. ListsSound' /\ FlagsSound' /\ Listed' = Listed
    BY <2>5 DEF Owners, ListsSound, FlagsSound, Listed
  <2> QED BY <2>1, <2>2, <2>3, <2>4, <2>5, <2>6 DEF Owners
<1>18. ASSUME NEW t \in AppTasks, StreamOffClose(t)
      PROVE  Owners'
  <2>1. Notifying' = Notifying
    BY <1>18 DEF TypeOK, Notifying, StreamOffClose, At, Goto
  <2>2. UNCHANGED <<buffer, queued_list, done_list, free, app, held>> /\ empty' = {}
    BY <1>18 DEF StreamOffClose, streamVars
  <2>3. ListsSound' /\ FlagsSound' /\ Listed' = Listed
    BY <2>2 DEF Owners, ListsSound, FlagsSound, Listed
  <2> QED BY <2>1, <2>2, <2>3 DEF Owners
<1>19. ASSUME NEW t \in AppTasks, StreamOffCloseFails(t)
      PROVE  Owners'
  <2>1. Notifying' = Notifying
    BY <1>19 DEF TypeOK, Notifying, StreamOffCloseFails, At, Goto
  <2> QED
    BY <1>19, <2>1, OwnersKept DEF StreamOffCloseFails, hostVars, streamVars
<1>20. ASSUME NEW t \in AppTasks, StreamOffDrain(t)
      PROVE  Owners'
  <2>1. Notifying' = Notifying
    BY <1>20 DEF TypeOK, Notifying, StreamOffDrain, At, Goto
  <2> QED
    BY <1>20, <2>1, OwnersKept DEF StreamOffDrain, hostVars, memoryVars, listVars
<1>21. ASSUME NEW t \in AppTasks, StreamOffLists(t)
      PROVE  Owners'
  <2>1. /\ host = "closed" /\ pc[t] = "off_lists"
        /\ \A u \in AppTasks : u # t => pc[u] \in {"idle", "wait", "took"}
    BY <1>21 DEF Calls, Session, StreamOffLists, At, OnPcs, OffPcs, ClosedPcs
  <2>2. /\ queued_list = <<>> /\ done_list = <<>> /\ Listed = {} /\ Notifying = {}
        /\ empty = {}
        /\ \A u \in AppTasks : held[u] = NULL
    BY <2>1, Quiet DEF HoldPcs
  <2>4. Notifying' = Notifying
    BY <1>21, <2>1 DEF TypeOK, Notifying, StreamOffLists, Goto
  <2> QED
    BY <1>21, <2>2, <2>4, OwnersKept DEF StreamOffLists, ResetLists, memoryVars, hostVars
<1>22. ASSUME NEW t \in AppTasks, StreamOffDone(t)
      PROVE  Owners'
  <2>1. /\ host = "closed" /\ pc[t] = "off_done"
        /\ \A u \in AppTasks : u # t => pc[u] \in {"idle", "wait", "took"}
    BY <1>22 DEF Calls, Session, StreamOffDone, At, OnPcs, OffPcs, ClosedPcs
  <2>2. /\ queued_list = <<>> /\ done_list = <<>> /\ Listed = {} /\ Notifying = {}
        /\ empty = {}
        /\ \A u \in AppTasks : held[u] = NULL
    BY <2>1, Quiet DEF HoldPcs
  <2>4. Notifying' = Notifying
    BY <1>22, <2>1 DEF TypeOK, Notifying, StreamOffDone, Goto
  <2>5. /\ UNCHANGED <<buffer, queued_list, done_list, empty, held>> /\ app' = buffer
        /\ free' = [e \in Elements |-> TRUE]
    BY <1>22 DEF StreamOffDone, BufferReset, memoryVars, hostVars
  <2>6. ListsSound' /\ Listed' = Listed
    BY <2>5 DEF Owners, ListsSound, Listed
  <2>7. FlagsSound'
    BY <2>2, <2>5, <2>6 DEF FlagsSound, TypeOK, StreamTypeOK
  <2> QED BY <2>2, <2>4, <2>5, <2>6, <2>7 DEF Owners
<1>23. ASSUME NEW e \in Elements, FrameDone(e)
      PROVE  Owners'
  <2>1. e \in buffer /\ e \notin Listed
    BY <1>23 DEF FrameDone, Owners
  <2>2. ListsSound' /\ FlagsSound' /\ Listed' = Listed \cup {e}
    BY <1>23, <2>1, DoneElementSound DEF FrameDone, Owners, TypeOK, memoryVars
  <2>3. Notifying' = Notifying
    BY <1>23 DEF FrameDone, taskVars, Notifying
  <2>4. UNCHANGED <<buffer, queued_list, app, held>> /\ empty' = empty \ {e}
    BY <1>23 DEF FrameDone, DoneElement, memoryVars, taskVars, listVars
  <2> QED BY <1>23, <2>1, <2>2, <2>3, <2>4 DEF Owners, FrameDone
<1>24. CASE FrameGive
  BY <1>24, OwnersKept DEF Notifying, FrameGive, taskVars, hostVars, memoryVars, listVars
<1>25. CASE FrameStore
  BY <1>25, OwnersKept DEF Notifying, FrameStore, taskVars, hostVars, streamVars
<1>26. CASE Disconnected
  BY <1>26, OwnersKept DEF Notifying, Disconnected, taskVars, hostVars, streamVars
<1>27. ASSUME NEW a \in 1 .. MaxAddr, Connected(a)
      PROVE  Owners'
  BY <1>27, OwnersKept DEF Notifying, Connected, taskVars, hostVars, streamVars
<1>28. CASE Unplug
  BY <1>28, OwnersKept DEF Notifying, Unplug, taskVars, hostVars, streamVars
<1>29. CASE UNCHANGED vars
  BY <1>29, OwnersKept DEF Notifying, vars, taskVars, hostVars, streamVars
<1>30. ASSUME NEW t \in AppTasks, StreamOffHostFails(t)
      PROVE  Owners'
  <2>1. Notifying' = Notifying
    BY <1>30 DEF TypeOK, Notifying, StreamOffHostFails, At, Goto
  <2> QED
    BY <1>30, <2>1, OwnersKept DEF StreamOffHostFails, hostVars, streamVars
<1> QED
  BY <1>1, <1>2, <1>3, <1>4, <1>5, <1>6, <1>7, <1>8, <1>9, <1>10, <1>11, <1>12, <1>13,
     <1>14, <1>15, <1>16, <1>17, <1>18, <1>19, <1>20, <1>21, <1>22, <1>23, <1>24, <1>25,
     <1>26, <1>27, <1>28, <1>29, <1>30
     DEF Next, Transfer, Control, HostTask

-------------------------------------------------------------------------------
(* No frame is lost *)

(* A step that moves no frame. *)
LEMMA StoredKept ==
    ASSUME Stored, host' # "closed" => host # "closed",
           UNCHANGED <<buffer, empty, app, queued_list, done_list, held, priv_data, cb,
                       cb_frame, preempts>>
    PROVE  Stored'
BY DEF Stored, Listed, Held

(* A task that is given another element holds that and no longer its old one. *)
LEMMA HoldChange ==
    ASSUME TypeOK, NEW t \in AppTasks, NEW x, held' = [held EXCEPT ![t] = x]
    PROVE  (Held \ {held[t]}) \cup ({x} \ {NULL}) \subseteq Held'
<1>1. \A u \in AppTasks : held'[u] = IF u = t THEN x ELSE held[u]
  BY DEF TypeOK
<1> QED BY <1>1 DEF Held

(* While no callback runs, the element a task holds names its frame. *)
LEMMA HeldStored ==
    ASSUME TypeOK, Calls, Owners, Stored, ~preempts, host # "closed", cb = "idle",
           NEW t \in AppTasks, held[t] # NULL
    PROVE  held[t] \in priv_data
BY DEF Owners, Stored

(* Every frame of an open stream has an owner, and its element names it. *)
LEMMA StoredStep ==
    ASSUME TypeOK, Calls, Session, Owners, Stored, [Next]_vars
    PROVE  Stored'
<1>1. ASSUME NEW t \in AppTasks, NEW n \in 0 .. MaxCount, Reqbufs(t, n)
      PROVE  Stored'
  <2>1. host = "closed"
    BY <1>1 DEF Session, Reqbufs, ReleaseBuffer, SetupBuffer, Alone
  <2> QED BY <1>1, <2>1 DEF Stored, Reqbufs, hostVars
<1>2. ASSUME NEW t \in AppTasks, NEW e \in Elements, Qbuf(t, e)
      PROVE  Stored'
  <2>1. e \in app /\ e \in buffer /\ free[e]
    BY <1>2 DEF Qbuf, Owners, FlagsSound
  <2>2. Listed' = Listed \cup {e}
    BY <1>2, <2>1, QueueElementSound DEF Qbuf, Owners, TypeOK, memoryVars
  <2>3. UNCHANGED <<buffer, empty, held, priv_data, cb, cb_frame, preempts, host>>
    BY <1>2 DEF Qbuf, hostVars, memoryVars, cbVars
  <2>4. app \subseteq app' \cup {e} /\ Held' = Held
    BY <1>2, <2>3 DEF Qbuf, Held
  <2> QED BY <2>2, <2>3, <2>4 DEF Stored
<1>3. ASSUME NEW t \in AppTasks, QbufNotify(t)
      PROVE  Stored'
  <2>1. Held \subseteq Held' \cup {NULL} /\ {FirstQueued} \ {NULL} \subseteq Held'
    <3>1. held[t] = NULL
      BY <1>3 DEF Calls, QbufNotify, At, HoldPcs
    <3> QED BY <1>3, <3>1, HoldChange DEF QbufNotify, Hold
  <2>2. Listed \subseteq Listed' \cup ({FirstQueued} \ {NULL})
    BY <1>3, GetQueuedElementSound, FirstElement
       DEF QbufNotify, Owners, TypeOK, StreamTypeOK, memoryVars
  <2>3. UNCHANGED <<buffer, empty, app, priv_data, cb, cb_frame, preempts, host>>
    BY <1>3 DEF QbufNotify, hostVars, memoryVars, cbVars
  <2>4. NULL \notin Held
    BY DEF Held
  <2> QED BY <2>1, <2>2, <2>3, <2>4 DEF Stored
<1>4. ASSUME NEW t \in AppTasks, QbufRead(t)
      PROVE  Stored'
  <2>1. UNCHANGED <<buffer, empty, app, queued_list, done_list, priv_data, cb, cb_frame, preempts,
                    host>>
    BY <1>4 DEF QbufRead, hostVars, cbVars, streamVars
  <2>2. ~preempts /\ host # "closed" => UNCHANGED held
    <3>1. held[t] # NULL
      BY <1>4 DEF Calls, QbufRead, At, HoldPcs
    <3>2. ~preempts => cb = "idle"
      BY <1>4 DEF QbufRead, At, MayRun
    <3> QED BY <1>4, <3>1, <3>2, HeldStored DEF QbufRead
  <2> QED BY <2>1, <2>2 DEF Stored, Listed, Held
<1>5. ASSUME NEW t \in AppTasks, QbufReturn(t)
      PROVE  Stored'
  <2>1. UNCHANGED <<buffer, app, queued_list, done_list, priv_data, cb, cb_frame, preempts, host>>
    BY <1>5 DEF QbufReturn, cbVars, streamVars
  <2>2. Held \subseteq Held' \cup {held[t]} /\ empty \subseteq empty'
    BY <1>5, HoldChange DEF QbufReturn, Hold
  <2>3. ~preempts /\ host # "closed" => held[t] \in empty'
    <3>1. held[t] # NULL
      BY <1>5 DEF Calls, QbufReturn, At, HoldPcs
    <3>2. ~preempts => cb = "idle"
      BY <1>5 DEF QbufReturn, At, MayRun
    <3> QED BY <1>5, <3>1, <3>2, HeldStored DEF QbufReturn
  <2> QED BY <2>1, <2>2, <2>3 DEF Stored, Listed
<1>6. ASSUME NEW t \in AppTasks, Dqbuf(t)
      PROVE  Stored'
  BY <1>6, StoredKept DEF Dqbuf, hostVars, cbVars, streamVars
<1>7. ASSUME NEW t \in AppTasks, DqbufTake(t)
      PROVE  Stored'
  BY <1>7, StoredKept DEF DqbufTake, hostVars, cbVars, memoryVars, listVars
<1>8. ASSUME NEW t \in AppTasks, DqbufPop(t)
      PROVE  Stored'
  <2>1. UNCHANGED <<buffer, empty, held, priv_data, cb, cb_frame, preempts, host>>
    BY <1>8 DEF DqbufPop, hostVars, memoryVars, cbVars
  <2>2. app \cup Listed \subseteq app' \cup Listed'
    BY <1>8, GetDoneElementSound, FirstElement
       DEF DqbufPop, Owners, TypeOK, StreamTypeOK, memoryVars
  <2> QED BY <2>1, <2>2 DEF Stored, Held
<1>9. ASSUME NEW t \in AppTasks, StreamOn(t)
      PROVE  Stored'
  BY <1>9, StoredKept DEF StreamOn, hostVars, cbVars, streamVars
<1>10. ASSUME NEW t \in AppTasks, StreamOnHost(t)
      PROVE  Stored'
  BY <1>10 DEF Stored, StreamOnHost, streamVars
<1>11. ASSUME NEW t \in AppTasks, StreamOnHostFails(t)
      PROVE  Stored'
  <2>1. host' = "closed"
    BY <1>11 DEF Calls, Session, StreamOnHostFails, At, OnPcs, ClosedPcs, hostVars
  <2> QED BY <2>1 DEF Stored
<1>12. ASSUME NEW t \in AppTasks, StreamOnDone(t)
      PROVE  Stored'
  BY <1>12, StoredKept DEF StreamOnDone, hostVars, cbVars, memoryVars, listVars
<1>13. ASSUME NEW t \in AppTasks, StreamOff(t)
      PROVE  Stored'
  BY <1>13, StoredKept DEF StreamOff, hostVars, cbVars, streamVars
<1>14. ASSUME NEW t \in AppTasks, StreamOffUnplugged(t)
      PROVE  Stored'
  BY <1>14, StoredKept DEF StreamOffUnplugged, hostVars, cbVars, streamVars
<1>15. ASSUME NEW t \in AppTasks, StreamOffHost(t)
      PROVE  Stored'
  <2>1. host # "closed"
    BY <1>15 DEF Calls, Session, StreamOffHost, At, OffPcs, ClosedPcs
  <2> QED
    BY <1>15, <2>1, StoredKept DEF StreamOffHost, cbVars, streamVars
<1>16. ASSUME NEW t \in AppTasks, StreamOffTake(t)
      PROVE  Stored'
  <2>1. Held \subseteq Held' \cup {NULL} /\ {FirstDone} \ {NULL} \subseteq Held'
    <3>1. held[t] = NULL
      BY <1>16 DEF Calls, StreamOffTake, At, HoldPcs
    <3> QED BY <1>16, <3>1, HoldChange DEF StreamOffTake, Hold
  <2>2. Listed \subseteq Listed' \cup ({FirstDone} \ {NULL})
    BY <1>16, GetDoneElementSound, FirstElement
       DEF StreamOffTake, Owners, TypeOK, StreamTypeOK, memoryVars
  <2>3. UNCHANGED <<buffer, empty, app, priv_data, cb, cb_frame, preempts, host>>
    BY <1>16 DEF StreamOffTake, hostVars, memoryVars, cbVars
  <2>4. NULL \notin Held
    BY DEF Held
  <2> QED BY <2>1, <2>2, <2>3, <2>4 DEF Stored
<1>17. ASSUME NEW t \in AppTasks, StreamOffReturn(t)
      PROVE  Stored'
  <2>1. UNCHANGED <<buffer, app, queued_list, done_list, priv_data, cb, cb_frame, preempts, host>>
    BY <1>17 DEF StreamOffReturn, cbVars, streamVars
  <2>2. Held \subseteq Held' \cup {held[t]} /\ empty \subseteq empty'
    BY <1>17, HoldChange DEF StreamOffReturn, Hold
  <2>3. ~preempts /\ host # "closed" => held[t] \in empty'
    <3>1. held[t] # NULL
      BY <1>17 DEF Calls, StreamOffReturn, At, HoldPcs
    <3>2. ~preempts => cb = "idle"
      BY <1>17 DEF StreamOffReturn, At, MayRun
    <3> QED BY <1>17, <3>1, <3>2, HeldStored DEF StreamOffReturn
  <2> QED BY <2>1, <2>2, <2>3 DEF Stored, Listed
<1>18. ASSUME NEW t \in AppTasks, StreamOffClose(t)
      PROVE  Stored'
  <2>1. host' = "closed"
    BY <1>18 DEF Calls, Session, StreamOffClose, At, OnPcs, ClosedPcs
  <2> QED BY <2>1 DEF Stored
<1>19. ASSUME NEW t \in AppTasks, StreamOffCloseFails(t)
      PROVE  Stored'
  BY <1>19, StoredKept DEF StreamOffCloseFails, hostVars, cbVars, streamVars
<1>20. ASSUME NEW t \in AppTasks, StreamOffDrain(t)
      PROVE  Stored'
  BY <1>20, StoredKept DEF StreamOffDrain, hostVars, cbVars, memoryVars, listVars
<1>21. ASSUME NEW t \in AppTasks, StreamOffLists(t)
      PROVE  Stored'
  <2>1. host' = "closed"
    BY <1>21 DEF Calls, Session, StreamOffLists, At, OnPcs, ClosedPcs, hostVars
  <2> QED BY <2>1 DEF Stored
<1>22. ASSUME NEW t \in AppTasks, StreamOffDone(t)
      PROVE  Stored'
  <2>1. host' = "closed"
    BY <1>22 DEF Calls, Session, StreamOffDone, At, OnPcs, ClosedPcs, hostVars
  <2> QED BY <2>1 DEF Stored
<1>23. ASSUME NEW e \in Elements, FrameDone(e)
      PROVE  Stored'
  <2>1. e \in buffer
    BY <1>23 DEF FrameDone, Owners
  <2>2. Listed' = Listed \cup {e}
    BY <1>23, <2>1, DoneElementSound DEF FrameDone, Owners, TypeOK, memoryVars
  <2>3. /\ UNCHANGED <<buffer, app, held, priv_data, preempts, host>>
        /\ empty' = empty \ {e} /\ cb' # "idle" /\ cb_frame' = e /\ cb = "idle"
    BY <1>23 DEF FrameDone, memoryVars, taskVars
  <2> QED BY <2>2, <2>3 DEF Stored, Held
<1>24. CASE FrameGive
  <2>1. cb # "idle" /\ cb' # "idle"
    BY <1>24 DEF FrameGive
  <2> QED
    BY <1>24, <2>1
       DEF Stored, Listed, Held, FrameGive, taskVars, hostVars, memoryVars, listVars
<1>25. CASE FrameStore
  <2>1. cb # "idle" /\ cb' = "idle" /\ priv_data' = priv_data \cup {cb_frame}
    BY <1>25 DEF FrameStore
  <2> QED
    BY <1>25, <2>1 DEF Stored, Listed, Held, FrameStore, taskVars, hostVars, streamVars
<1>26. CASE Disconnected
  BY <1>26, StoredKept DEF Disconnected, taskVars, hostVars, cbVars, streamVars
<1>27. ASSUME NEW a \in 1 .. MaxAddr, Connected(a)
      PROVE  Stored'
  BY <1>27, StoredKept DEF Connected, taskVars, hostVars, cbVars, streamVars
<1>28. CASE Unplug
  BY <1>28, StoredKept DEF Unplug, taskVars, hostVars, cbVars, streamVars
<1>29. CASE UNCHANGED vars
  BY <1>29, StoredKept DEF vars, taskVars, hostVars, cbVars, streamVars
<1>30. ASSUME NEW t \in AppTasks, StreamOffHostFails(t)
      PROVE  Stored'
  BY <1>30, StoredKept DEF StreamOffHostFails, hostVars, cbVars, streamVars
<1> QED
  BY <1>1, <1>2, <1>3, <1>4, <1>5, <1>6, <1>7, <1>8, <1>9, <1>10, <1>11, <1>12, <1>13,
     <1>14, <1>15, <1>16, <1>17, <1>18, <1>19, <1>20, <1>21, <1>22, <1>23, <1>24, <1>25,
     <1>26, <1>27, <1>28, <1>29, <1>30
     DEF Next, Transfer, Control, HostTask

-------------------------------------------------------------------------------
(* The theorems *)

(* The strengthening of FramesAccounted and ReturnsToOpenStream is inductive. *)
LEMMA InitIInv == Init => IInv
<1> SUFFICES ASSUME Init PROVE IInv
  OBVIOUS
<1>1. TypeOK
  BY StreamInitTypes, UvcAssumption DEF Init, TypeOK
<1>2. Listed = {} /\ ListsSound /\ FlagsSound
  <2>1. queued_list = <<>> /\ done_list = <<>> /\ buffer = {}
    BY DEF Init, StreamInit
  <2> QED BY <2>1, EmptyListsSound DEF FlagsSound
<1>3. Len(queued_list) = Cardinality(Notifying)
  <2>1. Notifying = {} /\ queued_list = <<>>
    BY DEF Init, StreamInit, Notifying
  <2> QED BY <2>1, FS_EmptySet, EmptySeq
<1>4. Calls
  BY DEF Init, Calls, OnPcs, OffPcs, HoldPcs
<1>5. Session
  BY DEF Init, StreamInit, Session, OffPcs, StopPcs, ClosedPcs
<1>6. Owners
  BY <1>2, <1>3 DEF Init, Owners
<1>7. Stored
  BY DEF Init, Stored
<1> QED BY <1>1, <1>4, <1>5, <1>6, <1>7 DEF IInv

LEMMA NextIInv == IInv /\ [Next]_vars => IInv'
<1> SUFFICES ASSUME IInv, [Next]_vars PROVE IInv'
  OBVIOUS
<1>1. TypeOK'
  BY TypesStep DEF IInv
<1>2. Calls'
  BY CallsStep DEF IInv, TypeOK, StreamTypeOK
<1>3. Session'
  BY SessionStep DEF IInv
<1>4. Owners'
  BY OwnersStep DEF IInv
<1>5. Stored'
  BY StoredStep DEF IInv
<1> QED BY <1>1, <1>2, <1>3, <1>4, <1>5 DEF IInv

LEMMA Invariance == Spec => []IInv
BY InitIInv, NextIInv, PTL DEF Spec

(* The types of the stream, of the library and of the calls (TypeOK). *)
THEOREM TypeCorrect == Spec => []TypeOK
<1>1. IInv => TypeOK
  BY DEF IInv
<1> QED BY <1>1, Invariance, PTL

(* A frame has one owner, whatever the tasks do and wherever the callback is overtaken; *)
(* and when the application does not overtake it, no frame of an open stream is lost:   *)
(* VIDIOC_QBUF and uvc_video_stop always find the frame of the element they took.        *)
THEOREM Accounted == Spec => []FramesAccounted
<1>1. IInv => FramesAccounted
  <2> SUFFICES ASSUME IInv PROVE FramesAccounted
    OBVIOUS
  <2>1. Held \subseteq buffer /\ Listed \subseteq buffer
    BY DEF IInv, Owners, ListsSound, Held
  <2> QED BY <2>1 DEF IInv, Owners, Stored, FramesAccounted
<1> QED BY <1>1, Invariance, PTL

(* uvc_host_frame_return is never called for a stream that uvc_video_stop has closed,  *)
(* although priv_data is read outside stream_lock and names the frame of an old stream *)
(* until the close clears it.                                                            *)
THEOREM ReturnsOpen == Spec => []ReturnsToOpenStream
<1>1. IInv => ReturnsToOpenStream
  BY DEF IInv, Session, ReturnsToOpenStream, StopPcs
<1> QED BY <1>1, Invariance, PTL
===============================================================================
