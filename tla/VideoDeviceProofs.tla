--------------------------- MODULE VideoDeviceProofs ---------------------------
(***************************************************************************)
(* Proofs about VideoDevice, for any number of tasks, of descriptors and of   *)
(* places in the event queue, and any set of faults.                          *)
(*                                                                          *)
(* The properties are not inductive.  Calls says which calls exclude each     *)
(* other and who holds the mutex; Counts that video->reference counts the     *)
(* descriptors and the calls under way; Hardware how it goes with the         *)
(* hardware while a call is half done; Subscription why a controller that     *)
(* reports errors keeps its event queue; Sequences what the queue holds.      *)
(***************************************************************************)
EXTENDS VideoDevice, FiniteSetTheorems, SequenceTheorems, TLAPS

HolderPcs  == {"open_init", "open_give", "close_deinit", "close_give"}
CountedPcs == {"open_init", "open_give", "close_take"}
PendingPcs == OpenPcs \cup {"close_take", "close_deinit"}

Steps == {"idle", "out", "loop", "wait"} \cup OpenPcs \cup ClosePcs \cup DeinitPcs

Counted == Among(CountedPcs)
Pending == Among(PendingPcs)

Calls ==
    /\ \A t \in AppTasks : mutex = t <=> pc[t] \in HolderPcs
    /\ \A t, u \in AppTasks :
           pc[t] \in DeinitPcs =>
               /\ object
               /\ pc[u] \notin OpenPcs \cup ClosePcs
               /\ u # t => pc[u] \notin DeinitPcs
    /\ ~object => reference = 0 /\ \A t \in AppTasks : pc[t] \notin OpenPcs \cup ClosePcs

Counts ==
    /\ reference = fds + lost + Cardinality(Counted)
    /\ fds + lost + Cardinality(Pending) <= MaxReference

Hardware ==
    /\ power = IF inited THEN 1 ELSE 0
    /\ allocated => inited
    /\ \A t \in AppTasks : pc[t] = "open_init" => ~inited /\ reference = 1
    /\ \A t \in AppTasks : pc[t] = "close_deinit" => inited /\ reference = 0
    /\ (\A t \in AppTasks : pc[t] \notin {"open_init", "close_deinit"}) =>
           (inited <=> reference > 0)

Subscription ==
    /\ ctlr /\ on_error => started /\ event_sub /\ event_queue /\ inited
    /\ is_event_subscribed => event_sub /\ event_queue /\ inited
    /\ \A t \in AppTasks : pc[t] = "close_deinit" => ~event_sub

Sequences ==
    /\ received <= sequence \/ ~event_sub
    /\ \A i \in Errors : queued[i].sequence <= sequence
    /\ ~event_sub => sequence = 0 /\ Errors = {}

IInv == TypeOK /\ Calls /\ Counts /\ Hardware /\ Subscription /\ Sequences /\ EventsExact

-------------------------------------------------------------------------------
(* The descriptors and the calls that are counted *)

(* How the size of a finite set changes when one element goes or comes. *)
LEMMA OneMoves ==
    ASSUME NEW A, NEW B, NEW x, IsFiniteSet(A), A \ {x} = B \ {x}
    PROVE  /\ x \in A /\ x \notin B => Cardinality(B) = Cardinality(A) - 1
           /\ x \notin A /\ x \in B => Cardinality(B) = Cardinality(A) + 1
           /\ (x \in A <=> x \in B) => Cardinality(B) = Cardinality(A)
<1>1. CASE x \in A /\ x \notin B
  <2>1. B = A \ {x}
    BY <1>1
  <2> QED BY <1>1, <2>1, FS_RemoveElement
<1>2. CASE x \notin A /\ x \in B
  <2>1. B = A \cup {x}
    BY <1>2
  <2> QED BY <1>2, <2>1, FS_AddElement
<1>3. CASE x \in A <=> x \in B
  <2>1. B = A
    BY <1>3
  <2> QED BY <1>3, <2>1
<1> QED BY <1>1, <1>2, <1>3

(* A task that moves changes the counts by one at most. *)
LEMMA CountedMove ==
    ASSUME TypeOK, NEW t \in AppTasks, NEW q, pc' = [pc EXCEPT ![t] = q]
    PROVE  /\ pc[t] \in CountedPcs /\ q \notin CountedPcs =>
                   Cardinality(Counted') = Cardinality(Counted) - 1
           /\ pc[t] \notin CountedPcs /\ q \in CountedPcs =>
                   Cardinality(Counted') = Cardinality(Counted) + 1
           /\ (pc[t] \in CountedPcs <=> q \in CountedPcs) =>
                   Cardinality(Counted') = Cardinality(Counted)
<1>1. IsFiniteSet(Counted)
  BY DeviceAssumption, FS_Subset DEF Counted, Among
<1>2. /\ Counted \ {t} = Counted' \ {t}
      /\ t \in Counted <=> pc[t] \in CountedPcs
      /\ t \in Counted' <=> q \in CountedPcs
  BY DEF TypeOK, Counted, Among
<1> QED BY <1>1, <1>2, OneMoves

LEMMA PendingMove ==
    ASSUME TypeOK, NEW t \in AppTasks, NEW q, pc' = [pc EXCEPT ![t] = q]
    PROVE  /\ pc[t] \in PendingPcs /\ q \notin PendingPcs =>
                   Cardinality(Pending') = Cardinality(Pending) - 1
           /\ pc[t] \notin PendingPcs /\ q \in PendingPcs =>
                   Cardinality(Pending') = Cardinality(Pending) + 1
           /\ (pc[t] \in PendingPcs <=> q \in PendingPcs) =>
                   Cardinality(Pending') = Cardinality(Pending)
<1>1. IsFiniteSet(Pending)
  BY DeviceAssumption, FS_Subset DEF Pending, Among
<1>2. /\ Pending \ {t} = Pending' \ {t}
      /\ t \in Pending <=> pc[t] \in PendingPcs
      /\ t \in Pending' <=> q \in PendingPcs
  BY DEF TypeOK, Pending, Among
<1> QED BY <1>1, <1>2, OneMoves

(* Nobody moves. *)
LEMMA NobodyMoves ==
    ASSUME \A t \in AppTasks : pc'[t] = pc[t]
    PROVE  Counted' = Counted /\ Pending' = Pending
BY DEF Counted, Pending, Among

(* The counts are numbers, and a task that counts makes them positive. *)
LEMMA CountTypes ==
    ASSUME TypeOK
    PROVE  /\ Cardinality(Counted) \in Nat /\ Cardinality(Pending) \in Nat
           /\ \A t \in AppTasks : pc[t] \in CountedPcs => Cardinality(Counted) > 0
           /\ \A t \in AppTasks : pc[t] \in PendingPcs => Cardinality(Pending) > 0
           /\ Cardinality(Counted) <= Cardinality(Pending)
           /\ reference \in Nat /\ fds \in Nat /\ lost \in Nat /\ MaxReference \in Nat
<1>1. IsFiniteSet(Counted) /\ IsFiniteSet(Pending)
  BY DeviceAssumption, FS_Subset DEF Counted, Pending, Among
<1>2. (Cardinality(Counted) = 0 <=> Counted = {}) /\ (Cardinality(Pending) = 0 <=> Pending = {})
  BY <1>1, FS_EmptySet
<1>3. \A t \in AppTasks : /\ pc[t] \in CountedPcs => Counted # {}
                          /\ pc[t] \in PendingPcs => Pending # {}
  BY DEF Counted, Pending, Among
<1>4. Counted \subseteq Pending
  BY DEF Counted, Pending, Among, CountedPcs, PendingPcs, OpenPcs
<1>5. /\ Cardinality(Counted) \in Nat /\ Cardinality(Pending) \in Nat
      /\ Cardinality(Counted) <= Cardinality(Pending)
  BY <1>1, <1>4, FS_CardinalityType, FS_Subset
<1>6. /\ \A t \in AppTasks : pc[t] \in CountedPcs => Cardinality(Counted) > 0
      /\ \A t \in AppTasks : pc[t] \in PendingPcs => Cardinality(Pending) > 0
  BY <1>2, <1>3, <1>5
<1> QED BY <1>5, <1>6, DeviceAssumption DEF TypeOK

(* The descriptors and the calls are counted exactly, within the bound. *)
LEMMA CountsStep ==
    ASSUME TypeOK, Calls, Counts, [Next]_vars
    PROVE  Counts'
<1>1. ASSUME NEW t \in AppTasks, Create(t)
      PROVE  Counts'
  <2>1. reference = 0
    BY <1>1 DEF Calls, Create
  <2> QED BY <1>1, <2>1, NobodyMoves DEF Counts, Create
<1>2. ASSUME NEW t \in AppTasks, Deinit(t)
      PROVE  Counts'
  <2>1. t \notin Among(OpenPcs \cup ClosePcs \cup DeinitPcs)
    BY <1>2 DEF Deinit, Quiet
  <2>2. /\ Goto(t, "deinit_sensor")
        /\ pc[t] \notin CountedPcs /\ "deinit_sensor" \notin CountedPcs
        /\ pc[t] \notin PendingPcs /\ "deinit_sensor" \notin PendingPcs
    BY <1>2, <2>1 DEF Deinit, Among, CountedPcs, PendingPcs, OpenPcs, ClosePcs
  <2>3. /\ Cardinality(Counted') = Cardinality(Counted)
        /\ Cardinality(Pending') = Cardinality(Pending)
    BY <2>2, CountedMove, PendingMove DEF Goto
  <2> QED BY <1>2, <2>3 DEF Counts, Deinit, openVars
<1>3. ASSUME NEW t \in AppTasks, DeinitSensor(t)
      PROVE  Counts'
  <2>1. /\ Goto(t, "deinit_destroy")
        /\ pc[t] \notin CountedPcs /\ "deinit_destroy" \notin CountedPcs
        /\ pc[t] \notin PendingPcs /\ "deinit_destroy" \notin PendingPcs
    BY <1>3 DEF DeinitSensor, CountedPcs, PendingPcs, OpenPcs
  <2>2. /\ Cardinality(Counted') = Cardinality(Counted)
        /\ Cardinality(Pending') = Cardinality(Pending)
    BY <2>1, CountedMove, PendingMove DEF Goto
  <2>3. reference' = reference /\ fds' = fds /\ lost' = lost
    BY <1>3 DEF DeinitSensor, openVars
  <2> QED BY <2>1, <2>2, <2>3, CountTypes DEF Counts
<1>4. ASSUME NEW t \in AppTasks, Destroy(t)
      PROVE  Counts'
  <2>1. /\ Goto(t, "idle")
        /\ pc[t] \notin CountedPcs /\ "idle" \notin CountedPcs
        /\ pc[t] \notin PendingPcs /\ "idle" \notin PendingPcs
    BY <1>4 DEF Destroy, CountedPcs, PendingPcs, OpenPcs
  <2>2. /\ Cardinality(Counted') = Cardinality(Counted)
        /\ Cardinality(Pending') = Cardinality(Pending)
    BY <2>1, CountedMove, PendingMove DEF Goto
  <2>3. reference' = reference /\ fds' = fds /\ lost' = lost
    BY <1>4 DEF Destroy, openVars
  <2> QED BY <2>1, <2>2, <2>3, CountTypes DEF Counts
<1>5. ASSUME NEW t \in AppTasks, Open(t)
      PROVE  Counts'
  <2>1. /\ Goto(t, "open_take")
        /\ pc[t] \notin CountedPcs /\ "open_take" \notin CountedPcs
        /\ pc[t] \notin PendingPcs /\ "open_take" \in PendingPcs
    BY <1>5 DEF Open, CountedPcs, PendingPcs, OpenPcs
  <2>2. /\ Cardinality(Counted') = Cardinality(Counted)
        /\ Cardinality(Pending') = Cardinality(Pending) + 1
    BY <2>1, CountedMove, PendingMove DEF Goto
  <2>3. /\ Cardinality(Pending) <= Cardinality(Among(OpenPcs \cup ClosePcs))
        /\ Cardinality(Among(OpenPcs \cup ClosePcs)) \in Nat
    <3>1. Pending \subseteq Among(OpenPcs \cup ClosePcs)
      BY DEF Pending, Among, PendingPcs, OpenPcs, ClosePcs
    <3>2. IsFiniteSet(Among(OpenPcs \cup ClosePcs))
      BY DeviceAssumption, FS_Subset DEF Among
    <3> QED BY <3>1, <3>2, FS_Subset, FS_CardinalityType
  <2>4. UNCHANGED <<reference, fds, lost>>
    BY <1>5 DEF Open, openVars
  <2>5. fds + lost + Cardinality(Among(OpenPcs \cup ClosePcs)) < MaxReference
    BY <1>5 DEF Open
  <2> QED BY <2>2, <2>3, <2>4, <2>5, CountTypes DEF Counts
<1>6. ASSUME NEW t \in AppTasks, OpenTake(t)
      PROVE  Counts'
  <2>1. /\ Goto(t, "open_init") \/ Goto(t, "open_give")
        /\ pc[t] \notin CountedPcs /\ {"open_init", "open_give"} \subseteq CountedPcs
        /\ pc[t] \in PendingPcs /\ {"open_init", "open_give"} \subseteq PendingPcs
    BY <1>6 DEF OpenTake, Goto, CountedPcs, PendingPcs, OpenPcs
  <2>2. /\ Cardinality(Counted') = Cardinality(Counted) + 1
        /\ Cardinality(Pending') = Cardinality(Pending)
    BY <2>1, CountedMove, PendingMove DEF Goto
  <2>3. reference' = reference + 1 /\ fds' = fds /\ lost' = lost
    BY <1>6 DEF OpenTake
  <2> QED BY <2>2, <2>3, CountTypes DEF Counts
<1>7. ASSUME NEW t \in AppTasks, OpenInit(t)
      PROVE  Counts'
  <2>1. /\ Goto(t, "open_give")
        /\ pc[t] \in CountedPcs /\ "open_give" \in CountedPcs
        /\ pc[t] \in PendingPcs /\ "open_give" \in PendingPcs
    BY <1>7 DEF OpenInit, CountedPcs, PendingPcs, OpenPcs
  <2>2. /\ Cardinality(Counted') = Cardinality(Counted)
        /\ Cardinality(Pending') = Cardinality(Pending)
    BY <2>1, CountedMove, PendingMove DEF Goto
  <2>3. reference' = reference /\ fds' = fds /\ lost' = lost
    BY <1>7 DEF OpenInit
  <2> QED BY <2>1, <2>2, <2>3, CountTypes DEF Counts
<1>8. ASSUME NEW t \in AppTasks, OpenInitFails(t)
      PROVE  Counts'
  <2>1. /\ Goto(t, "idle")
        /\ pc[t] \in CountedPcs /\ "idle" \notin CountedPcs
        /\ pc[t] \in PendingPcs /\ "idle" \notin PendingPcs
    BY <1>8 DEF OpenInitFails, CountedPcs, PendingPcs, OpenPcs
  <2>2. /\ Cardinality(Counted') = Cardinality(Counted) - 1
        /\ Cardinality(Pending') = Cardinality(Pending) - 1
    BY <2>1, CountedMove, PendingMove DEF Goto
  <2>3. reference' = reference - 1 /\ fds' = fds /\ lost' = lost
    BY <1>8 DEF OpenInitFails
  <2> QED BY <2>1, <2>2, <2>3, CountTypes DEF Counts
<1>9. ASSUME NEW t \in AppTasks, OpenGive(t)
      PROVE  Counts'
  <2>1. /\ Goto(t, "idle")
        /\ pc[t] \in CountedPcs /\ "idle" \notin CountedPcs
        /\ pc[t] \in PendingPcs /\ "idle" \notin PendingPcs
    BY <1>9 DEF OpenGive, CountedPcs, PendingPcs, OpenPcs
  <2>2. /\ Cardinality(Counted') = Cardinality(Counted) - 1
        /\ Cardinality(Pending') = Cardinality(Pending) - 1
    BY <2>1, CountedMove, PendingMove DEF Goto
  <2>3. reference' = reference /\ fds' = fds + 1 /\ lost' = lost
    BY <1>9 DEF OpenGive
  <2> QED BY <2>1, <2>2, <2>3, CountTypes DEF Counts
<1>10. ASSUME NEW t \in AppTasks, Close(t)
      PROVE  Counts'
  <2>1. /\ Goto(t, "close_take")
        /\ pc[t] \notin CountedPcs /\ "close_take" \in CountedPcs
        /\ pc[t] \notin PendingPcs /\ "close_take" \in PendingPcs
    BY <1>10 DEF Close, CountedPcs, PendingPcs, OpenPcs
  <2>2. /\ Cardinality(Counted') = Cardinality(Counted) + 1
        /\ Cardinality(Pending') = Cardinality(Pending) + 1
    BY <2>1, CountedMove, PendingMove DEF Goto
  <2>3. reference' = reference /\ fds' = fds - 1 /\ lost' = lost
    BY <1>10 DEF Close
  <2> QED BY <2>1, <2>2, <2>3, CountTypes DEF Counts
<1>11. ASSUME NEW t \in AppTasks, CloseTake(t)
      PROVE  Counts'
  <2>1. /\ Goto(t, "close_deinit") \/ Goto(t, "close_give")
        /\ pc[t] \in CountedPcs /\ {"close_deinit", "close_give"} \cap CountedPcs = {}
        /\ pc[t] \in PendingPcs /\ "close_deinit" \in PendingPcs /\ "close_give" \notin PendingPcs
    BY <1>11 DEF CloseTake, Goto, CountedPcs, PendingPcs, OpenPcs
  <2>2. Cardinality(Counted') = Cardinality(Counted) - 1
    BY <2>1, CountedMove DEF Goto
  <2>3. /\ Goto(t, "close_give") => Cardinality(Pending') = Cardinality(Pending) - 1
        /\ Goto(t, "close_deinit") => Cardinality(Pending') = Cardinality(Pending)
    BY <2>1, PendingMove DEF Goto
  <2>4. fds' = fds
    BY <1>11 DEF CloseTake
  <2>5. CASE reference' = reference - 1 /\ lost' = lost
    BY <2>1, <2>2, <2>3, <2>4, <2>5, CountTypes DEF Counts
  <2>6. CASE reference' = reference /\ lost' = lost + 1 /\ Goto(t, "close_give")
    BY <2>2, <2>3, <2>4, <2>6, CountTypes DEF Counts
  <2>7. reference # 0
    BY <2>1, CountTypes DEF Counts
  <2> QED BY <1>11, <2>5, <2>6, <2>7 DEF CloseTake, Goto
<1>12. ASSUME NEW t \in AppTasks, CloseDeinit(t)
      PROVE  Counts'
  <2>1. /\ Goto(t, "close_give")
        /\ pc[t] \notin CountedPcs /\ "close_give" \notin CountedPcs
        /\ pc[t] \in PendingPcs /\ "close_give" \notin PendingPcs
    BY <1>12 DEF CloseDeinit, CountedPcs, PendingPcs, OpenPcs
  <2>2. /\ Cardinality(Counted') = Cardinality(Counted)
        /\ Cardinality(Pending') = Cardinality(Pending) - 1
    BY <2>1, CountedMove, PendingMove DEF Goto
  <2>3. reference' = reference /\ fds' = fds /\ lost' = lost
    BY <1>12 DEF CloseDeinit
  <2> QED BY <2>1, <2>2, <2>3, CountTypes DEF Counts
<1>13. ASSUME NEW t \in AppTasks, CloseDeinitFails(t)
      PROVE  Counts'
  <2>1. /\ Goto(t, "close_give")
        /\ pc[t] \notin CountedPcs /\ "close_give" \notin CountedPcs
        /\ pc[t] \in PendingPcs /\ "close_give" \notin PendingPcs
    BY <1>13 DEF CloseDeinitFails, CountedPcs, PendingPcs, OpenPcs
  <2>2. /\ Cardinality(Counted') = Cardinality(Counted)
        /\ Cardinality(Pending') = Cardinality(Pending) - 1
    BY <2>1, CountedMove, PendingMove DEF Goto
  <2>3. reference' = reference + 1 /\ fds' = fds /\ lost' = lost + 1
    BY <1>13 DEF CloseDeinitFails
  <2> QED BY <2>1, <2>2, <2>3, CountTypes DEF Counts
<1>14. ASSUME NEW t \in AppTasks, CloseGive(t)
      PROVE  Counts'
  <2>1. /\ Goto(t, "idle")
        /\ pc[t] \notin CountedPcs /\ "idle" \notin CountedPcs
        /\ pc[t] \notin PendingPcs /\ "idle" \notin PendingPcs
    BY <1>14 DEF CloseGive, CountedPcs, PendingPcs, OpenPcs
  <2>2. /\ Cardinality(Counted') = Cardinality(Counted)
        /\ Cardinality(Pending') = Cardinality(Pending)
    BY <2>1, CountedMove, PendingMove DEF Goto
  <2>3. reference' = reference /\ fds' = fds /\ lost' = lost
    BY <1>14 DEF CloseGive
  <2> QED BY <2>1, <2>2, <2>3, CountTypes DEF Counts
<1>15. ASSUME NEW t \in AppTasks, Reqbufs(t)
      PROVE  Counts'
  BY <1>15, NobodyMoves DEF Counts, Reqbufs, openVars
<1>16. ASSUME NEW t \in AppTasks, StreamOn(t)
      PROVE  Counts'
  BY <1>16, NobodyMoves DEF Counts, StreamOn, openVars
<1>17. ASSUME NEW t \in AppTasks, StreamOff(t)
      PROVE  Counts'
  BY <1>17, NobodyMoves DEF Counts, StreamOff, openVars
<1>18. ASSUME NEW t \in AppTasks, StreamOffFails(t)
      PROVE  Counts'
  BY <1>18, NobodyMoves DEF Counts, StreamOffFails, openVars
<1>19. ASSUME NEW t \in AppTasks, Subscribe(t)
      PROVE  Counts'
  BY <1>19, NobodyMoves DEF Counts, Subscribe, openVars
<1>20. ASSUME NEW t \in AppTasks, StartListener(t)
      PROVE  Counts'
  <2>1. \A u \in AppTasks : pc'[u] = pc[u]
    BY <1>20, DeviceAssumption DEF TypeOK, StartListener, Goto
  <2> QED BY <1>20, <2>1, NobodyMoves DEF Counts, StartListener, openVars
<1>21. ASSUME NEW t \in AppTasks, SetEventCallback(t)
      PROVE  Counts'
  BY <1>21, NobodyMoves DEF Counts, SetEventCallback, openVars
<1>22. ASSUME NEW t \in AppTasks, Unsubscribe(t)
      PROVE  Counts'
  BY <1>22, NobodyMoves DEF Counts, Unsubscribe, openVars
<1>23. CASE GetEvent(Listener)
  <2>1. \A u \in AppTasks : pc'[u] = pc[u]
    BY <1>23, DeviceAssumption DEF TypeOK, GetEvent, Goto
  <2> QED BY <1>23, <2>1, NobodyMoves DEF Counts, GetEvent, openVars
<1>24. CASE ReceiveEvent(Listener)
  <2>1. \A u \in AppTasks : pc'[u] = pc[u]
    BY <1>24, DeviceAssumption DEF TypeOK, ReceiveEvent, Goto
  <2> QED BY <1>24, <2>1, NobodyMoves DEF Counts, ReceiveEvent, openVars
<1>25. CASE Restart(Listener)
  BY <1>25, NobodyMoves DEF Counts, Restart, openVars
<1>26. CASE RestartFails(Listener)
  BY <1>26, NobodyMoves DEF Counts, RestartFails, openVars
<1>27. CASE OnErrorDisable
  BY <1>27, NobodyMoves DEF Counts, OnErrorDisable, openVars
<1>28. CASE OnErrorReport
  BY <1>28, NobodyMoves DEF Counts, OnErrorReport, openVars
<1>29. CASE UNCHANGED vars
  BY <1>29, NobodyMoves DEF Counts, vars, openVars
<1> QED
  BY <1>1, <1>2, <1>3, <1>4, <1>5, <1>6, <1>7, <1>8, <1>9, <1>10, <1>11, <1>12, <1>13,
     <1>14, <1>15, <1>16, <1>17, <1>18, <1>19, <1>20, <1>21, <1>22, <1>23, <1>24, <1>25,
     <1>26, <1>27, <1>28, <1>29
     DEF Next, ObjectNext, OpenNext, CloseNext, StreamNext, EventNext, ListenerNext

-------------------------------------------------------------------------------
(* Types and calls *)

LEMMA Bounded ==
    ASSUME Counts', reference' \in Int, fds' \in Nat, lost' \in Nat
    PROVE  reference' \in 0 .. MaxReference /\ fds' \in 0 .. MaxReference /\ lost' \in 0 .. MaxReference
<1>1. IsFiniteSet(Counted') /\ IsFiniteSet(Pending')
  BY DeviceAssumption, FS_Subset DEF Counted, Pending, Among
<1>2. Counted' \subseteq Pending'
  BY DEF Counted, Pending, Among, CountedPcs, PendingPcs, OpenPcs
<1>3. /\ Cardinality(Counted') \in Nat /\ Cardinality(Pending') \in Nat
      /\ Cardinality(Counted') <= Cardinality(Pending')
  BY <1>1, <1>2, FS_CardinalityType, FS_Subset
<1> QED BY <1>3, DeviceAssumption DEF Counts

(* The queue when an event enters it, at the expense of the oldest if it is full. *)
LEMMA EventEnters ==
    ASSUME TypeOK, NEW e \in Events,
           queued' = Append(IF Full(queued) THEN Tail(queued) ELSE queued, e)
    PROVE  /\ queued' \in Seq(Events) /\ Len(queued') <= EventQueueSize
           /\ Len(queued') \in 1 .. Len(queued) + 1 /\ queued'[Len(queued')] = e
           /\ \E k \in {0, 1} : \A i \in 1 .. Len(queued') - 1 :
                  i + k \in 1 .. Len(queued) /\ queued'[i] = queued[i + k]
<1> DEFINE q == IF Full(queued) THEN Tail(queued) ELSE queued
<1>1. queued \in Seq(Events) /\ Len(queued) <= EventQueueSize /\ Len(queued) \in Nat
  BY LenProperties DEF TypeOK
<1>2. \E k \in {0, 1} : /\ q \in Seq(Events) /\ Len(q) = Len(queued) - k /\ Len(q) < EventQueueSize
                        /\ \A i \in 1 .. Len(q) : q[i] = queued[i + k]
  <2>1. CASE Full(queued)
    <3>1. queued # <<>>
      BY <1>1, <2>1, DeviceAssumption DEF Full
    <3>2. /\ q \in Seq(Events) /\ Len(q) = Len(queued) - 1 /\ Len(q) < EventQueueSize
          /\ \A i \in 1 .. Len(q) : q[i] = queued[i + 1]
      BY <1>1, <2>1, <3>1, HeadTailProperties DEF Full
    <3> HIDE DEF q
    <3> QED BY <3>2
  <2>2. CASE ~Full(queued)
    <3>1. /\ q \in Seq(Events) /\ Len(q) = Len(queued) - 0 /\ Len(q) < EventQueueSize
          /\ \A i \in 1 .. Len(q) : q[i] = queued[i + 0]
      BY <1>1, <2>2, DeviceAssumption DEF Full
    <3> HIDE DEF q
    <3> QED BY <3>1
  <2> QED BY <2>1, <2>2
<1>3. queued' = Append(q, e)
  OBVIOUS
<1> HIDE DEF q
<1>4. PICK k \in {0, 1} : /\ q \in Seq(Events) /\ Len(q) = Len(queued) - k /\ Len(q) < EventQueueSize
                          /\ \A i \in 1 .. Len(q) : q[i] = queued[i + k]
  BY <1>2
<1>5. /\ queued' \in Seq(Events) /\ Len(queued') = Len(q) + 1 /\ queued'[Len(q) + 1] = e
      /\ \A i \in 1 .. Len(q) : queued'[i] = q[i]
  <2>1. q \in Seq(Events)
    BY <1>4
  <2>2. /\ Append(q, e) \in Seq(Events) /\ Len(Append(q, e)) = Len(q) + 1
        /\ Append(q, e)[Len(q) + 1] = e
        /\ \A i \in 1 .. Len(q) : Append(q, e)[i] = q[i]
    BY <2>1, AppendProperties
  <2> QED BY <1>3, <2>2
<1>6. Len(q) \in Nat
  BY <1>4, LenProperties
<1>7. \A i \in 1 .. Len(queued') - 1 : i + k \in 1 .. Len(queued) /\ queued'[i] = queued[i + k]
  BY <1>1, <1>4, <1>5, <1>6
<1> QED BY <1>1, <1>4, <1>5, <1>6, <1>7, DeviceAssumption

(* The queue when its oldest event is received. *)
LEMMA EventLeaves ==
    ASSUME TypeOK, queued # <<>>, queued' = Tail(queued)
    PROVE  /\ queued' \in Seq(Events) /\ Len(queued') <= EventQueueSize
           /\ Head(queued) \in Events /\ Head(queued) = queued[1] /\ 1 \in 1 .. Len(queued)
           /\ Len(queued') = Len(queued) - 1 /\ Len(queued) \in Nat
           /\ \A i \in 1 .. Len(queued') : i + 1 \in 1 .. Len(queued) /\ queued'[i] = queued[i + 1]
<1>1. queued \in Seq(Events) /\ Len(queued) <= EventQueueSize /\ Len(queued) \in Nat
  BY LenProperties DEF TypeOK
<1>2. /\ queued' \in Seq(Events) /\ Len(queued') = Len(queued) - 1
      /\ Head(queued) \in Events /\ Head(queued) = queued[1] /\ Len(queued) > 0
      /\ \A i \in 1 .. Len(queued') : queued'[i] = queued[i + 1]
  BY <1>1, HeadTailProperties, LenProperties, EmptySeq
<1> QED BY <1>1, <1>2, DeviceAssumption

(* The events. *)
LEMMA EventTypes ==
    /\ \A n \in Nat : Event(DISABLED, n) \in Events /\ Event(CSI_ERROR, n) \in Events
    /\ Event(UNSUBSCRIBED, 0) \in Events
    /\ \A e \in Events : e.sequence \in Nat
BY DEF Event, Events, DISABLED, CSI_ERROR, UNSUBSCRIBED

(* A task that moves is at a step of a call. *)
LEMMA PcTypes ==
    ASSUME TypeOK, NEW t \in AppTasks \cup {Listener}, NEW q \in Steps, Goto(t, q)
    PROVE  pc' \in [AppTasks \cup {Listener} -> Steps]
BY DEF TypeOK, Steps, Goto

(* Every step keeps the types. *)
LEMMA TypesStep ==
    ASSUME TypeOK, Calls, Counts, Hardware, [Next]_vars
    PROVE  TypeOK'
<1>1. ASSUME NEW t \in AppTasks, Create(t)
      PROVE  TypeOK'
  <2>1. reference' \in 0 .. MaxReference
    BY <1>1, DeviceAssumption DEF Create
  <2> QED BY <1>1, <2>1 DEF TypeOK, Create, streamVars, eventVars, heardVars
<1>2. ASSUME NEW t \in AppTasks, Deinit(t)
      PROVE  TypeOK'
  <2>1. pc' \in [AppTasks \cup {Listener} -> Steps]
    <3>1. Goto(t, "deinit_sensor")
      BY <1>2 DEF Deinit, Goto
    <3>2. "deinit_sensor" \in Steps
      BY DEF Steps, OpenPcs, ClosePcs, DeinitPcs
    <3> QED BY <3>1, <3>2, PcTypes
  <2> QED
    BY <1>2, <2>1
       DEF TypeOK, Deinit, objectVars, openVars, streamVars, eventVars, heardVars, Steps
<1>3. ASSUME NEW t \in AppTasks, DeinitSensor(t)
      PROVE  TypeOK'
  <2>1. pc' \in [AppTasks \cup {Listener} -> Steps]
    <3>1. Goto(t, "deinit_destroy")
      BY <1>3 DEF DeinitSensor, Goto
    <3>2. "deinit_destroy" \in Steps
      BY DEF Steps, OpenPcs, ClosePcs, DeinitPcs
    <3> QED BY <3>1, <3>2, PcTypes
  <2>2. sensor' \in BOOLEAN
    BY <1>3 DEF DeinitSensor
  <2> QED
    BY <1>3, <2>1, <2>2
       DEF TypeOK, DeinitSensor, openVars, streamVars, eventVars, heardVars, Steps
<1>4. ASSUME NEW t \in AppTasks, Destroy(t)
      PROVE  TypeOK'
  <2>1. pc' \in [AppTasks \cup {Listener} -> Steps]
    <3>1. Goto(t, "idle")
      BY <1>4 DEF Destroy, Goto
    <3>2. "idle" \in Steps
      BY DEF Steps, OpenPcs, ClosePcs, DeinitPcs
    <3> QED BY <3>1, <3>2, PcTypes
  <2> QED
    BY <1>4, <2>1
       DEF TypeOK, Destroy, openVars, streamVars, eventVars, heardVars, Steps
<1>5. ASSUME NEW t \in AppTasks, Open(t)
      PROVE  TypeOK'
  <2>1. pc' \in [AppTasks \cup {Listener} -> Steps]
    <3>1. Goto(t, "open_take")
      BY <1>5 DEF Open, Goto
    <3>2. "open_take" \in Steps
      BY DEF Steps, OpenPcs, ClosePcs, DeinitPcs
    <3> QED BY <3>1, <3>2, PcTypes
  <2> QED
    BY <1>5, <2>1
       DEF TypeOK, Open, objectVars, openVars, streamVars, eventVars, heardVars, Steps
<1>6. ASSUME NEW t \in AppTasks, OpenTake(t)
      PROVE  TypeOK'
  <2>1. reference' \in Int /\ fds' \in Nat /\ lost' \in Nat
    BY <1>6, CountTypes DEF OpenTake
  <2>2. reference' \in 0 .. MaxReference /\ fds' \in 0 .. MaxReference /\ lost' \in 0 .. MaxReference
    BY <1>6, <2>1, CountsStep, Bounded DEF Next, OpenNext, CloseNext
  <2>3. pc' \in [AppTasks \cup {Listener} -> Steps]
    <3>1. Goto(t, "open_init") \/ Goto(t, "open_give")
      BY <1>6 DEF OpenTake, Goto
    <3>2. {"open_init", "open_give"} \subseteq Steps
      BY DEF Steps, OpenPcs, ClosePcs, DeinitPcs
    <3> QED BY <3>1, <3>2, PcTypes
  <2> QED
    BY <1>6, <2>1, <2>2, <2>3
       DEF TypeOK, OpenTake, objectVars, streamVars, eventVars, heardVars, Steps
<1>7. ASSUME NEW t \in AppTasks, OpenInit(t)
      PROVE  TypeOK'
  <2>1. <<>> \in Seq(Events) /\ Len(<<>>) <= EventQueueSize
    BY EmptySeq, DeviceAssumption
  <2>2. pc' \in [AppTasks \cup {Listener} -> Steps]
    <3>1. Goto(t, "open_give")
      BY <1>7 DEF OpenInit, Goto
    <3>2. "open_give" \in Steps
      BY DEF Steps, OpenPcs, ClosePcs, DeinitPcs
    <3> QED BY <3>1, <3>2, PcTypes
  <2>3. inited' \in BOOLEAN /\ allocated' \in BOOLEAN /\ event_sub' \in BOOLEAN /\ event_queue' \in BOOLEAN
    BY <1>7 DEF OpenInit, DeleteQueue
  <2> QED
    BY <1>7, <2>1, <2>2, <2>3
       DEF TypeOK, OpenInit, DeleteQueue, objectVars, heardVars, Steps
<1>8. ASSUME NEW t \in AppTasks, OpenInitFails(t)
      PROVE  TypeOK'
  <2>1. reference' \in Int /\ fds' \in Nat /\ lost' \in Nat
    BY <1>8, CountTypes DEF OpenInitFails
  <2>2. reference' \in 0 .. MaxReference /\ fds' \in 0 .. MaxReference /\ lost' \in 0 .. MaxReference
    BY <1>8, <2>1, CountsStep, Bounded DEF Next, OpenNext, CloseNext
  <2>3. pc' \in [AppTasks \cup {Listener} -> Steps]
    <3>1. Goto(t, "idle")
      BY <1>8 DEF OpenInitFails, Goto
    <3>2. "idle" \in Steps
      BY DEF Steps, OpenPcs, ClosePcs, DeinitPcs
    <3> QED BY <3>1, <3>2, PcTypes
  <2> QED
    BY <1>8, <2>1, <2>2, <2>3
       DEF TypeOK, OpenInitFails, objectVars, streamVars, eventVars, heardVars, Steps
<1>9. ASSUME NEW t \in AppTasks, OpenGive(t)
      PROVE  TypeOK'
  <2>1. reference' \in Int /\ fds' \in Nat /\ lost' \in Nat
    BY <1>9, CountTypes DEF OpenGive
  <2>2. reference' \in 0 .. MaxReference /\ fds' \in 0 .. MaxReference /\ lost' \in 0 .. MaxReference
    BY <1>9, <2>1, CountsStep, Bounded DEF Next, OpenNext, CloseNext
  <2>3. pc' \in [AppTasks \cup {Listener} -> Steps]
    <3>1. Goto(t, "idle")
      BY <1>9 DEF OpenGive, Goto
    <3>2. "idle" \in Steps
      BY DEF Steps, OpenPcs, ClosePcs, DeinitPcs
    <3> QED BY <3>1, <3>2, PcTypes
  <2> QED
    BY <1>9, <2>1, <2>2, <2>3
       DEF TypeOK, OpenGive, objectVars, streamVars, eventVars, heardVars, Steps
<1>10. ASSUME NEW t \in AppTasks, Close(t)
      PROVE  TypeOK'
  <2>1. reference' \in Int /\ fds' \in Nat /\ lost' \in Nat
    BY <1>10, CountTypes DEF Close
  <2>2. reference' \in 0 .. MaxReference /\ fds' \in 0 .. MaxReference /\ lost' \in 0 .. MaxReference
    BY <1>10, <2>1, CountsStep, Bounded DEF Next, OpenNext, CloseNext
  <2>3. pc' \in [AppTasks \cup {Listener} -> Steps]
    <3>1. Goto(t, "close_take")
      BY <1>10 DEF Close, Goto
    <3>2. "close_take" \in Steps
      BY DEF Steps, OpenPcs, ClosePcs, DeinitPcs
    <3> QED BY <3>1, <3>2, PcTypes
  <2> QED
    BY <1>10, <2>1, <2>2, <2>3
       DEF TypeOK, Close, objectVars, streamVars, eventVars, heardVars, Steps
<1>11. ASSUME NEW t \in AppTasks, CloseTake(t)
      PROVE  TypeOK'
  <2>1. reference' \in Int /\ fds' \in Nat /\ lost' \in Nat
    BY <1>11, CountTypes DEF CloseTake
  <2>2. reference' \in 0 .. MaxReference /\ fds' \in 0 .. MaxReference /\ lost' \in 0 .. MaxReference
    BY <1>11, <2>1, CountsStep, Bounded DEF Next, OpenNext, CloseNext
  <2>3. pc' \in [AppTasks \cup {Listener} -> Steps]
    <3>1. Goto(t, "close_deinit") \/ Goto(t, "close_give")
      BY <1>11 DEF CloseTake, Goto
    <3>2. {"close_deinit", "close_give"} \subseteq Steps
      BY DEF Steps, OpenPcs, ClosePcs, DeinitPcs
    <3> QED BY <3>1, <3>2, PcTypes
  <2> QED
    BY <1>11, <2>1, <2>2, <2>3
       DEF TypeOK, CloseTake, objectVars, streamVars, eventVars, heardVars, Steps
<1>12. ASSUME NEW t \in AppTasks, CloseDeinit(t)
      PROVE  TypeOK'
  <2>1. <<>> \in Seq(Events) /\ Len(<<>>) <= EventQueueSize
    BY EmptySeq, DeviceAssumption
  <2>2. power' = 0
    BY <1>12 DEF CloseDeinit, Hardware
  <2>3. pc' \in [AppTasks \cup {Listener} -> Steps]
    <3>1. Goto(t, "close_give")
      BY <1>12 DEF CloseDeinit, Goto
    <3>2. "close_give" \in Steps
      BY DEF Steps, OpenPcs, ClosePcs, DeinitPcs
    <3> QED BY <3>1, <3>2, PcTypes
  <2>4. inited' \in BOOLEAN /\ allocated' \in BOOLEAN /\ started' \in BOOLEAN /\ is_event_subscribed' \in BOOLEAN /\ event_queue' \in BOOLEAN
    BY <1>12 DEF CloseDeinit, DeleteQueue
  <2> QED
    BY <1>12, <2>1, <2>2, <2>3, <2>4
       DEF TypeOK, CloseDeinit, DeleteQueue, objectVars, heardVars, Steps
<1>13. ASSUME NEW t \in AppTasks, CloseDeinitFails(t)
      PROVE  TypeOK'
  <2>1. reference' \in Int /\ fds' \in Nat /\ lost' \in Nat
    BY <1>13, CountTypes DEF CloseDeinitFails
  <2>2. reference' \in 0 .. MaxReference /\ fds' \in 0 .. MaxReference /\ lost' \in 0 .. MaxReference
    BY <1>13, <2>1, CountsStep, Bounded DEF Next, OpenNext, CloseNext
  <2>3. <<>> \in Seq(Events) /\ Len(<<>>) <= EventQueueSize
    BY EmptySeq, DeviceAssumption
  <2>4. pc' \in [AppTasks \cup {Listener} -> Steps]
    <3>1. Goto(t, "close_give")
      BY <1>13 DEF CloseDeinitFails, Goto
    <3>2. "close_give" \in Steps
      BY DEF Steps, OpenPcs, ClosePcs, DeinitPcs
    <3> QED BY <3>1, <3>2, PcTypes
  <2>5. is_event_subscribed' \in BOOLEAN /\ event_queue' \in BOOLEAN
    BY <1>13 DEF CloseDeinitFails, DeleteQueue
  <2> QED
    BY <1>13, <2>1, <2>2, <2>3, <2>4, <2>5
       DEF TypeOK, CloseDeinitFails, DeleteQueue, objectVars, streamVars, heardVars, Steps
<1>14. ASSUME NEW t \in AppTasks, CloseGive(t)
      PROVE  TypeOK'
  <2>1. pc' \in [AppTasks \cup {Listener} -> Steps]
    <3>1. Goto(t, "idle")
      BY <1>14 DEF CloseGive, Goto
    <3>2. "idle" \in Steps
      BY DEF Steps, OpenPcs, ClosePcs, DeinitPcs
    <3> QED BY <3>1, <3>2, PcTypes
  <2> QED
    BY <1>14, <2>1
       DEF TypeOK, CloseGive, objectVars, streamVars, eventVars, heardVars, Steps
<1>15. ASSUME NEW t \in AppTasks, Reqbufs(t)
      PROVE  TypeOK'
  <2> QED BY <1>15 DEF TypeOK, Reqbufs, objectVars, openVars, eventVars, heardVars
<1>16. ASSUME NEW t \in AppTasks, StreamOn(t)
      PROVE  TypeOK'
  <2> QED BY <1>16 DEF TypeOK, StreamOn, StartController, objectVars, openVars, eventVars
<1>17. ASSUME NEW t \in AppTasks, StreamOff(t)
      PROVE  TypeOK'
  <2> QED BY <1>17 DEF TypeOK, StreamOff, objectVars, openVars, eventVars, heardVars
<1>18. ASSUME NEW t \in AppTasks, StreamOffFails(t)
      PROVE  TypeOK'
  <2> QED BY <1>18 DEF TypeOK, StreamOffFails, objectVars, openVars, eventVars, heardVars
<1>19. ASSUME NEW t \in AppTasks, Subscribe(t)
      PROVE  TypeOK'
  <2> QED BY <1>19 DEF TypeOK, Subscribe, objectVars, openVars, streamVars
<1>20. ASSUME NEW t \in AppTasks, StartListener(t)
      PROVE  TypeOK'
  <2>1. pc' \in [AppTasks \cup {Listener} -> Steps]
    <3>1. Goto(Listener, "loop")
      BY <1>20 DEF StartListener, Goto
    <3>2. "loop" \in Steps
      BY DEF Steps, OpenPcs, ClosePcs, DeinitPcs
    <3> QED BY <3>1, <3>2, PcTypes
  <2> QED
    BY <1>20, <2>1
       DEF TypeOK, StartListener, objectVars, openVars, streamVars, eventVars, heardVars,
           Steps
<1>21. ASSUME NEW t \in AppTasks, SetEventCallback(t)
      PROVE  TypeOK'
  <2> QED BY <1>21 DEF TypeOK, SetEventCallback, objectVars, openVars, streamVars, heardVars
<1>22. ASSUME NEW t \in AppTasks, Unsubscribe(t)
      PROVE  TypeOK'
  <2>1. queued' \in Seq(Events) /\ Len(queued') <= EventQueueSize
    BY <1>22, EventTypes, DeviceAssumption DEF Unsubscribe
  <2> QED
    BY <1>22, <2>1
       DEF TypeOK, Unsubscribe, objectVars, openVars, streamVars, heardVars
<1>23. CASE GetEvent(Listener)
  <2>1. pc' \in [AppTasks \cup {Listener} -> Steps]
    <3>1. Goto(Listener, "wait")
      BY <1>23 DEF GetEvent, Goto
    <3>2. "wait" \in Steps
      BY DEF Steps, OpenPcs, ClosePcs, DeinitPcs
    <3> QED BY <3>1, <3>2, PcTypes
  <2> QED
    BY <1>23, <2>1
       DEF TypeOK, GetEvent, objectVars, openVars, streamVars, eventVars, heardVars, Steps
<1>24. CASE ReceiveEvent(Listener)
  <2>1. queued' \in Seq(Events) /\ Len(queued') <= EventQueueSize /\ Head(queued).sequence \in Nat
    BY <1>24, EventLeaves, EventTypes DEF ReceiveEvent
  <2>2. pc' \in [AppTasks \cup {Listener} -> Steps]
    <3>1. Goto(Listener, "out") \/ Goto(Listener, "loop")
      BY <1>24 DEF ReceiveEvent, Goto
    <3>2. {"out", "loop"} \subseteq Steps
      BY DEF Steps, OpenPcs, ClosePcs, DeinitPcs
    <3> QED BY <3>1, <3>2, PcTypes
  <2> QED
    BY <1>24, <2>1, <2>2
       DEF TypeOK, ReceiveEvent, objectVars, openVars, streamVars, Steps
<1>25. CASE Restart(Listener)
  <2> QED BY <1>25 DEF TypeOK, Restart, objectVars, openVars, eventVars
<1>26. CASE RestartFails(Listener)
  <2>1. ctlr' \in BOOLEAN
    BY <1>26 DEF RestartFails
  <2> QED
    BY <1>26, <2>1
       DEF TypeOK, RestartFails, objectVars, openVars, eventVars, heardVars
<1>27. CASE OnErrorDisable
  <2>1. Event(DISABLED, sequence + 1) \in Events
    BY EventTypes DEF TypeOK
  <2>2. queued' \in Seq(Events) /\ Len(queued') <= EventQueueSize
    BY <1>27, <2>1, EventEnters DEF OnErrorDisable
  <2>3. intr' \in BOOLEAN
    BY <1>27 DEF OnErrorDisable
  <2> QED
    BY <1>27, <2>1, <2>2, <2>3
       DEF TypeOK, OnErrorDisable, objectVars, openVars, heardVars
<1>28. CASE OnErrorReport
  <2>1. Event(CSI_ERROR, sequence + 1) \in Events
    BY EventTypes DEF TypeOK
  <2>2. queued' \in Seq(Events) /\ Len(queued') <= EventQueueSize
    <3>1. CASE Full(queued)
      BY <1>28, <3>1 DEF TypeOK, OnErrorReport
    <3>2. CASE ~Full(queued)
      BY <1>28, <3>2, <2>1, EventEnters DEF OnErrorReport
    <3> QED BY <3>1, <3>2
  <2> QED
    BY <1>28, <2>1, <2>2
       DEF TypeOK, OnErrorReport, objectVars, openVars, streamVars, heardVars
<1>29. CASE UNCHANGED vars
  BY <1>29 DEF TypeOK, vars, objectVars, openVars, streamVars, eventVars, heardVars
<1> QED
  BY <1>1, <1>2, <1>3, <1>4, <1>5, <1>6, <1>7, <1>8, <1>9, <1>10, <1>11, <1>12, <1>13,
     <1>14, <1>15, <1>16, <1>17, <1>18, <1>19, <1>20, <1>21, <1>22, <1>23, <1>24, <1>25,
     <1>26, <1>27, <1>28, <1>29
     DEF Next, ObjectNext, OpenNext, CloseNext, StreamNext, EventNext, ListenerNext

(* Which calls exclude each other, and who holds the mutex. *)
LEMMA CallsStep ==
    ASSUME TypeOK, Calls, Counts, [Next]_vars
    PROVE  Calls'
<1>1. ASSUME NEW t \in AppTasks, Create(t)
      PROVE  Calls'
  <2>1. \A u \in AppTasks : pc[u] \notin OpenPcs \cup ClosePcs \cup DeinitPcs
    BY <1>1 DEF Create, Quiet, Among
  <2> QED BY <1>1, <2>1 DEF Calls, Create
<1>2. ASSUME NEW t \in AppTasks, Deinit(t)
      PROVE  Calls'
  <2>1. \A u \in AppTasks : pc[u] \notin OpenPcs \cup ClosePcs \cup DeinitPcs
    BY <1>2 DEF Deinit, Quiet, Among
  <2> QED
    BY <1>2, <2>1
       DEF TypeOK, Calls, Deinit, Goto, HolderPcs, OpenPcs, ClosePcs, DeinitPcs, objectVars,
           openVars
<1>3. ASSUME NEW t \in AppTasks, DeinitSensor(t)
      PROVE  Calls'
  BY <1>3, DeviceAssumption
     DEF TypeOK, Calls, DeinitSensor, Goto, HolderPcs, OpenPcs, ClosePcs, DeinitPcs,
         openVars
<1>4. ASSUME NEW t \in AppTasks, Destroy(t)
      PROVE  Calls'
  BY <1>4, DeviceAssumption
     DEF TypeOK, Calls, Destroy, Goto, HolderPcs, OpenPcs, ClosePcs, DeinitPcs, openVars
<1>5. ASSUME NEW t \in AppTasks, Open(t)
      PROVE  Calls'
  <2>1. \A u \in AppTasks : pc[u] \notin DeinitPcs
    BY <1>5 DEF Open, Among
  <2> QED
    BY <1>5, <2>1
       DEF TypeOK, Calls, Open, Goto, HolderPcs, OpenPcs, ClosePcs, DeinitPcs, objectVars,
           openVars
<1>6. ASSUME NEW t \in AppTasks, OpenTake(t)
      PROVE  Calls'
  BY <1>6, DeviceAssumption
     DEF TypeOK, Calls, OpenTake, Goto, HolderPcs, OpenPcs, ClosePcs, DeinitPcs, objectVars
<1>7. ASSUME NEW t \in AppTasks, OpenInit(t)
      PROVE  Calls'
  BY <1>7, DeviceAssumption
     DEF TypeOK, Calls, OpenInit, Goto, HolderPcs, OpenPcs, ClosePcs, DeinitPcs, objectVars
<1>8. ASSUME NEW t \in AppTasks, OpenInitFails(t)
      PROVE  Calls'
  BY <1>8, DeviceAssumption
     DEF TypeOK, Calls, OpenInitFails, Goto, HolderPcs, OpenPcs, ClosePcs, DeinitPcs,
         objectVars
<1>9. ASSUME NEW t \in AppTasks, OpenGive(t)
      PROVE  Calls'
  BY <1>9, DeviceAssumption
     DEF TypeOK, Calls, OpenGive, Goto, HolderPcs, OpenPcs, ClosePcs, DeinitPcs, objectVars
<1>10. ASSUME NEW t \in AppTasks, Close(t)
      PROVE  Calls'
  <2>1. \A u \in AppTasks : pc[u] \notin DeinitPcs
    BY <1>10 DEF Close, Among
  <2>2. object
    BY <1>10, CountTypes DEF Close, Calls, Counts
  <2> QED
    BY <1>10, <2>1, <2>2
       DEF TypeOK, Calls, Close, Goto, HolderPcs, OpenPcs, ClosePcs, DeinitPcs, objectVars
<1>11. ASSUME NEW t \in AppTasks, CloseTake(t)
      PROVE  Calls'
  BY <1>11, DeviceAssumption
     DEF TypeOK, Calls, CloseTake, Goto, HolderPcs, OpenPcs, ClosePcs, DeinitPcs, objectVars
<1>12. ASSUME NEW t \in AppTasks, CloseDeinit(t)
      PROVE  Calls'
  BY <1>12, DeviceAssumption
     DEF TypeOK, Calls, CloseDeinit, Goto, HolderPcs, OpenPcs, ClosePcs, DeinitPcs,
         objectVars
<1>13. ASSUME NEW t \in AppTasks, CloseDeinitFails(t)
      PROVE  Calls'
  <2>1. object
    BY <1>13 DEF Calls, CloseDeinitFails, ClosePcs
  <2> QED
    BY <1>13, <2>1, DeviceAssumption
       DEF TypeOK, Calls, CloseDeinitFails, Goto, HolderPcs, OpenPcs, ClosePcs, DeinitPcs,
           objectVars
<1>14. ASSUME NEW t \in AppTasks, CloseGive(t)
      PROVE  Calls'
  BY <1>14, DeviceAssumption
     DEF TypeOK, Calls, CloseGive, Goto, HolderPcs, OpenPcs, ClosePcs, DeinitPcs, objectVars
<1>15. ASSUME NEW t \in AppTasks, Reqbufs(t)
      PROVE  Calls'
  BY <1>15, DeviceAssumption
     DEF TypeOK, Calls, Reqbufs, MayControl, HolderPcs, OpenPcs, ClosePcs, DeinitPcs,
         objectVars, openVars
<1>16. ASSUME NEW t \in AppTasks, StreamOn(t)
      PROVE  Calls'
  BY <1>16, DeviceAssumption
     DEF TypeOK, Calls, StreamOn, MayControl, HolderPcs, OpenPcs, ClosePcs, DeinitPcs,
         objectVars, openVars
<1>17. ASSUME NEW t \in AppTasks, StreamOff(t)
      PROVE  Calls'
  BY <1>17, DeviceAssumption
     DEF TypeOK, Calls, StreamOff, MayControl, HolderPcs, OpenPcs, ClosePcs, DeinitPcs,
         objectVars, openVars
<1>18. ASSUME NEW t \in AppTasks, StreamOffFails(t)
      PROVE  Calls'
  BY <1>18, DeviceAssumption
     DEF TypeOK, Calls, StreamOffFails, MayControl, HolderPcs, OpenPcs, ClosePcs, DeinitPcs,
         objectVars, openVars
<1>19. ASSUME NEW t \in AppTasks, Subscribe(t)
      PROVE  Calls'
  BY <1>19, DeviceAssumption
     DEF TypeOK, Calls, Subscribe, MayControl, HolderPcs, OpenPcs, ClosePcs, DeinitPcs,
         objectVars, openVars
<1>20. ASSUME NEW t \in AppTasks, StartListener(t)
      PROVE  Calls'
  BY <1>20, DeviceAssumption
     DEF TypeOK, Calls, StartListener, Goto, MayControl, HolderPcs, OpenPcs, ClosePcs,
         DeinitPcs, objectVars, openVars
<1>21. ASSUME NEW t \in AppTasks, SetEventCallback(t)
      PROVE  Calls'
  BY <1>21, DeviceAssumption
     DEF TypeOK, Calls, SetEventCallback, MayControl, HolderPcs, OpenPcs, ClosePcs,
         DeinitPcs, objectVars, openVars
<1>22. ASSUME NEW t \in AppTasks, Unsubscribe(t)
      PROVE  Calls'
  BY <1>22, DeviceAssumption
     DEF TypeOK, Calls, Unsubscribe, MayControl, HolderPcs, OpenPcs, ClosePcs, DeinitPcs,
         objectVars, openVars
<1>23. CASE GetEvent(Listener)
  BY <1>23, DeviceAssumption
     DEF TypeOK, Calls, GetEvent, Goto, HolderPcs, OpenPcs, ClosePcs, DeinitPcs, objectVars,
         openVars
<1>24. CASE ReceiveEvent(Listener)
  BY <1>24, DeviceAssumption
     DEF TypeOK, Calls, ReceiveEvent, Goto, HolderPcs, OpenPcs, ClosePcs, DeinitPcs,
         objectVars, openVars
<1>25. CASE Restart(Listener)
  BY <1>25, DeviceAssumption
     DEF TypeOK, Calls, Restart, HolderPcs, OpenPcs, ClosePcs, DeinitPcs, objectVars,
         openVars
<1>26. CASE RestartFails(Listener)
  BY <1>26, DeviceAssumption
     DEF TypeOK, Calls, RestartFails, HolderPcs, OpenPcs, ClosePcs, DeinitPcs, objectVars,
         openVars
<1>27. CASE OnErrorDisable
  BY <1>27, DeviceAssumption
     DEF TypeOK, Calls, OnErrorDisable, HolderPcs, OpenPcs, ClosePcs, DeinitPcs, objectVars,
         openVars
<1>28. CASE OnErrorReport
  BY <1>28, DeviceAssumption
     DEF TypeOK, Calls, OnErrorReport, HolderPcs, OpenPcs, ClosePcs, DeinitPcs, objectVars,
         openVars
<1>29. CASE UNCHANGED vars
  BY <1>29 DEF Calls, vars, objectVars, openVars
<1> QED
  BY <1>1, <1>2, <1>3, <1>4, <1>5, <1>6, <1>7, <1>8, <1>9, <1>10, <1>11, <1>12, <1>13,
     <1>14, <1>15, <1>16, <1>17, <1>18, <1>19, <1>20, <1>21, <1>22, <1>23, <1>24, <1>25,
     <1>26, <1>27, <1>28, <1>29
     DEF Next, ObjectNext, OpenNext, CloseNext, StreamNext, EventNext, ListenerNext

-------------------------------------------------------------------------------
(* The hardware *)

(* A descriptor works, whatever call is half done. *)
LEMMA OpenWorks ==
    ASSUME TypeOK, Calls, Counts, Hardware, fds > 0
    PROVE  object /\ inited
<1>1. reference > 0
  BY CountTypes DEF Counts
<1>2. \A t \in AppTasks : pc[t] # "close_deinit"
  BY <1>1 DEF Hardware
<1>3. ASSUME NEW t \in AppTasks, pc[t] = "open_init" PROVE FALSE
  <2>1. Cardinality(Counted) > 0
    BY <1>3, CountTypes DEF CountedPcs
  <2>2. reference = 1
    BY <1>3 DEF Hardware
  <2> QED BY <2>1, <2>2, CountTypes DEF Counts
<1> QED BY <1>1, <1>2, <1>3 DEF Calls, Hardware

(* The hardware is on, once, while the device is referenced, up to the call that holds
   the mutex. *)
LEMMA HardwareStep ==
    ASSUME TypeOK, Calls, Counts, Hardware, [Next]_vars
    PROVE  Hardware'
<1>1. ASSUME NEW t \in AppTasks, Create(t)
      PROVE  Hardware'
  <2>1. \A u \in AppTasks : pc[u] \notin OpenPcs \cup ClosePcs
    BY <1>1 DEF Create, Quiet, Among
  <2>2. reference = 0 /\ ~inited
    BY <1>1, <2>1 DEF Create, Calls, Hardware, OpenPcs, ClosePcs
  <2> QED BY <1>1, <2>2 DEF Hardware, Create, streamVars
<1>2. ASSUME NEW t \in AppTasks, Deinit(t)
      PROVE  Hardware'
  <2>1. \A u \in AppTasks : pc[u] \notin OpenPcs \cup ClosePcs
    BY <1>2 DEF Deinit, Quiet, Among
  <2>2. \A u \in AppTasks : pc'[u] \notin {"open_init", "close_deinit"}
    BY <1>2, <2>1 DEF TypeOK, Deinit, Goto, OpenPcs, ClosePcs
  <2> QED BY <1>2, <2>1, <2>2 DEF Hardware, Deinit, OpenPcs, ClosePcs, openVars, streamVars
<1>3. ASSUME NEW t \in AppTasks, DeinitSensor(t)
      PROVE  Hardware'
  BY <1>3 DEF TypeOK, DeinitSensor, Hardware, Goto, openVars, streamVars
<1>4. ASSUME NEW t \in AppTasks, Destroy(t)
      PROVE  Hardware'
  BY <1>4 DEF TypeOK, Destroy, Hardware, Goto, openVars, streamVars
<1>5. ASSUME NEW t \in AppTasks, Open(t)
      PROVE  Hardware'
  BY <1>5 DEF TypeOK, Open, Hardware, Goto, openVars, streamVars
<1>6. ASSUME NEW t \in AppTasks, OpenTake(t)
      PROVE  Hardware'
  <2>1. \A u \in AppTasks : pc[u] \notin HolderPcs
    BY <1>6, DeviceAssumption DEF Calls, OpenTake
  <2>2. inited <=> reference > 0
    BY <2>1 DEF Hardware, HolderPcs
  <2>3. reference \in Nat
    BY CountTypes
  <2>4. \A u \in AppTasks : u # t => pc'[u] = pc[u]
    BY <1>6 DEF TypeOK, OpenTake, Goto
  <2>5. CASE reference = 0 /\ ~inited
    <3>1. reference' = 1 /\ UNCHANGED <<inited, power, allocated>> /\ pc'[t] = "open_init"
      BY <1>6, <2>5 DEF TypeOK, OpenTake, Goto, streamVars
    <3> QED BY <2>1, <2>4, <2>5, <3>1 DEF Hardware, HolderPcs
  <2>6. CASE ~(reference = 0 /\ ~inited)
    <3>1. reference' = reference + 1 /\ UNCHANGED <<inited, power, allocated>> /\ pc'[t] = "open_give"
      BY <1>6, <2>6 DEF TypeOK, OpenTake, Goto, streamVars
    <3> QED BY <2>1, <2>2, <2>3, <2>4, <2>6, <3>1 DEF Hardware, HolderPcs
  <2> QED BY <2>5, <2>6
<1>7. ASSUME NEW t \in AppTasks, OpenInit(t)
      PROVE  Hardware'
  <2>1. /\ pc[t] \in HolderPcs /\ \A u \in AppTasks : u # t => pc[u] \notin HolderPcs
        /\ reference \in Nat
    BY <1>7, CountTypes DEF Calls, OpenInit, HolderPcs
  <2>2. /\ pc'[t] \notin {"open_init", "close_deinit"}
        /\ \A u \in AppTasks : u # t => pc'[u] = pc[u]
    BY <1>7 DEF TypeOK, OpenInit, Goto
  <2> QED BY <1>7, <2>1, <2>2 DEF TypeOK, Hardware, OpenInit
<1>8. ASSUME NEW t \in AppTasks, OpenInitFails(t)
      PROVE  Hardware'
  <2>1. /\ pc[t] \in HolderPcs /\ \A u \in AppTasks : u # t => pc[u] \notin HolderPcs
        /\ reference \in Nat
    BY <1>8, CountTypes DEF Calls, OpenInitFails, HolderPcs
  <2>2. /\ pc'[t] \notin {"open_init", "close_deinit"}
        /\ \A u \in AppTasks : u # t => pc'[u] = pc[u]
    BY <1>8 DEF TypeOK, OpenInitFails, Goto
  <2> QED BY <1>8, <2>1, <2>2 DEF TypeOK, Hardware, OpenInitFails, streamVars
<1>9. ASSUME NEW t \in AppTasks, OpenGive(t)
      PROVE  Hardware'
  BY <1>9 DEF TypeOK, OpenGive, Hardware, Goto, streamVars
<1>10. ASSUME NEW t \in AppTasks, Close(t)
      PROVE  Hardware'
  BY <1>10 DEF TypeOK, Close, Hardware, Goto, streamVars
<1>11. ASSUME NEW t \in AppTasks, CloseTake(t)
      PROVE  Hardware'
  <2>1. \A u \in AppTasks : pc[u] \notin HolderPcs
    BY <1>11, DeviceAssumption DEF Calls, CloseTake
  <2>2. inited <=> reference > 0
    BY <2>1 DEF Hardware, HolderPcs
  <2>3. reference \in Nat
    BY CountTypes
  <2>4. \A u \in AppTasks : u # t => pc'[u] = pc[u]
    BY <1>11 DEF TypeOK, CloseTake, Goto
  <2>5. UNCHANGED <<inited, power, allocated>>
    BY <1>11 DEF CloseTake, streamVars
  <2>6. CASE reference = 1 /\ inited /\ ~event_sub
    <3>1. reference' = 0 /\ pc'[t] = "close_deinit"
      BY <1>11, <2>6 DEF TypeOK, CloseTake, Goto
    <3> QED BY <2>1, <2>4, <2>5, <2>6, <3>1 DEF Hardware, HolderPcs
  <2>7. CASE ~(reference = 1 /\ inited /\ ~event_sub)
    <3>1. /\ pc'[t] = "close_give"
          /\ reference' = IF (reference = 1 /\ inited) \/ reference = 0
                           THEN reference ELSE reference - 1
      BY <1>11, <2>7 DEF TypeOK, CloseTake, Goto
    <3>2. reference' > 0 <=> reference > 0
      BY <2>2, <2>3, <3>1
    <3> QED BY <2>1, <2>2, <2>4, <2>5, <3>1, <3>2 DEF Hardware, HolderPcs
  <2> QED BY <2>6, <2>7
<1>12. ASSUME NEW t \in AppTasks, CloseDeinit(t)
      PROVE  Hardware'
  <2>1. /\ pc[t] \in HolderPcs /\ \A u \in AppTasks : u # t => pc[u] \notin HolderPcs
        /\ reference \in Nat
    BY <1>12, CountTypes DEF Calls, CloseDeinit, HolderPcs
  <2>2. /\ pc'[t] \notin {"open_init", "close_deinit"}
        /\ \A u \in AppTasks : u # t => pc'[u] = pc[u]
    BY <1>12 DEF TypeOK, CloseDeinit, Goto
  <2> QED BY <1>12, <2>1, <2>2 DEF TypeOK, Hardware, CloseDeinit
<1>13. ASSUME NEW t \in AppTasks, CloseDeinitFails(t)
      PROVE  Hardware'
  <2>1. /\ pc[t] \in HolderPcs /\ \A u \in AppTasks : u # t => pc[u] \notin HolderPcs
        /\ reference \in Nat
    BY <1>13, CountTypes DEF Calls, CloseDeinitFails, HolderPcs
  <2>2. /\ pc'[t] \notin {"open_init", "close_deinit"}
        /\ \A u \in AppTasks : u # t => pc'[u] = pc[u]
    BY <1>13 DEF TypeOK, CloseDeinitFails, Goto
  <2> QED BY <1>13, <2>1, <2>2 DEF TypeOK, Hardware, CloseDeinitFails, streamVars
<1>14. ASSUME NEW t \in AppTasks, CloseGive(t)
      PROVE  Hardware'
  BY <1>14 DEF TypeOK, CloseGive, Hardware, Goto, streamVars
<1>15. ASSUME NEW t \in AppTasks, Reqbufs(t)
      PROVE  Hardware'
  BY <1>15, OpenWorks DEF Hardware, Reqbufs, MayControl, openVars
<1>16. ASSUME NEW t \in AppTasks, StreamOn(t)
      PROVE  Hardware'
  BY <1>16 DEF TypeOK, StreamOn, Hardware, StartController, openVars
<1>17. ASSUME NEW t \in AppTasks, StreamOff(t)
      PROVE  Hardware'
  BY <1>17 DEF TypeOK, StreamOff, Hardware, openVars
<1>18. ASSUME NEW t \in AppTasks, StreamOffFails(t)
      PROVE  Hardware'
  BY <1>18 DEF TypeOK, StreamOffFails, Hardware, openVars
<1>19. ASSUME NEW t \in AppTasks, Subscribe(t)
      PROVE  Hardware'
  BY <1>19 DEF TypeOK, Subscribe, Hardware, openVars, streamVars
<1>20. ASSUME NEW t \in AppTasks, StartListener(t)
      PROVE  Hardware'
  BY <1>20, DeviceAssumption DEF TypeOK, StartListener, Hardware, Goto, openVars, streamVars
<1>21. ASSUME NEW t \in AppTasks, SetEventCallback(t)
      PROVE  Hardware'
  BY <1>21 DEF TypeOK, SetEventCallback, Hardware, openVars, streamVars
<1>22. ASSUME NEW t \in AppTasks, Unsubscribe(t)
      PROVE  Hardware'
  BY <1>22 DEF TypeOK, Unsubscribe, Hardware, openVars, streamVars
<1>23. CASE GetEvent(Listener)
  BY <1>23, DeviceAssumption DEF TypeOK, GetEvent, Hardware, Goto, openVars, streamVars
<1>24. CASE ReceiveEvent(Listener)
  BY <1>24, DeviceAssumption DEF TypeOK, ReceiveEvent, Hardware, Goto, openVars, streamVars
<1>25. CASE Restart(Listener)
  BY <1>25 DEF TypeOK, Restart, Hardware, openVars
<1>26. CASE RestartFails(Listener)
  BY <1>26 DEF TypeOK, RestartFails, Hardware, openVars
<1>27. CASE OnErrorDisable
  BY <1>27 DEF TypeOK, OnErrorDisable, Hardware, openVars
<1>28. CASE OnErrorReport
  BY <1>28 DEF TypeOK, OnErrorReport, Hardware, openVars, streamVars
<1>29. CASE UNCHANGED vars
  BY <1>29 DEF Hardware, vars, openVars, streamVars
<1> QED
  BY <1>1, <1>2, <1>3, <1>4, <1>5, <1>6, <1>7, <1>8, <1>9, <1>10, <1>11, <1>12, <1>13,
     <1>14, <1>15, <1>16, <1>17, <1>18, <1>19, <1>20, <1>21, <1>22, <1>23, <1>24, <1>25,
     <1>26, <1>27, <1>28, <1>29
     DEF Next, ObjectNext, OpenNext, CloseNext, StreamNext, EventNext, ListenerNext

-------------------------------------------------------------------------------
(* The subscription *)

(* A controller that reports errors keeps its event queue. *)
LEMMA SubscriptionStep ==
    ASSUME TypeOK, Calls, Counts, Hardware, Subscription, [Next]_vars
    PROVE  Subscription'
<1>1. ASSUME NEW t \in AppTasks, Create(t)
      PROVE  Subscription'
  <2>1. ~inited
    <3>1. \A u \in AppTasks : pc[u] \notin OpenPcs \cup ClosePcs
      BY <1>1 DEF Create, Quiet, Among
    <3> QED BY <1>1, <3>1 DEF Create, Calls, Hardware, OpenPcs, ClosePcs
  <2> QED BY <1>1, <2>1 DEF TypeOK, Create, Subscription, streamVars, eventVars
<1>2. ASSUME NEW t \in AppTasks, Deinit(t)
      PROVE  Subscription'
  BY <1>2 DEF TypeOK, Deinit, Subscription, Goto, openVars, streamVars, eventVars
<1>3. ASSUME NEW t \in AppTasks, DeinitSensor(t)
      PROVE  Subscription'
  BY <1>3 DEF TypeOK, DeinitSensor, Subscription, Goto, openVars, streamVars, eventVars
<1>4. ASSUME NEW t \in AppTasks, Destroy(t)
      PROVE  Subscription'
  BY <1>4 DEF TypeOK, Destroy, Subscription, Goto, openVars, streamVars, eventVars
<1>5. ASSUME NEW t \in AppTasks, Open(t)
      PROVE  Subscription'
  BY <1>5 DEF TypeOK, Open, Subscription, Goto, openVars, streamVars, eventVars
<1>6. ASSUME NEW t \in AppTasks, OpenTake(t)
      PROVE  Subscription'
  BY <1>6 DEF TypeOK, OpenTake, Subscription, Goto, streamVars, eventVars
<1>7. ASSUME NEW t \in AppTasks, OpenInit(t)
      PROVE  Subscription'
  <2>1. ~inited
    BY <1>7 DEF OpenInit, Hardware
  <2> QED BY <1>7, <2>1 DEF TypeOK, OpenInit, Subscription, DeleteQueue, Goto
<1>8. ASSUME NEW t \in AppTasks, OpenInitFails(t)
      PROVE  Subscription'
  BY <1>8 DEF TypeOK, OpenInitFails, Subscription, Goto, streamVars, eventVars
<1>9. ASSUME NEW t \in AppTasks, OpenGive(t)
      PROVE  Subscription'
  BY <1>9 DEF TypeOK, OpenGive, Subscription, Goto, streamVars, eventVars
<1>10. ASSUME NEW t \in AppTasks, Close(t)
      PROVE  Subscription'
  BY <1>10 DEF TypeOK, Close, Subscription, Goto, streamVars, eventVars
<1>11. ASSUME NEW t \in AppTasks, CloseTake(t)
      PROVE  Subscription'
  <2>1. pc'[t] = "close_deinit" => ~event_sub
    BY <1>11 DEF TypeOK, CloseTake, Goto
  <2> QED BY <1>11, <2>1 DEF TypeOK, CloseTake, Subscription, Goto, streamVars, eventVars
<1>12. ASSUME NEW t \in AppTasks, CloseDeinit(t)
      PROVE  Subscription'
  BY <1>12 DEF TypeOK, CloseDeinit, Subscription, DeleteQueue, Goto
<1>13. ASSUME NEW t \in AppTasks, CloseDeinitFails(t)
      PROVE  Subscription'
  BY <1>13 DEF TypeOK, CloseDeinitFails, Subscription, DeleteQueue, Goto, streamVars
<1>14. ASSUME NEW t \in AppTasks, CloseGive(t)
      PROVE  Subscription'
  BY <1>14 DEF TypeOK, CloseGive, Subscription, Goto, streamVars, eventVars
<1>15. ASSUME NEW t \in AppTasks, Reqbufs(t)
      PROVE  Subscription'
  BY <1>15 DEF TypeOK, Reqbufs, Subscription, openVars, eventVars
<1>16. ASSUME NEW t \in AppTasks, StreamOn(t)
      PROVE  Subscription'
  BY <1>16, OpenWorks
     DEF TypeOK, StreamOn, Subscription, StartController, MayControl, openVars, eventVars
<1>17. ASSUME NEW t \in AppTasks, StreamOff(t)
      PROVE  Subscription'
  BY <1>17 DEF TypeOK, StreamOff, Subscription, openVars, eventVars
<1>18. ASSUME NEW t \in AppTasks, StreamOffFails(t)
      PROVE  Subscription'
  BY <1>18 DEF TypeOK, StreamOffFails, Subscription, openVars, eventVars
<1>19. ASSUME NEW t \in AppTasks, Subscribe(t)
      PROVE  Subscription'
  <2>1. inited /\ \A u \in AppTasks : pc[u] # "close_deinit"
    BY <1>19, OpenWorks DEF Subscribe, MayControl, Among, ClosePcs
  <2> QED BY <1>19, <2>1 DEF TypeOK, Subscribe, Subscription, openVars, streamVars
<1>20. ASSUME NEW t \in AppTasks, StartListener(t)
      PROVE  Subscription'
  BY <1>20, DeviceAssumption
     DEF TypeOK, StartListener, Subscription, Goto, openVars, streamVars, eventVars
<1>21. ASSUME NEW t \in AppTasks, SetEventCallback(t)
      PROVE  Subscription'
  BY <1>21 DEF TypeOK, SetEventCallback, Subscription, openVars, streamVars
<1>22. ASSUME NEW t \in AppTasks, Unsubscribe(t)
      PROVE  Subscription'
  BY <1>22 DEF TypeOK, Unsubscribe, Subscription, openVars, streamVars
<1>23. CASE GetEvent(Listener)
  BY <1>23, DeviceAssumption
     DEF TypeOK, GetEvent, Subscription, Goto, openVars, streamVars, eventVars
<1>24. CASE ReceiveEvent(Listener)
  BY <1>24, DeviceAssumption
     DEF TypeOK, ReceiveEvent, Subscription, Goto, openVars, streamVars
<1>25. CASE Restart(Listener)
  BY <1>25, OpenWorks DEF TypeOK, Restart, Subscription, MayRestart, openVars, eventVars
<1>26. CASE RestartFails(Listener)
  BY <1>26 DEF TypeOK, RestartFails, Subscription, openVars, eventVars
<1>27. CASE OnErrorDisable
  BY <1>27 DEF TypeOK, OnErrorDisable, Subscription, openVars
<1>28. CASE OnErrorReport
  BY <1>28 DEF TypeOK, OnErrorReport, Subscription, openVars, streamVars
<1>29. CASE UNCHANGED vars
  BY <1>29 DEF Subscription, vars, openVars, streamVars, eventVars
<1> QED
  BY <1>1, <1>2, <1>3, <1>4, <1>5, <1>6, <1>7, <1>8, <1>9, <1>10, <1>11, <1>12, <1>13,
     <1>14, <1>15, <1>16, <1>17, <1>18, <1>19, <1>20, <1>21, <1>22, <1>23, <1>24, <1>25,
     <1>26, <1>27, <1>28, <1>29
     DEF Next, ObjectNext, OpenNext, CloseNext, StreamNext, EventNext, ListenerNext

-------------------------------------------------------------------------------
(* The events *)

(* What the events say when nothing that concerns them changes. *)
LEMMA EventsKept ==
    ASSUME Sequences, EventsExact,
           UNCHANGED <<queued, received, sequence, event_sub, ctlr, on_error, intr, told>>
    PROVE  Sequences' /\ EventsExact'
BY DEF Sequences, EventsExact, Errors

(* The errors of a subscription are in the order they were raised. *)
Ascending ==
    /\ received <= sequence
    /\ \A i \in Errors :
           /\ received < queued[i].sequence /\ queued[i].sequence <= sequence
           /\ \A j \in Errors : i < j => queued[i].sequence < queued[j].sequence

(* They still are when the next one enters the queue and the oldest may go. *)
LEMMA ErrorEnters ==
    ASSUME TypeOK, Sequences, EventsExact, event_sub, NEW e \in Events,
           queued' = Append(IF Full(queued) THEN Tail(queued) ELSE queued, e),
           e.sequence = sequence + 1, sequence' = sequence + 1, received' = received
    PROVE  Ascending'
<1>1. /\ Len(queued') \in 1 .. Len(queued) + 1 /\ queued'[Len(queued')] = e
      /\ Len(queued) \in Nat
  BY EventEnters, LenProperties DEF TypeOK
<1>2. PICK k \in {0, 1} : \A i \in 1 .. Len(queued') - 1 :
                              i + k \in 1 .. Len(queued) /\ queued'[i] = queued[i + k]
  BY EventEnters
<1>3. \A i \in Errors' : \/ i \in 1 .. Len(queued') - 1 /\ i + k \in Errors /\ queued'[i] = queued[i + k]
                         \/ i = Len(queued') /\ queued'[i] = e
  <2> SUFFICES ASSUME NEW i \in Errors', i # Len(queued')
               PROVE  i \in 1 .. Len(queued') - 1 /\ i + k \in Errors /\ queued'[i] = queued[i + k]
    BY <1>1
  <2>1. i \in 1 .. Len(queued') /\ queued'[i].type # UNSUBSCRIBED
    BY DEF Errors
  <2>2. i \in 1 .. Len(queued') - 1
    BY <1>1, <2>1
  <2> QED BY <1>2, <2>1, <2>2 DEF Errors
<1>4. \A i \in Errors : queued[i].sequence \in Nat
  BY EventTypes DEF TypeOK, Errors
<1>5. \A i \in Errors : received < queued[i].sequence /\ queued[i].sequence < sequence + 1
  BY <1>4 DEF Sequences, EventsExact, TypeOK
<1>6. received < sequence + 1 /\ sequence + 1 \in Nat
  BY DEF Sequences, TypeOK
<1>7. \A i \in Errors' : received' < queued'[i].sequence /\ queued'[i].sequence <= sequence'
  BY <1>3, <1>4, <1>5, <1>6
<1>8. ASSUME NEW i \in Errors', NEW j \in Errors', i < j
      PROVE  queued'[i].sequence < queued'[j].sequence
  <2>1. Errors' \subseteq 1 .. Len(queued')
    BY DEF Errors
  <2>2. i # Len(queued')
    BY <1>1, <1>8, <2>1
  <2>3. i + k \in Errors /\ queued'[i] = queued[i + k]
    BY <1>3, <2>2
  <2>4. CASE j = Len(queued')
    BY <1>1, <1>5, <2>3, <2>4
  <2>5. CASE j # Len(queued')
    <3>1. j + k \in Errors /\ queued'[j] = queued[j + k] /\ i + k < j + k
      BY <1>1, <1>3, <1>8, <2>1, <2>5
    <3> QED BY <2>3, <3>1 DEF EventsExact
  <2> QED BY <2>4, <2>5
<1>9. received' <= sequence'
  BY <1>6 DEF TypeOK
<1> QED BY <1>7, <1>8, <1>9 DEF Ascending

(* The error events stay in order, and the one that says the interrupt is disabled stays
   in the queue until the listener knows. *)
LEMMA EventsStep ==
    ASSUME TypeOK, Calls, Counts, Hardware, Subscription, Sequences, EventsExact, [Next]_vars
    PROVE  Sequences' /\ EventsExact'
<1>1. ASSUME NEW t \in AppTasks, Create(t)
      PROVE  Sequences' /\ EventsExact'
  BY <1>1, EventsKept DEF Create, streamVars, eventVars, heardVars
<1>2. ASSUME NEW t \in AppTasks, Deinit(t)
      PROVE  Sequences' /\ EventsExact'
  BY <1>2, EventsKept DEF Deinit, streamVars, eventVars, heardVars
<1>3. ASSUME NEW t \in AppTasks, DeinitSensor(t)
      PROVE  Sequences' /\ EventsExact'
  BY <1>3, EventsKept DEF DeinitSensor, streamVars, eventVars, heardVars
<1>4. ASSUME NEW t \in AppTasks, Destroy(t)
      PROVE  Sequences' /\ EventsExact'
  BY <1>4, EventsKept DEF Destroy, streamVars, eventVars, heardVars
<1>5. ASSUME NEW t \in AppTasks, Open(t)
      PROVE  Sequences' /\ EventsExact'
  BY <1>5, EventsKept DEF Open, streamVars, eventVars, heardVars
<1>6. ASSUME NEW t \in AppTasks, OpenTake(t)
      PROVE  Sequences' /\ EventsExact'
  BY <1>6, EventsKept DEF OpenTake, streamVars, eventVars, heardVars
<1>7. ASSUME NEW t \in AppTasks, OpenInit(t)
      PROVE  Sequences' /\ EventsExact'
  <2>1. queued' = <<>> /\ sequence' = 0 /\ ~event_sub'
    BY <1>7 DEF OpenInit, DeleteQueue, Sequences, Subscription
  <2>2. Errors' = {}
    BY <2>1, EmptySeq DEF Errors
  <2>3. ~(ctlr' /\ on_error')
    BY <1>7, <2>1 DEF OpenInit, Subscription, Hardware, streamVars
  <2> QED BY <2>1, <2>2, <2>3 DEF Sequences, EventsExact
<1>8. ASSUME NEW t \in AppTasks, OpenInitFails(t)
      PROVE  Sequences' /\ EventsExact'
  BY <1>8, EventsKept DEF OpenInitFails, streamVars, eventVars, heardVars
<1>9. ASSUME NEW t \in AppTasks, OpenGive(t)
      PROVE  Sequences' /\ EventsExact'
  BY <1>9, EventsKept DEF OpenGive, streamVars, eventVars, heardVars
<1>10. ASSUME NEW t \in AppTasks, Close(t)
      PROVE  Sequences' /\ EventsExact'
  BY <1>10, EventsKept DEF Close, streamVars, eventVars, heardVars
<1>11. ASSUME NEW t \in AppTasks, CloseTake(t)
      PROVE  Sequences' /\ EventsExact'
  BY <1>11, EventsKept DEF CloseTake, streamVars, eventVars, heardVars
<1>12. ASSUME NEW t \in AppTasks, CloseDeinit(t)
      PROVE  Sequences' /\ EventsExact'
  <2>1. queued' = <<>> /\ sequence' = 0 /\ ~event_sub'
    BY <1>12 DEF CloseDeinit, DeleteQueue, Sequences, Subscription
  <2>2. Errors' = {}
    BY <2>1, EmptySeq DEF Errors
  <2>3. ~(ctlr' /\ on_error')
    BY <1>12, <2>1 DEF CloseDeinit, Subscription, Hardware, streamVars
  <2> QED BY <2>1, <2>2, <2>3 DEF Sequences, EventsExact
<1>13. ASSUME NEW t \in AppTasks, CloseDeinitFails(t)
      PROVE  Sequences' /\ EventsExact'
  <2>1. queued' = <<>> /\ sequence' = 0 /\ ~event_sub'
    BY <1>13 DEF CloseDeinitFails, DeleteQueue, Sequences, Subscription
  <2>2. Errors' = {}
    BY <2>1, EmptySeq DEF Errors
  <2>3. ~(ctlr' /\ on_error')
    BY <1>13, <2>1 DEF CloseDeinitFails, Subscription, Hardware, streamVars
  <2> QED BY <2>1, <2>2, <2>3 DEF Sequences, EventsExact
<1>14. ASSUME NEW t \in AppTasks, CloseGive(t)
      PROVE  Sequences' /\ EventsExact'
  BY <1>14, EventsKept DEF CloseGive, streamVars, eventVars, heardVars
<1>15. ASSUME NEW t \in AppTasks, Reqbufs(t)
      PROVE  Sequences' /\ EventsExact'
  BY <1>15, EventsKept DEF Reqbufs, eventVars, heardVars
<1>16. ASSUME NEW t \in AppTasks, StreamOn(t)
      PROVE  Sequences' /\ EventsExact'
  <2>1. Errors' = Errors /\ UNCHANGED <<queued, sequence, event_sub, received>>
    BY <1>16 DEF Errors, StreamOn, eventVars
  <2>2. ctlr' /\ on_error' /\ ~intr' => ctlr /\ on_error /\ ~intr /\ told' = told
    BY <1>16 DEF StreamOn, StartController, Subscription, TypeOK
  <2> QED BY <2>1, <2>2 DEF Sequences, EventsExact
<1>17. ASSUME NEW t \in AppTasks, StreamOff(t)
      PROVE  Sequences' /\ EventsExact'
  <2>1. Errors' = Errors /\ UNCHANGED <<queued, sequence, event_sub, received>>
    BY <1>17 DEF Errors, StreamOff, eventVars, heardVars
  <2>2. ctlr' /\ on_error' /\ ~intr' => ctlr /\ on_error /\ ~intr /\ told' = told
    BY <1>17 DEF StreamOff, Subscription, TypeOK, heardVars
  <2> QED BY <2>1, <2>2 DEF Sequences, EventsExact
<1>18. ASSUME NEW t \in AppTasks, StreamOffFails(t)
      PROVE  Sequences' /\ EventsExact'
  <2>1. Errors' = Errors /\ UNCHANGED <<queued, sequence, event_sub, received>>
    BY <1>18 DEF Errors, StreamOffFails, eventVars, heardVars
  <2>2. ctlr' /\ on_error' /\ ~intr' => ctlr /\ on_error /\ ~intr /\ told' = told
    BY <1>18 DEF StreamOffFails, Subscription, TypeOK, heardVars
  <2> QED BY <2>1, <2>2 DEF Sequences, EventsExact
<1>19. ASSUME NEW t \in AppTasks, Subscribe(t)
      PROVE  Sequences' /\ EventsExact'
  <2>1. /\ received' = 0
        /\ UNCHANGED <<queued, sequence, Errors, ctlr, on_error, intr, told>>
    BY <1>19 DEF Subscribe, Errors, streamVars
  <2>2. \A i \in Errors : queued[i].sequence \in Nat /\ queued[i].sequence > received'
        /\ \A j \in Errors : i < j => queued[i].sequence < queued[j].sequence
    <3>1. CASE event_sub
      <4>1. \A i \in Errors : queued[i].sequence \in Nat
        BY EventTypes DEF TypeOK, Errors
      <4> QED BY <2>1, <3>1, <4>1 DEF EventsExact, TypeOK
    <3>2. CASE ~event_sub
      BY <3>2 DEF Sequences
    <3> QED BY <3>1, <3>2
  <2> QED BY <1>19, <2>1, <2>2 DEF TypeOK, Sequences, EventsExact, Subscribe
<1>20. ASSUME NEW t \in AppTasks, StartListener(t)
      PROVE  Sequences' /\ EventsExact'
  BY <1>20, EventsKept DEF StartListener, streamVars, eventVars, heardVars
<1>21. ASSUME NEW t \in AppTasks, SetEventCallback(t)
      PROVE  Sequences' /\ EventsExact'
  BY <1>21, EventsKept DEF SetEventCallback, streamVars, heardVars
<1>22. ASSUME NEW t \in AppTasks, Unsubscribe(t)
      PROVE  Sequences' /\ EventsExact'
  <2>1. queued' = <<Event(UNSUBSCRIBED, 0)>> /\ sequence' = 0 /\ ~event_sub'
    BY <1>22 DEF Unsubscribe
  <2>2. Errors' = {}
    BY <2>1 DEF Errors, Event
  <2>3. ~(ctlr' /\ on_error')
    BY <1>22 DEF Unsubscribe, Subscription, streamVars
  <2> QED BY <2>1, <2>2, <2>3 DEF Sequences, EventsExact
<1>23. CASE GetEvent(Listener)
  BY <1>23, EventsKept DEF GetEvent, streamVars, eventVars, heardVars
<1>24. CASE ReceiveEvent(Listener)
  <2>1. /\ queued # <<>> /\ queued' = Tail(queued)
        /\ UNCHANGED <<sequence, event_sub, ctlr, on_error, intr>>
        /\ received' = IF queued[1].type = UNSUBSCRIBED THEN received ELSE queued[1].sequence
        /\ told' = (told \/ queued[1].type = DISABLED)
    BY <1>24, EventLeaves DEF ReceiveEvent, streamVars
  <2>2. /\ \A i \in 1 .. Len(queued') : i + 1 \in 1 .. Len(queued) /\ queued'[i] = queued[i + 1]
        /\ Len(queued') = Len(queued) - 1 /\ Len(queued) \in Nat /\ 1 \in 1 .. Len(queued)
    BY <2>1, EventLeaves
  <2>3. /\ \A i \in Errors' : i \in 1 .. Len(queued') /\ i + 1 \in Errors /\ queued'[i] = queued[i + 1]
        /\ queued[1].type # UNSUBSCRIBED => 1 \in Errors
    BY <2>2 DEF Errors
  <2>4. \A i \in Errors' : 1 < i + 1 /\ \A j \in Errors' : i < j => i + 1 < j + 1
    BY <2>2, <2>3
  <2>5. Sequences'
    BY <2>1, <2>3 DEF Sequences
  <2>6. event_sub' => \A i \in Errors' : /\ received' < queued'[i].sequence
                                         /\ \A j \in Errors' : i < j => queued'[i].sequence < queued'[j].sequence
    BY <2>1, <2>3, <2>4 DEF EventsExact
  <2>7. ASSUME ctlr', on_error', ~intr', ~told'
        PROVE  \E i \in 1 .. Len(queued') : queued'[i].type = DISABLED
    <3>1. PICK i \in 1 .. Len(queued) : queued[i].type = DISABLED
      BY <2>1, <2>7 DEF EventsExact
    <3>2. i # 1
      BY <2>1, <2>7, <3>1
    <3>3. i - 1 \in 1 .. Len(queued') /\ (i - 1) + 1 = i
      BY <2>2, <3>1, <3>2
    <3> QED BY <2>2, <3>1, <3>3
  <2> QED BY <2>5, <2>6, <2>7 DEF EventsExact
<1>25. CASE Restart(Listener)
  <2>1. Errors' = Errors /\ UNCHANGED <<queued, sequence, event_sub, received>>
    BY <1>25 DEF Errors, Restart, eventVars
  <2>2. ctlr' /\ on_error' /\ ~intr' => ctlr /\ on_error /\ ~intr /\ told' = told
    BY <1>25 DEF Restart, Subscription, TypeOK
  <2> QED BY <2>1, <2>2 DEF Sequences, EventsExact
<1>26. CASE RestartFails(Listener)
  <2>1. Errors' = Errors /\ UNCHANGED <<queued, sequence, event_sub, received>>
    BY <1>26 DEF Errors, RestartFails, eventVars, heardVars
  <2>2. ctlr' /\ on_error' /\ ~intr' => ctlr /\ on_error /\ ~intr /\ told' = told
    BY <1>26 DEF RestartFails, Subscription, TypeOK, heardVars
  <2> QED BY <2>1, <2>2 DEF Sequences, EventsExact
<1>27. CASE OnErrorDisable
  <2>1. event_sub
    BY <1>27 DEF OnErrorDisable, Raised, Subscription
  <2>2. /\ sequence' = sequence + 1 /\ UNCHANGED <<event_sub, received>>
        /\ queued' = Append(IF Full(queued) THEN Tail(queued) ELSE queued, Event(DISABLED, sequence + 1))
    BY <1>27 DEF OnErrorDisable, heardVars
  <2>3. Event(DISABLED, sequence + 1) \in Events
    BY EventTypes DEF TypeOK
  <2>4. Ascending'
    BY <2>1, <2>2, <2>3, ErrorEnters DEF Event
  <2>5. \E i \in 1 .. Len(queued') : queued'[i].type = DISABLED
    <3>1. Len(queued') \in 1 .. Len(queued) + 1 /\ queued'[Len(queued')] = Event(DISABLED, sequence + 1)
      BY <2>2, <2>3, EventEnters
    <3> QED BY <3>1 DEF Event
  <2> QED BY <2>1, <2>2, <2>4, <2>5 DEF Ascending, Sequences, EventsExact
<1>28. CASE OnErrorReport
  <2>1. event_sub /\ intr
    BY <1>28 DEF OnErrorReport, Raised, Subscription
  <2>2. sequence' = sequence + 1 /\ UNCHANGED <<event_sub, received, intr>>
    BY <1>28 DEF OnErrorReport, heardVars, streamVars
  <2>3. Event(CSI_ERROR, sequence + 1) \in Events
    BY EventTypes DEF TypeOK
  <2>4. Ascending'
    <3>1. CASE Full(queued)
      <4>1. queued' = queued
        BY <1>28, <3>1 DEF OnErrorReport
      <4>2. \A i \in Errors : queued[i].sequence \in Nat
        BY EventTypes DEF TypeOK, Errors
      <4> QED
        BY <2>1, <2>2, <4>1, <4>2
           DEF Ascending, Sequences, EventsExact, Errors, TypeOK
    <3>2. CASE ~Full(queued)
      <4>1. queued' = Append(IF Full(queued) THEN Tail(queued) ELSE queued, Event(CSI_ERROR, sequence + 1))
        BY <1>28, <3>2 DEF OnErrorReport
      <4> QED BY <2>1, <2>2, <2>3, <4>1, ErrorEnters DEF Event
    <3> QED BY <3>1, <3>2
  <2> QED BY <2>1, <2>2, <2>4 DEF Ascending, Sequences, EventsExact, TypeOK
<1>29. CASE UNCHANGED vars
  BY <1>29, EventsKept DEF vars, streamVars, eventVars, heardVars
<1> QED
  BY <1>1, <1>2, <1>3, <1>4, <1>5, <1>6, <1>7, <1>8, <1>9, <1>10, <1>11, <1>12, <1>13,
     <1>14, <1>15, <1>16, <1>17, <1>18, <1>19, <1>20, <1>21, <1>22, <1>23, <1>24, <1>25,
     <1>26, <1>27, <1>28, <1>29
     DEF Next, ObjectNext, OpenNext, CloseNext, StreamNext, EventNext, ListenerNext

-------------------------------------------------------------------------------
(* The theorems *)

(* The strengthening of the four invariants is inductive. *)
LEMMA InitIInv == Init => IInv
<1> SUFFICES ASSUME Init PROVE IInv
  OBVIOUS
<1>1. TypeOK
  <2>1. <<>> \in Seq(Events) /\ Len(<<>>) <= EventQueueSize /\ 0 \in 0 .. MaxReference
    BY EmptySeq, DeviceAssumption
  <2> QED BY <2>1 DEF Init, TypeOK
<1>2. \A t \in AppTasks : pc[t] = "idle"
  BY DeviceAssumption DEF Init
<1>3. Calls
  BY <1>2, DeviceAssumption DEF Init, Calls, HolderPcs, OpenPcs, ClosePcs, DeinitPcs
<1>4. Counts
  <2>1. Counted = {} /\ Pending = {}
    BY <1>2 DEF Counted, Pending, Among, CountedPcs, PendingPcs, OpenPcs
  <2> QED BY <2>1, FS_EmptySet, DeviceAssumption DEF Init, Counts
<1>5. Hardware /\ Subscription
  BY <1>2 DEF Init, Hardware, Subscription
<1>6. Sequences /\ EventsExact
  <2>1. Errors = {}
    BY EmptySeq DEF Init, Errors
  <2> QED BY <2>1 DEF Init, Sequences, EventsExact
<1> QED BY <1>1, <1>3, <1>4, <1>5, <1>6 DEF IInv

LEMMA NextIInv == IInv /\ [Next]_vars => IInv'
<1> SUFFICES ASSUME IInv, [Next]_vars PROVE IInv'
  OBVIOUS
<1>1. TypeOK'
  BY TypesStep DEF IInv
<1>2. Calls'
  BY CallsStep DEF IInv
<1>3. Counts'
  BY CountsStep DEF IInv
<1>4. Hardware'
  BY HardwareStep DEF IInv
<1>5. Subscription'
  BY SubscriptionStep DEF IInv
<1>6. Sequences' /\ EventsExact'
  BY EventsStep DEF IInv
<1> QED BY <1>1, <1>2, <1>3, <1>4, <1>5, <1>6 DEF IInv

LEMMA Invariance == Spec => []IInv
BY InitIInv, NextIInv, PTL DEF Spec

(* The types of the object, of its calls and of its event queue (TypeOK). *)
THEOREM TypeCorrect == Spec => []TypeOK
<1>1. IInv => TypeOK
  BY DEF IInv
<1> QED BY <1>1, Invariance, PTL

(* video->reference counts the descriptors exactly, a descriptor works, and the hardware *)
(* is on once while the device is referenced, whatever opens, closes and deinits overlap *)
(* or fail (esp_video_open, esp_video_close and esp_video_destroy).                       *)
THEOREM HardwareCounted == Spec => []HardwareExact
<1>1. IInv => HardwareExact
  <2> SUFFICES ASSUME IInv PROVE HardwareExact
    OBVIOUS
  <2>1. reference = fds + lost + Cardinality(Among({"open_init", "open_give", "close_take"}))
    BY DEF IInv, Counts, Counted, CountedPcs
  <2>2. fds > 0 => object /\ inited
    BY OpenWorks DEF IInv
  <2>3. power <= 1 /\ (allocated \/ fds > 0 => power = 1)
    BY <2>2 DEF IInv, Hardware
  <2>4. mutex = "none" => power = (IF reference > 0 THEN 1 ELSE 0)
    BY DeviceAssumption DEF IInv, Calls, Hardware, HolderPcs
  <2> QED BY <2>1, <2>2, <2>3, <2>4 DEF HardwareExact
<1> QED BY <1>1, Invariance, PTL

(* The error interrupt finds its event queue: a controller that reports errors belongs to *)
(* a stream of a subscribed application, and the last close is refused to that one.        *)
THEOREM QueueAlive == Spec => []IsrQueueAlive
<1>1. IInv => IsrQueueAlive
  BY DEF IInv, Subscription, IsrQueueAlive
<1> QED BY <1>1, Invariance, PTL

(* The listener gets the errors of its subscription in order, each once, and learns that *)
(* the interrupt was disabled, for any size of the event queue.                            *)
THEOREM EventsOrdered == Spec => []EventsExact
<1>1. IInv => EventsExact
  BY DEF IInv
<1> QED BY <1>1, Invariance, PTL
===============================================================================
