-------------------------- MODULE DvpControllerProofs --------------------------
(***************************************************************************)
(* Theorems about DvpController, for every number of halves in a frame,     *)
(* every size of the queue, and whether dvp_task keeps up or not.           *)
(***************************************************************************)
EXTENDS DvpController, SequenceTheorems, TLAPS

\* Every variable keeps its type: in particular a transfer never gets more halves
\* than a frame has, although two events of dvp_task add to it (dvp_task).
THEOREM TypeCorrect == Spec => []TypeOK
<1> USE DvpAssumption
<1>1. Init => TypeOK
  BY DEF Init, TypeOK, Ring, Content, Torn, SYNC_END, RECV_DATA
<1>2. TypeOK /\ [Next]_vars => TypeOK'
  <2> SUFFICES ASSUME TypeOK, [Next]_vars PROVE TypeOK'
    OBVIOUS
  <2> USE DEF TypeOK
  <2>1. ASSUME NEW e \in {SYNC_END, RECV_DATA}, Post(e)
        PROVE  event_queue' \in Seq({SYNC_END, RECV_DATA}) /\ Len(event_queue') <= QueueSize
    BY <2>1 DEF Post
  <2>2. ASSUME event_queue # <<>>, event_queue' = Tail(event_queue)
        PROVE  event_queue' \in Seq({SYNC_END, RECV_DATA}) /\ Len(event_queue') <= QueueSize
    BY <2>2
  <2>3. ASSUME Len(trans) + 1 <= Halves
        PROVE  CopyHalf \in Seq(Content) /\ Len(CopyHalf) <= Halves
    BY <2>3 DEF CopyHalf
  <2>4. 1 - dma_half \in Ring /\ 1 - dma_desc_index \in Ring /\ 0 \in Ring
    BY DEF Ring
  <2>5. Torn \in Content
    BY DEF Content
  <2>6. CASE SensorHalf
    <3>1. [frame |-> frame, half |-> sent + 1] \in Content
      BY <2>6 DEF SensorHalf, Content, Data
    <3>2. dma_buffer' \in [Ring -> Content]
      BY <2>5, <2>6, <3>1 DEF SensorHalf
    <3>3. event_queue' \in Seq({SYNC_END, RECV_DATA}) /\ Len(event_queue') <= QueueSize
      BY <2>1, <2>6 DEF SensorHalf
    <3>4. late' \in BOOLEAN /\ sent' \in 0 .. Halves /\ dma_half' \in Ring
      BY <2>4, <2>6 DEF SensorHalf
    <3> QED BY <2>6, <3>2, <3>3, <3>4 DEF SensorHalf
  <2>7. CASE SensorVsync
    <3>1. event_queue' \in Seq({SYNC_END, RECV_DATA}) /\ Len(event_queue') <= QueueSize
      BY <2>1, <2>7 DEF SensorVsync
    <3> QED BY <2>7, <3>1 DEF SensorVsync, hwVars
  <2>8. CASE ControlNext
    <3>1. CASE NewController
      BY <2>4, <3>1 DEF NewController, hwVars, sensorVars
    <3>2. CASE Start \/ Stop \/ StopCapturing \/ DeleteTask \/ DeleteInterrupt
      BY <3>2 DEF Start, Stop, StopCapturing, DeleteTask, DeleteInterrupt, hwVars, sensorVars
    <3>3. CASE DeleteMemory
      BY <2>5, <3>3 DEF DeleteMemory, sensorVars
    <3> QED BY <2>8, <3>1, <3>2, <3>3 DEF ControlNext
  <2>9. CASE RecvData
    BY <2>2, <2>3, <2>4, <2>9 DEF RecvData, Received, hwVars, sensorVars
  <2>10. CASE SyncIgnored \/ SyncStarted \/ SyncRxing
    BY <2>2, <2>10 DEF SyncIgnored, SyncStarted, SyncRxing, Received, hwVars, sensorVars
  <2>11. CASE CopyLast
    <3>1. CASE Len(trans) + 1 = Halves
      BY <2>3, <2>11, <3>1 DEF CopyLast, hwVars, sensorVars
    <3>2. CASE Len(trans) + 1 # Halves
      BY <2>4, <2>11, <3>2 DEF CopyLast, hwVars, sensorVars
    <3> QED BY <3>1, <3>2
  <2>12. CASE Finish \/ NoTrans \/ EnableInterrupt
    BY <2>12 DEF Finish, NoTrans, EnableInterrupt, hwVars, sensorVars
  <2>13. CASE NewTrans
    BY <2>4, <2>13 DEF NewTrans, hwVars, sensorVars
  <2>14. CASE StartCapturing
    BY <2>4, <2>5, <2>14 DEF StartCapturing, sensorVars
  <2>15. CASE UNCHANGED vars
    BY <2>15 DEF vars, hwVars, sensorVars
  <2> QED
    BY <2>6, <2>7, <2>8, <2>9, <2>10, <2>11, <2>12, <2>13, <2>14, <2>15
    DEF Next, SensorNext, TaskNext, TaskStep
<1> QED BY <1>1, <1>2, PTL DEF Spec

-------------------------------------------------------------------------------
\* dvp_task exists exactly while the controller has not lost it: without it nothing
\* undoes what the deletion does.
Tasked == pc = "deleted" <=> ctlr \in {"none", "untasked", "unlinked"}

LEMMA TaskedQuiet == Spec => [](Tasked /\ DeletedIsQuiet)
<1> DEFINE Inv == Tasked /\ DeletedIsQuiet
<1>1. Init => Inv
  BY DEF Init, Tasked, DeletedIsQuiet
<1>2. Inv /\ [Next]_vars => Inv'
  <2> SUFFICES ASSUME Inv, [Next]_vars PROVE Inv'
    OBVIOUS
  <2> USE DEF Tasked, DeletedIsQuiet
  <2>1. CASE SensorNext
    BY <2>1 DEF SensorNext, SensorHalf, SensorVsync, hwVars
  <2>2. CASE NewController \/ Start \/ Stop \/ StopCapturing
    BY <2>2 DEF NewController, Start, Stop, StopCapturing, hwVars
  <2>3. CASE DeleteTask \/ DeleteInterrupt \/ DeleteMemory
    BY <2>3 DEF DeleteTask, DeleteInterrupt, DeleteMemory, hwVars
  <2>4. CASE TaskNext
    <3>1. pc # "deleted"
      BY <2>4 DEF TaskNext, TaskStep, RecvData, SyncIgnored, SyncStarted, SyncRxing, Received,
                  CopyLast, Finish, NewTrans, NoTrans, StartCapturing, CapturePcs, EnableInterrupt
    <3>2. pc' # "deleted"
      BY <2>4, <3>1 DEF TaskNext, TaskStep, RecvData, SyncIgnored, SyncStarted, SyncRxing, CopyLast,
                        Finish, NewTrans, NoTrans, StartCapturing, EnableInterrupt
    <3>3. ctlr' = ctlr
      BY <2>4 DEF TaskNext, TaskStep, RecvData, SyncIgnored, SyncStarted, SyncRxing, CopyLast,
                  Finish, NewTrans, NoTrans, StartCapturing, EnableInterrupt
    <3> QED BY <3>1, <3>2, <3>3
  <2>5. CASE UNCHANGED vars
    BY <2>5 DEF vars, hwVars
  <2> QED BY <2>1, <2>2, <2>3, <2>4, <2>5 DEF Next, ControlNext
<1> QED BY <1>1, <1>2, PTL DEF Spec

\* A deleted controller captures nothing and raises no interrupt, even when dvp_task
\* started a capture between the stop and its own deletion (dvp_cam_ctlr_del).
THEOREM DeletionQuiet == Spec => []DeletedIsQuiet
BY TaskedQuiet, PTL

-------------------------------------------------------------------------------
(* The frame that dvp_task puts together, when it keeps up.                   *)

Whole(n, k) == [i \in 1 .. k |-> [frame |-> n, half |-> i]]

\* The half of the ring that dvp_task copies next is half k of frame n.
NextIs(n, k) == dma_desc_index = 1 - dma_half /\ dma_buffer[dma_desc_index] = [frame |-> n, half |-> k]

\* Everything but the last half of frame n is copied, and that one is in the ring.
AllButLast(n) == trans = Whole(n, Halves - 1) /\ NextIs(n, Halves)

\* dvp_task waits and the V-sync that ends the frame will reach it.
WillEnd ==
    /\ dvp_fsm = "rxing" /\ pc = "receive"
    /\ vsync_intr \/ event_queue \in {<<SYNC_END>>, <<RECV_DATA, SYNC_END>>}

\* Nothing is captured because the capture was stopped as it began.
Unstarted == trans = <<>> /\ ~dma /\ event_queue \in {<<>>, <<SYNC_END>>}

Copied == event_queue = <<>> /\ dma /\ sent < Halves
          /\ trans = Whole(frame, sent) /\ dma_desc_index = dma_half

Uncopied == event_queue = <<RECV_DATA>> /\ dma /\ sent \in 1 .. Halves - 1
            /\ trans = Whole(frame, sent - 1) /\ NextIs(frame, sent)

Sent == event_queue \in {<<>>, <<RECV_DATA>>} /\ dma /\ sent = Halves /\ AllButLast(frame)

Ended == event_queue \in {<<SYNC_END>>, <<RECV_DATA, SYNC_END>>} /\ AllButLast(1 - frame)

\* At every step of dvp_task the transfer holds the beginning of one frame, or will be
\* dropped because it holds none.
Assembly ==
    /\ pc = "receive" => event_queue \in {<<>>, <<RECV_DATA>>, <<SYNC_END>>, <<RECV_DATA, SYNC_END>>}
    /\ pc = "receive" /\ event_queue \in {<<SYNC_END>>, <<RECV_DATA, SYNC_END>>} => sent = 0
    /\ pc \notin {"receive", "deleted"} => event_queue = <<>> /\ sent = 0
    /\ WillEnd => Unstarted \/ Copied \/ Uncopied \/ Sent \/ Ended
    /\ pc = "copy" => trans = <<>> \/ AllButLast(1 - frame)
    /\ pc = "finish" => Intact(trans)
    /\ pc = "first" => dvp_fsm # "rxing"
    /\ pc \in CapturePcs => trans = <<>> /\ dma_desc_index = 0
    /\ pc = "enable" /\ dvp_fsm = "rxing" => trans = <<>> /\ dma_desc_index = 0 /\ (dma => dma_half = 0)

LEMMA WholeLen == ASSUME NEW n, NEW k \in Nat
                  PROVE  Len(Whole(n, k)) = k /\ Whole(n, k) \in Seq([frame : {n}, half : 1 .. k])
BY DEF Whole

LEMMA WholeAppend == ASSUME NEW n, NEW k \in Nat
                     PROVE  Append(Whole(n, k), [frame |-> n, half |-> k + 1]) = Whole(n, k + 1)
<1> DEFINE W == Whole(n, k)
           e == [frame |-> n, half |-> k + 1]
<1>1. Len(W) = k /\ W \in Seq([frame : {n}, half : 1 .. k])
  BY WholeLen
<1>2. Append(W, e) = [i \in 1 .. Len(W) + 1 |-> IF i <= Len(W) THEN W[i] ELSE e]
  BY <1>1
<1>3. \A i \in 1 .. k + 1 : (IF i <= k THEN W[i] ELSE e) = [frame |-> n, half |-> i]
  BY DEF Whole
<1> HIDE DEF W, e
<1>4. Append(W, e) = [i \in 1 .. k + 1 |-> IF i <= k THEN W[i] ELSE e]
  BY <1>1, <1>2
<1>5. Append(W, e) = [i \in 1 .. k + 1 |-> [frame |-> n, half |-> i]]
  BY <1>3, <1>4
<1> QED BY <1>5 DEF Whole, W, e

LEMMA WholeEmpty == ASSUME NEW n PROVE Whole(n, 0) = <<>>
BY DEF Whole

LEMMA Queues ==
    /\ Append(<<>>, RECV_DATA) = <<RECV_DATA>>
    /\ Append(<<>>, SYNC_END) = <<SYNC_END>>
    /\ Append(<<RECV_DATA>>, SYNC_END) = <<RECV_DATA, SYNC_END>>
    /\ Tail(<<RECV_DATA>>) = <<>> /\ Tail(<<SYNC_END>>) = <<>>
    /\ Tail(<<RECV_DATA, SYNC_END>>) = <<SYNC_END>>
    /\ Head(<<RECV_DATA>>) = RECV_DATA /\ Head(<<SYNC_END>>) = SYNC_END
    /\ Head(<<RECV_DATA, SYNC_END>>) = RECV_DATA
    /\ Len(<<>>) = 0 /\ Len(<<RECV_DATA>>) = 1
    /\ <<>> # <<RECV_DATA>> /\ <<>> # <<SYNC_END>> /\ <<>> # <<RECV_DATA, SYNC_END>>
    /\ <<RECV_DATA>> # <<SYNC_END>> /\ <<RECV_DATA>> # <<RECV_DATA, SYNC_END>>
    /\ <<SYNC_END>> # <<RECV_DATA, SYNC_END>>
    /\ RECV_DATA # SYNC_END
<1>1. RECV_DATA # SYNC_END
  BY DEF RECV_DATA, SYNC_END
<1>2. /\ Append(<<>>, RECV_DATA) = <<RECV_DATA>>
      /\ Append(<<>>, SYNC_END) = <<SYNC_END>>
  OBVIOUS
<1>7. Append(<<RECV_DATA>>, SYNC_END) = <<RECV_DATA, SYNC_END>>
  <2> DEFINE E == {RECV_DATA, SYNC_END}
             s == Append(<<RECV_DATA>>, SYNC_END)
             t == <<RECV_DATA, SYNC_END>>
  <2>1. <<RECV_DATA>> \in Seq(E) /\ t \in Seq(E) /\ Len(t) = 2
    OBVIOUS
  <2>2. s \in Seq(E) /\ Len(s) = 2 /\ s[1] = RECV_DATA /\ s[2] = SYNC_END
    BY <2>1
  <2>3. \A i \in 1 .. 2 : s[i] = t[i]
    BY <2>2
  <2> HIDE DEF E, s, t
  <2>4. s = t
    BY <2>1, <2>2, <2>3, SeqEqual
  <2> QED BY <2>4 DEF s, t
<1>3. /\ Tail(<<RECV_DATA>>) = <<>> /\ Tail(<<SYNC_END>>) = <<>>
      /\ Tail(<<RECV_DATA, SYNC_END>>) = <<SYNC_END>>
  OBVIOUS
<1>4. /\ Head(<<RECV_DATA>>) = RECV_DATA /\ Head(<<SYNC_END>>) = SYNC_END
      /\ Head(<<RECV_DATA, SYNC_END>>) = RECV_DATA
  OBVIOUS
<1>5. /\ Len(<<>>) = 0 /\ Len(<<RECV_DATA>>) = 1 /\ Len(<<SYNC_END>>) = 1
      /\ Len(<<RECV_DATA, SYNC_END>>) = 2
  OBVIOUS
<1>6. <<RECV_DATA>> # <<SYNC_END>>
  BY <1>1
<1> QED BY <1>1, <1>2, <1>3, <1>4, <1>5, <1>6, <1>7, Zenon

LEMMA Room == ASSUME QueueSize >= 2 PROVE 0 < QueueSize /\ 1 < QueueSize
BY DvpAssumption

LEMMA AssemblyStep ==
    ASSUME ~MayBeLate, Halves >= 2, QueueSize >= 2, TypeOK, Tasked, Assembly, [Next]_vars
    PROVE  Assembly'
<1> USE DvpAssumption, Queues DEF Assembly
<1> DEFINE WithSync == {<<SYNC_END>>, <<RECV_DATA, SYNC_END>>}
           Cases == Unstarted \/ Copied \/ Uncopied \/ Sent \/ Ended
<1>1. CASE SensorHalf
  <2>0. Handled /\ sent < Halves /\ sent' = sent + 1 /\ frame' = frame /\ pc' = pc
        /\ dvp_fsm' = dvp_fsm /\ vsync_intr' = vsync_intr /\ dma' = dma /\ trans' = trans
        /\ dma_desc_index' = dma_desc_index
    BY <1>1 DEF SensorHalf
  <2>1. pc \in {"receive", "deleted"} /\ event_queue = <<>>
    BY <2>0 DEF Handled
  <2>2. event_queue' = IF dma THEN <<RECV_DATA>> ELSE <<>>
    BY <1>1, <2>1 DEF SensorHalf, Post
  <2>3. WillEnd' => Cases'
    <3> SUFFICES ASSUME WillEnd' PROVE Cases'
      OBVIOUS
    <3>1. WillEnd
      BY <2>0, <2>2 DEF WillEnd
    <3>2. CASE Unstarted
      BY <2>0, <2>2, <3>2 DEF Unstarted
    <3>3. CASE Copied
      <4>1. dma_desc_index' = 1 - dma_half' /\ dma_buffer'[dma_desc_index'] = [frame |-> frame, half |-> sent + 1]
        BY <1>1, <2>0, <3>3 DEF SensorHalf, Copied, TypeOK, Ring
      <4>2. sent \in Nat /\ Halves \in Nat /\ (sent + 1) - 1 = sent
        BY DEF TypeOK
      <4>3. CASE sent + 1 = Halves
        <5>1. Halves - 1 = sent
          BY <4>2, <4>3
        <5> QED BY <2>0, <2>2, <3>3, <4>1, <4>3, <5>1 DEF Copied, Sent, AllButLast, NextIs
      <4>4. CASE sent + 1 < Halves
        <5>1. sent' \in 1 .. Halves - 1
          BY <2>0, <4>2, <4>4
        <5> QED BY <2>0, <2>2, <3>3, <4>1, <4>2, <5>1 DEF Copied, Uncopied, NextIs
      <4> QED BY <2>0, <4>2, <4>3, <4>4
    <3>4. ~(Uncopied \/ Sent \/ Ended)
      BY <2>0, <2>1 DEF Uncopied, Sent, Ended, TypeOK
    <3> QED BY <3>1, <3>2, <3>3, <3>4
  <2> QED BY <2>0, <2>1, <2>2, <2>3 DEF CapturePcs
<1>2. CASE SensorVsync
  <2>0. sent = Halves /\ sent' = 0 /\ frame' = 1 - frame /\ pc' = pc /\ dvp_fsm' = dvp_fsm
        /\ vsync_intr' = vsync_intr /\ dma' = dma /\ dma_half' = dma_half /\ dma_buffer' = dma_buffer
        /\ trans' = trans /\ dma_desc_index' = dma_desc_index
    BY <1>2 DEF SensorVsync, hwVars
  <2>1. pc \in {"receive", "deleted"}
    BY <2>0 DEF TypeOK
  <2>2. pc = "receive" => event_queue \in {<<>>, <<RECV_DATA>>}
    BY <2>0 DEF TypeOK
  <2>3. pc = "receive" => event_queue' = IF ~vsync_intr THEN event_queue
                                         ELSE IF event_queue = <<>> THEN <<SYNC_END>>
                                              ELSE <<RECV_DATA, SYNC_END>>
    <3>1. CASE ~vsync_intr
      BY <1>2, <3>1 DEF SensorVsync
    <3>2. CASE vsync_intr /\ pc = "receive"
      <4>1. event_queue' = Append(event_queue, SYNC_END)
        <5>1. event_queue = <<>> \/ event_queue = <<RECV_DATA>>
          BY <2>2, <3>2
        <5>2. Len(event_queue) = 0 \/ Len(event_queue) = 1
          BY <5>1
        <5>3. Len(event_queue) < QueueSize
          BY <5>2, Room, Zenon
        <5> QED BY <1>2, <3>2, <5>3 DEF SensorVsync, Post
      <4> QED BY <2>2, <3>2, <4>1
    <3> QED BY <3>1, <3>2 DEF TypeOK
  <2>4. WillEnd' => Cases'
    <3> SUFFICES ASSUME WillEnd' PROVE Cases'
      OBVIOUS
    <3>1. pc = "receive" /\ vsync_intr /\ WillEnd
      BY <2>0, <2>2, <2>3 DEF WillEnd
    <3>2. CASE Unstarted
      BY <2>0, <2>3, <3>1, <3>2 DEF Unstarted
    <3>3. CASE Sent
      <4>1. 1 - frame' = frame
        BY <2>0 DEF TypeOK
      <4>2. AllButLast(1 - frame)'
        BY <2>0, <3>3, <4>1 DEF Sent, AllButLast, NextIs
      <4> QED BY <2>2, <2>3, <3>1, <4>2 DEF Ended
    <3>4. ~(Copied \/ Uncopied \/ Ended)
      BY <2>0, <2>2, <3>1 DEF Copied, Uncopied, Ended
    <3> QED BY <3>1, <3>2, <3>3, <3>4
  <2> QED BY <2>0, <2>1, <2>2, <2>3, <2>4 DEF CapturePcs
<1>3. CASE ControlNext
  <2>1. CASE NewController
    BY <2>1 DEF NewController, WillEnd, CapturePcs
  <2>2. CASE Start
    BY <2>2 DEF Start, hwVars, sensorVars, WillEnd, CapturePcs, AllButLast, NextIs
  <2>3. CASE Stop
    BY <2>3 DEF Stop, hwVars, sensorVars, WillEnd, CapturePcs, AllButLast, NextIs
  <2>4. CASE StopCapturing \/ DeleteInterrupt
    <3>1. UNCHANGED <<dvp_fsm, event_queue, dma_half, dma_buffer, dma_desc_index, trans, pc, frame, sent>>
          /\ ~vsync_intr' /\ ~dma'
      BY <2>4 DEF StopCapturing, DeleteInterrupt, sensorVars
    <3>2. WillEnd' => Cases'
      BY <3>1 DEF WillEnd, Unstarted, Copied, Uncopied, Sent, Ended, AllButLast, NextIs
    <3> QED BY <3>1, <3>2 DEF CapturePcs, AllButLast, NextIs
  <2>5. CASE DeleteTask
    BY <2>5 DEF DeleteTask, hwVars, sensorVars, WillEnd, CapturePcs
  <2>6. CASE DeleteMemory
    BY <2>6 DEF DeleteMemory, Tasked, sensorVars, WillEnd, CapturePcs
  <2> QED BY <1>3, <2>1, <2>2, <2>3, <2>4, <2>5, <2>6 DEF ControlNext
<1>4. CASE RecvData
  <2>0. pc = "receive" /\ Head(event_queue) = RECV_DATA /\ event_queue' = Tail(event_queue)
        /\ UNCHANGED <<dvp_fsm, vsync_intr, dma, dma_half, dma_buffer, pc, frame, sent>>
    BY <1>4 DEF RecvData, Received, hwVars, sensorVars
  <2>1. \/ event_queue = <<RECV_DATA>> /\ event_queue' = <<>>
        \/ event_queue = <<RECV_DATA, SYNC_END>> /\ event_queue' = <<SYNC_END>>
    BY <1>4, <2>0 DEF RecvData, Received
  <2>2. WillEnd' => Cases'
    <3> SUFFICES ASSUME WillEnd' PROVE Cases'
      OBVIOUS
    <3>1. WillEnd /\ dvp_fsm = "rxing"
      BY <2>0, <2>1 DEF WillEnd
    <3>2. CASE Uncopied
      <4>1. sent \in Nat /\ sent - 1 \in Nat /\ sent < Halves /\ (sent - 1) + 1 = sent
        BY <3>2 DEF Uncopied
      <4>2. Len(trans) = sent - 1
        BY <3>2, <4>1, WholeLen DEF Uncopied
      <4>3. trans' = CopyHalf /\ dma_desc_index' = 1 - dma_desc_index
        BY <1>4, <3>1, <4>1, <4>2 DEF RecvData
      <4>4. CopyHalf = Append(Whole(frame, sent - 1), [frame |-> frame, half |-> (sent - 1) + 1])
        BY <3>2, <4>1 DEF CopyHalf, Uncopied, NextIs
      <4>5. trans' = Whole(frame, sent)
        BY <4>1, <4>3, <4>4, WholeAppend
      <4>6. dma_desc_index' = dma_half
        BY <3>2, <4>3 DEF Uncopied, NextIs, TypeOK, Ring
      <4> QED BY <2>0, <2>1, <3>2, <4>1, <4>5, <4>6 DEF Uncopied, Copied
    <3>3. CASE Sent \/ Ended
      <4>1. Len(trans) = Halves - 1
        <5>1. Halves - 1 \in Nat
          OBVIOUS
        <5>2. trans = Whole(frame, Halves - 1) \/ trans = Whole(1 - frame, Halves - 1)
          BY <3>3 DEF Sent, Ended, AllButLast
        <5> QED BY <5>1, <5>2, WholeLen
      <4>2. trans' = trans /\ dma_desc_index' = dma_desc_index
        BY <1>4, <4>1 DEF RecvData
      <4> QED BY <2>0, <2>1, <3>3, <4>2 DEF Sent, Ended, AllButLast, NextIs
    <3>4. ~(Unstarted \/ Copied)
      BY <2>1 DEF Unstarted, Copied
    <3> QED BY <3>1, <3>2, <3>3, <3>4
  <2> QED BY <2>0, <2>1, <2>2 DEF CapturePcs
<1>5. CASE SyncIgnored \/ SyncStarted \/ SyncRxing
  <2>0. pc = "receive" /\ event_queue # <<>> /\ Head(event_queue) = SYNC_END
        /\ event_queue' = Tail(event_queue)
        /\ UNCHANGED <<dvp_fsm, dma_half, dma_buffer, dma_desc_index, trans, frame, sent>>
    BY <1>5 DEF SyncIgnored, SyncStarted, SyncRxing, Received, hwVars, sensorVars
  <2>1. event_queue = <<SYNC_END>> /\ event_queue' = <<>> /\ sent = 0
    BY <2>0
  <2>2. CASE SyncIgnored
    BY <2>0, <2>1, <2>2 DEF SyncIgnored, WillEnd, CapturePcs
  <2>3. CASE SyncStarted
    BY <2>0, <2>1, <2>3 DEF SyncStarted, WillEnd, CapturePcs
  <2>4. CASE SyncRxing
    <3>1. Unstarted \/ Ended
      BY <2>0, <2>1, <2>4 DEF SyncRxing, WillEnd, Unstarted, Copied, Uncopied, Sent, Ended
    <3>2. trans = <<>> \/ AllButLast(1 - frame)
      BY <3>1 DEF Unstarted, Ended
    <3> QED BY <2>0, <2>1, <2>4, <3>2 DEF SyncRxing, WillEnd, CapturePcs, AllButLast, NextIs
  <2> QED BY <1>5, <2>2, <2>3, <2>4
<1>6. CASE CopyLast
  <2>0. pc = "copy" /\ event_queue = <<>> /\ sent = 0
        /\ UNCHANGED <<event_queue, frame, sent, dma, dma_half>>
    BY <1>6 DEF CopyLast, hwVars, sensorVars
  <2>1. CASE Len(trans) + 1 = Halves
    <3>1. AllButLast(1 - frame) /\ Halves - 1 \in Nat /\ (Halves - 1) + 1 = Halves
      BY <2>0, <2>1
    <3>2. CopyHalf = Whole(1 - frame, Halves)
      BY <3>1, WholeAppend DEF CopyHalf, AllButLast, NextIs
    <3>3. 1 - frame \in {0, 1}
      BY DEF TypeOK
    <3>4. trans' = Whole(1 - frame, Halves) /\ pc' = "finish"
      BY <1>6, <2>1, <3>2 DEF CopyLast
    <3>5. Intact(trans')
      BY <3>3, <3>4 DEF Intact, Whole
    <3> QED BY <2>0, <3>4, <3>5 DEF WillEnd, CapturePcs, Intact
  <2>2. CASE Len(trans) + 1 # Halves
    BY <1>6, <2>0, <2>2 DEF CopyLast, WillEnd, CapturePcs
  <2> QED BY <2>1, <2>2
<1>7. CASE Finish \/ NewTrans \/ NoTrans
  <2>1. CASE Finish
    BY <2>1 DEF Finish, sensorVars, WillEnd, CapturePcs
  <2>2. CASE NewTrans
    BY <2>2 DEF NewTrans, sensorVars, WillEnd, CapturePcs
  <2>3. CASE NoTrans
    <3>1. event_queue = <<>> /\ sent = 0 /\ event_queue' = event_queue /\ sent' = sent
      BY <2>3 DEF NoTrans, sensorVars
    <3>2. \/ pc = "first" /\ pc' = "receive" /\ vsync_intr' = vsync_intr /\ dvp_fsm' = dvp_fsm
          \/ pc = "next" /\ pc' = "enable" /\ dvp_fsm' = "started"
      BY <2>3 DEF NoTrans
    <3> QED BY <3>1, <3>2 DEF WillEnd, CapturePcs
  <2> QED BY <1>7, <2>1, <2>2, <2>3
<1>8. CASE StartCapturing
  <2>0. pc \in CapturePcs /\ event_queue = <<>> /\ sent = 0 /\ trans = <<>> /\ dma_desc_index = 0
    BY <1>8 DEF StartCapturing, CapturePcs
  <2>1. dma' /\ dma_half' = 0 /\ UNCHANGED <<dvp_fsm, event_queue, vsync_intr, dma_desc_index, trans, sent, frame>>
        /\ pc' \in {"enable", "receive"}
    BY <1>8 DEF StartCapturing, sensorVars
  <2>2. Copied'
    BY <2>0, <2>1, WholeEmpty DEF Copied
  <2> QED BY <2>0, <2>1, <2>2 DEF CapturePcs
<1>9. CASE EnableInterrupt
  <2>0. pc = "enable" /\ event_queue = <<>> /\ sent = 0 /\ pc' = "receive"
        /\ UNCHANGED <<dvp_fsm, event_queue, dma, dma_half, dma_buffer, dma_desc_index, trans, sent, frame>>
    BY <1>9 DEF EnableInterrupt, hwVars, sensorVars
  <2>1. WillEnd' => Unstarted' \/ Copied'
    BY <2>0, WholeEmpty DEF WillEnd, Unstarted, Copied
  <2> QED BY <2>0, <2>1 DEF CapturePcs
<1>10. CASE UNCHANGED vars
  BY <1>10 DEF vars, hwVars, sensorVars, WillEnd, Unstarted, Copied, Uncopied, Sent, Ended,
              AllButLast, NextIs, CapturePcs, Intact
<1> QED BY <1>1, <1>2, <1>3, <1>4, <1>5, <1>6, <1>7, <1>8, <1>9, <1>10
        DEF Next, SensorNext, TaskNext, TaskStep

\* A dvp_task that keeps up hands over whole frames only, however often the controller
\* is stopped, deleted and made again meanwhile: the frame is longer than a half of the
\* ring, and the queue holds a half and a V-sync.
THEOREM FramesWhole ==
    ASSUME ~MayBeLate, Halves >= 2, QueueSize >= 2
    PROVE  Spec => []FrameIntact
<1>1. Init => Assembly
  BY DEF Init, Assembly, WillEnd, CapturePcs
<1>2. TypeOK /\ Tasked /\ Assembly /\ [Next]_vars => Assembly'
  BY AssemblyStep
<1>3. Assembly => FrameIntact
  BY DEF Assembly, FrameIntact
<1> QED BY <1>1, <1>2, <1>3, TypeCorrect, TaskedQuiet, PTL DEF Spec
===============================================================================
