-------------------------- MODULE SpiControllerProofs --------------------------
(***************************************************************************)
(* Proofs about SpiController, for any number of buffers and of packets to   *)
(* drop, on both interfaces, with and without a spare frame and a decode     *)
(* task.                                                                    *)
(*                                                                          *)
(* FrameIntact and QueuesHaveRoom hold because there is one transaction at a *)
(* time, and the descriptor names its buffer while the hardware has it       *)
(* (Wired).  That is so because a life of the controller has one start       *)
(* (Life): the theorems assume ~Reusable.  The rest of the invariant says    *)
(* that a buffer is in one place and that what is on its way to the layer    *)
(* above is an image.                                                       *)
(***************************************************************************)
EXTENDS SpiController, FiniteSetTheorems, SequenceTheorems, TLAPS

-------------------------------------------------------------------------------
(* Lists whose elements are distinct *)

(* Adding at the end. *)
LEMMA AppendRange ==
    ASSUME NEW S, NEW s \in Seq(S), NEW e \in S
    PROVE  /\ Append(s, e) \in Seq(S)
           /\ Range(Append(s, e)) = Range(s) \cup {e}
           /\ IsInjective(s) /\ e \notin Range(s) => IsInjective(Append(s, e))
<1>1. Range(Append(s, e)) = Range(s) \cup {e}
  BY RangeConcatenation, AppendIsConcat, <<e>> \in Seq(S), Range(<<e>>) = {e} DEF Range
<1> QED BY <1>1, AppendProperties, LenProperties DEF Range, IsInjective

(* Taking from the front. *)
LEMMA TailRange ==
    ASSUME NEW S, NEW s \in Seq(S), s # <<>>, IsInjective(s)
    PROVE  /\ Head(s) \in S
           /\ Head(s) \in Range(s)
           /\ Tail(s) \in Seq(S)
           /\ Range(Tail(s)) = Range(s) \ {Head(s)}
           /\ IsInjective(Tail(s))
<1> DEFINE t == Tail(s)
<1>1. /\ Head(s) \in S
      /\ t \in Seq(S)
      /\ Len(t) = Len(s) - 1
      /\ \A i \in 1 .. Len(t) : t[i] = s[i + 1]
      /\ Len(s) \in Nat
      /\ Len(s) > 0
  BY HeadTailProperties, LenProperties, EmptySeq
<1>2. /\ DOMAIN t = 1 .. Len(s) - 1
      /\ DOMAIN s = 1 .. Len(s)
      /\ Head(s) = s[1]
  BY <1>1, LenProperties
<1> HIDE DEF t
<1>3. Head(s) \in Range(s)
  BY <1>1, <1>2 DEF Range
<1>4. Range(t) = Range(s) \ {Head(s)}
  <2>1. ASSUME NEW x \in Range(t)
        PROVE  x \in Range(s) \ {Head(s)}
    <3>1. PICK i \in 1 .. Len(s) - 1 : x = s[i + 1]
      BY <1>1, <1>2 DEF Range
    <3>2. i + 1 \in DOMAIN s /\ 1 \in DOMAIN s /\ i + 1 # 1
      BY <1>1, <1>2
    <3> QED BY <1>2, <3>1, <3>2 DEF Range, IsInjective
  <2>2. ASSUME NEW x \in Range(s) \ {Head(s)}
        PROVE  x \in Range(t)
    <3>1. PICK i \in 1 .. Len(s) : x = s[i]
      BY <1>2 DEF Range
    <3>2. i # 1 /\ i - 1 \in 1 .. Len(s) - 1 /\ (i - 1) + 1 = i
      BY <1>1, <1>2, <3>1
    <3>3. t[i - 1] = s[i]
      BY <1>1, <3>2
    <3> QED BY <1>2, <3>1, <3>2, <3>3 DEF Range
  <2> QED BY <2>1, <2>2
<1>5. IsInjective(t)
  BY <1>1, <1>2 DEF IsInjective
<1> QED BY <1>1, <1>3, <1>4, <1>5 DEF t

LEMMA EmptyRange == Range(<<>>) = {} /\ IsInjective(<<>>)
BY DEF Range, IsInjective


Types ==
    /\ config \in Config
    /\ fsm \in {"none", "init", "enabled", "started"}
    /\ starting \in BOOLEAN /\ used \in BOOLEAN
    /\ rx_buffer \in Targets /\ setup_ll_buffer \in BOOLEAN
    /\ dropped_frame_count \in 0 .. DropFrames
    /\ hw \in Targets \cup {None}
    /\ isr \in {"idle", "setup", "post"}
    /\ ms_queue \in {0, 1}
    /\ recv_queue \in Seq(Buffers)
    /\ decoding \in Buffers \cup {None}
    /\ queued \subseteq Buffers /\ done \subseteq Buffers /\ rejected \subseteq Buffers
    /\ settled \in BOOLEAN
    /\ image \subseteq Buffers

\* Nothing is under way.
Clean ==
    /\ hw = None /\ trans_queue = <<>> /\ isr = "idle" /\ ms_queue = 0
    /\ recv_queue = <<>> /\ decoding = None
    /\ done = {} /\ rejected = {}

Life ==
    /\ fsm = "none" \/ ~used => Clean
    /\ starting => fsm = "enabled" /\ used
    /\ fsm = "started" => used

\* One transaction, in one of four places: the queue, the hardware, the interrupt, the
\* message queue.
Wired ==
    /\ trans_queue \in {<<>>, <<rx_buffer>>}
    /\ hw # None => hw = rx_buffer
    /\ used => (setup_ll_buffer <=> rx_buffer = Spare)
    /\ trans_queue # <<>> => hw = None /\ isr = "idle"
    /\ config.intf = "spi" => isr # "post" /\ ms_queue = 0
    /\ config.intf # "spi" => isr # "setup" /\ trans_queue = <<>>
    /\ hw # None => isr = "idle" /\ ms_queue = 0
    /\ isr = "post" => ms_queue = 0

Pending == hw # None \/ trans_queue # <<>>

Apart ==
    /\ queued \cap done = {}
    /\ Range(recv_queue) \cap (queued \cup done) = {}
    /\ rejected \cap (queued \cup done \cup Range(recv_queue)) = {}
    /\ decoding \notin queued \cup done \cup rejected \cup Range(recv_queue)
    /\ Pending => rx_buffer \notin queued \cup done \cup rejected \cup Range(recv_queue) \cup {decoding}
    /\ IsInjective(recv_queue)

Images ==
    /\ dropped_frame_count # 0 => settled
    /\ done \subseteq image
    /\ Range(recv_queue) \subseteq image
    /\ decoding # None => decoding \in image

\* From its creation to its stop.
Active == ~used \/ starting \/ fsm = "started"

\* While packets are dropped the descriptor names the spare buffer: none is lost.
Kept ==
    /\ starting => dropped_frame_count = 0
    /\ used /\ dropped_frame_count < DropFrames => rx_buffer = Spare
    /\ fsm = "none" => queued = Buffers
    /\ Active => Buffers \subseteq queued \cup done \cup rejected \cup Range(recv_queue)
                                \cup {hw, decoding} \cup Range(trans_queue)

IInv == Types /\ Life /\ Wired /\ Apart /\ Images /\ Kept

-------------------------------------------------------------------------------
LEMMA Constants ==
    /\ Spare \notin Buffers /\ None \notin Buffers /\ Spare # None
    /\ DropFrames \in Nat /\ DropFrames # 0
    /\ Configs \subseteq Config
    /\ IsFiniteSet(Buffers)
BY SpiAssumption

LEMMA InitIInv == Init => IInv
<1> SUFFICES ASSUME Init PROVE IInv
    OBVIOUS
<1>1. Range(<<>>) = {} /\ IsInjective(<<>>)
    BY EmptyRange
<1>2. Types
  <2>1. <<>> \in Seq(Buffers) /\ config \in Config
      BY Constants DEF Init
  <2>2. 0 \in 0 .. DropFrames
      BY Constants
  <2> QED
      BY <2>1, <2>2 DEF Init, Types, Targets
<1>3. Life
    BY DEF Init, Life, Clean
<1>4. Wired
    BY DEF Init, Wired
<1>5. Apart
    BY <1>1, Constants DEF Init, Apart, Pending
<1>6. Images
    BY <1>1 DEF Init, Images
<1>7. Kept
    BY DEF Init, Kept, Active
<1> QED
    BY <1>2, <1>3, <1>4, <1>5, <1>6, <1>7 DEF IInv

(* The buffer set up is the spare one or comes from the layer above, and it then holds
   no image. *)
LEMMA SetupEffect ==
    ASSUME Types, NEW n, SetupTransBuffer(n)
    PROVE  /\ rx_buffer' \in queued \cup {Spare}
           /\ queued' = queued \ {rx_buffer'}
           /\ image' = image \ {rx_buffer'}
           /\ setup_ll_buffer' \in BOOLEAN
           /\ setup_ll_buffer' <=> rx_buffer' = Spare
           /\ ~(n >= DropFrames) => rx_buffer' = Spare
<1>1. CASE n >= DropFrames /\ queued # {}
  <2>1. PICK b \in queued : /\ rx_buffer' = b
                            /\ queued' = queued \ {b}
                            /\ image' = image \ {b}
                            /\ setup_ll_buffer' = FALSE
      BY <1>1 DEF SetupTransBuffer
  <2> QED
      BY <1>1, <2>1, Constants DEF Types
<1>2. CASE ~(n >= DropFrames /\ queued # {})
    BY <1>2, Constants DEF SetupTransBuffer, Types
<1> QED
    BY <1>1, <1>2

(* A queue that holds each buffer at most once has room for one more. *)
LEMMA RecvQueueRoom == IInv => Len(recv_queue) < RecvQueueSize
<1> SUFFICES ASSUME IInv PROVE Len(recv_queue) < RecvQueueSize
    OBVIOUS
<1>1. recv_queue \in Seq(Buffers) /\ IsInjective(recv_queue) /\ Len(recv_queue) \in Nat
    BY DEF IInv, Types, Apart
<1> DEFINE places == 1 .. Len(recv_queue)
<1>2. IsFiniteSet(places) /\ Cardinality(places) = Len(recv_queue)
    BY <1>1, FS_Interval
<1>3. Len(recv_queue) <= Cardinality(Buffers) /\ Cardinality(Buffers) \in Nat
    BY <1>1, <1>2, Constants, FS_Injection, FS_CardinalityType DEF IsInjective, Injection
<1> QED
    BY <1>1, <1>3 DEF RecvQueueSize

(* What is reported or passed on is the buffer the hardware had, it is not the spare one,
   and the packet that is no image is past. *)
LEMMA ReceiveEffect ==
    ASSUME IInv, NEW b, hw # None, b = hw, ReceiveDone(b)
    PROVE  /\ dropped_frame_count' \in 0 .. DropFrames
           /\ dropped_frame_count' < DropFrames => dropped_frame_count < DropFrames
           /\ dropped_frame_count' # dropped_frame_count => fsm = "started"
           /\ \/ recv_queue' = recv_queue /\ done' = done /\ (Active => b = Spare)
              \/ /\ b \in Buffers /\ settled
                 /\ \/ recv_queue' = Append(recv_queue, b) /\ done' = done
                    \/ recv_queue' = recv_queue /\ done' = done \cup {b}
<1>0. used
    BY DEF IInv, Life, Clean
<1>1. CASE fsm # "started"
  <2>1. dropped_frame_count' = dropped_frame_count /\ recv_queue' = recv_queue /\ done' = done
      BY <1>1 DEF ReceiveDone
  <2>2. Active => rx_buffer = Spare
      BY <1>0, <1>1, Constants DEF IInv, Active, Kept
  <2> QED
      BY <2>1, <2>2, <1>1 DEF IInv, Types, Wired
<1>2. CASE fsm = "started" /\ dropped_frame_count < DropFrames
  <2>1. /\ dropped_frame_count' = dropped_frame_count + 1
        /\ recv_queue' = recv_queue /\ done' = done
      BY <1>2, Constants DEF ReceiveDone, IInv, Types
  <2>2. rx_buffer = Spare
      BY <1>0, <1>2 DEF IInv, Kept
  <2> QED
      BY <2>1, <2>2, <1>2, Constants DEF IInv, Types, Wired
<1>3. CASE fsm = "started" /\ ~(dropped_frame_count < DropFrames)
  <2>1. /\ dropped_frame_count = DropFrames
        /\ recv_queue' = IF ForUpper(b) /\ config.auto_decode /\ Len(recv_queue) < RecvQueueSize
                         THEN Append(recv_queue, b) ELSE recv_queue
        /\ done' = IF ForUpper(b) /\ ~config.auto_decode THEN done \cup {b} ELSE done
        /\ dropped_frame_count' = dropped_frame_count
      BY <1>3, Constants DEF ReceiveDone, IInv, Types
  <2>2. settled
      BY <2>1, Constants DEF IInv, Images
  <2>3. IF ForUpper(b) THEN b \in Buffers ELSE b = Spare
      BY <1>0 DEF ForUpper, IInv, Types, Wired, Targets
  <2>4. Len(recv_queue) < RecvQueueSize
      BY RecvQueueRoom
  <2>5. dropped_frame_count' \in 0 .. DropFrames
      BY <2>1 DEF IInv, Types
  <2>6. CASE ForUpper(b) /\ config.auto_decode
      BY <2>1, <2>2, <2>3, <2>4, <2>5, <2>6
  <2>7. CASE ForUpper(b) /\ ~config.auto_decode
      BY <2>1, <2>2, <2>3, <2>5, <2>7
  <2>8. CASE ~ForUpper(b)
      BY <2>1, <2>3, <2>5, <2>8
  <2> QED
      BY <2>6, <2>7, <2>8
<1> QED
    BY <1>1, <1>2, <1>3

-------------------------------------------------------------------------------
(* The interrupt *)

LEMMA PacketIInv == IInv /\ Packet => IInv'
<1> SUFFICES ASSUME IInv, Packet PROVE IInv'
    OBVIOUS
<1>1. /\ hw # None /\ hw = rx_buffer /\ trans_queue = <<>> /\ ms_queue = 0 /\ isr = "idle"
      /\ fsm # "none" /\ used
    BY DEF IInv, Types, Life, Clean, Wired, Packet
<1>2. ReceiveDone(hw)
    BY <1>1 DEF Packet
<1>3. /\ dropped_frame_count' \in 0 .. DropFrames
      /\ dropped_frame_count' < DropFrames => dropped_frame_count < DropFrames
      /\ dropped_frame_count' # dropped_frame_count => fsm = "started"
      /\ \/ recv_queue' = recv_queue /\ done' = done /\ (Active => hw = Spare)
         \/ /\ hw \in Buffers /\ settled
            /\ \/ recv_queue' = Append(recv_queue, hw) /\ done' = done
               \/ recv_queue' = recv_queue /\ done' = done \cup {hw}
    BY <1>1, <1>2, ReceiveEffect
<1>4. hw \in Buffers => /\ Append(recv_queue, hw) \in Seq(Buffers)
                        /\ Range(Append(recv_queue, hw)) = Range(recv_queue) \cup {hw}
                        /\ IsInjective(Append(recv_queue, hw))
    BY <1>1, AppendRange DEF IInv, Types, Apart, Pending
<1>5. /\ settled' = TRUE /\ hw' = None
      /\ image' = IF settled THEN image \cup ({hw} \cap Buffers) ELSE image
      /\ isr' = IF config.intf = "spi" THEN "setup" ELSE "post"
      /\ UNCHANGED <<config, fsm, starting, used, rx_buffer, setup_ll_buffer, trans_queue,
                     ms_queue, decoding, rejected, queued>>
    BY DEF Packet
<1>6. Types'
    BY <1>3, <1>4, <1>5 DEF IInv, Types
<1>7. Life'
    BY <1>1, <1>5 DEF IInv, Life
<1>8. Wired'
    BY <1>1, <1>5 DEF IInv, Wired
<1>9. Apart'
    BY <1>1, <1>3, <1>4, <1>5 DEF IInv, Apart, Pending
<1>10. Images'
    BY <1>3, <1>4, <1>5 DEF IInv, Images
<1>11. Kept'
  <2>1. Active' => Active
      BY <1>5 DEF Active
  <2>2. starting => fsm # "started"
      BY DEF IInv, Life
  <2>3. Active => Buffers \subseteq (queued \cup done \cup rejected \cup Range(recv_queue)
                                   \cup {decoding} \cup Range(trans_queue)) \cup {hw}
      BY DEF IInv, Kept
  <2>4. Active => Buffers \subseteq queued' \cup done' \cup rejected' \cup Range(recv_queue')
                                 \cup {hw', decoding'} \cup Range(trans_queue')
      BY <1>3, <1>4, <1>5, <2>3, Constants
  <2>5. fsm' # "none"
      BY <1>1, <1>5
  <2>6. used' /\ dropped_frame_count' < DropFrames => rx_buffer' = Spare
      BY <1>3, <1>5 DEF IInv, Kept
  <2>7. starting' => dropped_frame_count' = 0
      BY <1>3, <1>5, <2>2 DEF IInv, Kept
  <2> QED
      BY <2>1, <2>4, <2>5, <2>6, <2>7 DEF Kept
<1> QED
    BY <1>6, <1>7, <1>8, <1>9, <1>10, <1>11 DEF IInv

LEMMA IsrNextIInv == IInv /\ IsrNext => IInv'
<1> SUFFICES ASSUME IInv, IsrNext PROVE IInv'
    OBVIOUS
<1>1. /\ isr = "setup" /\ isr' = "idle" /\ hw' = rx_buffer'
      /\ SetupTransBuffer(dropped_frame_count)
      /\ UNCHANGED <<config, fsm, starting, used, dropped_frame_count, trans_queue, ms_queue,
                     decodeVars, done, settled>>
    BY DEF IsrNext
<1>2. /\ rx_buffer' \in queued \cup {Spare}
      /\ queued' = queued \ {rx_buffer'}
      /\ image' = image \ {rx_buffer'}
      /\ setup_ll_buffer' \in BOOLEAN
      /\ setup_ll_buffer' <=> rx_buffer' = Spare
      /\ ~(dropped_frame_count >= DropFrames) => rx_buffer' = Spare
    BY <1>1, SetupEffect DEF IInv
<1>3. /\ used /\ fsm # "none" /\ hw = None /\ trans_queue = <<>> /\ ms_queue = 0
      /\ config.intf = "spi"
    BY <1>1 DEF IInv, Types, Config, Interfaces, Life, Clean, Wired
<1>4. Types'
    BY <1>1, <1>2 DEF IInv, Types, Targets, decodeVars
<1>5. Life'
    BY <1>1, <1>3 DEF IInv, Life, decodeVars
<1>6. Wired'
    BY <1>1, <1>2, <1>3 DEF IInv, Wired
<1>7. Apart'
    BY <1>1, <1>2, <1>3, Constants DEF IInv, Types, Apart, Images, Pending, decodeVars
<1>8. Images'
    BY <1>1, <1>2, Constants DEF IInv, Types, Apart, Images, decodeVars
<1>9. Kept'
  <2>1. Active => hw' = rx_buffer'
      BY <1>1
  <2>2. Active' => Active
      BY <1>1 DEF Active
  <2>3. Active => Buffers \subseteq queued \cup done \cup rejected \cup Range(recv_queue)
                                 \cup {hw, decoding} \cup Range(trans_queue)
      BY DEF IInv, Kept
  <2>4. Active => Buffers \subseteq queued' \cup done' \cup rejected' \cup Range(recv_queue')
                                 \cup {hw', decoding'} \cup Range(trans_queue')
      BY <1>1, <1>2, <1>3, <2>1, <2>3, Constants DEF decodeVars
  <2>5. dropped_frame_count < DropFrames => ~(dropped_frame_count >= DropFrames)
      BY Constants DEF IInv, Types
  <2> QED
      BY <1>1, <1>2, <1>3, <2>2, <2>4, <2>5 DEF IInv, Kept
<1> QED
    BY <1>4, <1>5, <1>6, <1>7, <1>8, <1>9 DEF IInv

LEMMA IsrFetchIInv == IInv /\ IsrFetch => IInv'
<1> SUFFICES ASSUME IInv, IsrFetch PROVE IInv'
    OBVIOUS
<1>1. trans_queue = <<rx_buffer>> /\ rx_buffer \in Targets
    BY DEF IInv, Types, Wired, IsrFetch
<1>2. Head(trans_queue) = rx_buffer /\ Tail(trans_queue) = <<>>
    BY <1>1
<1>3. /\ hw = None /\ isr = "idle" /\ hw' = rx_buffer /\ trans_queue' = <<>>
      /\ UNCHANGED <<config, fsm, starting, used, transVars, isr, ms_queue, decodeVars, upperVars,
                     settled, image>>
    BY <1>2 DEF IsrFetch
<1>4. config.intf = "spi" /\ ms_queue = 0 /\ fsm # "none" /\ used
    BY <1>1 DEF IInv, Life, Clean, Wired
<1>5. Types'
    BY <1>1, <1>3 DEF IInv, Types, transVars, decodeVars, upperVars
<1>6. Life'
    BY <1>3, <1>4 DEF IInv, Life
<1>7. Wired'
    BY <1>3, <1>4 DEF IInv, Wired, transVars
<1>8. Apart'
    BY <1>1, <1>3 DEF IInv, Apart, Pending, transVars, decodeVars, upperVars
<1>9. Images'
    BY <1>3 DEF IInv, Images, transVars, decodeVars, upperVars
<1>10. Kept'
  <2>1. Range(trans_queue) = {rx_buffer} /\ Range(trans_queue') = {}
      BY <1>1, <1>3, EmptyRange DEF Range
  <2>2. Active => Buffers \subseteq queued \cup done \cup rejected \cup Range(recv_queue)
                                 \cup {hw, decoding} \cup Range(trans_queue)
      BY DEF IInv, Kept
  <2>3. Active => Buffers \subseteq queued' \cup done' \cup rejected' \cup Range(recv_queue')
                                 \cup {hw', decoding'} \cup Range(trans_queue')
      BY <1>3, <2>1, <2>2, Constants DEF decodeVars, upperVars
  <2>4. Active' => Active
      BY <1>3 DEF Active
  <2> QED
      BY <1>3, <2>3, <2>4 DEF IInv, Kept, transVars, upperVars
<1> QED
    BY <1>5, <1>6, <1>7, <1>8, <1>9, <1>10 DEF IInv

LEMMA IsrPostIInv == IInv /\ IsrPost => IInv'
<1> SUFFICES ASSUME IInv, IsrPost PROVE IInv'
    OBVIOUS
<1>1. /\ isr = "post" /\ isr' = "idle" /\ ms_queue = 0 /\ ms_queue' = 1
      /\ hw = None /\ config.intf # "spi" /\ fsm # "none" /\ used
      /\ UNCHANGED <<config, fsm, starting, used, transVars, trans_queue, hw, decodeVars,
                     upperVars, settled, image>>
    BY DEF IInv, Life, Clean, Wired, IsrPost
<1>2. Types' /\ Life' /\ Wired' /\ Apart' /\ Images'
    BY <1>1 DEF IInv, Types, Life, Wired, Apart, Pending, Images, transVars, decodeVars, upperVars
<1>3. Kept'
    BY <1>1 DEF IInv, Kept, Active, transVars, decodeVars, upperVars
<1> QED
    BY <1>2, <1>3 DEF IInv

LEMMA MessageTaskIInv == IInv /\ MessageTask => IInv'
<1> SUFFICES ASSUME IInv, MessageTask PROVE IInv'
    OBVIOUS
<1>1. /\ ms_queue = 1 /\ ms_queue' = 0
      /\ SetupTransBuffer(dropped_frame_count)
      /\ hw' = IF hw = None /\ fsm \in {"enabled", "started"} THEN rx_buffer' ELSE hw
      /\ UNCHANGED <<config, fsm, starting, used, dropped_frame_count, trans_queue, isr,
                     decodeVars, done, settled>>
    BY DEF MessageTask, IInv, Types
<1>2. /\ rx_buffer' \in queued \cup {Spare}
      /\ queued' = queued \ {rx_buffer'}
      /\ image' = image \ {rx_buffer'}
      /\ setup_ll_buffer' \in BOOLEAN
      /\ setup_ll_buffer' <=> rx_buffer' = Spare
      /\ ~(dropped_frame_count >= DropFrames) => rx_buffer' = Spare
    BY <1>1, SetupEffect DEF IInv
<1>3. /\ used /\ fsm # "none" /\ hw = None /\ trans_queue = <<>> /\ isr = "idle"
      /\ config.intf # "spi"
    BY <1>1 DEF IInv, Types, Config, Interfaces, Life, Clean, Wired
<1>4. hw' \in {None, rx_buffer'}
    BY <1>1, <1>3
<1>5. Types'
    BY <1>1, <1>2, <1>4 DEF IInv, Types, Targets, decodeVars
<1>6. Life'
    BY <1>1, <1>3 DEF IInv, Life, decodeVars
<1>7. Wired'
    BY <1>1, <1>2, <1>3, <1>4 DEF IInv, Wired
<1>8. Apart'
    BY <1>1, <1>2, <1>3, <1>4, Constants DEF IInv, Types, Apart, Images, Pending, decodeVars
<1>9. Images'
    BY <1>1, <1>2, Constants DEF IInv, Types, Apart, Images, decodeVars
<1>10. Kept'
  <2>1. Active => hw' = rx_buffer'
      BY <1>1, <1>3 DEF IInv, Life, Active
  <2>2. Active' => Active
      BY <1>1 DEF Active
  <2>3. Active => Buffers \subseteq queued \cup done \cup rejected \cup Range(recv_queue)
                                 \cup {hw, decoding} \cup Range(trans_queue)
      BY DEF IInv, Kept
  <2>4. Active => Buffers \subseteq queued' \cup done' \cup rejected' \cup Range(recv_queue')
                                 \cup {hw', decoding'} \cup Range(trans_queue')
      BY <1>1, <1>2, <1>3, <2>1, <2>3, Constants DEF decodeVars
  <2>5. dropped_frame_count < DropFrames => ~(dropped_frame_count >= DropFrames)
      BY Constants DEF IInv, Types
  <2> QED
      BY <1>1, <1>2, <1>3, <2>2, <2>4, <2>5 DEF IInv, Kept
<1> QED
    BY <1>5, <1>6, <1>7, <1>8, <1>9, <1>10 DEF IInv

(* The decode task and the application *)

LEMMA DecodeTakeIInv == IInv /\ DecodeTake => IInv'
<1> SUFFICES ASSUME IInv, DecodeTake PROVE IInv'
    OBVIOUS
<1>1. /\ decoding = None /\ recv_queue # <<>>
      /\ decoding' = Head(recv_queue)
      /\ recv_queue' = Tail(recv_queue)
      /\ UNCHANGED <<config, fsm, starting, used, transVars, trans_queue, hw, isr, ms_queue,
                     rejected, upperVars, settled, image>>
    BY DEF DecodeTake
<1>2. /\ Head(recv_queue) \in Buffers
      /\ Head(recv_queue) \in Range(recv_queue)
      /\ Tail(recv_queue) \in Seq(Buffers)
      /\ Range(Tail(recv_queue)) = Range(recv_queue) \ {Head(recv_queue)}
      /\ IsInjective(Tail(recv_queue))
    BY <1>1, TailRange DEF IInv, Types, Apart
<1>3. fsm # "none" /\ used
    BY <1>1 DEF IInv, Life, Clean
<1>4. Types'
    BY <1>1, <1>2 DEF IInv, Types, transVars, upperVars
<1>5. Life'
    BY <1>1, <1>3 DEF IInv, Life
<1>6. Wired'
    BY <1>1 DEF IInv, Wired, transVars
<1>7. Apart'
    BY <1>1, <1>2 DEF IInv, Apart, Pending, transVars, upperVars
<1>8. Images'
    BY <1>1, <1>2 DEF IInv, Images, transVars, upperVars
<1>9. Kept'
  <2>1. Active => Buffers \subseteq queued \cup done \cup rejected \cup Range(recv_queue)
                                 \cup {hw, decoding} \cup Range(trans_queue)
      BY DEF IInv, Kept
  <2>2. Active => Buffers \subseteq queued' \cup done' \cup rejected' \cup Range(recv_queue')
                                 \cup {hw', decoding'} \cup Range(trans_queue')
      BY <1>1, <1>2, <2>1, Constants DEF upperVars
  <2>3. Active' => Active
      BY <1>1 DEF Active
  <2> QED
      BY <1>1, <2>2, <2>3 DEF IInv, Kept, transVars, upperVars
<1> QED
    BY <1>4, <1>5, <1>6, <1>7, <1>8, <1>9 DEF IInv

LEMMA DecodeEndIInv == IInv /\ (DecodeReport \/ DecodeReject) => IInv'
<1> SUFFICES ASSUME IInv, DecodeReport \/ DecodeReject PROVE IInv'
    OBVIOUS
<1>1. /\ decoding \in Buffers /\ decoding' = None
      /\ \/ done' = done \cup {decoding} /\ rejected' = rejected
         \/ done' = done /\ rejected' = rejected \cup {decoding}
      /\ UNCHANGED <<config, fsm, starting, used, transVars, trans_queue, hw, isr, ms_queue,
                     recv_queue, queued, settled, image>>
    BY DEF IInv, Types, DecodeReport, DecodeReject, upperVars
<1>2. fsm # "none" /\ used
    BY <1>1, Constants DEF IInv, Life, Clean
<1>3. Types'
    BY <1>1 DEF IInv, Types, transVars
<1>4. Life'
    BY <1>1, <1>2 DEF IInv, Life
<1>5. Wired'
    BY <1>1 DEF IInv, Wired, transVars
<1>6. Apart'
  <2>1. /\ rx_buffer' = rx_buffer /\ Range(recv_queue') = Range(recv_queue)
        /\ None \notin Range(recv_queue) \cup queued \cup done' \cup rejected'
      BY <1>1, Constants DEF IInv, Types, Images, transVars
  <2>2. Pending' => Pending
      BY <1>1 DEF Pending
  <2>3. CASE done' = done \cup {decoding} /\ rejected' = rejected
      BY <1>1, <2>1, <2>2, <2>3, Constants DEF IInv, Apart, Types, Targets
  <2>4. CASE done' = done /\ rejected' = rejected \cup {decoding}
      BY <1>1, <2>1, <2>2, <2>4, Constants DEF IInv, Apart, Types, Targets
  <2> QED
      BY <1>1, <2>3, <2>4
<1>7. Images'
    BY <1>1, Constants DEF IInv, Images, transVars
<1>8. Kept'
  <2>1. Active => Buffers \subseteq queued \cup done \cup rejected \cup Range(recv_queue)
                                 \cup {hw, decoding} \cup Range(trans_queue)
      BY DEF IInv, Kept
  <2>2. Active => Buffers \subseteq queued' \cup done' \cup rejected' \cup Range(recv_queue')
                                 \cup {hw', decoding'} \cup Range(trans_queue')
      BY <1>1, <2>1, Constants
  <2>3. Active' => Active
      BY <1>1 DEF Active
  <2> QED
      BY <1>1, <1>2, <2>2, <2>3 DEF IInv, Kept, transVars
<1> QED
    BY <1>3, <1>4, <1>5, <1>6, <1>7, <1>8 DEF IInv

LEMMA RequeueIInv ==
    ASSUME NEW b \in Buffers PROVE IInv /\ Requeue(b) => IInv'
<1> SUFFICES ASSUME IInv, Requeue(b) PROVE IInv'
    OBVIOUS
<1>1. /\ b \in done
      /\ done' = done \ {b}
      /\ queued' = queued \cup {b}
      /\ UNCHANGED <<config, fsm, starting, used, transVars, trans_queue, hw, isr, ms_queue,
                     decodeVars, settled, image>>
    BY DEF Requeue
<1>2. fsm # "none" /\ used
    BY <1>1 DEF IInv, Life, Clean
<1>3. Types'
    BY <1>1 DEF IInv, Types, transVars, decodeVars
<1>4. Life'
    BY <1>1, <1>2 DEF IInv, Life
<1>5. Wired'
    BY <1>1 DEF IInv, Wired, transVars
<1>6. Apart'
    BY <1>1 DEF IInv, Apart, Pending, transVars, decodeVars
<1>7. Images'
    BY <1>1 DEF IInv, Images, transVars, decodeVars
<1>8. Kept'
  <2>1. Active => Buffers \subseteq queued \cup done \cup rejected \cup Range(recv_queue)
                                 \cup {hw, decoding} \cup Range(trans_queue)
      BY DEF IInv, Kept
  <2>2. Active => Buffers \subseteq queued' \cup done' \cup rejected' \cup Range(recv_queue')
                                 \cup {hw', decoding'} \cup Range(trans_queue')
      BY <1>1, <2>1 DEF decodeVars
  <2>3. Active' => Active
      BY <1>1 DEF Active
  <2> QED
      BY <1>1, <1>2, <2>2, <2>3 DEF IInv, Kept, transVars
<1> QED
    BY <1>3, <1>4, <1>5, <1>6, <1>7, <1>8 DEF IInv

-------------------------------------------------------------------------------
(* The control of the controller *)

LEMMA NewIInv == IInv /\ New => IInv'
<1> SUFFICES ASSUME IInv, New PROVE IInv'
    OBVIOUS
<1>1. Clean /\ ~starting
    BY DEF New, IInv, Life
<1>2. /\ fsm' = "init" /\ used' = FALSE /\ config' \in Config
      /\ setup_ll_buffer' = FALSE /\ dropped_frame_count' = 0
      /\ UNCHANGED <<starting, rx_buffer, trans_queue, hw, isr, ms_queue, decodeVars, upperVars,
                     settled, image>>
    BY Constants DEF New
<1>3. Types'
  <2>1. 0 \in 0 .. DropFrames
      BY Constants
  <2> QED
      BY <1>2, <2>1 DEF IInv, Types, decodeVars, upperVars
<1>4. Life'
    BY <1>1, <1>2 DEF Life, Clean, decodeVars, upperVars
<1>5. Wired'
    BY <1>1, <1>2 DEF Wired, Clean
<1>6. Apart'
    BY <1>2 DEF IInv, Apart, Pending, decodeVars, upperVars
<1>7. Images'
    BY <1>2 DEF IInv, Images, decodeVars, upperVars
<1>8. Kept'
  <2>1. queued = Buffers
      BY DEF New, IInv, Kept
  <2> QED
      BY <1>1, <1>2, <2>1 DEF Kept, upperVars
<1> QED
    BY <1>3, <1>4, <1>5, <1>6, <1>7, <1>8 DEF IInv

LEMMA StartIInv == ~Reusable /\ IInv /\ Start => IInv'
<1> SUFFICES ASSUME ~Reusable, IInv, Start PROVE IInv'
    OBVIOUS
<1>1. Clean /\ fsm = "enabled" /\ SetupTransBuffer(0)
    BY DEF Start, IInv, Life
<1>2. /\ rx_buffer' \in queued \cup {Spare}
      /\ queued' = queued \ {rx_buffer'}
      /\ image' = image \ {rx_buffer'}
      /\ setup_ll_buffer' \in BOOLEAN
      /\ setup_ll_buffer' <=> rx_buffer' = Spare
    BY <1>1, SetupEffect DEF IInv
<1>3. Append(trans_queue, rx_buffer') = <<rx_buffer'>>
    BY <1>1 DEF Clean
<1>4. /\ starting' = TRUE /\ used' = TRUE /\ dropped_frame_count' = 0 /\ settled' = FALSE
      /\ UNCHANGED <<config, fsm, isr, ms_queue, decodeVars, done>>
      /\ \/ config.intf = "spi" /\ trans_queue' = <<rx_buffer'>> /\ hw' = hw
         \/ config.intf # "spi" /\ trans_queue' = trans_queue /\ hw' = rx_buffer'
    BY <1>3 DEF Start
<1>5. Types'
  <2>1. 0 \in 0 .. DropFrames
      BY Constants
  <2>2. hw' \in Targets \cup {None} /\ rx_buffer' \in Targets
      BY <1>2, <1>4 DEF IInv, Types, Targets
  <2> QED
      BY <1>2, <1>4, <2>1, <2>2 DEF IInv, Types, decodeVars
<1>6. Life'
    BY <1>1, <1>4 DEF IInv, Life
<1>7. Wired'
    BY <1>1, <1>2, <1>4 DEF IInv, Wired, Clean
<1>8. Apart'
    BY <1>2, <1>4, Constants DEF IInv, Types, Apart, Images, Pending, decodeVars
<1>9. Images'
    BY <1>2, <1>4, Constants DEF IInv, Types, Apart, Images, decodeVars
<1>10. Kept'
  <2>1. rx_buffer' = Spare
      BY <1>1, SetupEffect, Constants DEF IInv
  <2>2. Range(trans_queue) = {}
      BY <1>1, EmptyRange DEF Clean
  <2>3. Active => Buffers \subseteq queued \cup done \cup rejected \cup Range(recv_queue)
                                 \cup {hw, decoding} \cup Range(trans_queue)
      BY DEF IInv, Kept
  <2>4. Active
      BY <1>1 DEF Start, Active, IInv, Life
  <2>5. Active => Buffers \subseteq queued' \cup done' \cup rejected' \cup Range(recv_queue')
                                 \cup {hw', decoding'} \cup Range(trans_queue')
      BY <1>1, <1>2, <1>4, <2>1, <2>2, <2>3, <2>4, Constants DEF Clean, decodeVars
  <2>6. fsm' # "none"
      BY <1>1, <1>4
  <2> QED
      BY <1>4, <2>1, <2>4, <2>5, <2>6 DEF Kept
<1> QED
    BY <1>5, <1>6, <1>7, <1>8, <1>9, <1>10 DEF IInv

(* Calls that change the state of the controller alone, or drop its transaction. *)
LEMMA FsmIInv ==
    ASSUME IInv, Enable \/ StartDone \/ Stop \/ Disable
    PROVE  IInv'
<1>1. /\ starting' \in BOOLEAN
      /\ fsm' \in {"init", "enabled", "started"} /\ fsm # "none"
      /\ starting' => fsm' = "enabled" /\ used
      /\ fsm' = "started" => used
      /\ hw' \in {None, hw}
      /\ UNCHANGED <<config, used, transVars, trans_queue, isr, ms_queue, decodeVars,
                     upperVars, settled, image>>
  <2>1. CASE Enable
      BY <2>1 DEF IInv, Types, Life, Enable
  <2>2. CASE StartDone
      BY <2>2 DEF IInv, Types, Life, StartDone
  <2>3. CASE Stop
      BY <2>3 DEF IInv, Types, Life, Stop
  <2>4. CASE Disable
      BY <2>4 DEF IInv, Types, Life, Disable
  <2> QED
      BY <2>1, <2>2, <2>3, <2>4
<1>2. Types'
    BY <1>1 DEF IInv, Types, transVars, decodeVars, upperVars
<1>3. Life'
    BY <1>1 DEF IInv, Life, Clean, decodeVars, upperVars
<1>4. Wired'
    BY <1>1 DEF IInv, Wired, transVars
<1>5. Apart'
    BY <1>1 DEF IInv, Apart, Pending, transVars, decodeVars, upperVars
<1>6. Images'
    BY <1>1 DEF IInv, Images, transVars, decodeVars, upperVars
<1>7. Kept'
  <2>1. Active' => Active /\ hw' = hw
      BY DEF IInv, Life, Clean, Active, Enable, StartDone, Stop, Disable
  <2>2. starting' => starting
      BY DEF Enable, StartDone, Stop, Disable
  <2> QED
      BY <1>1, <2>1, <2>2 DEF IInv, Kept, transVars, decodeVars, upperVars
<1> QED
    BY <1>2, <1>3, <1>4, <1>5, <1>6, <1>7 DEF IInv

LEMMA DelIInv == IInv /\ Del => IInv'
<1> SUFFICES ASSUME IInv, Del PROVE IInv'
    OBVIOUS
<1>1. Range(<<>>) = {} /\ IsInjective(<<>>) /\ <<>> \in Seq(Buffers)
    BY EmptyRange
<1>2. /\ fsm' = "none" /\ isr' = "idle" /\ ms_queue' = 0 /\ ~starting
      /\ trans_queue' = <<>> /\ hw' = None
      /\ recv_queue' = <<>> /\ decoding' = None /\ rejected' = {}
      /\ queued' = Buffers /\ done' = {} /\ image' = {}
      /\ UNCHANGED <<config, starting, used, transVars, settled>>
    BY DEF Del, IInv, Life
<1>3. Types'
    BY <1>1, <1>2 DEF IInv, Types, transVars
<1>4. Life'
    BY <1>2 DEF Life, Clean
<1>5. Wired'
    BY <1>2 DEF IInv, Wired, transVars
<1>6. Apart'
    BY <1>1, <1>2, Constants DEF Apart, Pending
<1>7. Images'
    BY <1>1, <1>2 DEF IInv, Images, transVars
<1>8. Kept'
    BY <1>2 DEF IInv, Kept, transVars
<1> QED
    BY <1>3, <1>4, <1>5, <1>6, <1>7, <1>8 DEF IInv

LEMMA StutterIInv == IInv /\ UNCHANGED vars => IInv'
BY DEF IInv, Types, Life, Clean, Wired, Apart, Pending, Images, Kept, Active, vars, transVars, decodeVars, upperVars

LEMMA NextIInv == ~Reusable /\ IInv /\ [Next]_vars => IInv'
BY PacketIInv, IsrNextIInv, IsrFetchIInv, IsrPostIInv, MessageTaskIInv, DecodeTakeIInv,
   DecodeEndIInv, RequeueIInv, NewIInv, StartIInv, FsmIInv, DelIInv, StutterIInv
   DEF Next, Interrupt, DecodeTask, Control

-------------------------------------------------------------------------------
(* Results *)

LEMMA Invariance == ~Reusable => (Spec => []IInv)
<1> SUFFICES ASSUME ~Reusable PROVE Spec => []IInv
    OBVIOUS
<1>1. IInv /\ [Next]_vars => IInv'
    BY NextIInv
<1> QED
    BY InitIInv, <1>1, PTL DEF Spec

(* What a controller that is started once per life reports to the layer above is an image
   received whole: never the first packet of a session, a buffer that is being filled or
   the driver's own, for any number of buffers and of packets to drop, on either
   interface, with and without a decode task (spi_cam_receive_done). *)
THEOREM Intact == ~Reusable => (Spec => []FrameIntact)
<1>1. IInv => FrameIntact
    BY DEF IInv, Images, FrameIntact
<1> QED
    BY Invariance, <1>1, PTL

(* In such a life no buffer is in two places, and until the controller is stopped every
   buffer is in one: none is lost between the interrupt, the tasks and the layer above. *)
THEOREM BufferOnce == ~Reusable => (Spec => []EachBufferOnce)
<1>1. IInv => EachBufferOnce
  <2> SUFFICES ASSUME IInv PROVE EachBufferOnce
      OBVIOUS
  <2> DEFINE q == queued
             t == Range(trans_queue)
             r == Range(recv_queue)
             h == {hw}
             c == {decoding}
             P == <<q, done, rejected, h, t, r, c>>
  <2>1. t = {} \/ (t = {rx_buffer} /\ hw = None)
      BY EmptyRange DEF IInv, Wired, Range
  <2>2. t # {} => Pending
      BY EmptyRange DEF Pending
  <2>3. /\ q \cap done \cap Buffers = {} /\ q \cap rejected \cap Buffers = {}
        /\ q \cap h \cap Buffers = {} /\ q \cap t \cap Buffers = {}
        /\ q \cap r \cap Buffers = {} /\ q \cap c \cap Buffers = {}
      BY <2>1, <2>2, Constants DEF IInv, Wired, Apart, Pending
  <2>4. /\ done \cap rejected \cap Buffers = {} /\ done \cap h \cap Buffers = {}
        /\ done \cap t \cap Buffers = {} /\ done \cap r \cap Buffers = {}
        /\ done \cap c \cap Buffers = {}
      BY <2>1, <2>2, Constants DEF IInv, Wired, Apart, Pending
  <2>5. /\ rejected \cap h \cap Buffers = {} /\ rejected \cap t \cap Buffers = {}
        /\ rejected \cap r \cap Buffers = {} /\ rejected \cap c \cap Buffers = {}
      BY <2>1, <2>2, Constants DEF IInv, Wired, Apart, Pending
  <2>6. /\ h \cap t \cap Buffers = {} /\ h \cap r \cap Buffers = {}
        /\ h \cap c \cap Buffers = {} /\ t \cap r \cap Buffers = {}
        /\ t \cap c \cap Buffers = {} /\ r \cap c \cap Buffers = {}
      BY <2>1, <2>2, Constants DEF IInv, Wired, Apart, Pending
  <2>7. fsm = "started" => Buffers \subseteq q \cup done \cup rejected \cup h \cup t \cup r \cup c
      BY DEF IInv, Kept, Active
  <2>8. Places = P
      BY DEF Places
  <2> HIDE DEF q, t, r, h, c
  <2>9. \A i, j \in DOMAIN P : i # j => P[i] \cap P[j] \cap Buffers = {}
      BY <2>3, <2>4, <2>5, <2>6
  <2>10. UNION Range(P) = q \cup done \cup rejected \cup h \cup t \cup r \cup c
    <3>1. Range(P) = {q, done, rejected, h, t, r, c}
        BY DEF Range
    <3> QED
        BY <3>1
  <2>11. IsInjective(recv_queue)
      BY DEF IInv, Apart
  <2> HIDE DEF P
  <2> QED
      BY <2>7, <2>8, <2>9, <2>10, <2>11 DEF EachBufferOnce
<1> QED
    BY Invariance, <1>1, PTL

(* In such a life no queue is full when something is sent to it: the assertion of
   spi_cam_post_trans_cb never fails, and no packet is lost between interrupt and task. *)
THEOREM Room == ~Reusable => (Spec => []QueuesHaveRoom)
<1>1. IInv => QueuesHaveRoom
  <2> SUFFICES ASSUME IInv PROVE QueuesHaveRoom
      OBVIOUS
  <2>1. isr = "setup" => trans_queue = <<>>
      BY DEF IInv, Wired
  <2>2. 0 < RecvQueueSize
      BY Constants, FS_CardinalityType DEF RecvQueueSize
  <2>3. isr = "post" => ms_queue = 0
      BY DEF IInv, Wired
  <2> QED
      BY <2>1, <2>2, <2>3, RecvQueueRoom DEF QueuesHaveRoom, TransQueueSize
<1> QED
    BY Invariance, <1>1, PTL

===============================================================================
