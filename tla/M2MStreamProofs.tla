---------------------------- MODULE M2MStreamProofs ----------------------------
(***************************************************************************)
(* Proofs about M2MStream, for every number of tasks and buffers:           *)
(* TypeCorrect, EncoderOwned (EncoderExact), BuffersPlaced (EveryBufferOnce), *)
(* FramesPaired (PairsMatch) and NeverWaits (CaptureNeverWaits).            *)
(*                                                                          *)
(* Every action moves one buffer of each stream it touches from one place   *)
(* to the next; Placement states the places of one stream, and there is one  *)
(* lemma per move.  FramesPaired rests on it: a codec writes only into a     *)
(* buffer that is in no list, so what is in the done lists does not change.  *)
(* NeverWaits counts tasks: what each of them has still to give, has taken,  *)
(* or waits for.                                                             *)
(***************************************************************************)
EXTENDS M2MStream, FiniteSetTheorems, SequenceTheorems, TLAPS

-------------------------------------------------------------------------------
(* Lists whose elements are distinct *)

(* Adding at the end. *)
LEMMA AppendRange ==
    ASSUME NEW S, NEW s \in Seq(S), NEW e \in S
    PROVE  /\ Append(s, e) \in Seq(S)
           /\ Range(Append(s, e)) = Range(s) \cup {e}
           /\ IsInjective(s) /\ e \notin Range(s) => IsInjective(Append(s, e))
<1>1. Range(Append(s, e)) = Range(s) \cup {e}
  BY RangeConcatenation, AppendIsConcat, <<e>> \in Seq(S), Range(<<e>>) = {e} DEF Range
<1> QED BY <1>1, AppendProperties, LenProperties DEF Range, IsInjective

(* Taking from the front. *)
LEMMA TailRange ==
    ASSUME NEW S, NEW s \in Seq(S), s # <<>>, IsInjective(s)
    PROVE  /\ Head(s) \in S
           /\ Head(s) \in Range(s)
           /\ Tail(s) \in Seq(S)
           /\ Range(Tail(s)) = Range(s) \ {Head(s)}
           /\ IsInjective(Tail(s))
<1> DEFINE t == Tail(s)
<1>1. /\ Head(s) \in S
      /\ t \in Seq(S)
      /\ Len(t) = Len(s) - 1
      /\ \A i \in 1 .. Len(t) : t[i] = s[i + 1]
      /\ Len(s) \in Nat
      /\ Len(s) > 0
  BY HeadTailProperties, LenProperties, EmptySeq
<1>2. /\ DOMAIN t = 1 .. Len(s) - 1
      /\ DOMAIN s = 1 .. Len(s)
      /\ Head(s) = s[1]
  BY <1>1, LenProperties
<1> HIDE DEF t
<1>3. Head(s) \in Range(s)
  BY <1>1, <1>2 DEF Range
<1>4. Range(t) = Range(s) \ {Head(s)}
  <2>1. ASSUME NEW x \in Range(t)
        PROVE  x \in Range(s) \ {Head(s)}
    <3>1. PICK i \in 1 .. Len(s) - 1 : x = s[i + 1]
      BY <1>1, <1>2 DEF Range
    <3>2. i + 1 \in DOMAIN s /\ 1 \in DOMAIN s /\ i + 1 # 1
      BY <1>1, <1>2
    <3> QED BY <1>2, <3>1, <3>2 DEF Range, IsInjective
  <2>2. ASSUME NEW x \in Range(s) \ {Head(s)}
        PROVE  x \in Range(t)
    <3>1. PICK i \in 1 .. Len(s) : x = s[i]
      BY <1>2 DEF Range
    <3>2. i # 1 /\ i - 1 \in 1 .. Len(s) - 1 /\ (i - 1) + 1 = i
      BY <1>1, <1>2, <3>1
    <3>3. t[i - 1] = s[i]
      BY <1>1, <3>2
    <3> QED BY <1>2, <3>1, <3>2, <3>3 DEF Range
  <2> QED BY <2>1, <2>2
<1>5. IsInjective(t)
  BY <1>1, <1>2 DEF IsInjective
<1> QED BY <1>1, <1>3, <1>4, <1>5 DEF t

LEMMA EmptyRange == Range(<<>>) = {} /\ IsInjective(<<>>)
BY DEF Range, IsInjective

(* An element that moves from the front of a list to the end of the one before it. *)
LEMMA MoveAcross ==
    ASSUME NEW S, NEW s \in Seq(S), NEW t \in Seq(S), t # <<>>
    PROVE  Append(s, Head(t)) \o Tail(t) = s \o t
<1> DEFINE a == Append(s, Head(t))
           u == Tail(t)
<1>1. /\ Head(t) \in S /\ Head(t) = t[1] /\ u \in Seq(S) /\ Len(u) = Len(t) - 1
      /\ \A i \in 1 .. Len(u) : u[i] = t[i + 1]
      /\ Len(s) \in Nat /\ Len(t) \in Nat /\ Len(t) > 0
  BY HeadTailProperties, LenProperties, EmptySeq
<1>2. /\ a \in Seq(S) /\ Len(a) = Len(s) + 1
      /\ \A i \in 1 .. Len(s) : a[i] = s[i]
      /\ a[Len(s) + 1] = Head(t)
  BY <1>1, AppendProperties
<1> HIDE DEF a, u
<1>3. /\ a \o u \in Seq(S) /\ Len(a \o u) = Len(a) + Len(u)
      /\ \A i \in 1 .. Len(a) + Len(u) :
             (a \o u)[i] = IF i <= Len(a) THEN a[i] ELSE u[i - Len(a)]
  BY <1>1, <1>2, ConcatProperties
<1>4. /\ s \o t \in Seq(S) /\ Len(s \o t) = Len(s) + Len(t)
      /\ \A i \in 1 .. Len(s) + Len(t) :
             (s \o t)[i] = IF i <= Len(s) THEN s[i] ELSE t[i - Len(s)]
  BY ConcatProperties
<1>5. Len(a \o u) = Len(s \o t)
  BY <1>1, <1>2, <1>3, <1>4
<1>6. ASSUME NEW i \in 1 .. Len(a \o u)
      PROVE  (a \o u)[i] = (s \o t)[i]
  <2>1. i \in 1 .. Len(s) + Len(t) /\ i \in 1 .. Len(a) + Len(u)
    BY <1>3, <1>4, <1>5
  <2>2. CASE i <= Len(s)
    BY <1>1, <1>2, <1>3, <1>4, <2>1, <2>2
  <2>3. CASE i = Len(s) + 1
    BY <1>1, <1>2, <1>3, <1>4, <2>1, <2>3
  <2>4. CASE i > Len(s) + 1
    <3>1. (a \o u)[i] = u[i - Len(a)] /\ (s \o t)[i] = t[i - Len(s)]
      BY <1>1, <1>2, <1>3, <1>4, <2>1, <2>4
    <3>2. i - Len(a) \in 1 .. Len(u) /\ (i - Len(a)) + 1 = i - Len(s)
      BY <1>1, <1>2, <2>1, <2>4
    <3> QED BY <1>1, <3>1, <3>2
  <2> QED BY <1>1, <2>1, <2>2, <2>3, <2>4
<1>7. a \o u = s \o t
  BY <1>3, <1>4, <1>5, <1>6, SeqEqual
<1> QED BY <1>7 DEF a, u

(* The rest of a concatenation. *)
LEMMA TailConcat ==
    ASSUME NEW S, NEW s \in Seq(S), NEW t \in Seq(S), s # <<>>
    PROVE  Tail(s \o t) = Tail(s) \o t
<1> DEFINE c == s \o t
           u == Tail(s)
<1>1. /\ u \in Seq(S) /\ Len(u) = Len(s) - 1
      /\ \A i \in 1 .. Len(u) : u[i] = s[i + 1]
      /\ Len(s) \in Nat /\ Len(t) \in Nat /\ Len(s) > 0
  BY HeadTailProperties, LenProperties, EmptySeq
<1>2. /\ c \in Seq(S) /\ Len(c) = Len(s) + Len(t)
      /\ \A i \in 1 .. Len(s) + Len(t) : c[i] = IF i <= Len(s) THEN s[i] ELSE t[i - Len(s)]
  BY ConcatProperties
<1>3. c # <<>>
  BY <1>1, <1>2, EmptySeq
<1> HIDE DEF c, u
<1>4. /\ Tail(c) \in Seq(S) /\ Len(Tail(c)) = Len(c) - 1
      /\ \A i \in 1 .. Len(Tail(c)) : Tail(c)[i] = c[i + 1]
  BY <1>2, <1>3, HeadTailProperties
<1>5. /\ u \o t \in Seq(S) /\ Len(u \o t) = Len(u) + Len(t)
      /\ \A i \in 1 .. Len(u) + Len(t) :
             (u \o t)[i] = IF i <= Len(u) THEN u[i] ELSE t[i - Len(u)]
  BY <1>1, ConcatProperties
<1>6. Len(Tail(c)) = Len(u \o t)
  BY <1>1, <1>2, <1>4, <1>5
<1>7. ASSUME NEW i \in 1 .. Len(Tail(c))
      PROVE  Tail(c)[i] = (u \o t)[i]
  <2>1. /\ i \in 1 .. Len(u) + Len(t) /\ i + 1 \in 1 .. Len(s) + Len(t)
        /\ Tail(c)[i] = c[i + 1]
    BY <1>1, <1>2, <1>4, <1>5, <1>6
  <2>2. CASE i <= Len(u)
    BY <1>1, <1>2, <1>5, <2>1, <2>2
  <2>3. CASE i > Len(u)
    <3>1. (u \o t)[i] = t[i - Len(u)] /\ c[i + 1] = t[(i + 1) - Len(s)]
      BY <1>1, <1>2, <1>5, <2>1, <2>3
    <3>2. i - Len(u) = (i + 1) - Len(s)
      BY <1>1, <2>1
    <3> QED BY <2>1, <3>1, <3>2
  <2> QED BY <1>1, <2>1, <2>2, <2>3
<1>8. Tail(c) = u \o t
  BY <1>4, <1>5, <1>6, <1>7, SeqEqual
<1> QED BY <1>8 DEF c, u


LEMMA StreamCases == Stream = {Capture, Output} /\ Capture # Output
BY DEF Stream, Capture, Output

LEMMA OtherStream == \A s \in Stream : Other(s) \in Stream /\ Other(s) # s /\ Other(Other(s)) = s
BY DEF Stream, Capture, Output, Other

USE DEF CodingPcs, GivePcs

-------------------------------------------------------------------------------
(* Types *)

(* The initial state and every action keep the types. *)
LEMMA InitTypes == Init => TypeOK
<1> SUFFICES ASSUME Init PROVE TypeOK
  OBVIOUS
<1>1. 0 \in Elements /\ 0 \in 0 .. MaxCount
  BY M2MAssumption DEF Elements
<1>2. <<>> \in Seq(Elements)
  BY EmptySeq
<1>3. Output \in Stream
  BY StreamCases
<1> QED BY <1>1, <1>2, <1>3 DEF Init, TypeOK

LEMMA ReplaceTypes ==
    ASSUME TypeOK, NEW s \in Stream, NEW n \in 0 .. MaxCount, NEW S \in SUBSET Elements,
           NEW sem \in Nat \cup {NULL}, Replace(s, n, S, sem)
    PROVE  TypeOK'
<1>1. <<>> \in Seq(Elements)
  BY EmptySeq
<1>2. [e \in Elements |-> TRUE] \in [Elements -> BOOLEAN]
  OBVIOUS
<1> QED BY <1>1, <1>2 DEF Replace, TypeOK, taskVars

LEMMA StorageTypes ==
    ASSUME TypeOK, NEW s \in Stream, NEW n \in 1 .. MaxCount,
           Reqbufs(s, n) \/ ReqbufsNoMemory(s, n) \/ ReqbufsRelease(s)
    PROVE  TypeOK'
<1>1. n \in 0 .. MaxCount /\ 0 \in 0 .. MaxCount /\ 0 .. n - 1 \in SUBSET Elements
  BY M2MAssumption DEF Elements
<1>2. CASE Reqbufs(s, n)
  BY <1>1, <1>2, ReplaceTypes DEF Reqbufs
<1>3. CASE ReqbufsNoMemory(s, n)
  BY <1>1, <1>3, ReplaceTypes DEF ReqbufsNoMemory
<1>4. CASE ReqbufsRelease(s)
  BY <1>1, <1>4, ReplaceTypes DEF ReqbufsRelease
<1> QED BY <1>2, <1>3, <1>4

LEMMA StreamControlTypes ==
    ASSUME TypeOK, NEW s \in Stream,
           StreamOn(s) \/ StreamOnFails(s) \/ StreamOff(s) \/ StreamOffFails(s)
    PROVE  TypeOK'
<1>1. CASE StreamOn(s)
  BY <1>1 DEF StreamOn, TypeOK, memoryVars, listVars, taskVars
<1>2. CASE StreamOnFails(s)
  BY <1>2 DEF StreamOnFails, TypeOK, memoryVars, listVars, taskVars
<1>3. CASE StreamOff(s)
  <2>1. <<>> \in Seq(Elements)
    BY EmptySeq
  <2> QED BY <1>3, <2>1 DEF StreamOff, StopCodec, TypeOK, taskVars
<1>4. CASE StreamOffFails(s)
  BY <1>4 DEF StreamOffFails, TypeOK, memoryVars, listVars, taskVars
<1> QED BY <1>1, <1>2, <1>3, <1>4

LEMMA QbufTypes ==
    ASSUME TypeOK, NEW s \in Stream, NEW e \in Elements, Qbuf(s, e)
    PROVE  TypeOK'
<1>1. Append(queued_list[s], e) \in Seq(Elements)
  BY AppendRange DEF TypeOK
<1> QED BY <1>1 DEF Qbuf, TypeOK, memoryVars, taskVars

LEMMA GetTypes ==
    ASSUME TypeOK, NEW t \in Task, GetM2mQueuedElements(t)
    PROVE  TypeOK'
<1>1. ASSUME NEW s \in Stream
      PROVE  Tail(queued_list[s]) \in Seq(Elements) /\ Head(queued_list[s]) \in Elements
  BY <1>1, HeadTailProperties DEF TypeOK, GetM2mQueuedElements, PairQueued
<1>2. Capture \in Stream
  BY StreamCases
<1> QED BY <1>1, <1>2 DEF GetM2mQueuedElements, TypeOK, memoryVars

LEMMA DoneTypes ==
    ASSUME TypeOK, NEW t \in Task, DoneM2mElements(t)
    PROVE  TypeOK'
<1>1. \A s \in Stream : Append(done_list[s], pair[t][s]) \in Seq(Elements)
  BY AppendRange DEF TypeOK
<1>2. CASE \A s \in Stream : free[s][pair[t][s]]
  <2>1. /\ done_list' = [s \in Stream |-> Append(done_list[s], pair[t][s])]
        /\ free' = [s \in Stream |-> [free[s] EXCEPT ![pair[t][s]] = FALSE]]
        /\ pc' = [pc EXCEPT ![t] = "give_output"]
    BY <1>2 DEF DoneM2mElements
  <2>2. done_list' \in [Stream -> Seq(Elements)]
    BY <1>1, <2>1
  <2>3. free' \in [Stream -> [Elements -> BOOLEAN]]
    BY <2>1 DEF TypeOK
  <2> QED BY <2>1, <2>2, <2>3 DEF DoneM2mElements, TypeOK, memoryVars
<1>3. CASE ~ \A s \in Stream : free[s][pair[t][s]]
  BY <1>3 DEF DoneM2mElements, TypeOK, memoryVars
<1> QED BY <1>2, <1>3

LEMMA GiveTypes ==
    ASSUME TypeOK, NEW t \in Task, GiveOutput(t) \/ GiveCapture(t) \/ M2mProcess(t)
    PROVE  TypeOK'
<1>1. Capture \in Stream /\ Output \in Stream
  BY StreamCases
<1>2. CASE M2mProcess(t)
  BY <1>1, <1>2 DEF M2mProcess, TypeOK, memoryVars, listVars
<1>3. ASSUME NEW s \in Stream, GiveReady(s)
      PROVE  ready_sem' \in [Stream -> Nat \cup {NULL}]
  <2> DEFINE n == IF ready_sem[s] < count[s] THEN ready_sem[s] + 1 ELSE ready_sem[s]
  <2>1. ready_sem[s] \in Nat \cup {-1} /\ ready_sem[s] + 1 \in Nat
    BY DEF TypeOK, NULL
  <2>2. n \in Nat \cup {NULL}
    BY <2>1 DEF NULL
  <2>3. ready_sem' = [ready_sem EXCEPT ![s] = n]
    BY <1>3 DEF GiveReady
  <2> HIDE DEF n
  <2> QED BY <2>2, <2>3 DEF TypeOK
<1>4. CASE GiveOutput(t)
  BY <1>1, <1>3, <1>4 DEF GiveOutput, TypeOK, listVars
<1>5. CASE GiveCapture(t)
  BY <1>1, <1>3, <1>5 DEF GiveCapture, TypeOK, listVars
<1> QED BY <1>2, <1>4, <1>5

LEMMA WaitTypes ==
    ASSUME TypeOK, NEW t \in Task, DqbufOutput(t) \/ DqbufTake(t) \/ DqbufTimeout(t)
    PROVE  TypeOK'
<1>1. Output \in Stream
  BY StreamCases
<1>2. CASE DqbufOutput(t)
  BY <1>1, <1>2 DEF DqbufOutput, TypeOK, memoryVars, listVars
<1>3. CASE DqbufTake(t)
  <2> DEFINE n == ready_sem[type[t]] - 1
  <2>1. type[t] \in Stream
    BY DEF TypeOK
  <2>2. n \in Nat \cup {NULL}
    <3>1. ready_sem[type[t]] \in Nat \cup {-1}
      BY <2>1 DEF TypeOK, NULL
    <3>2. ready_sem[type[t]] > 0
      BY <1>3 DEF DqbufTake
    <3> QED BY <3>1, <3>2 DEF NULL
  <2>3. ready_sem' = [ready_sem EXCEPT ![type[t]] = n]
    BY <1>3 DEF DqbufTake
  <2> HIDE DEF n
  <2>4. ready_sem' \in [Stream -> Nat \cup {NULL}]
    BY <2>1, <2>2, <2>3 DEF TypeOK
  <2> QED BY <1>3, <2>4 DEF DqbufTake, TypeOK, listVars
<1>4. CASE DqbufTimeout(t)
  BY <1>4 DEF DqbufTimeout, TypeOK, memoryVars, listVars
<1> QED BY <1>2, <1>3, <1>4

LEMMA PopTypes ==
    ASSUME TypeOK, NEW t \in Task, DqbufPop(t)
    PROVE  TypeOK'
<1> DEFINE s == type[t]
           e == Head(done_list[s])
<1>1. s \in Stream /\ Other(s) \in Stream
  BY OtherStream DEF TypeOK
<1>2. CASE done_list[s] # <<>>
  <2>1. Tail(done_list[s]) \in Seq(Elements) /\ e \in Elements
    BY <1>1, <1>2, HeadTailProperties DEF TypeOK
  <2>2. Frame(s, e) \in Elements
    BY <2>1 DEF Frame, TypeOK
  <2>3. Append(owed[Other(s)], Frame(s, e)) \in Seq(Elements)
    BY <1>1, <2>2, AppendRange DEF TypeOK
  <2>4. owed[s] # <<>> => Tail(owed[s]) \in Seq(Elements)
    BY <1>1, HeadTailProperties DEF TypeOK
  <2>5. Receive(s, Frame(s, e))
    BY <1>2 DEF DqbufPop
  <2>6. owed' \in [Stream -> Seq(Elements)]
    BY <1>1, <2>3, <2>4, <2>5 DEF Receive, TypeOK
  <2>7. done_list' = [done_list EXCEPT ![s] = Tail(@)] /\ free' = [free EXCEPT ![s][e] = TRUE]
        /\ app' = [app EXCEPT ![s] = @ \cup {e}]
    BY <1>2 DEF DqbufPop
  <2>8. done_list' \in [Stream -> Seq(Elements)] /\ free' \in [Stream -> [Elements -> BOOLEAN]]
        /\ app' \in [Stream -> SUBSET Elements]
    BY <1>1, <2>1, <2>7 DEF TypeOK
  <2>9. /\ pc' = [pc EXCEPT ![t] = "idle"]
        /\ UNCHANGED <<started, memoryVars, queued_list, encoder, type, pair, origin>>
    BY DEF DqbufPop
  <2> HIDE DEF s, e
  <2> QED BY <2>6, <2>8, <2>9 DEF TypeOK, memoryVars
<1>3. CASE done_list[s] = <<>>
  BY <1>1, <1>3 DEF DqbufPop, TypeOK, memoryVars
<1> QED BY <1>2, <1>3

LEMMA NextTypes == TypeOK /\ [Next]_vars => TypeOK'
<1> SUFFICES ASSUME TypeOK, [Next]_vars PROVE TypeOK'
  OBVIOUS
<1>1. ASSUME NEW s \in Stream, NEW n \in 1 .. MaxCount, Reqbufs(s, n) \/ ReqbufsNoMemory(s, n)
      PROVE  TypeOK'
  BY <1>1, StorageTypes
<1>2. ASSUME NEW s \in Stream, ReqbufsRelease(s)
      PROVE  TypeOK'
  <2>1. 1 \in 1 .. MaxCount
    BY M2MAssumption
  <2> QED BY <1>2, <2>1, StorageTypes
<1>3. ASSUME NEW s \in Stream,
             StreamOn(s) \/ StreamOnFails(s) \/ StreamOff(s) \/ StreamOffFails(s)
      PROVE  TypeOK'
  BY <1>3, StreamControlTypes
<1>4. ASSUME NEW s \in Stream, NEW e \in Elements, Qbuf(s, e)
      PROVE  TypeOK'
  BY <1>4, QbufTypes
<1>5. ASSUME NEW t \in Task, GetM2mQueuedElements(t)
      PROVE  TypeOK'
  BY <1>5, GetTypes
<1>6. ASSUME NEW t \in Task, DoneM2mElements(t)
      PROVE  TypeOK'
  BY <1>6, DoneTypes
<1>7. ASSUME NEW t \in Task, M2mProcess(t) \/ GiveOutput(t) \/ GiveCapture(t)
      PROVE  TypeOK'
  BY <1>7, GiveTypes
<1>8. ASSUME NEW t \in Task, DqbufOutput(t) \/ DqbufTake(t) \/ DqbufTimeout(t)
      PROVE  TypeOK'
  BY <1>8, WaitTypes
<1>9. ASSUME NEW t \in Task, DqbufPop(t)
      PROVE  TypeOK'
  BY <1>9, PopTypes
<1>10. CASE UNCHANGED vars
  BY <1>10 DEF vars, memoryVars, listVars, taskVars, TypeOK
<1> QED BY <1>1, <1>2, <1>3, <1>4, <1>5, <1>6, <1>7, <1>8, <1>9, <1>10 DEF Next

(* Every variable keeps its type through every call on either stream. *)
THEOREM TypeCorrect == Spec => []TypeOK
<1>1. Init => TypeOK
  BY InitTypes
<1>2. TypeOK /\ [Next]_vars => TypeOK'
  BY NextTypes
<1> QED BY <1>1, <1>2, PTL DEF Spec

-------------------------------------------------------------------------------
(* The encoder *)

(* Failed starts delete what they created and failed stops keep the stream on, so
   the encoder exists exactly while CAPTURE is on. *)
THEOREM EncoderOwned == Spec => []EncoderExact
<1> USE DEF EncoderExact
<1>1. Init => EncoderExact
  BY StreamCases DEF Init
<1>2. TypeOK /\ EncoderExact /\ [Next]_vars => EncoderExact'
  <2> SUFFICES ASSUME TypeOK, EncoderExact, [Next]_vars, Session
               PROVE  encoder' # "null" <=> started'[Capture]
    OBVIOUS
  <2> USE StreamCases
  <2>1. CASE UNCHANGED <<encoder, started>>
    BY <2>1
  <2>2. ASSUME NEW s \in Stream, StreamOn(s)
        PROVE  encoder' # "null" <=> started'[Capture]
    BY <2>2 DEF StreamOn, TypeOK
  <2>3. ASSUME NEW s \in Stream, StreamOnFails(s)
        PROVE  encoder' # "null" <=> started'[Capture]
    BY <2>3 DEF StreamOnFails, TypeOK
  <2>4. ASSUME NEW s \in Stream, StreamOff(s)
        PROVE  encoder' # "null" <=> started'[Capture]
    BY <2>4 DEF StreamOff, StopCodec, TypeOK
  <2>5. ASSUME NEW s \in Stream, StreamOffFails(s)
        PROVE  encoder' # "null" <=> started'[Capture]
    BY <2>5 DEF StreamOffFails, TypeOK
  <2>6. ASSUME NEW s \in Stream, NEW n, NEW S, NEW sem, Replace(s, n, S, sem)
        PROVE  UNCHANGED <<encoder, started>>
    BY <2>6 DEF Replace
  <2>7. ASSUME NEW s \in Stream, NEW n \in 1 .. MaxCount,
               Reqbufs(s, n) \/ ReqbufsNoMemory(s, n) \/ ReqbufsRelease(s)
        PROVE  UNCHANGED <<encoder, started>>
    BY <2>6, <2>7 DEF Reqbufs, ReqbufsNoMemory, ReqbufsRelease
  <2>8. ASSUME NEW s \in Stream, ReqbufsRelease(s)
        PROVE  UNCHANGED <<encoder, started>>
    BY <2>6, <2>8 DEF ReqbufsRelease
  <2>9. ASSUME NEW s \in Stream, NEW e \in Elements, Qbuf(s, e)
        PROVE  UNCHANGED <<encoder, started>>
    BY <2>9 DEF Qbuf
  <2>10. ASSUME NEW t \in Task,
                \/ GetM2mQueuedElements(t) \/ M2mProcess(t) \/ DoneM2mElements(t)
                \/ GiveOutput(t) \/ GiveCapture(t) \/ DqbufOutput(t)
                \/ DqbufTake(t) \/ DqbufTimeout(t) \/ DqbufPop(t)
         PROVE  UNCHANGED <<encoder, started>>
    BY <2>10 DEF GetM2mQueuedElements, M2mProcess, DoneM2mElements, GiveOutput, GiveCapture,
                 DqbufOutput, DqbufTake, DqbufTimeout, DqbufPop
  <2>11. CASE UNCHANGED vars
    BY <2>1, <2>11 DEF vars
  <2> QED BY <2>1, <2>2, <2>3, <2>4, <2>5, <2>7, <2>8, <2>9, <2>10, <2>11 DEF Next
<1> QED BY <1>1, <1>2, TypeCorrect, PTL DEF Spec

-------------------------------------------------------------------------------
(* The places of one stream: application a, queued list q, done list d, per task
   the buffer h it codes, storage b and flags f. *)

Placement(b, a, q, d, f, h) ==
    LET listed == Range(q) \cup Range(d)
        held   == UNION {h[t] : t \in Task}
    IN  /\ IsInjective(q) /\ IsInjective(d)
        /\ Range(q) \cap Range(d) = {}
        /\ a \cap (listed \cup held) = {}
        /\ held \cap listed = {}
        /\ \A t, u \in Task : t # u => h[t] \cap h[u] = {}
        /\ b = a \cup listed \cup held
        /\ \A e \in b : f[e] <=> e \notin listed

PlacementTypes(b, a, q, d, f, h) ==
    /\ b \in SUBSET Elements /\ a \in SUBSET Elements
    /\ q \in Seq(Elements) /\ d \in Seq(Elements)
    /\ f \in [Elements -> BOOLEAN]
    /\ h \in [Task -> SUBSET Elements]

HeldByTask(s) == [t \in Task |-> HeldBy(t, s)]

(* QBUF *)
LEMMA PlacementQueue ==
    ASSUME NEW b, NEW a, NEW q, NEW d, NEW f, NEW h, NEW e \in a,
           PlacementTypes(b, a, q, d, f, h), Placement(b, a, q, d, f, h)
    PROVE  Placement(b, a \ {e}, Append(q, e), d, [f EXCEPT ![e] = FALSE], h)
<1> DEFINE held == UNION {h[t] : t \in Task}
<1>1. /\ e \in Elements /\ e \notin Range(q)
      /\ Range(Append(q, e)) = Range(q) \cup {e}
      /\ IsInjective(Append(q, e))
  BY AppendRange DEF Placement, PlacementTypes
<1>2. \A x \in b : [f EXCEPT ![e] = FALSE][x] <=> f[x] /\ x # e
  BY <1>1 DEF PlacementTypes
<1>3. e \notin held /\ e \notin Range(d) /\ e \in b
  BY DEF Placement
<1> HIDE DEF held
<1>4. /\ IsInjective(d) /\ Range(q) \cap Range(d) = {}
      /\ a \cap (Range(q) \cup Range(d) \cup held) = {}
      /\ held \cap (Range(q) \cup Range(d)) = {}
      /\ \A t, u \in Task : t # u => h[t] \cap h[u] = {}
      /\ b = a \cup Range(q) \cup Range(d) \cup held
      /\ \A x \in b : f[x] <=> x \notin Range(q) \cup Range(d)
  BY DEF Placement, held
<1> QED BY <1>1, <1>2, <1>3, <1>4 DEF Placement, held

(* A task takes the pair's buffer to code it. *)
LEMMA PlacementGet ==
    ASSUME NEW b, NEW a, NEW q, NEW d, NEW f, NEW h, NEW t \in Task,
           q # <<>>, h[t] = {},
           PlacementTypes(b, a, q, d, f, h), Placement(b, a, q, d, f, h)
    PROVE  Placement(b, a, Tail(q), d, [f EXCEPT ![Head(q)] = TRUE], [h EXCEPT ![t] = {Head(q)}])
<1> DEFINE e == Head(q)
           g == [h EXCEPT ![t] = {e}]
           held == UNION {h[u] : u \in Task}
           heldNow == UNION {g[u] : u \in Task}
<1>1. /\ e \in Elements /\ e \in Range(q)
      /\ Range(Tail(q)) = Range(q) \ {e}
      /\ IsInjective(Tail(q))
  BY TailRange DEF Placement, PlacementTypes
<1>2. /\ g[t] = {e}
      /\ \A u \in Task : u # t => g[u] = h[u]
  BY DEF PlacementTypes
<1>3. heldNow = held \cup {e}
  BY <1>2
<1>4. /\ IsInjective(d) /\ Range(q) \cap Range(d) = {}
      /\ a \cap (Range(q) \cup Range(d) \cup held) = {}
      /\ held \cap (Range(q) \cup Range(d)) = {}
      /\ \A u, v \in Task : u # v => h[u] \cap h[v] = {}
      /\ b = a \cup Range(q) \cup Range(d) \cup held
      /\ \A x \in b : f[x] <=> x \notin Range(q) \cup Range(d)
  BY DEF Placement
<1>5. \A x \in b : [f EXCEPT ![e] = TRUE][x] <=> f[x] \/ x = e
  BY <1>1 DEF PlacementTypes
<1>6. \A u, v \in Task : u # v => g[u] \cap g[v] = {}
  <2>1. \A u \in Task : e \notin h[u]
    BY <1>1, <1>4
  <2> QED BY <1>2, <1>4, <2>1
<1> HIDE DEF e, held, heldNow, g
<1>7. b = a \cup Range(Tail(q)) \cup Range(d) \cup heldNow
  BY <1>1, <1>3, <1>4
<1>8. \A x \in b : [f EXCEPT ![e] = TRUE][x] <=> x \notin Range(Tail(q)) \cup Range(d)
  BY <1>1, <1>4, <1>5
<1> QED BY <1>1, <1>3, <1>4, <1>6, <1>7, <1>8 DEF Placement, heldNow, e, g

(* A task puts the coded buffer into the done list. *)
LEMMA PlacementDone ==
    ASSUME NEW b, NEW a, NEW q, NEW d, NEW f, NEW h, NEW t \in Task, NEW e,
           h[t] = {e},
           PlacementTypes(b, a, q, d, f, h), Placement(b, a, q, d, f, h)
    PROVE  /\ f[e]
           /\ Placement(b, a, q, Append(d, e), [f EXCEPT ![e] = FALSE], [h EXCEPT ![t] = {}])
<1> DEFINE g == [h EXCEPT ![t] = {}]
           held == UNION {h[u] : u \in Task}
           heldNow == UNION {g[u] : u \in Task}
<1>1. /\ IsInjective(q) /\ IsInjective(d) /\ Range(q) \cap Range(d) = {}
      /\ a \cap (Range(q) \cup Range(d) \cup held) = {}
      /\ held \cap (Range(q) \cup Range(d)) = {}
      /\ \A u, v \in Task : u # v => h[u] \cap h[v] = {}
      /\ b = a \cup Range(q) \cup Range(d) \cup held
      /\ \A x \in b : f[x] <=> x \notin Range(q) \cup Range(d)
  BY DEF Placement
<1>2. e \in held /\ e \in Elements
  BY DEF PlacementTypes
<1>3. /\ g[t] = {}
      /\ \A u \in Task : u # t => g[u] = h[u]
  BY DEF PlacementTypes
<1>4. heldNow = held \ {e}
  BY <1>1, <1>3
<1>5. /\ Range(Append(d, e)) = Range(d) \cup {e}
      /\ IsInjective(Append(d, e))
  BY <1>1, <1>2, AppendRange DEF PlacementTypes
<1>6. \A x \in b : [f EXCEPT ![e] = FALSE][x] <=> f[x] /\ x # e
  BY <1>2 DEF PlacementTypes
<1>7. \A u, v \in Task : u # v => g[u] \cap g[v] = {}
  BY <1>1, <1>3
<1> HIDE DEF held, heldNow, g
<1>8. f[e]
  BY <1>1, <1>2
<1>9. b = a \cup Range(q) \cup Range(Append(d, e)) \cup heldNow
  BY <1>1, <1>2, <1>4, <1>5
<1>10. \A x \in b : [f EXCEPT ![e] = FALSE][x] <=> x \notin Range(q) \cup Range(Append(d, e))
  BY <1>1, <1>5, <1>6
<1> QED BY <1>1, <1>2, <1>4, <1>5, <1>7, <1>8, <1>9, <1>10 DEF Placement, heldNow, g

(* DQBUF hands the oldest finished buffer to the application. *)
LEMMA PlacementPop ==
    ASSUME NEW b, NEW a, NEW q, NEW d, NEW f, NEW h, d # <<>>,
           PlacementTypes(b, a, q, d, f, h), Placement(b, a, q, d, f, h)
    PROVE  Placement(b, a \cup {Head(d)}, q, Tail(d), [f EXCEPT ![Head(d)] = TRUE], h)
<1> DEFINE e == Head(d)
           held == UNION {h[u] : u \in Task}
<1>1. /\ IsInjective(q) /\ IsInjective(d) /\ Range(q) \cap Range(d) = {}
      /\ a \cap (Range(q) \cup Range(d) \cup held) = {}
      /\ held \cap (Range(q) \cup Range(d)) = {}
      /\ \A u, v \in Task : u # v => h[u] \cap h[v] = {}
      /\ b = a \cup Range(q) \cup Range(d) \cup held
      /\ \A x \in b : f[x] <=> x \notin Range(q) \cup Range(d)
  BY DEF Placement
<1>2. /\ e \in Elements /\ e \in Range(d)
      /\ Range(Tail(d)) = Range(d) \ {e}
      /\ IsInjective(Tail(d))
  BY <1>1, TailRange DEF PlacementTypes
<1>3. \A x \in b : [f EXCEPT ![e] = TRUE][x] <=> f[x] \/ x = e
  BY <1>2 DEF PlacementTypes
<1> HIDE DEF e, held
<1>4. b = (a \cup {e}) \cup Range(q) \cup Range(Tail(d)) \cup held
  BY <1>1, <1>2
<1>5. \A x \in b : [f EXCEPT ![e] = TRUE][x] <=> x \notin Range(q) \cup Range(Tail(d))
  BY <1>1, <1>2, <1>3
<1> QED BY <1>1, <1>2, <1>4, <1>5 DEF Placement, held, e

(* The lists are emptied while no task codes: everything is the application's. *)
LEMMA PlacementReset ==
    ASSUME NEW b \in SUBSET Elements, NEW h, \A t \in Task : h[t] = {}
    PROVE  Placement(b, b, <<>>, <<>>, [e \in Elements |-> TRUE], h)
BY EmptyRange DEF Placement

-------------------------------------------------------------------------------
(* EveryBufferOnce *)

Placed(s) == Placement(buffer[s], app[s], queued_list[s], done_list[s], free[s], HeldByTask(s))

AllPlaced == \A s \in Stream : Placed(s)

LEMMA EveryBufferPlaced == EveryBufferOnce <=> AllPlaced
<1>1. ASSUME NEW s \in Stream
      PROVE  Held(s) = UNION {HeldByTask(s)[t] : t \in Task}
             /\ \A t \in Task : HeldByTask(s)[t] = HeldBy(t, s)
  BY DEF Held, HeldByTask
<1> DEFINE Body(s) == /\ IsInjective(queued_list[s]) /\ IsInjective(done_list[s])
                      /\ Range(queued_list[s]) \cap Range(done_list[s]) = {}
                      /\ app[s] \cap (Listed(s) \cup Held(s)) = {}
                      /\ Held(s) \cap Listed(s) = {}
                      /\ \A t, u \in Task : t # u => HeldBy(t, s) \cap HeldBy(u, s) = {}
                      /\ buffer[s] = app[s] \cup Listed(s) \cup Held(s)
                      /\ \A e \in buffer[s] : free[s][e] <=> e \notin Listed(s)
<1>2. EveryBufferOnce <=> \A s \in Stream : Body(s)
  BY Zenon DEF EveryBufferOnce
<1>3. ASSUME NEW s \in Stream
      PROVE  Body(s) <=> Placed(s)
  <2>1. (\A t, u \in Task : t # u => HeldBy(t, s) \cap HeldBy(u, s) = {})
        <=> (\A t, u \in Task : t # u => HeldByTask(s)[t] \cap HeldByTask(s)[u] = {})
    BY <1>1
  <2>2. Listed(s) = Range(queued_list[s]) \cup Range(done_list[s])
    BY DEF Listed
  <2>3. Held(s) = UNION {HeldByTask(s)[t] : t \in Task}
    BY <1>1
  <2> QED BY <2>1, <2>2, <2>3, Zenon DEF Placed, Placement
<1> HIDE DEF Body
<1> QED BY <1>2, <1>3, Zenon DEF AllPlaced

LEMMA PlacedTypes ==
    ASSUME TypeOK, NEW s \in Stream
    PROVE  PlacementTypes(buffer[s], app[s], queued_list[s], done_list[s], free[s], HeldByTask(s))
<1>1. \A t \in Task : HeldBy(t, s) \in SUBSET Elements
  BY DEF TypeOK, HeldBy
<1> QED BY <1>1 DEF TypeOK, PlacementTypes, HeldByTask

(* A step that moves no buffer. *)
LEMMA PlacedKept ==
    ASSUME \A s \in Stream : Placed(s), UNCHANGED <<buffer, app, listVars, pair>>,
           \A t \in Task : pc'[t] \in CodingPcs <=> pc[t] \in CodingPcs
    PROVE  \A s \in Stream : Placed(s)'
<1> SUFFICES ASSUME NEW s \in Stream PROVE Placed(s)'
  OBVIOUS
<1>1. \A t \in Task : HeldBy(t, s)' = HeldBy(t, s)
  BY DEF HeldBy
<1>2. HeldByTask(s)' = HeldByTask(s)
  BY <1>1 DEF HeldByTask
<1> QED BY <1>2 DEF Placed, listVars

(* While no call is under way no task holds a buffer. *)
LEMMA NoneHeld ==
    ASSUME MayControl, UNCHANGED taskVars, NEW s \in Stream
    PROVE  \A t \in Task : HeldByTask(s)[t] = {} /\ HeldByTask(s)'[t] = {}
<1>1. \A t \in Task : HeldBy(t, s) = {} /\ HeldBy(t, s)' = {}
  BY DEF MayControl, HeldBy, taskVars
<1> QED BY <1>1 DEF HeldByTask

LEMMA ReplacePlaced ==
    ASSUME TypeOK, \A s \in Stream : Placed(s),
           NEW r \in Stream, NEW n, NEW S \in SUBSET Elements, NEW sem, Replace(r, n, S, sem)
    PROVE  \A s \in Stream : Placed(s)'
<1> SUFFICES ASSUME NEW s \in Stream PROVE Placed(s)'
  OBVIOUS
<1>1. \A t \in Task : HeldByTask(s)[t] = {} /\ HeldByTask(s)'[t] = {}
  BY NoneHeld DEF Replace
<1>2. CASE s = r
  <2>1. Placement(S, S, <<>>, <<>>, [e \in Elements |-> TRUE], HeldByTask(s)')
    BY <1>1, PlacementReset
  <2> QED BY <1>2, <2>1 DEF Replace, Placed, TypeOK
<1>3. CASE s # r
  <2>1. UNCHANGED <<buffer[s], app[s], queued_list[s], done_list[s], free[s]>>
    BY <1>3 DEF Replace, TypeOK
  <2>2. HeldByTask(s)' = HeldByTask(s)
    BY <1>1 DEF HeldByTask
  <2> QED BY <2>1, <2>2 DEF Placed
<1> QED BY <1>2, <1>3

LEMMA StreamOffPlaced ==
    ASSUME TypeOK, NEW r \in Stream, StreamOff(r)
    PROVE  \A s \in Stream : Placed(s)'
<1> SUFFICES ASSUME NEW s \in Stream PROVE Placed(s)'
  OBVIOUS
<1>1. \A t \in Task : HeldByTask(s)'[t] = {}
  BY NoneHeld DEF StreamOff
<1>2. Placement(buffer[s], buffer[s], <<>>, <<>>, [e \in Elements |-> TRUE], HeldByTask(s)')
  BY <1>1, PlacementReset DEF TypeOK
<1> QED BY <1>2 DEF StreamOff, Placed

LEMMA QbufPlaced ==
    ASSUME TypeOK, \A s \in Stream : Placed(s), NEW r \in Stream, NEW e \in Elements, Qbuf(r, e)
    PROVE  \A s \in Stream : Placed(s)'
<1> SUFFICES ASSUME NEW s \in Stream PROVE Placed(s)'
  OBVIOUS
<1>1. HeldByTask(s)' = HeldByTask(s)
  BY DEF HeldByTask, HeldBy, Qbuf, taskVars
<1>2. CASE s = r
  <2>1. Placement(buffer[s], app[s] \ {e}, Append(queued_list[s], e), done_list[s],
                  [free[s] EXCEPT ![e] = FALSE], HeldByTask(s))
    BY <1>2, PlacedTypes, PlacementQueue DEF Placed, Qbuf
  <2>2. /\ buffer'[s] = buffer[s] /\ app'[s] = app[s] \ {e}
        /\ queued_list'[s] = Append(queued_list[s], e) /\ done_list'[s] = done_list[s]
        /\ free'[s] = [free[s] EXCEPT ![e] = FALSE]
    BY <1>2 DEF Qbuf, TypeOK, memoryVars
  <2> QED BY <1>1, <2>1, <2>2 DEF Placed
<1>3. CASE s # r
  BY <1>1, <1>3 DEF Qbuf, TypeOK, memoryVars, Placed
<1> QED BY <1>2, <1>3

LEMMA GetPlaced ==
    ASSUME TypeOK, \A s \in Stream : Placed(s), NEW t \in Task, GetM2mQueuedElements(t)
    PROVE  \A s \in Stream : Placed(s)'
<1> SUFFICES ASSUME NEW s \in Stream PROVE Placed(s)'
  OBVIOUS
<1> DEFINE h == Head(queued_list[s])
<1>1. /\ pc[t] = "idle" /\ queued_list[s] # <<>>
      /\ pc' = [pc EXCEPT ![t] = "code"]
      /\ pair' = [pair EXCEPT ![t] = [u \in Stream |-> Head(queued_list[u])]]
  BY DEF GetM2mQueuedElements, PairQueued
<1>2. HeldBy(t, s) = {} /\ HeldBy(t, s)' = {h}
  BY <1>1 DEF HeldBy, TypeOK
<1>3. \A u \in Task : u # t => HeldBy(u, s)' = HeldBy(u, s)
  BY <1>1 DEF HeldBy, TypeOK
<1>4. HeldByTask(s)' = [HeldByTask(s) EXCEPT ![t] = {h}] /\ HeldByTask(s)[t] = {}
  BY <1>2, <1>3 DEF HeldByTask
<1>5. Placement(buffer[s], app[s], Tail(queued_list[s]), done_list[s],
                [free[s] EXCEPT ![h] = TRUE], [HeldByTask(s) EXCEPT ![t] = {h}])
  BY <1>1, <1>4, PlacedTypes, PlacementGet DEF Placed
<1>6. /\ buffer'[s] = buffer[s] /\ app'[s] = app[s] /\ done_list'[s] = done_list[s]
      /\ queued_list'[s] = Tail(queued_list[s])
      /\ free'[s] = [free[s] EXCEPT ![h] = TRUE]
  BY DEF GetM2mQueuedElements, memoryVars
<1> QED BY <1>4, <1>5, <1>6 DEF Placed

(* A task that finishes finds both its buffers free. *)
LEMMA DonePlaced ==
    ASSUME TypeOK, \A s \in Stream : Placed(s), NEW t \in Task, DoneM2mElements(t)
    PROVE  /\ \A s \in Stream : free[s][pair[t][s]]
           /\ \A s \in Stream : Placed(s)'
<1>1. ASSUME NEW s \in Stream
      PROVE  /\ HeldByTask(s)[t] = {pair[t][s]}
             /\ free[s][pair[t][s]]
             /\ Placement(buffer[s], app[s], queued_list[s], Append(done_list[s], pair[t][s]),
                          [free[s] EXCEPT ![pair[t][s]] = FALSE],
                          [HeldByTask(s) EXCEPT ![t] = {}])
  <2>1. HeldByTask(s)[t] = {pair[t][s]}
    BY DEF HeldByTask, HeldBy, DoneM2mElements
  <2> QED BY <2>1, PlacedTypes, PlacementDone DEF Placed
<1>2. /\ done_list' = [s \in Stream |-> Append(done_list[s], pair[t][s])]
      /\ free' = [s \in Stream |-> [free[s] EXCEPT ![pair[t][s]] = FALSE]]
      /\ pc' = [pc EXCEPT ![t] = "give_output"]
      /\ UNCHANGED <<memoryVars, queued_list, pair, app>>
  BY <1>1 DEF DoneM2mElements
<1>3. ASSUME NEW s \in Stream
      PROVE  HeldByTask(s)' = [HeldByTask(s) EXCEPT ![t] = {}]
  <2>1. HeldBy(t, s)' = {} /\ \A u \in Task : u # t => HeldBy(u, s)' = HeldBy(u, s)
    BY <1>2 DEF HeldBy, TypeOK
  <2> QED BY <2>1 DEF HeldByTask
<1> QED BY <1>1, <1>2, <1>3 DEF Placed, memoryVars

LEMMA PopPlaced ==
    ASSUME TypeOK, \A s \in Stream : Placed(s), NEW t \in Task, DqbufPop(t)
    PROVE  \A s \in Stream : Placed(s)'
<1> DEFINE r == type[t]
           e == Head(done_list[r])
<1> SUFFICES ASSUME NEW s \in Stream PROVE Placed(s)'
  OBVIOUS
<1>1. pc[t] = "took" /\ pc' = [pc EXCEPT ![t] = "idle"] /\ UNCHANGED <<pair, queued_list, memoryVars>>
  BY DEF DqbufPop
<1>2. HeldByTask(s)' = HeldByTask(s)
  BY <1>1 DEF HeldByTask, HeldBy, TypeOK
<1>3. r \in Stream
  BY DEF TypeOK
<1>4. CASE done_list[r] = <<>>
  BY <1>1, <1>2, <1>4 DEF DqbufPop, Placed, memoryVars
<1>5. CASE done_list[r] # <<>> /\ s = r
  <2>1. Placement(buffer[s], app[s] \cup {e}, queued_list[s], Tail(done_list[s]),
                  [free[s] EXCEPT ![e] = TRUE], HeldByTask(s))
    BY <1>5, PlacedTypes, PlacementPop DEF Placed
  <2>2. /\ done_list'[s] = Tail(done_list[s])
        /\ free'[s] = [free[s] EXCEPT ![e] = TRUE]
        /\ app'[s] = app[s] \cup {e}
    BY <1>5 DEF DqbufPop, TypeOK
  <2> QED BY <1>1, <1>2, <2>1, <2>2 DEF Placed, memoryVars
<1>6. CASE done_list[r] # <<>> /\ s # r
  <2>1. UNCHANGED <<done_list[s], free[s], app[s]>>
    BY <1>3, <1>6 DEF DqbufPop, TypeOK
  <2> QED BY <1>1, <1>2, <2>1 DEF Placed, memoryVars
<1> QED BY <1>4, <1>5, <1>6

LEMMA InitPlaced == Init => EveryBufferOnce
<1> SUFFICES ASSUME Init, NEW s \in Stream PROVE Placed(s)
  BY EveryBufferPlaced DEF AllPlaced
<1>1. \A t \in Task : HeldByTask(s)[t] = {}
  BY DEF Init, HeldByTask, HeldBy
<1>2. Placement({}, {}, <<>>, <<>>, [e \in Elements |-> TRUE], HeldByTask(s))
  BY <1>1, PlacementReset
<1> QED BY <1>2 DEF Init, Placed

LEMMA NextPlaced == TypeOK /\ EveryBufferOnce /\ [Next]_vars => EveryBufferOnce'
<1>0. EveryBufferOnce' <=> AllPlaced'
  BY EveryBufferPlaced, PTL
<1> SUFFICES ASSUME TypeOK, \A s \in Stream : Placed(s), [Next]_vars
             PROVE  \A s \in Stream : Placed(s)'
  BY <1>0, EveryBufferPlaced DEF AllPlaced
<1>1. ASSUME NEW s \in Stream, NEW n \in 1 .. MaxCount, Reqbufs(s, n) \/ ReqbufsNoMemory(s, n)
      PROVE  \A r \in Stream : Placed(r)'
  <2>1. 0 .. n - 1 \in SUBSET Elements
    BY M2MAssumption DEF Elements
  <2> QED BY <1>1, <2>1, ReplacePlaced DEF Reqbufs, ReqbufsNoMemory
<1>2. ASSUME NEW s \in Stream, ReqbufsRelease(s)
      PROVE  \A r \in Stream : Placed(r)'
  BY <1>2, ReplacePlaced DEF ReqbufsRelease
<1>3. ASSUME NEW s \in Stream, StreamOn(s) \/ StreamOnFails(s) \/ StreamOffFails(s)
      PROVE  \A r \in Stream : Placed(r)'
  <2>1. UNCHANGED <<buffer, app, listVars, pair, pc>>
    BY <1>3 DEF StreamOn, StreamOnFails, StreamOffFails, memoryVars, taskVars
  <2> QED BY <2>1, PlacedKept
<1>4. ASSUME NEW s \in Stream, StreamOff(s)
      PROVE  \A r \in Stream : Placed(r)'
  BY <1>4, StreamOffPlaced
<1>5. ASSUME NEW s \in Stream, NEW e \in Elements, Qbuf(s, e)
      PROVE  \A r \in Stream : Placed(r)'
  BY <1>5, QbufPlaced
<1>6. ASSUME NEW t \in Task, GetM2mQueuedElements(t)
      PROVE  \A r \in Stream : Placed(r)'
  BY <1>6, GetPlaced
<1>7. ASSUME NEW t \in Task, DoneM2mElements(t)
      PROVE  \A r \in Stream : Placed(r)'
  BY <1>7, DonePlaced
<1>8. ASSUME NEW t \in Task, DqbufPop(t)
      PROVE  \A r \in Stream : Placed(r)'
  BY <1>8, PopPlaced
<1>9. ASSUME NEW t \in Task, M2mProcess(t)
      PROVE  \A r \in Stream : Placed(r)'
  <2>1. UNCHANGED <<buffer, app, listVars, pair>>
    BY <1>9 DEF M2mProcess, memoryVars
  <2>2. \A u \in Task : pc'[u] \in CodingPcs <=> pc[u] \in CodingPcs
    BY <1>9 DEF M2mProcess, TypeOK
  <2> QED BY <2>1, <2>2, PlacedKept
<1>10. ASSUME NEW t \in Task,
              \/ GiveOutput(t) \/ GiveCapture(t) \/ DqbufOutput(t)
              \/ DqbufTake(t) \/ DqbufTimeout(t)
       PROVE  \A r \in Stream : Placed(r)'
  <2>1. UNCHANGED <<buffer, app, listVars, pair>>
    BY <1>10 DEF GiveOutput, GiveCapture, DqbufOutput, DqbufTake, DqbufTimeout, memoryVars
  <2>2. \A u \in Task : pc'[u] \in CodingPcs <=> pc[u] \in CodingPcs
    BY <1>10 DEF GiveOutput, GiveCapture, DqbufOutput, DqbufTake, DqbufTimeout, TypeOK
  <2> QED BY <2>1, <2>2, PlacedKept
<1>11. CASE UNCHANGED vars
  <2>1. UNCHANGED <<buffer, app, listVars, pair, pc>>
    BY <1>11 DEF vars, memoryVars, taskVars
  <2> QED BY <2>1, PlacedKept
<1> QED BY <1>1, <1>2, <1>3, <1>4, <1>5, <1>6, <1>7, <1>8, <1>9, <1>10, <1>11 DEF Next

(* Every buffer is in exactly one place, however many tasks code. *)
THEOREM BuffersPlaced == Spec => []EveryBufferOnce
<1>1. Init => EveryBufferOnce
  BY InitPlaced
<1>2. TypeOK /\ EveryBufferOnce /\ [Next]_vars => EveryBufferOnce'
  BY NextPlaced
<1> QED BY <1>1, <1>2, TypeCorrect, PTL DEF Spec

-------------------------------------------------------------------------------
(* PairsMatch *)

\* A coded buffer holds the frame of the source it is paired with.
Coded == \A t \in Task : pc[t] = "done" => origin[pair[t][Capture]] = pair[t][Output]

(* The frames of a list d of stream s, when CAPTURE buffers hold the frames o. *)
FrameOf(s, e, o) == IF s = Output THEN e ELSE o[e]

FramesOf(s, d, o) == [i \in 1 .. Len(d) |-> FrameOf(s, d[i], o)]

LEMMA FramesAre == \A s : Frames(s) = FramesOf(s, done_list[s], origin)
BY DEF Frames, Frame, FramesOf, FrameOf

LEMMA FramesSeq ==
    ASSUME NEW s, NEW d \in Seq(Elements), NEW o \in [Elements -> Elements]
    PROVE  /\ FramesOf(s, d, o) \in Seq(Elements)
           /\ Len(FramesOf(s, d, o)) = Len(d)
           /\ \A i \in 1 .. Len(d) : FramesOf(s, d, o)[i] = FrameOf(s, d[i], o)
           /\ FramesOf(s, d, o) = <<>> <=> d = <<>>
<1>1. Len(d) \in Nat /\ \A i \in 1 .. Len(d) : d[i] \in Elements
  BY LenProperties, ElementOfSeq
<1>2. \A i \in 1 .. Len(d) : FrameOf(s, d[i], o) \in Elements
  BY <1>1 DEF FrameOf
<1>3. FramesOf(s, d, o) \in Seq(Elements) /\ Len(FramesOf(s, d, o)) = Len(d)
  BY <1>1, <1>2 DEF FramesOf
<1>4. FramesOf(s, d, o) = <<>> <=> d = <<>>
  BY <1>1, <1>3, EmptySeq
<1> QED BY <1>3, <1>4 DEF FramesOf

LEMMA FramesAppend ==
    ASSUME NEW s, NEW d \in Seq(Elements), NEW o \in [Elements -> Elements], NEW e \in Elements
    PROVE  FramesOf(s, Append(d, e), o) = Append(FramesOf(s, d, o), FrameOf(s, e, o))
<1> DEFINE a == Append(d, e)
           f == FramesOf(s, d, o)
           g == FramesOf(s, a, o)
           x == FrameOf(s, e, o)
<1>1. /\ a \in Seq(Elements) /\ Len(a) = Len(d) + 1 /\ Len(d) \in Nat
      /\ \A i \in 1 .. Len(d) : a[i] = d[i]
      /\ a[Len(d) + 1] = e
  BY AppendProperties, LenProperties
<1>2. /\ f \in Seq(Elements) /\ Len(f) = Len(d)
      /\ \A i \in 1 .. Len(d) : f[i] = FrameOf(s, d[i], o)
      /\ x \in Elements
  BY FramesSeq DEF FrameOf
<1>3. /\ g \in Seq(Elements) /\ Len(g) = Len(a)
      /\ \A i \in 1 .. Len(a) : g[i] = FrameOf(s, a[i], o)
  BY <1>1, FramesSeq
<1> HIDE DEF f, g, x, a
<1>4. /\ Append(f, x) \in Seq(Elements) /\ Len(Append(f, x)) = Len(f) + 1
      /\ \A i \in 1 .. Len(f) : Append(f, x)[i] = f[i]
      /\ Append(f, x)[Len(f) + 1] = x
  BY <1>2, AppendProperties
<1>5. x = FrameOf(s, e, o)
  BY DEF x
<1>6. \A i \in 1 .. Len(g) : g[i] = Append(f, x)[i]
  BY <1>1, <1>2, <1>3, <1>4, <1>5
<1>7. g = Append(f, x)
  BY <1>1, <1>2, <1>3, <1>4, <1>6, SeqEqual
<1> QED BY <1>7 DEF f, g, x, a

LEMMA FramesTail ==
    ASSUME NEW s, NEW d \in Seq(Elements), NEW o \in [Elements -> Elements], d # <<>>
    PROVE  /\ FramesOf(s, Tail(d), o) = Tail(FramesOf(s, d, o))
           /\ Head(FramesOf(s, d, o)) = FrameOf(s, Head(d), o)
<1> DEFINE t == Tail(d)
           f == FramesOf(s, d, o)
           g == FramesOf(s, t, o)
<1>1. /\ t \in Seq(Elements) /\ Len(t) = Len(d) - 1 /\ Len(d) \in Nat /\ Len(d) > 0
      /\ \A i \in 1 .. Len(t) : t[i] = d[i + 1]
      /\ Head(d) = d[1]
  BY HeadTailProperties, LenProperties, EmptySeq
<1>2. /\ f \in Seq(Elements) /\ Len(f) = Len(d) /\ f # <<>>
      /\ \A i \in 1 .. Len(d) : f[i] = FrameOf(s, d[i], o)
  BY FramesSeq
<1>3. /\ g \in Seq(Elements) /\ Len(g) = Len(t)
      /\ \A i \in 1 .. Len(t) : g[i] = FrameOf(s, t[i], o)
  BY <1>1, FramesSeq
<1> HIDE DEF f, g, t
<1>4. /\ Tail(f) \in Seq(Elements) /\ Len(Tail(f)) = Len(f) - 1
      /\ \A i \in 1 .. Len(Tail(f)) : Tail(f)[i] = f[i + 1]
      /\ Head(f) = f[1]
  BY <1>2, HeadTailProperties
<1>5. ASSUME NEW i \in 1 .. Len(g)
      PROVE  g[i] = Tail(f)[i]
  <2>1. i \in 1 .. Len(t) /\ i \in 1 .. Len(Tail(f)) /\ i + 1 \in 1 .. Len(d)
    BY <1>1, <1>2, <1>3, <1>4
  <2>2. g[i] = FrameOf(s, d[i + 1], o)
    BY <1>1, <1>3, <2>1
  <2>3. Tail(f)[i] = FrameOf(s, d[i + 1], o)
    BY <1>2, <1>4, <2>1
  <2> QED BY <2>2, <2>3
<1>6. g = Tail(f)
  BY <1>1, <1>2, <1>3, <1>4, <1>5, SeqEqual
<1>7. Head(f) = FrameOf(s, Head(d), o)
  BY <1>1, <1>2, <1>4
<1> QED BY <1>6, <1>7 DEF f, g, t

(* The codec writes into a buffer that no list has and no other task codes into. *)
LEMMA ProcessCoded ==
    ASSUME TypeOK, EveryBufferOnce, Coded, NEW t \in Task, M2mProcess(t)
    PROVE  Coded' /\ \A s \in Stream : Frames(s)' = Frames(s)
<1> DEFINE x == pair[t][Capture]
<1> USE StreamCases
<1>1. /\ pc[t] = "code" /\ pc' = [pc EXCEPT ![t] = "done"]
      /\ origin' = [origin EXCEPT ![x] = pair[t][Output]]
      /\ UNCHANGED <<pair, done_list>>
  BY DEF M2mProcess, listVars
<1>2. x \in HeldBy(t, Capture) /\ x \in Elements
  BY <1>1 DEF HeldBy, TypeOK
<1>3. x \notin Range(done_list[Capture])
  BY <1>2 DEF EveryBufferOnce, Held, Listed
<1>4. Coded'
  <2> SUFFICES ASSUME NEW u \in Task, pc'[u] = "done"
               PROVE  origin'[pair[u][Capture]] = pair[u][Output]
    BY <1>1 DEF Coded
  <2>1. CASE u = t
    BY <1>1, <1>2, <2>1 DEF TypeOK
  <2>2. CASE u # t
    <3>1. pc[u] = "done" /\ pair[u][Capture] \in HeldBy(u, Capture)
      BY <1>1, <2>2 DEF HeldBy, TypeOK
    <3>2. pair[u][Capture] # x
      BY <1>2, <2>2, <3>1 DEF EveryBufferOnce
    <3> QED BY <1>1, <3>1, <3>2 DEF Coded, TypeOK
  <2> QED BY <2>1, <2>2
<1>5. ASSUME NEW s \in Stream
      PROVE  Frames(s)' = Frames(s)
  <2>1. ASSUME NEW i \in 1 .. Len(done_list[s])
        PROVE  Frame(s, done_list[s][i])' = Frame(s, done_list[s][i])
    <3>1. CASE s = Output
      BY <1>1, <3>1 DEF Frame
    <3>2. CASE s = Capture
      <4>1. done_list[s][i] \in Range(done_list[Capture]) /\ done_list[s][i] \in Elements
        BY <3>2, LenProperties, ElementOfSeq DEF TypeOK, Range
      <4>2. origin'[done_list[s][i]] = origin[done_list[s][i]]
        BY <1>1, <1>3, <4>1 DEF TypeOK
      <4> QED BY <1>1, <4>2 DEF Frame
    <3> QED BY <3>1, <3>2
  <2> QED BY <1>1, <2>1 DEF Frames
<1> QED BY <1>4, <1>5

(* A finished pair adds its frame to both streams. *)
LEMMA DoneCoded ==
    ASSUME TypeOK, EveryBufferOnce, Coded, NEW t \in Task, DoneM2mElements(t)
    PROVE  /\ Coded'
           /\ \A s \in Stream : Frames(s)' = Append(Frames(s), pair[t][Output])
<1> USE StreamCases
<1>1. \A s \in Stream : free[s][pair[t][s]]
  BY DonePlaced, EveryBufferPlaced DEF AllPlaced
<1>2. /\ pc[t] = "done" /\ pc' = [pc EXCEPT ![t] = "give_output"]
      /\ done_list' = [s \in Stream |-> Append(done_list[s], pair[t][s])]
      /\ UNCHANGED <<pair, origin>>
  BY <1>1 DEF DoneM2mElements
<1>3. Coded'
  BY <1>2 DEF Coded, TypeOK
<1>4. ASSUME NEW s \in Stream
      PROVE  Frames(s)' = Append(Frames(s), pair[t][Output])
  <2>1. FrameOf(s, pair[t][s], origin) = pair[t][Output]
    BY <1>2 DEF FrameOf, Coded
  <2>2. /\ done_list[s] \in Seq(Elements) /\ pair[t][s] \in Elements
        /\ origin \in [Elements -> Elements]
    BY DEF TypeOK
  <2>3. FramesOf(s, Append(done_list[s], pair[t][s]), origin) = Append(Frames(s), pair[t][Output])
    BY <2>1, <2>2, FramesAppend, FramesAre
  <2>4. Frames(s)' = FramesOf(s, Append(done_list[s], pair[t][s]), origin)
    BY <1>2 DEF Frames, Frame, FramesOf, FrameOf
  <2> QED BY <2>3, <2>4
<1> QED BY <1>3, <1>4

(* A pair added to both streams keeps them matched. *)
LEMMA DoneMatches ==
    ASSUME TypeOK, EveryBufferOnce, Coded, PairsMatch, NEW t \in Task, DoneM2mElements(t)
    PROVE  PairsMatch'
<1> DEFINE f == pair[t][Output]
<1>1. PICK s \in Stream : owed[s] = <<>> /\ Frames(Other(s)) = owed[Other(s)] \o Frames(s)
  BY DEF PairsMatch
<1>2. Other(s) \in Stream /\ f \in Elements
  BY OtherStream, StreamCases DEF TypeOK
<1>3. Frames(s)' = Append(Frames(s), f) /\ Frames(Other(s))' = Append(Frames(Other(s)), f)
  BY <1>2, DoneCoded
<1>4. owed[Other(s)] \in Seq(Elements) /\ Frames(s) \in Seq(Elements)
  <2>1. /\ owed[Other(s)] \in Seq(Elements) /\ done_list[s] \in Seq(Elements)
        /\ origin \in [Elements -> Elements]
    BY <1>2 DEF TypeOK
  <2>2. FramesOf(s, done_list[s], origin) \in Seq(Elements)
    BY <2>1, FramesSeq
  <2> QED BY <2>1, <2>2, FramesAre
<1>5. Append(owed[Other(s)] \o Frames(s), f) = owed[Other(s)] \o Append(Frames(s), f)
  <2>1. PICK a \in Seq(Elements) : a = owed[Other(s)]
    BY <1>4
  <2>2. PICK b \in Seq(Elements) : b = Frames(s)
    BY <1>4
  <2>3. PICK g \in Elements : g = f
    BY <1>2
  <2>4. Append(a \o b, g) = a \o Append(b, g)
    <3> HIDE DEF f
    <3>1. <<g>> \in Seq(Elements) /\ a \o b \in Seq(Elements)
      BY ConcatProperties
    <3>2. Append(a \o b, g) = (a \o b) \o <<g>> /\ Append(b, g) = b \o <<g>>
      BY <3>1, AppendIsConcat
    <3>3. (a \o b) \o <<g>> = a \o (b \o <<g>>)
      BY <3>1, ConcatAssociative
    <3> QED BY <3>2, <3>3
  <2> QED BY <2>1, <2>2, <2>3, <2>4
<1>6. owed' = owed
  BY DEF DoneM2mElements
<1> QED BY <1>1, <1>3, <1>5, <1>6 DEF PairsMatch

(* A frame taken from one stream is owed by the other, or pays a debt. *)
LEMMA PopMatches ==
    ASSUME TypeOK, PairsMatch, NEW t \in Task, DqbufPop(t)
    PROVE  PairsMatch'
<1>0. PICK s \in Stream, o \in Stream : s = type[t] /\ o = Other(s)
  BY OtherStream DEF TypeOK
<1> DEFINE f == Head(Frames(s))
<1>1. o # s /\ Other(o) = s /\ Stream = {s, o}
  BY <1>0, OtherStream, StreamCases
<1>2. origin' = origin
  BY DEF DqbufPop
<1>3. CASE done_list[s] = <<>>
  <2>1. UNCHANGED <<done_list, owed>>
    BY <1>0, <1>3 DEF DqbufPop
  <2>2. \A u \in Stream : Frames(u)' = Frames(u)
    BY <1>2, <2>1 DEF Frames, Frame
  <2> QED BY <2>1, <2>2, OtherStream DEF PairsMatch
<1>4. CASE done_list[s] # <<>>
  <2>1. /\ done_list' = [done_list EXCEPT ![s] = Tail(@)]
        /\ Receive(s, Frame(s, Head(done_list[s])))
    BY <1>0, <1>4 DEF DqbufPop
  <2>2. /\ done_list[s] \in Seq(Elements) /\ done_list[o] \in Seq(Elements)
        /\ origin \in [Elements -> Elements]
        /\ owed[s] \in Seq(Elements) /\ owed[o] \in Seq(Elements)
    BY DEF TypeOK
  <2>3. Frames(s)' = Tail(Frames(s)) /\ Frames(o)' = Frames(o)
    <3>1. done_list'[s] = Tail(done_list[s]) /\ done_list'[o] = done_list[o]
      BY <1>1, <2>1 DEF TypeOK
    <3>2. /\ Frames(s)' = FramesOf(s, Tail(done_list[s]), origin)
          /\ Frames(o)' = FramesOf(o, done_list[o], origin)
      BY <1>2, <3>1 DEF Frames, Frame, FramesOf, FrameOf
    <3>3. FramesOf(s, Tail(done_list[s]), origin) = Tail(FramesOf(s, done_list[s], origin))
      BY <1>4, <2>2, FramesTail
    <3> QED BY <3>2, <3>3, FramesAre
  <2>4. /\ Frame(s, Head(done_list[s])) = f
        /\ Frames(s) # <<>> /\ Frames(s) \in Seq(Elements) /\ Frames(o) \in Seq(Elements)
    BY <1>4, <2>2, FramesTail, FramesSeq, FramesAre DEF Frame, FrameOf
  <2>5. CASE owed[s] = <<>> /\ Frames(o) = owed[o] \o Frames(s)
    <3>1. owed' = [owed EXCEPT ![o] = Append(@, f)]
      BY <2>1, <2>4, <2>5, <1>0 DEF Receive
    <3>2. owed'[s] = <<>> /\ owed'[o] = Append(owed[o], f)
      BY <1>1, <2>5, <3>1 DEF TypeOK
    <3>3. Append(owed[o], f) \o Tail(Frames(s)) = owed[o] \o Frames(s)
      BY <2>2, <2>4, MoveAcross
    <3>4. Frames(Other(s))' = owed'[Other(s)] \o Frames(s)'
      BY <1>0, <2>3, <2>5, <3>2, <3>3
    <3> QED BY <3>2, <3>4 DEF PairsMatch
  <2>6. CASE owed[s] # <<>> /\ owed[o] = <<>> /\ Frames(s) = owed[s] \o Frames(o)
    <3>1. owed' = [owed EXCEPT ![s] = Tail(@)]
      BY <2>1, <2>6 DEF Receive
    <3>2. owed'[s] = Tail(owed[s]) /\ owed'[o] = <<>>
      BY <1>1, <2>6, <3>1 DEF TypeOK
    <3>3. Tail(Frames(s)) = Tail(owed[s]) \o Frames(o)
      BY <2>2, <2>4, <2>6, TailConcat
    <3>4. Frames(Other(o))' = owed'[Other(o)] \o Frames(o)'
      BY <1>1, <2>3, <3>2, <3>3
    <3> QED BY <3>2, <3>4 DEF PairsMatch
  <2>7. owed[s] = <<>> /\ owed[o] = <<>> /\ Frames(s) = owed[s] \o Frames(o)
           => Frames(o) = owed[o] \o Frames(s)
    BY <2>4, ConcatEmptySeq
  <2>8. \/ owed[s] = <<>> /\ Frames(o) = owed[o] \o Frames(s)
        \/ owed[o] = <<>> /\ Frames(s) = owed[s] \o Frames(o)
    BY <1>0, <1>1 DEF PairsMatch
  <2> QED BY <2>5, <2>6, <2>7, <2>8
<1> QED BY <1>3, <1>4

\* Both streams are empty and nothing is owed.
Drained == \A s \in Stream : done_list[s] = <<>> /\ owed[s] = <<>>

LEMMA DrainedMatches == Drained => PairsMatch
<1>1. Drained => \A s \in Stream : Frames(s) = <<>>
  BY DEF Drained, Frames
<1> QED BY <1>1, OtherStream, StreamCases, ConcatEmptySeq, EmptySeq DEF Drained, PairsMatch

(* The invariant behind PairsMatch. *)
Matched == EveryBufferOnce /\ Coded /\ PairsMatch

LEMMA InitMatched == Init => Matched
<1> SUFFICES ASSUME Init PROVE Matched
  OBVIOUS
<1>1. Coded
  BY DEF Init, Coded
<1>2. PairsMatch
  BY DrainedMatches DEF Init, Drained
<1> QED BY <1>1, <1>2, InitPlaced DEF Matched

LEMMA NextMatched == TypeOK /\ Matched /\ [Next]_vars => Matched'
<1>1. Drained' => PairsMatch'
  BY DrainedMatches, PTL
<1> SUFFICES ASSUME TypeOK, EveryBufferOnce, Coded, PairsMatch, [Next]_vars
             PROVE  Coded' /\ PairsMatch'
  BY NextPlaced DEF Matched
\* A step that neither finishes nor delivers a frame.
<1>2. ASSUME UNCHANGED <<done_list, origin, owed>>
      PROVE  PairsMatch'
  <2>1. \A s \in Stream : Frames(s)' = Frames(s)
    BY <1>2 DEF Frames, Frame
  <2> QED BY <1>2, <2>1, OtherStream DEF PairsMatch
\* A step after which no task that was not yet done is done.
<1>3. ASSUME UNCHANGED <<origin, pair>>, \A t \in Task : pc'[t] = "done" => pc[t] = "done"
      PROVE  Coded'
  BY <1>3 DEF Coded
<1>4. ASSUME NEW s \in Stream, NEW n, NEW S, NEW sem, Replace(s, n, S, sem), Settled(s)
      PROVE  Coded' /\ PairsMatch'
  <2>1. Coded'
    BY <1>3, <1>4 DEF Replace, taskVars
  <2>2. Drained'
    BY <1>4, StreamCases DEF Replace, Settled, Drained, TypeOK, Other
  <2> QED BY <1>1, <2>1, <2>2
<1>5. ASSUME NEW s \in Stream, NEW n \in 1 .. MaxCount, Reqbufs(s, n) \/ ReqbufsNoMemory(s, n)
      PROVE  Coded' /\ PairsMatch'
  BY <1>4, <1>5 DEF Reqbufs, ReqbufsNoMemory
<1>6. ASSUME NEW s \in Stream, ReqbufsRelease(s)
      PROVE  Coded' /\ PairsMatch'
  BY <1>4, <1>6 DEF ReqbufsRelease
<1>7. ASSUME NEW s \in Stream, StreamOn(s) \/ StreamOnFails(s) \/ StreamOffFails(s)
      PROVE  Coded' /\ PairsMatch'
  <2>1. UNCHANGED <<done_list, origin, owed, pair, pc>>
    BY <1>7 DEF StreamOn, StreamOnFails, StreamOffFails, listVars, taskVars
  <2> QED BY <1>2, <1>3, <2>1
<1>8. ASSUME NEW s \in Stream, StreamOff(s)
      PROVE  Coded' /\ PairsMatch'
  <2>1. Coded'
    BY <1>3, <1>8 DEF StreamOff, taskVars
  <2>2. Drained'
    BY <1>8 DEF StreamOff, Drained
  <2> QED BY <1>1, <2>1, <2>2
<1>9. ASSUME NEW s \in Stream, NEW e \in Elements, Qbuf(s, e)
      PROVE  Coded' /\ PairsMatch'
  <2>1. UNCHANGED <<done_list, origin, owed, pair, pc>>
    BY <1>9 DEF Qbuf, taskVars
  <2> QED BY <1>2, <1>3, <2>1
<1>10. ASSUME NEW t \in Task, GetM2mQueuedElements(t)
       PROVE  Coded' /\ PairsMatch'
  <2>1. UNCHANGED <<done_list, origin, owed>> /\ pc' = [pc EXCEPT ![t] = "code"]
        /\ \A u \in Task : u # t => pair'[u] = pair[u]
    BY <1>10 DEF GetM2mQueuedElements, TypeOK
  <2>2. Coded'
    BY <2>1 DEF Coded, TypeOK
  <2> QED BY <1>2, <2>1, <2>2
<1>11. ASSUME NEW t \in Task, M2mProcess(t)
       PROVE  Coded' /\ PairsMatch'
  <2>1. Coded' /\ \A s \in Stream : Frames(s)' = Frames(s)
    BY <1>11, ProcessCoded
  <2>2. owed' = owed
    BY <1>11 DEF M2mProcess
  <2> QED BY <2>1, <2>2, OtherStream DEF PairsMatch
<1>12. ASSUME NEW t \in Task, DoneM2mElements(t)
       PROVE  Coded' /\ PairsMatch'
  BY <1>12, DoneCoded, DoneMatches
<1>13. ASSUME NEW t \in Task, DqbufPop(t)
       PROVE  Coded' /\ PairsMatch'
  <2>1. Coded'
    BY <1>3, <1>13 DEF DqbufPop, TypeOK
  <2> QED BY <1>13, <2>1, PopMatches
<1>14. ASSUME NEW t \in Task,
              \/ GiveOutput(t) \/ GiveCapture(t) \/ DqbufOutput(t)
              \/ DqbufTake(t) \/ DqbufTimeout(t)
       PROVE  Coded' /\ PairsMatch'
  <2>1. UNCHANGED <<done_list, origin, owed, pair>>
    BY <1>14 DEF GiveOutput, GiveCapture, DqbufOutput, DqbufTake, DqbufTimeout, listVars
  <2>2. \A u \in Task : pc'[u] = "done" => pc[u] = "done"
    BY <1>14 DEF GiveOutput, GiveCapture, DqbufOutput, DqbufTake, DqbufTimeout, TypeOK
  <2> QED BY <1>2, <1>3, <2>1, <2>2
<1>15. CASE UNCHANGED vars
  <2>1. UNCHANGED <<done_list, origin, owed, pair, pc>>
    BY <1>15 DEF vars, listVars, taskVars
  <2> QED BY <1>2, <1>3, <2>1
<1> QED BY <1>5, <1>6, <1>7, <1>8, <1>9, <1>10, <1>11, <1>12, <1>13, <1>14, <1>15 DEF Next

(* The two streams return the same frames in the same order, for every number of
   tasks and buffers. *)
THEOREM FramesPaired == Spec => []PairsMatch
<1>1. Init => Matched
  BY InitMatched
<1>2. TypeOK /\ Matched /\ [Next]_vars => Matched'
  BY NextMatched
<1>3. Matched => PairsMatch
  BY DEF Matched
<1> QED BY <1>1, <1>2, <1>3, TypeCorrect, PTL DEF Spec

-------------------------------------------------------------------------------
(* The semaphores *)

\* The units of the semaphore of stream s.
Unit(s) == IF ready_sem[s] = NULL THEN 0 ELSE ready_sem[s]

\* The tasks that have given the semaphore of CAPTURE and wait for it.
Waiting == {t \in Task : pc[t] = "take" /\ type[t] = Capture}

Balance(s) == Len(done_list[s]) = Unit(s) + Cardinality(Giving(s)) + Cardinality(Taken(s))

(* The invariant behind CaptureNeverWaits: a stream with buffers has a semaphore
   whose limit is their number, and a task that codes is in DQBUF on CAPTURE. *)
Counted ==
    /\ \A s \in Stream :
           /\ Balance(s)
           /\ buffer[s] # {} => buffer[s] = 0 .. count[s] - 1 /\ ready_sem[s] # NULL
    /\ \A t \in Task : pc[t] \in CodingPcs \cup GivePcs => type[t] = Capture
    /\ Unit(Capture) >= Cardinality(Waiting)

LEMMA CountedNeverWaits == Counted => CaptureNeverWaits
<1> SUFFICES ASSUME Counted PROVE CaptureNeverWaits
  OBVIOUS
<1>1. Waiting # {} => ready_sem[Capture] >= Cardinality(Waiting)
  <2> SUFFICES ASSUME Waiting # {} PROVE ready_sem[Capture] >= Cardinality(Waiting)
    OBVIOUS
  <2>1. IsFiniteSet(Waiting)
    BY M2MAssumption, FS_Subset DEF Waiting
  <2>2. Cardinality(Waiting) \in Nat /\ Cardinality(Waiting) # 0
    BY <2>1, FS_CardinalityType, FS_EmptySet
  <2>3. Unit(Capture) >= Cardinality(Waiting)
    BY DEF Counted
  <2>4. ready_sem[Capture] # NULL
    BY <2>2, <2>3 DEF Unit
  <2> QED BY <2>3, <2>4 DEF Unit
<1> QED BY <1>1 DEF Counted, Balance, Unit, Waiting, CaptureNeverWaits

(* Counting tasks. *)
LEMMA TaskCount ==
    ASSUME NEW S, S \subseteq Task
    PROVE  /\ Cardinality(S) \in Nat
           /\ \A t \in Task \ S : Cardinality(S \cup {t}) = Cardinality(S) + 1
           /\ \A t \in S : Cardinality(S) > 0 /\ Cardinality(S \ {t}) = Cardinality(S) - 1
<1>1. IsFiniteSet(S) /\ Cardinality(S) \in Nat
  BY M2MAssumption, FS_Subset, FS_CardinalityType
<1>2. \A t \in Task \ S : Cardinality(S \cup {t}) = Cardinality(S) + 1
  BY <1>1, FS_AddElement
<1>3. ASSUME NEW t \in S
      PROVE  Cardinality(S) > 0 /\ Cardinality(S \ {t}) = Cardinality(S) - 1
  <2>1. Cardinality(S \ {t}) = Cardinality(S) - 1
    BY <1>1, FS_RemoveElement
  <2>2. Cardinality(S) # 0
    BY <1>1, FS_EmptySet
  <2> QED BY <1>1, <2>1, <2>2
<1> QED BY <1>1, <1>2, <1>3

LEMMA TaskSets ==
    /\ Waiting \subseteq Task
    /\ \A s \in Stream : Giving(s) \subseteq Task /\ Taken(s) \subseteq Task
BY DEF Waiting, Giving, Taken

LEMMA UnitType == TypeOK => \A s \in Stream : Unit(s) \in Nat
BY DEF TypeOK, Unit

(* While no call is under way the semaphores count the done lists. *)
LEMMA NoCalls ==
    ASSUME MayControl
    PROVE  Waiting = {} /\ \A s \in Stream : Giving(s) = {} /\ Taken(s) = {}
BY DEF MayControl, Waiting, Giving, Taken

LEMMA EmptyTasks == Cardinality({}) = 0
BY FS_EmptySet

(* No list is longer than the stream has buffers. *)
LEMMA DoneListBounded ==
    ASSUME TypeOK, EveryBufferOnce, Counted, NEW s \in Stream, Len(done_list[s]) > 0
    PROVE  /\ Len(done_list[s]) <= count[s]
           /\ ready_sem[s] # NULL
<1> DEFINE d == done_list[s]
           places == 1 .. Len(d)
<1>1. /\ d \in Seq(Elements) /\ Len(d) \in Nat /\ DOMAIN d = 1 .. Len(d)
      /\ count[s] \in Nat
  BY LenProperties DEF TypeOK
<1>2. IsInjective(d) /\ \A i \in 1 .. Len(d) : d[i] \in buffer[s]
  BY <1>1 DEF EveryBufferOnce, Listed, Range
<1>3. buffer[s] = 0 .. count[s] - 1 /\ ready_sem[s] # NULL
  <2>1. 1 \in 1 .. Len(d)
    BY <1>1
  <2> QED BY <1>2, <2>1 DEF Counted
<1>4. count[s] > 0
  <2>1. 1 \in 1 .. Len(d)
    BY <1>1
  <2> QED BY <1>1, <1>2, <1>3, <2>1
<1>5. IsFiniteSet(buffer[s]) /\ Cardinality(buffer[s]) = count[s]
  <2>1. 0 \in Int /\ count[s] - 1 \in Int /\ ~(0 > count[s] - 1)
        /\ (count[s] - 1) - 0 + 1 = count[s]
    BY <1>1, <1>4
  <2> QED BY <1>3, <2>1, FS_Interval
<1>6. IsFiniteSet(places) /\ Cardinality(places) = Len(d)
  <2>1. 1 \in Int /\ Len(d) \in Int /\ ~(1 > Len(d)) /\ Len(d) - 1 + 1 = Len(d)
    BY <1>1
  <2> QED BY <2>1, FS_Interval
<1>7. d \in Injection(places, buffer[s])
  BY <1>1, <1>2 DEF Injection, IsInjective
<1> HIDE DEF places
<1>8. Cardinality(places) <= Cardinality(buffer[s])
  BY <1>5, <1>6, <1>7, FS_Injection
<1> QED BY <1>3, <1>5, <1>6, <1>8

(* A step that neither gives nor takes a unit and moves no frame. *)
LEMMA CountedKept ==
    ASSUME Counted, UNCHANGED <<memoryVars, done_list>>,
           Waiting' = Waiting,
           \A s \in Stream : Giving(s)' = Giving(s) /\ Taken(s)' = Taken(s),
           \A t \in Task : pc'[t] \in CodingPcs \cup GivePcs => type'[t] = Capture
    PROVE  Counted'
<1>1. /\ UNCHANGED <<buffer, count, ready_sem, done_list>>
      /\ \A s \in Stream : Unit(s)' = Unit(s)
  BY DEF memoryVars, Unit
<1>2. Capture \in Stream
  BY StreamCases
<1>3. Unit(Capture)' >= Cardinality(Waiting')
  BY <1>1, <1>2 DEF Counted
<1>4. ASSUME NEW s \in Stream
      PROVE  Balance(s)'
  BY <1>1, <1>4 DEF Counted, Balance
<1>5. \A s \in Stream :
          buffer'[s] # {} => buffer'[s] = 0 .. count'[s] - 1 /\ ready_sem'[s] # NULL
  BY <1>1 DEF Counted
<1> QED BY <1>3, <1>4, <1>5 DEF Counted

(* Both lists of a stream are replaced while no call is under way. *)
LEMMA ReplaceCounted ==
    ASSUME TypeOK, Counted, NEW r \in Stream, NEW n \in 0 .. MaxCount, NEW S, NEW sem,
           Replace(r, n, S, sem), (S = {} /\ sem = NULL) \/ (S = 0 .. n - 1 /\ sem = 0)
    PROVE  Counted'
<1>1. /\ MayControl /\ UNCHANGED taskVars /\ MayControl'
      /\ \A s \in Stream : s # r =>
             UNCHANGED <<buffer[s], count[s], ready_sem[s], done_list[s]>>
      /\ buffer'[r] = S /\ count'[r] = n /\ ready_sem'[r] = sem /\ done_list'[r] = <<>>
  BY DEF Replace, MayControl, taskVars, TypeOK
<1>2. /\ Waiting = {} /\ Waiting' = {}
      /\ \A s \in Stream : Giving(s) = {} /\ Taken(s) = {} /\ Giving(s)' = {} /\ Taken(s)' = {}
  BY <1>1 DEF MayControl, Waiting, Giving, Taken
<1>3. ASSUME NEW s \in Stream
      PROVE  Balance(s)'
  <2>1. CASE s = r
    <3>1. Unit(s)' = 0 /\ Len(done_list'[s]) = 0
      BY <1>1, <2>1 DEF Unit, NULL
    <3>2. Cardinality(Giving(s)') = 0 /\ Cardinality(Taken(s)') = 0
      BY <1>2, EmptyTasks
    <3>3. Len(done_list'[s]) = Unit(s)' + Cardinality(Giving(s)') + Cardinality(Taken(s)')
      BY <3>1, <3>2
    <3> QED BY <3>3 DEF Balance
  <2>2. CASE s # r
    <3>1. Unit(s)' = Unit(s) /\ done_list'[s] = done_list[s]
      BY <1>1, <2>2 DEF Unit
    <3> QED BY <1>2, <3>1, EmptyTasks DEF Balance, Counted
  <2> QED BY <2>1, <2>2
<1>4. ASSUME NEW s \in Stream, buffer'[s] # {}
      PROVE  buffer'[s] = 0 .. count'[s] - 1 /\ ready_sem'[s] # NULL
  BY <1>1, <1>4 DEF Counted, NULL
<1>5. Unit(Capture)' >= Cardinality(Waiting')
  <2>1. Unit(Capture)' >= 0
    BY <1>1, StreamCases DEF Unit, NULL, TypeOK
  <2> QED BY <1>2, <2>1, EmptyTasks
<1>6. \A t \in Task : pc'[t] \in CodingPcs \cup GivePcs => type'[t] = Capture
  BY <1>1 DEF Counted, taskVars
<1> QED BY <1>3, <1>4, <1>5, <1>6 DEF Counted

LEMMA StreamOffCounted ==
    ASSUME TypeOK, Counted, NEW r \in Stream, StreamOff(r)
    PROVE  Counted'
<1>1. /\ MayControl' /\ UNCHANGED <<taskVars, buffer, count>>
      /\ \A s \in Stream : ready_sem'[s] = 0 /\ done_list'[s] = <<>>
  BY DEF StreamOff, MayControl, taskVars
<1>2. Waiting' = {} /\ \A s \in Stream : Giving(s)' = {} /\ Taken(s)' = {}
  BY <1>1 DEF MayControl, Waiting, Giving, Taken
<1>3. \A s \in Stream : Unit(s)' = 0 /\ Len(done_list'[s]) = 0
  BY <1>1 DEF Unit
<1>4. \A s \in Stream : Balance(s)'
  BY <1>2, <1>3, EmptyTasks DEF Balance
<1>5. Unit(Capture)' >= Cardinality(Waiting')
  BY <1>2, <1>3, StreamCases, EmptyTasks
<1>6. \A s \in Stream :
          buffer'[s] # {} => buffer'[s] = 0 .. count'[s] - 1 /\ ready_sem'[s] # NULL
  BY <1>1 DEF Counted, NULL
<1>7. \A t \in Task : pc'[t] \in CodingPcs \cup GivePcs => type'[t] = Capture
  BY <1>1 DEF Counted, taskVars
<1> QED BY <1>4, <1>5, <1>6, <1>7 DEF Counted

(* A pair that enters the done lists is about to be given on both streams. *)
LEMMA DoneCounted ==
    ASSUME TypeOK, EveryBufferOnce, Counted, NEW t \in Task, DoneM2mElements(t)
    PROVE  Counted'
<1>1. \A s \in Stream : free[s][pair[t][s]]
  BY DonePlaced, EveryBufferPlaced DEF AllPlaced
<1>2. /\ pc[t] = "done" /\ pc' = [pc EXCEPT ![t] = "give_output"]
      /\ done_list' = [s \in Stream |-> Append(done_list[s], pair[t][s])]
      /\ UNCHANGED <<type, buffer, count, ready_sem>>
  BY <1>1 DEF DoneM2mElements, memoryVars
<1>3. Waiting' = Waiting
  BY <1>2 DEF Waiting, TypeOK
<1>4. ASSUME NEW s \in Stream
      PROVE  /\ Giving(s)' = Giving(s) \cup {t} /\ t \notin Giving(s)
             /\ Taken(s)' = Taken(s)
             /\ Len(done_list'[s]) = Len(done_list[s]) + 1
  <2>1. Giving(s)' = Giving(s) \cup {t} /\ t \notin Giving(s)
    BY <1>2 DEF Giving, TypeOK
  <2>2. Taken(s)' = Taken(s)
    BY <1>2 DEF Taken, TypeOK
  <2>3. Len(done_list'[s]) = Len(done_list[s]) + 1
    BY <1>2, AppendProperties DEF TypeOK
  <2> QED BY <2>1, <2>2, <2>3
<1>5. ASSUME NEW s \in Stream
      PROVE  Balance(s)'
  <2>1. /\ Cardinality(Giving(s)') = Cardinality(Giving(s)) + 1
        /\ Cardinality(Giving(s)) \in Nat /\ Cardinality(Taken(s)) \in Nat
    BY <1>4, TaskSets, TaskCount
  <2>2. Unit(s)' = Unit(s) /\ Unit(s) \in Nat
    BY <1>2, UnitType DEF Unit
  <2>3. Len(done_list[s]) = Unit(s) + Cardinality(Giving(s)) + Cardinality(Taken(s))
    BY DEF Counted, Balance
  <2>4. Cardinality(Taken(s)') = Cardinality(Taken(s)) /\ Len(done_list'[s]) = Len(done_list[s]) + 1
    BY <1>4
  <2>5. Len(done_list'[s]) = Unit(s)' + Cardinality(Giving(s)') + Cardinality(Taken(s)')
    BY <2>1, <2>2, <2>3, <2>4
  <2> QED BY <2>5 DEF Balance
<1>6. Unit(Capture)' >= Cardinality(Waiting')
  BY <1>2, <1>3 DEF Unit, Counted
<1>7. \A s \in Stream :
          buffer'[s] # {} => buffer'[s] = 0 .. count'[s] - 1 /\ ready_sem'[s] # NULL
  BY <1>2 DEF Counted
<1>8. \A u \in Task : pc'[u] \in CodingPcs \cup GivePcs => type'[u] = Capture
  BY <1>2 DEF Counted, TypeOK
<1> QED BY <1>5, <1>6, <1>7, <1>8 DEF Counted

(* A unit is never lost: with the frame of the task that gives it the done list is
   longer than the semaphore counts, and no longer than its limit. *)
LEMMA GiveNotLost ==
    ASSUME TypeOK, EveryBufferOnce, Counted, NEW s \in Stream, NEW t \in Giving(s), GiveReady(s)
    PROVE  /\ ready_sem' = [ready_sem EXCEPT ![s] = Unit(s) + 1]
           /\ ready_sem'[s] # NULL
           /\ Unit(s)' = Unit(s) + 1
           /\ \A r \in Stream : r # s => ready_sem'[r] = ready_sem[r] /\ Unit(r)' = Unit(r)
<1>1. Cardinality(Giving(s)) \in Nat /\ Cardinality(Giving(s)) > 0 /\ Cardinality(Taken(s)) \in Nat
  BY TaskSets, TaskCount
<1>2. Unit(s) \in Nat
  BY UnitType
<1>3. Len(done_list[s]) = Unit(s) + Cardinality(Giving(s)) + Cardinality(Taken(s))
  BY DEF Counted, Balance
<1>4. Len(done_list[s]) > 0
  BY <1>1, <1>2, <1>3
<1>5. Len(done_list[s]) <= count[s] /\ ready_sem[s] # NULL
  BY <1>4, DoneListBounded
<1>6. ready_sem[s] = Unit(s)
  BY <1>5 DEF Unit
<1>7. count[s] \in Nat
  BY DEF TypeOK
<1>8. Unit(s) < count[s]
  BY <1>1, <1>2, <1>3, <1>5, <1>7
<1>9. ready_sem' = [ready_sem EXCEPT ![s] = Unit(s) + 1]
  BY <1>6, <1>8 DEF GiveReady
<1>10. ready_sem'[s] = Unit(s) + 1 /\ \A r \in Stream : r # s => ready_sem'[r] = ready_sem[r]
  BY <1>9 DEF TypeOK
<1>11. Unit(s) + 1 # NULL
  BY <1>2 DEF NULL
<1> QED BY <1>9, <1>10, <1>11 DEF Unit

LEMMA GiveOutputCounted ==
    ASSUME TypeOK, EveryBufferOnce, Counted, NEW t \in Task, GiveOutput(t)
    PROVE  Counted'
<1> USE StreamCases
<1>1. /\ pc[t] = "give_output" /\ pc' = [pc EXCEPT ![t] = "give_capture"]
      /\ GiveReady(Output) /\ UNCHANGED <<type, buffer, count, done_list>>
  BY DEF GiveOutput, listVars
<1>2. /\ Giving(Output)' = Giving(Output) \ {t} /\ t \in Giving(Output)
      /\ Giving(Capture)' = Giving(Capture)
  BY <1>1 DEF Giving, TypeOK
<1>3. Waiting' = Waiting /\ Taken(Output)' = Taken(Output) /\ Taken(Capture)' = Taken(Capture)
  BY <1>1 DEF Waiting, Taken, TypeOK
<1>4. /\ ready_sem'[Output] # NULL /\ Unit(Output)' = Unit(Output) + 1
      /\ ready_sem'[Capture] = ready_sem[Capture] /\ Unit(Capture)' = Unit(Capture)
  BY <1>1, <1>2, GiveNotLost
<1>5. Balance(Output)'
  <2>1. /\ Cardinality(Giving(Output)') = Cardinality(Giving(Output)) - 1
        /\ Cardinality(Giving(Output)) \in Nat /\ Cardinality(Taken(Output)) \in Nat
    BY <1>2, TaskSets, TaskCount
  <2>2. Unit(Output) \in Nat
    BY UnitType
  <2>3. Len(done_list[Output])
           = Unit(Output) + Cardinality(Giving(Output)) + Cardinality(Taken(Output))
    BY DEF Counted, Balance
  <2>4. Len(done_list'[Output])
           = Unit(Output)' + Cardinality(Giving(Output)') + Cardinality(Taken(Output)')
    BY <1>1, <1>3, <1>4, <2>1, <2>2, <2>3
  <2> QED BY <2>4 DEF Balance
<1>6. Balance(Capture)'
  BY <1>1, <1>2, <1>3, <1>4 DEF Counted, Balance
<1>7. Unit(Capture)' >= Cardinality(Waiting')
  BY <1>3, <1>4 DEF Counted
<1>8. \A s \in Stream :
          buffer'[s] # {} => buffer'[s] = 0 .. count'[s] - 1 /\ ready_sem'[s] # NULL
  BY <1>1, <1>4 DEF Counted
<1>9. \A u \in Task : pc'[u] \in CodingPcs \cup GivePcs => type'[u] = Capture
  BY <1>1 DEF Counted, TypeOK
<1> QED BY <1>5, <1>6, <1>7, <1>8, <1>9 DEF Counted

(* The unit is given before the task waits for one. *)
LEMMA GiveCaptureCounted ==
    ASSUME TypeOK, EveryBufferOnce, Counted, NEW t \in Task, GiveCapture(t)
    PROVE  Counted'
<1> USE StreamCases
<1>1. /\ pc[t] = "give_capture" /\ pc' = [pc EXCEPT ![t] = "take"] /\ type[t] = Capture
      /\ GiveReady(Capture) /\ UNCHANGED <<type, buffer, count, done_list>>
  BY DEF GiveCapture, listVars, Counted
<1>2. /\ Giving(Capture)' = Giving(Capture) \ {t} /\ t \in Giving(Capture)
      /\ Giving(Output)' = Giving(Output)
  BY <1>1 DEF Giving, TypeOK
<1>3. /\ Waiting' = Waiting \cup {t} /\ t \in Task \ Waiting
      /\ Taken(Output)' = Taken(Output) /\ Taken(Capture)' = Taken(Capture)
  BY <1>1 DEF Waiting, Taken, TypeOK
<1>4. /\ ready_sem'[Capture] # NULL /\ Unit(Capture)' = Unit(Capture) + 1
      /\ ready_sem'[Output] = ready_sem[Output] /\ Unit(Output)' = Unit(Output)
  BY <1>1, <1>2, GiveNotLost
<1>5. Balance(Capture)'
  <2>1. /\ Cardinality(Giving(Capture)') = Cardinality(Giving(Capture)) - 1
        /\ Cardinality(Giving(Capture)) \in Nat /\ Cardinality(Taken(Capture)) \in Nat
    BY <1>2, TaskSets, TaskCount
  <2>2. Unit(Capture) \in Nat
    BY UnitType
  <2>3. Len(done_list[Capture])
           = Unit(Capture) + Cardinality(Giving(Capture)) + Cardinality(Taken(Capture))
    BY DEF Counted, Balance
  <2>4. Len(done_list'[Capture])
           = Unit(Capture)' + Cardinality(Giving(Capture)') + Cardinality(Taken(Capture)')
    BY <1>1, <1>3, <1>4, <2>1, <2>2, <2>3
  <2> QED BY <2>4 DEF Balance
<1>6. Balance(Output)'
  BY <1>1, <1>2, <1>3, <1>4 DEF Counted, Balance
<1>7. Unit(Capture)' >= Cardinality(Waiting')
  <2>1. Cardinality(Waiting') = Cardinality(Waiting) + 1 /\ Cardinality(Waiting) \in Nat
    BY <1>3, TaskSets, TaskCount
  <2>2. Unit(Capture) \in Nat /\ Unit(Capture) >= Cardinality(Waiting)
    BY UnitType DEF Counted
  <2> QED BY <1>4, <2>1, <2>2
<1>8. \A s \in Stream :
          buffer'[s] # {} => buffer'[s] = 0 .. count'[s] - 1 /\ ready_sem'[s] # NULL
  BY <1>1, <1>4 DEF Counted
<1>9. \A u \in Task : pc'[u] \in CodingPcs \cup GivePcs => type'[u] = Capture
  BY <1>1 DEF Counted, TypeOK
<1> QED BY <1>5, <1>6, <1>7, <1>8, <1>9 DEF Counted

(* A task that takes a unit no longer waits and has one for a frame. *)
LEMMA TakeCounted ==
    ASSUME TypeOK, Counted, NEW t \in Task, DqbufTake(t)
    PROVE  Counted'
<1> USE StreamCases
<1>0. PICK s \in Stream : s = type[t]
  BY DEF TypeOK
<1>1. /\ pc[t] = "take" /\ pc' = [pc EXCEPT ![t] = "took"] /\ ready_sem[s] > 0
      /\ ready_sem' = [ready_sem EXCEPT ![s] = @ - 1]
      /\ UNCHANGED <<type, buffer, count, done_list>>
  BY <1>0 DEF DqbufTake, listVars
<1>2. ready_sem[s] # NULL /\ Unit(s) = ready_sem[s] /\ Unit(s) \in Nat /\ Unit(s) > 0
  <2>1. ready_sem[s] # NULL
    BY <1>1 DEF NULL
  <2> QED BY <1>1, <2>1, UnitType DEF Unit
<1>3. /\ ready_sem'[s] # NULL /\ Unit(s)' = Unit(s) - 1
      /\ \A r \in Stream : r # s => ready_sem'[r] = ready_sem[r] /\ Unit(r)' = Unit(r)
  <2>1. ready_sem'[s] = Unit(s) - 1 /\ \A r \in Stream : r # s => ready_sem'[r] = ready_sem[r]
    BY <1>1, <1>2 DEF TypeOK
  <2>2. Unit(s) - 1 # NULL
    BY <1>2 DEF NULL
  <2> QED BY <2>1, <2>2 DEF Unit
<1>4. \A r \in Stream : Giving(r)' = Giving(r)
  BY <1>1 DEF Giving, TypeOK
<1>5. /\ Taken(s)' = Taken(s) \cup {t} /\ t \in Task \ Taken(s)
      /\ \A r \in Stream : r # s => Taken(r)' = Taken(r)
  BY <1>0, <1>1 DEF Taken, TypeOK
<1>6. ASSUME NEW r \in Stream
      PROVE  Balance(r)'
  <2>1. CASE r = s
    <3>1. /\ Cardinality(Taken(s)') = Cardinality(Taken(s)) + 1
          /\ Cardinality(Giving(s)) \in Nat /\ Cardinality(Taken(s)) \in Nat
      BY <1>5, TaskSets, TaskCount
    <3>2. Len(done_list[s]) = Unit(s) + Cardinality(Giving(s)) + Cardinality(Taken(s))
      BY DEF Counted, Balance
    <3>3. /\ Len(done_list'[s]) = Len(done_list[s]) /\ Unit(s)' = Unit(s) - 1
          /\ Cardinality(Giving(s)') = Cardinality(Giving(s))
      BY <1>1, <1>3, <1>4
    <3>4. PICK u \in Nat, g \in Nat, k \in Nat :
              u = Unit(s) /\ g = Cardinality(Giving(s)) /\ k = Cardinality(Taken(s))
      BY <1>2, <3>1
    <3>5. Len(done_list'[s]) = (u - 1) + g + (k + 1)
      BY <3>2, <3>3, <3>4
    <3>6. Len(done_list'[s]) = Unit(s)' + Cardinality(Giving(s)') + Cardinality(Taken(s)')
      BY <3>1, <3>3, <3>4, <3>5
    <3> QED BY <2>1, <3>6 DEF Balance
  <2>2. CASE r # s
    BY <1>1, <1>3, <1>4, <1>5, <2>2 DEF Counted, Balance
  <2> QED BY <2>1, <2>2
<1>7. Unit(Capture)' >= Cardinality(Waiting')
  <2>1. Unit(Capture) >= Cardinality(Waiting)
    BY DEF Counted
  <2>2. CASE s = Capture
    <3>1. Waiting' = Waiting \ {t} /\ t \in Waiting
      BY <1>0, <1>1, <2>2 DEF Waiting, TypeOK
    <3>2. Cardinality(Waiting') = Cardinality(Waiting) - 1 /\ Cardinality(Waiting) \in Nat
      BY <3>1, TaskSets, TaskCount
    <3> QED BY <1>2, <1>3, <2>1, <2>2, <3>2
  <2>3. CASE s # Capture
    <3>1. Waiting' = Waiting
      BY <1>0, <1>1, <2>3 DEF Waiting, TypeOK
    <3> QED BY <1>3, <2>1, <2>3, <3>1
  <2> QED BY <2>2, <2>3
<1>8. \A r \in Stream :
          buffer'[r] # {} => buffer'[r] = 0 .. count'[r] - 1 /\ ready_sem'[r] # NULL
  BY <1>1, <1>3 DEF Counted
<1>9. \A u \in Task : pc'[u] \in CodingPcs \cup GivePcs => type'[u] = Capture
  BY <1>1 DEF Counted, TypeOK
<1> QED BY <1>6, <1>7, <1>8, <1>9 DEF Counted

(* Whoever has a unit finds a frame. *)
LEMMA PopCounted ==
    ASSUME TypeOK, Counted, NEW t \in Task, DqbufPop(t)
    PROVE  Counted'
<1> USE StreamCases
<1>0. PICK s \in Stream : s = type[t]
  BY DEF TypeOK
<1>1. /\ pc[t] = "took" /\ pc' = [pc EXCEPT ![t] = "idle"]
      /\ UNCHANGED <<type, buffer, count, ready_sem>>
  BY DEF DqbufPop, memoryVars
<1>2. /\ Taken(s)' = Taken(s) \ {t} /\ t \in Taken(s)
      /\ \A r \in Stream : r # s => Taken(r)' = Taken(r)
  BY <1>0, <1>1 DEF Taken, TypeOK
<1>3. /\ Cardinality(Taken(s)') = Cardinality(Taken(s)) - 1 /\ Cardinality(Taken(s)) > 0
      /\ Cardinality(Giving(s)) \in Nat /\ Cardinality(Taken(s)) \in Nat
  BY <1>2, TaskSets, TaskCount
<1>4. /\ Len(done_list[s]) = Unit(s) + Cardinality(Giving(s)) + Cardinality(Taken(s))
      /\ Unit(s) \in Nat
  BY UnitType DEF Counted, Balance
<1>5. done_list[s] # <<>>
  <2>1. Len(done_list[s]) > 0
    BY <1>3, <1>4
  <2> QED BY <2>1, EmptySeq
<1>6. done_list' = [done_list EXCEPT ![s] = Tail(@)]
  BY <1>0, <1>5 DEF DqbufPop
<1>7. /\ Len(done_list'[s]) = Len(done_list[s]) - 1
      /\ \A r \in Stream : r # s => done_list'[r] = done_list[r]
  BY <1>5, <1>6, HeadTailProperties DEF TypeOK
<1>8. /\ \A r \in Stream : Giving(r)' = Giving(r) /\ Unit(r)' = Unit(r)
      /\ Waiting' = Waiting
  BY <1>1 DEF Giving, Unit, Waiting, TypeOK
<1>9. ASSUME NEW r \in Stream
      PROVE  Balance(r)'
  <2>1. CASE r = s
    <3>1. Len(done_list'[s]) = Unit(s)' + Cardinality(Giving(s)') + Cardinality(Taken(s)')
      BY <1>3, <1>4, <1>7, <1>8
    <3> QED BY <2>1, <3>1 DEF Balance
  <2>2. CASE r # s
    BY <1>2, <1>7, <1>8, <2>2 DEF Counted, Balance
  <2> QED BY <2>1, <2>2
<1>10. Unit(Capture)' >= Cardinality(Waiting')
  BY <1>8 DEF Counted
<1>11. \A r \in Stream :
           buffer'[r] # {} => buffer'[r] = 0 .. count'[r] - 1 /\ ready_sem'[r] # NULL
  BY <1>1 DEF Counted
<1>12. \A u \in Task : pc'[u] \in CodingPcs \cup GivePcs => type'[u] = Capture
  BY <1>1 DEF Counted, TypeOK
<1> QED BY <1>9, <1>10, <1>11, <1>12 DEF Counted

(* A task that waits on CAPTURE finds a unit: its wait does not end otherwise. *)
LEMMA TimeoutOnOutput ==
    ASSUME TypeOK, Counted, NEW t \in Task, DqbufTimeout(t)
    PROVE  type[t] = Output
<1> USE StreamCases
<1> SUFFICES ASSUME type[t] = Capture PROVE FALSE
  BY DEF TypeOK
<1>1. pc[t] = "take" /\ ready_sem[Capture] = 0
  BY DEF DqbufTimeout
<1>2. t \in Waiting
  BY <1>1 DEF Waiting
<1>3. Cardinality(Waiting) \in Nat /\ Cardinality(Waiting) > 0
  BY <1>2, TaskSets, TaskCount
<1>4. Unit(Capture) = 0 /\ Unit(Capture) >= Cardinality(Waiting)
  BY <1>1 DEF Unit, Counted
<1> QED BY <1>3, <1>4

LEMMA InitCounted == Init => Counted
<1> SUFFICES ASSUME Init PROVE Counted
  OBVIOUS
<1>1. /\ Waiting = {} /\ \A s \in Stream : Giving(s) = {} /\ Taken(s) = {}
      /\ \A s \in Stream : Unit(s) = 0 /\ Len(done_list[s]) = 0 /\ buffer[s] = {}
      /\ \A t \in Task : pc[t] = "idle"
  BY DEF Init, Waiting, Giving, Taken, Unit
<1>2. ASSUME NEW s \in Stream
      PROVE  Balance(s)
  <2>1. Cardinality(Giving(s)) = 0 /\ Cardinality(Taken(s)) = 0
    BY <1>1, EmptyTasks
  <2>2. Len(done_list[s]) = Unit(s) + Cardinality(Giving(s)) + Cardinality(Taken(s))
    BY <1>1, <2>1
  <2> QED BY <2>2 DEF Balance
<1>3. Unit(Capture) >= Cardinality(Waiting)
  BY <1>1, StreamCases, EmptyTasks
<1> QED BY <1>1, <1>2, <1>3 DEF Counted

LEMMA NextCounted == TypeOK /\ EveryBufferOnce /\ Counted /\ [Next]_vars => Counted'
<1> SUFFICES ASSUME TypeOK, EveryBufferOnce, Counted, [Next]_vars PROVE Counted'
  OBVIOUS
<1> USE StreamCases
<1>1. ASSUME NEW s \in Stream, NEW n \in 1 .. MaxCount, Reqbufs(s, n) \/ ReqbufsNoMemory(s, n)
      PROVE  Counted'
  <2>1. n \in 0 .. MaxCount
    OBVIOUS
  <2>2. CASE Reqbufs(s, n)
    <3>1. Replace(s, n, 0 .. n - 1, 0)
      BY <2>2 DEF Reqbufs
    <3> QED BY <2>1, <3>1, ReplaceCounted
  <2>3. CASE ReqbufsNoMemory(s, n)
    <3>1. Replace(s, n, {}, NULL)
      BY <2>3 DEF ReqbufsNoMemory
    <3> QED BY <2>1, <3>1, ReplaceCounted
  <2> QED BY <1>1, <2>2, <2>3
<1>2. ASSUME NEW s \in Stream, ReqbufsRelease(s)
      PROVE  Counted'
  <2>1. Replace(s, 0, {}, NULL) /\ 0 \in 0 .. MaxCount
    BY <1>2, M2MAssumption DEF ReqbufsRelease
  <2> QED BY <2>1, ReplaceCounted
<1>3. ASSUME UNCHANGED <<memoryVars, done_list, pc, type>>
      PROVE  Counted'
  <2>1. /\ Waiting' = Waiting /\ \A s \in Stream : Giving(s)' = Giving(s) /\ Taken(s)' = Taken(s)
    BY <1>3 DEF Waiting, Giving, Taken
  <2>2. \A t \in Task : pc'[t] \in CodingPcs \cup GivePcs => type'[t] = Capture
    BY <1>3 DEF Counted
  <2> QED BY <1>3, <2>1, <2>2, CountedKept
<1>4. ASSUME NEW s \in Stream, StreamOn(s) \/ StreamOnFails(s) \/ StreamOffFails(s)
      PROVE  Counted'
  BY <1>3, <1>4 DEF StreamOn, StreamOnFails, StreamOffFails, listVars, taskVars
<1>5. ASSUME NEW s \in Stream, StreamOff(s)
      PROVE  Counted'
  BY <1>5, StreamOffCounted
<1>6. ASSUME NEW s \in Stream, NEW e \in Elements, Qbuf(s, e)
      PROVE  Counted'
  BY <1>3, <1>6 DEF Qbuf, taskVars
<1>7. ASSUME NEW t \in Task, GetM2mQueuedElements(t)
      PROVE  Counted'
  <2>1. /\ pc[t] = "idle" /\ pc' = [pc EXCEPT ![t] = "code"]
        /\ type' = [type EXCEPT ![t] = Capture] /\ UNCHANGED <<memoryVars, done_list>>
    BY <1>7 DEF GetM2mQueuedElements
  <2>2. Waiting' = Waiting /\ \A s \in Stream : Giving(s)' = Giving(s) /\ Taken(s)' = Taken(s)
    BY <2>1 DEF Waiting, Giving, Taken, TypeOK
  <2>3. \A u \in Task : pc'[u] \in CodingPcs \cup GivePcs => type'[u] = Capture
    BY <2>1 DEF Counted, TypeOK
  <2> QED BY <2>1, <2>2, <2>3, CountedKept
<1>8. ASSUME NEW t \in Task, M2mProcess(t)
      PROVE  Counted'
  <2>1. /\ pc[t] = "code" /\ pc' = [pc EXCEPT ![t] = "done"]
        /\ UNCHANGED <<memoryVars, done_list, type>>
    BY <1>8 DEF M2mProcess, listVars
  <2>2. Waiting' = Waiting /\ \A s \in Stream : Giving(s)' = Giving(s) /\ Taken(s)' = Taken(s)
    BY <2>1 DEF Waiting, Giving, Taken, TypeOK
  <2>3. \A u \in Task : pc'[u] \in CodingPcs \cup GivePcs => type'[u] = Capture
    BY <2>1 DEF Counted, TypeOK
  <2> QED BY <2>1, <2>2, <2>3, CountedKept
<1>9. ASSUME NEW t \in Task, DoneM2mElements(t)
      PROVE  Counted'
  BY <1>9, DoneCounted
<1>10. ASSUME NEW t \in Task, GiveOutput(t)
       PROVE  Counted'
  BY <1>10, GiveOutputCounted
<1>11. ASSUME NEW t \in Task, GiveCapture(t)
       PROVE  Counted'
  BY <1>11, GiveCaptureCounted
<1>12. ASSUME NEW t \in Task, DqbufOutput(t)
       PROVE  Counted'
  <2>1. /\ pc[t] = "idle" /\ pc' = [pc EXCEPT ![t] = "take"]
        /\ type' = [type EXCEPT ![t] = Output] /\ UNCHANGED <<memoryVars, done_list>>
    BY <1>12 DEF DqbufOutput, listVars
  <2>2. Waiting' = Waiting /\ \A s \in Stream : Giving(s)' = Giving(s) /\ Taken(s)' = Taken(s)
    BY <2>1 DEF Waiting, Giving, Taken, TypeOK
  <2>3. \A u \in Task : pc'[u] \in CodingPcs \cup GivePcs => type'[u] = Capture
    BY <2>1 DEF Counted, TypeOK
  <2> QED BY <2>1, <2>2, <2>3, CountedKept
<1>13. ASSUME NEW t \in Task, DqbufTake(t)
       PROVE  Counted'
  BY <1>13, TakeCounted
<1>14. ASSUME NEW t \in Task, DqbufTimeout(t)
       PROVE  Counted'
  <2>1. /\ pc[t] = "take" /\ pc' = [pc EXCEPT ![t] = "idle"]
        /\ UNCHANGED <<memoryVars, done_list, type>>
    BY <1>14 DEF DqbufTimeout, listVars
  <2>2. type[t] = Output
    BY <1>14, TimeoutOnOutput
  <2>3. Waiting' = Waiting /\ \A s \in Stream : Giving(s)' = Giving(s) /\ Taken(s)' = Taken(s)
    BY <2>1, <2>2 DEF Waiting, Giving, Taken, TypeOK
  <2>4. \A u \in Task : pc'[u] \in CodingPcs \cup GivePcs => type'[u] = Capture
    BY <2>1 DEF Counted, TypeOK
  <2> QED BY <2>1, <2>3, <2>4, CountedKept
<1>15. ASSUME NEW t \in Task, DqbufPop(t)
       PROVE  Counted'
  BY <1>15, PopCounted
<1>16. CASE UNCHANGED vars
  BY <1>3, <1>16 DEF vars, listVars, taskVars
<1> QED BY <1>1, <1>2, <1>4, <1>5, <1>6, <1>7, <1>8, <1>9, <1>10, <1>11, <1>12, <1>13, <1>14,
           <1>15, <1>16 DEF Next

(* The semaphores count the done lists and no unit is lost, so DQBUF never finds a
   list empty, and on CAPTURE it never waits: for every number of tasks and buffers. *)
THEOREM NeverWaits == Spec => []CaptureNeverWaits
<1>1. Init => Counted
  BY InitCounted
<1>2. TypeOK /\ EveryBufferOnce /\ Counted /\ [Next]_vars => Counted'
  BY NextCounted
<1>3. Counted => CaptureNeverWaits
  BY CountedNeverWaits
<1> QED BY <1>1, <1>2, <1>3, TypeCorrect, BuffersPlaced, PTL DEF Spec
===============================================================================
