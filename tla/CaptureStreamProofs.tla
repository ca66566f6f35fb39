-------------------------- MODULE CaptureStreamProofs --------------------------
(***************************************************************************)
(* Theorems about CaptureStream, for every number of tasks and buffers.     *)
(*                                                                          *)
(* The inductive invariant is built in layers, each proved from the ones    *)
(* before it: the types; which calls may be under way together              *)
(* (Discipline) and who holds the mutex (MutexHeld); when a controller      *)
(* exists (Controller); and where every buffer is (Places).  On these stand *)
(* what the semaphore counts (Wakeups), which frames the data hook has seen *)
(* (Fresh), why no buffer is lost (Kept), and from all of them the steps of *)
(* the stream are steps of BufferFifo.                                      *)
(***************************************************************************)
EXTENDS CaptureStream, FiniteSetTheorems, SequenceTheorems, TLAPS

-------------------------------------------------------------------------------
(* Lists whose elements are distinct, and what the critical sections do to them *)

(* Adding at the end. *)
LEMMA AppendRange ==
    ASSUME NEW S, NEW s \in Seq(S), NEW e \in S
    PROVE  /\ Append(s, e) \in Seq(S)
           /\ Range(Append(s, e)) = Range(s) \cup {e}
           /\ IsInjective(s) /\ e \notin Range(s) => IsInjective(Append(s, e))
<1>1. Range(Append(s, e)) = Range(s) \cup {e}
  BY RangeConcatenation, AppendIsConcat, <<e>> \in Seq(S), Range(<<e>>) = {e} DEF Range
<1> QED BY <1>1, AppendProperties, LenProperties DEF Range, IsInjective

(* Taking from the front. *)
LEMMA TailRange ==
    ASSUME NEW S, NEW s \in Seq(S), s # <<>>, IsInjective(s)
    PROVE  /\ Head(s) \in S
           /\ Head(s) \in Range(s)
           /\ Tail(s) \in Seq(S)
           /\ Range(Tail(s)) = Range(s) \ {Head(s)}
           /\ IsInjective(Tail(s))
<1> DEFINE t == Tail(s)
<1>1. /\ Head(s) \in S
      /\ t \in Seq(S)
      /\ Len(t) = Len(s) - 1
      /\ \A i \in 1 .. Len(t) : t[i] = s[i + 1]
      /\ Len(s) \in Nat
      /\ Len(s) > 0
  BY HeadTailProperties, LenProperties, EmptySeq
<1>2. /\ DOMAIN t = 1 .. Len(s) - 1
      /\ DOMAIN s = 1 .. Len(s)
      /\ Head(s) = s[1]
  BY <1>1, LenProperties
<1> HIDE DEF t
<1>3. Head(s) \in Range(s)
  BY <1>1, <1>2 DEF Range
<1>4. Range(t) = Range(s) \ {Head(s)}
  <2>1. ASSUME NEW x \in Range(t)
        PROVE  x \in Range(s) \ {Head(s)}
    <3>1. PICK i \in 1 .. Len(s) - 1 : x = s[i + 1]
      BY <1>1, <1>2 DEF Range
    <3>2. i + 1 \in DOMAIN s /\ 1 \in DOMAIN s /\ i + 1 # 1
      BY <1>1, <1>2
    <3> QED BY <1>2, <3>1, <3>2 DEF Range, IsInjective
  <2>2. ASSUME NEW x \in Range(s) \ {Head(s)}
        PROVE  x \in Range(t)
    <3>1. PICK i \in 1 .. Len(s) : x = s[i]
      BY <1>2 DEF Range
    <3>2. i # 1 /\ i - 1 \in 1 .. Len(s) - 1 /\ (i - 1) + 1 = i
      BY <1>1, <1>2, <3>1
    <3>3. t[i - 1] = s[i]
      BY <1>1, <3>2
    <3> QED BY <1>2, <3>1, <3>2, <3>3 DEF Range
  <2> QED BY <2>1, <2>2
<1>5. IsInjective(t)
  BY <1>1, <1>2 DEF IsInjective
<1> QED BY <1>1, <1>3, <1>4, <1>5 DEF t

(* Adding at the front. *)
LEMMA ConsRange ==
    ASSUME NEW S, NEW s \in Seq(S), NEW e \in S
    PROVE  /\ <<e>> \o s \in Seq(S)
           /\ Range(<<e>> \o s) = Range(s) \cup {e}
           /\ IsInjective(s) /\ e \notin Range(s) => IsInjective(<<e>> \o s)
<1> DEFINE c == <<e>> \o s
<1>1. <<e>> \in Seq(S) /\ Len(<<e>>) = 1 /\ <<e>>[1] = e
  OBVIOUS
<1>2. /\ c \in Seq(S)
      /\ Len(c) = 1 + Len(s)
      /\ \A i \in 1 .. 1 + Len(s) : c[i] = IF i <= 1 THEN <<e>>[i] ELSE s[i - 1]
      /\ Len(s) \in Nat
  BY <1>1, ConcatProperties, LenProperties
<1>3. DOMAIN c = 1 .. 1 + Len(s) /\ DOMAIN s = 1 .. Len(s)
  BY <1>2, LenProperties
<1> HIDE DEF c
<1>4. c[1] = e /\ \A i \in 1 .. Len(s) : c[i + 1] = s[i]
  BY <1>1, <1>2
<1>5. \A i \in 1 .. 1 + Len(s) : i = 1 \/ (i - 1 \in 1 .. Len(s) /\ c[i] = s[i - 1])
  BY <1>2
<1>6. Range(c) = Range(s) \cup {e}
  <2>1. ASSUME NEW x \in Range(c)
        PROVE  x \in Range(s) \cup {e}
    <3>1. PICK i \in 1 .. 1 + Len(s) : x = c[i]
      BY <1>3 DEF Range
    <3> QED BY <1>3, <1>4, <1>5, <3>1 DEF Range
  <2>2. ASSUME NEW x \in Range(s)
        PROVE  x \in Range(c)
    <3>1. PICK i \in 1 .. Len(s) : x = s[i]
      BY <1>3 DEF Range
    <3>2. i + 1 \in DOMAIN c /\ x = c[i + 1]
      BY <1>2, <1>3, <1>4, <3>1
    <3> QED BY <3>2 DEF Range
  <2>3. e \in Range(c)
    <3>1. 1 \in DOMAIN c
      BY <1>2, <1>3
    <3> QED BY <1>4, <3>1 DEF Range
  <2> QED BY <2>1, <2>2, <2>3
<1>7. ASSUME IsInjective(s), e \notin Range(s)
      PROVE  IsInjective(c)
  <2>1. \A i \in DOMAIN s : s[i] # e
    BY <1>7 DEF Range
  <2>2. ASSUME NEW i \in DOMAIN c, NEW j \in DOMAIN c, c[i] = c[j]
        PROVE  i = j
    <3>1. CASE i = 1
      BY <1>3, <1>4, <1>5, <2>1, <2>2, <3>1
    <3>2. CASE i # 1
      <4>1. i - 1 \in DOMAIN s /\ c[i] = s[i - 1]
        BY <1>3, <1>5, <3>2
      <4>2. j # 1
        BY <1>4, <2>1, <2>2, <4>1
      <4>3. j - 1 \in DOMAIN s /\ c[j] = s[j - 1]
        BY <1>3, <1>5, <4>2
      <4>4. i - 1 = j - 1
        BY <1>7, <2>2, <4>1, <4>3 DEF IsInjective
      <4> QED BY <1>2, <1>3, <4>4
    <3> QED BY <3>1, <3>2
  <2> QED BY <2>2 DEF IsInjective
<1> QED BY <1>2, <1>6, <1>7 DEF c

\* Taking the first element of a list and putting it back.
LEMMA ConsHead ==
    ASSUME NEW S, NEW e \in S, NEW s \in Seq(S)
    PROVE  <<e>> \o s # <<>> /\ Head(<<e>> \o s) = e /\ Tail(<<e>> \o s) = s
<1> DEFINE c == <<e>> \o s
<1>1. <<e>> \in Seq(S) /\ Len(<<e>>) = 1 /\ <<e>>[1] = e
  OBVIOUS
<1>2. /\ c \in Seq(S)
      /\ Len(c) = 1 + Len(s)
      /\ \A i \in 1 .. 1 + Len(s) : c[i] = IF i <= 1 THEN <<e>>[i] ELSE s[i - 1]
      /\ Len(s) \in Nat
  BY <1>1, ConcatProperties, LenProperties
<1> HIDE DEF c
<1>3. c # <<>> /\ c[1] = e
  BY <1>1, <1>2, EmptySeq
<1>4. /\ Tail(c) \in Seq(S) /\ Len(Tail(c)) = Len(s)
      /\ \A i \in 1 .. Len(Tail(c)) : Tail(c)[i] = c[i + 1]
  BY <1>2, <1>3, HeadTailProperties
<1>5. \A i \in 1 .. Len(Tail(c)) : Tail(c)[i] = s[i]
  BY <1>2, <1>4
<1>6. Tail(c) = s
  BY <1>4, <1>5, SeqEqual
<1>7. Head(c) = e
  BY <1>2, <1>3
<1> QED BY <1>3, <1>6, <1>7 DEF c

LEMMA HeadAndTail ==
    ASSUME NEW S, NEW s \in Seq(S), s # <<>>
    PROVE  s = <<Head(s)>> \o Tail(s)
<1>1. /\ Head(s) \in S /\ Tail(s) \in Seq(S) /\ Len(Tail(s)) = Len(s) - 1
      /\ \A i \in 1 .. Len(Tail(s)) : Tail(s)[i] = s[i + 1]
      /\ Head(s) = s[1] /\ Len(s) \in Nat /\ Len(s) > 0
  BY HeadTailProperties, LenProperties, EmptySeq
<1> DEFINE h == Head(s)
           t == Tail(s)
           c == <<h>> \o t
<1>2. <<h>> \in Seq(S) /\ Len(<<h>>) = 1 /\ <<h>>[1] = h
  BY <1>1
<1>3. /\ c \in Seq(S) /\ Len(c) = 1 + Len(t)
      /\ \A i \in 1 .. 1 + Len(t) : c[i] = IF i <= 1 THEN <<h>>[i] ELSE t[i - 1]
  BY <1>1, <1>2, ConcatProperties
<1> HIDE DEF h, t, c
<1>4. \A i \in 1 .. Len(s) : c[i] = s[i]
  <2> SUFFICES ASSUME NEW i \in 1 .. Len(s) PROVE c[i] = s[i]
    OBVIOUS
  <2>1. CASE i = 1
    BY <1>1, <1>2, <1>3, <2>1 DEF h, t
  <2>2. CASE i # 1
    <3>1. i - 1 \in 1 .. Len(t) /\ c[i] = t[i - 1]
      BY <1>1, <1>3, <2>2 DEF t
    <3>2. t[i - 1] = s[(i - 1) + 1]
      BY <1>1, <3>1 DEF t
    <3> QED BY <1>1, <3>1, <3>2
  <2> QED BY <2>1, <2>2
<1>5. c = s
  BY <1>1, <1>3, <1>4, SeqEqual DEF t
<1> QED BY <1>5 DEF c, h, t

\* An element at the end of one list is the one before the next list.
LEMMA MoveAcross ==
    ASSUME NEW S, NEW s \in Seq(S), NEW t \in Seq(S), NEW e \in S
    PROVE  /\ Append(s, e) \o t = s \o (<<e>> \o t)
           /\ s \o Append(t, e) = Append(s \o t, e)
<1>1. /\ <<e>> \in Seq(S) /\ s \o t \in Seq(S)
      /\ Append(s, e) = s \o <<e>> /\ Append(t, e) = t \o <<e>>
      /\ Append(s \o t, e) = (s \o t) \o <<e>>
  BY ConcatProperties, AppendIsConcat
<1> QED BY <1>1, ConcatAssociative

\* What is taken from two lists in a row comes from the first one.
LEMMA TakeFirst ==
    ASSUME NEW S, NEW s \in Seq(S), NEW t \in Seq(S), s # <<>>
    PROVE  /\ s \o t # <<>>
           /\ Head(s \o t) = Head(s)
           /\ Tail(s \o t) = Tail(s) \o t
<1>1. /\ Head(s) \in S /\ Tail(s) \in Seq(S) /\ <<Head(s)>> \in Seq(S)
      /\ s = <<Head(s)>> \o Tail(s)
  BY HeadTailProperties, HeadAndTail
<1>2. s \o t = <<Head(s)>> \o (Tail(s) \o t) /\ Tail(s) \o t \in Seq(S)
  BY <1>1, ConcatAssociative, ConcatProperties
<1> QED BY <1>1, <1>2, ConsHead

LEMMA EmptyRange == Range(<<>>) = {} /\ IsInjective(<<>>)
BY DEF Range, IsInjective

LEMMA StreamInitTypes == StreamInit => StreamTypeOK
<1> SUFFICES ASSUME StreamInit PROVE StreamTypeOK
  OBVIOUS
<1>1. ListTypeOK
  BY EmptySeq DEF StreamInit, ListTypeOK
<1>2. 0 \in 0 .. MaxCount
  BY MaxCountAssumption
<1> QED BY <1>1, <1>2 DEF StreamInit, StreamTypeOK

LEMMA QueueElementTypes ==
    ASSUME ListTypeOK, NEW e \in Elements, QueueElement(e)
    PROVE  ListTypeOK'
<1>1. Append(queued_list, e) \in Seq(Elements)
  BY AppendRange DEF ListTypeOK
<1> QED BY <1>1 DEF ListTypeOK, QueueElement, listVars

LEMMA DoneElementTypes ==
    ASSUME ListTypeOK, buffer \subseteq Elements, NEW e, DoneElement(e)
    PROVE  ListTypeOK'
<1>1. CASE Accepted(e)
  <2>1. Append(done_list, e) \in Seq(Elements)
    BY <1>1, AppendRange DEF ListTypeOK, Accepted
  <2> QED BY <1>1, <2>1 DEF ListTypeOK, DoneElement
<1>2. CASE ~Accepted(e)
  BY <1>2 DEF ListTypeOK, DoneElement, listVars
<1> QED BY <1>1, <1>2

LEMMA SkipBufferTypes ==
    ASSUME ListTypeOK, buffer \subseteq Elements, NEW e, SkipBuffer(e)
    PROVE  ListTypeOK'
<1>1. CASE Accepted(e)
  <2>1. <<e>> \o queued_list \in Seq(Elements)
    BY <1>1, ConsRange DEF ListTypeOK, Accepted
  <2> QED BY <1>1, <2>1 DEF ListTypeOK, SkipBuffer
<1>2. CASE ~Accepted(e)
  BY <1>2 DEF ListTypeOK, SkipBuffer, listVars
<1> QED BY <1>1, <1>2

LEMMA GetQueuedElementTypes ==
    ASSUME ListTypeOK, GetQueuedElement
    PROVE  ListTypeOK'
<1>1. queued_list # <<>> => Tail(queued_list) \in Seq(Elements)
  BY HeadTailProperties DEF ListTypeOK
<1> QED BY <1>1 DEF ListTypeOK, GetQueuedElement, listVars

LEMMA GetDoneElementTypes ==
    ASSUME ListTypeOK, GetDoneElement
    PROVE  ListTypeOK'
<1>1. done_list # <<>> => Tail(done_list) \in Seq(Elements)
  BY HeadTailProperties DEF ListTypeOK
<1> QED BY <1>1 DEF ListTypeOK, GetDoneElement, listVars

(* Inserting an element that is in the storage leaves it in exactly one list. *)
LEMMA QueueElementSound ==
    ASSUME StreamTypeOK, ListsSound, FlagsSound, buffer' = buffer,
           NEW e \in buffer, QueueElement(e)
    PROVE  ListsSound' /\ FlagsSound' /\ Listed' = Listed \cup {e}
<1>1. CASE free[e]
  <2>1. /\ queued_list' = Append(queued_list, e)
        /\ done_list' = done_list
        /\ free' = [free EXCEPT ![e] = FALSE]
    BY <1>1 DEF QueueElement
  <2>2. e \in Elements /\ e \notin Listed /\ queued_list \in Seq(Elements)
    BY <1>1 DEF StreamTypeOK, ListTypeOK, FlagsSound
  <2>3. /\ Range(queued_list') = Range(queued_list) \cup {e}
        /\ IsInjective(queued_list')
    BY <2>1, <2>2, AppendRange DEF ListsSound, Listed
  <2>4. Listed' = Listed \cup {e}
    BY <2>1, <2>3 DEF Listed
  <2>5. ListsSound'
    BY <2>1, <2>2, <2>3, <2>4 DEF ListsSound, Listed
  <2>6. FlagsSound'
    BY <2>1, <2>4 DEF FlagsSound, StreamTypeOK, ListTypeOK
  <2> QED BY <2>4, <2>5, <2>6
<1>2. CASE ~free[e]
  BY <1>2 DEF QueueElement, listVars, ListsSound, FlagsSound, Listed
<1> QED BY <1>1, <1>2

LEMMA SkipBufferSound ==
    ASSUME StreamTypeOK, ListsSound, FlagsSound, buffer' = buffer,
           NEW e, SkipBuffer(e)
    PROVE  ListsSound' /\ FlagsSound' /\ Listed' = Listed \cup ({e} \cap buffer)
<1>1. CASE Accepted(e)
  <2>1. /\ queued_list' = <<e>> \o queued_list
        /\ done_list' = done_list
        /\ free' = [free EXCEPT ![e] = FALSE]
    BY <1>1 DEF SkipBuffer
  <2>2. e \in buffer /\ e \in Elements /\ e \notin Listed /\ queued_list \in Seq(Elements)
    BY <1>1 DEF StreamTypeOK, ListTypeOK, FlagsSound, Accepted
  <2>3. /\ Range(queued_list') = Range(queued_list) \cup {e}
        /\ IsInjective(queued_list')
    BY <2>1, <2>2, ConsRange DEF ListsSound, Listed
  <2>4. Listed' = Listed \cup {e}
    BY <2>1, <2>3 DEF Listed
  <2>5. ListsSound'
    BY <2>1, <2>2, <2>3, <2>4 DEF ListsSound, Listed
  <2>6. FlagsSound'
    BY <2>1, <2>2, <2>4 DEF FlagsSound, StreamTypeOK, ListTypeOK
  <2> QED BY <2>2, <2>4, <2>5, <2>6
<1>2. CASE ~Accepted(e)
  BY <1>2 DEF SkipBuffer, Accepted, listVars, ListsSound, FlagsSound, Listed
<1> QED BY <1>1, <1>2

LEMMA DoneElementSound ==
    ASSUME StreamTypeOK, ListsSound, FlagsSound, buffer' = buffer,
           NEW e, DoneElement(e)
    PROVE  ListsSound' /\ FlagsSound' /\ Listed' = Listed \cup ({e} \cap buffer)
<1>1. CASE Accepted(e)
  <2>1. /\ done_list' = Append(done_list, e)
        /\ queued_list' = queued_list
        /\ free' = [free EXCEPT ![e] = FALSE]
    BY <1>1 DEF DoneElement
  <2>2. e \in buffer /\ e \in Elements /\ e \notin Listed /\ done_list \in Seq(Elements)
    BY <1>1 DEF StreamTypeOK, ListTypeOK, FlagsSound, Accepted
  <2>3. /\ Range(done_list') = Range(done_list) \cup {e}
        /\ IsInjective(done_list')
    BY <2>1, <2>2, AppendRange DEF ListsSound, Listed
  <2>4. Listed' = Listed \cup {e}
    BY <2>1, <2>3 DEF Listed
  <2>5. ListsSound'
    BY <2>1, <2>2, <2>3, <2>4 DEF ListsSound, Listed
  <2>6. FlagsSound'
    BY <2>1, <2>2, <2>4 DEF FlagsSound, StreamTypeOK, ListTypeOK
  <2> QED BY <2>2, <2>4, <2>5, <2>6
<1>2. CASE ~Accepted(e)
  BY <1>2 DEF DoneElement, Accepted, listVars, ListsSound, FlagsSound, Listed
<1> QED BY <1>1, <1>2

(* Taking the head of a list leaves it in no list. *)
LEMMA GetQueuedElementSound ==
    ASSUME StreamTypeOK, ListsSound, FlagsSound, buffer' = buffer, GetQueuedElement
    PROVE  /\ ListsSound' /\ FlagsSound'
           /\ queued_list = <<>> => Listed' = Listed
           /\ queued_list # <<>> => /\ Head(queued_list) \in Listed
                                    /\ Listed' = Listed \ {Head(queued_list)}
<1>1. CASE queued_list # <<>>
  <2> DEFINE h == Head(queued_list)
  <2>1. /\ queued_list' = Tail(queued_list)
        /\ done_list' = done_list
        /\ free' = [free EXCEPT ![h] = TRUE]
    BY <1>1 DEF GetQueuedElement
  <2>2. /\ h \in Elements
        /\ h \in Range(queued_list)
        /\ Range(queued_list') = Range(queued_list) \ {h}
        /\ IsInjective(queued_list')
    BY <1>1, <2>1, TailRange DEF StreamTypeOK, ListTypeOK, ListsSound
  <2> HIDE DEF h
  <2>3. h \in Listed /\ Listed' = Listed \ {h}
    BY <2>1, <2>2 DEF Listed, ListsSound
  <2>4. ListsSound'
    BY <2>1, <2>2, <2>3 DEF ListsSound, Listed
  <2>5. FlagsSound'
    BY <2>1, <2>2, <2>3 DEF FlagsSound, StreamTypeOK, ListTypeOK
  <2> QED BY <1>1, <2>3, <2>4, <2>5 DEF h
<1>2. CASE queued_list = <<>>
  BY <1>2 DEF GetQueuedElement, listVars, ListsSound, FlagsSound, Listed
<1> QED BY <1>1, <1>2

LEMMA GetDoneElementSound ==
    ASSUME StreamTypeOK, ListsSound, FlagsSound, buffer' = buffer, GetDoneElement
    PROVE  /\ ListsSound' /\ FlagsSound'
           /\ done_list = <<>> => Listed' = Listed
           /\ done_list # <<>> => /\ Head(done_list) \in Listed
                                  /\ Listed' = Listed \ {Head(done_list)}
<1>1. CASE done_list # <<>>
  <2> DEFINE h == Head(done_list)
  <2>1. /\ done_list' = Tail(done_list)
        /\ queued_list' = queued_list
        /\ free' = [free EXCEPT ![h] = TRUE]
    BY <1>1 DEF GetDoneElement
  <2>2. /\ h \in Elements
        /\ h \in Range(done_list)
        /\ Range(done_list') = Range(done_list) \ {h}
        /\ IsInjective(done_list')
    BY <1>1, <2>1, TailRange DEF StreamTypeOK, ListTypeOK, ListsSound
  <2> HIDE DEF h
  <2>3. h \in Listed /\ Listed' = Listed \ {h}
    BY <2>1, <2>2 DEF Listed, ListsSound
  <2>4. ListsSound'
    BY <2>1, <2>2, <2>3 DEF ListsSound, Listed
  <2>5. FlagsSound'
    BY <2>1, <2>2, <2>3 DEF FlagsSound, StreamTypeOK, ListTypeOK
  <2> QED BY <1>1, <2>3, <2>4, <2>5 DEF h
<1>2. CASE done_list = <<>>
  BY <1>2 DEF GetDoneElement, listVars, ListsSound, FlagsSound, Listed
<1> QED BY <1>1, <1>2

(* Empty lists are sound, and a stream without listed elements has all flags set
   once they are reset. *)
LEMMA EmptyListsSound ==
    ASSUME queued_list = <<>>, done_list = <<>>
    PROVE  /\ Listed = {}
           /\ ListsSound
           /\ buffer \subseteq Elements /\ free = [e \in Elements |-> TRUE] => FlagsSound
BY EmptyRange DEF Listed, ListsSound, FlagsSound

-------------------------------------------------------------------------------
(* Types. *)

LEMMA TypeInit == Init => TypeOK
<1> SUFFICES ASSUME Init PROVE TypeOK
  OBVIOUS
<1>1. StreamTypeOK
  BY StreamInitTypes DEF Init
<1>2. skip_count \in Nat /\ reprocessed \in [Elements -> 0 .. 2]
  BY DEF Init
<1> QED BY <1>1, <1>2 DEF Init, TypeOK, Tasks

\* The element offered to the controller has the type of its variables.
LEMMA OnGetNewTransTypes ==
    ASSUME TypeOK, OnGetNewTrans
    PROVE  /\ ListTypeOK'
           /\ backup_element' \in Elements \cup {NULL, Dangling}
           /\ cur' \in Elements \cup {NULL, Own, Dangling}
<1>1. ListTypeOK /\ ListTypeOK'
  BY GetQueuedElementTypes DEF TypeOK, StreamTypeOK, OnGetNewTrans
<1>2. queued_list # <<>> => Head(queued_list) \in Elements
  BY <1>1, HeadTailProperties DEF ListTypeOK
<1>3. NewTrans \in Elements \cup {NULL, Dangling}
  BY <1>2 DEF NewTrans, TypeOK
<1> QED BY <1>1, <1>3 DEF OnGetNewTrans, TypeOK

LEMMA StartControllerTypes ==
    ASSUME TypeOK, StartController
    PROVE  /\ ListTypeOK'
           /\ backup_element' \in Elements \cup {NULL, Dangling}
           /\ cur' \in Elements \cup {NULL, Own, Dangling}
           /\ ctlr' \in {"null", "running", "halted"}
<1>1. CASE ctlr = "null" /\ OnGetNewTrans
  BY <1>1, OnGetNewTransTypes DEF StartController
<1>2. CASE ctlr = "null" /\ StartsEmpty
  BY <1>2 DEF StartController, StartsEmpty, TypeOK, StreamTypeOK, ListTypeOK, listVars
<1>3. CASE ctlr # "null"
  BY <1>3 DEF StartController, TypeOK, StreamTypeOK, ListTypeOK, listVars
<1> QED BY <1>1, <1>2, <1>3 DEF StartController

LEMMA NextSkipCountType == skip_count \in Nat => NextSkipCount \in Nat
BY CaptureAssumption DEF NextSkipCount

LEMMA TypeStep == TypeOK /\ [Next]_vars => TypeOK'
<1> SUFFICES ASSUME TypeOK, [Next]_vars
             PROVE  TypeOK'
  OBVIOUS
<1>1. ASSUME NEW t \in AppTasks, NEW n \in 1 .. MaxCount, ReqbufsSetup(t, n)
      PROVE  TypeOK'
  BY <1>1, EmptySeq, MaxCountAssumption DEF TypeOK, StreamTypeOK, ListTypeOK, streamVars, memoryVars, listVars, ctlrVars, ReqbufsSetup, SetupBuffer, StorageReplaced, Freed, Elements
<1>2. ASSUME NEW t \in AppTasks, NEW n \in 1 .. MaxCount, ReqbufsNoMemory(t, n)
      PROVE  TypeOK'
  BY <1>2, EmptySeq, MaxCountAssumption DEF TypeOK, StreamTypeOK, ListTypeOK, streamVars, memoryVars, listVars, ctlrVars, ReqbufsNoMemory, SetupBufferFails, StorageReplaced, Freed, Elements
<1>3. ASSUME NEW t \in AppTasks, ReqbufsRelease(t)
      PROVE  TypeOK'
  BY <1>3, EmptySeq, MaxCountAssumption DEF TypeOK, StreamTypeOK, ListTypeOK, streamVars, memoryVars, listVars, ctlrVars, ReqbufsRelease, ReleaseBuffer, StorageReplaced, Freed, Elements
<1>4. ASSUME NEW t \in AppTasks, NEW e \in Elements, Qbuf(t, e)
      PROVE  TypeOK'
  BY <1>4, QueueElementTypes DEF TypeOK, StreamTypeOK, Qbuf, memoryVars, ctlrVars
<1>5. ASSUME NEW t \in AppTasks, Dqbuf(t)
      PROVE  TypeOK'
  BY <1>5 DEF TypeOK, StreamTypeOK, ListTypeOK, streamVars, memoryVars, listVars, ctlrVars, Dqbuf, Lock, Unlock, Goto, Tasks, DqbufPcs, ControlPcs, StartPcs, StopPcs, RestartPcs
<1>6. ASSUME NEW t \in AppTasks, DqbufTake(t)
      PROVE  TypeOK'
  BY <1>6 DEF TypeOK, StreamTypeOK, ListTypeOK, streamVars, memoryVars, listVars, ctlrVars, DqbufTake, TakeReady, Goto, Tasks, DqbufPcs, ControlPcs, StartPcs, StopPcs, RestartPcs
<1>7. ASSUME NEW t \in AppTasks, DqbufTimeout(t)
      PROVE  TypeOK'
  BY <1>7 DEF TypeOK, StreamTypeOK, ListTypeOK, streamVars, memoryVars, listVars, ctlrVars, DqbufTimeout, Lock, Unlock, Goto, Tasks, DqbufPcs, ControlPcs, StartPcs, StopPcs, RestartPcs
<1>8. ASSUME NEW t \in AppTasks, DqbufReprocess(t)
      PROVE  TypeOK'
  BY <1>8 DEF TypeOK, StreamTypeOK, ListTypeOK, streamVars, memoryVars, listVars, ctlrVars, DqbufReprocess, Goto, Tasks, DqbufPcs, ControlPcs, StartPcs, StopPcs, RestartPcs
<1>9. ASSUME NEW t \in AppTasks, DqbufPop(t)
      PROVE  TypeOK'
  <2>1. ListTypeOK'
    BY <1>9, GetDoneElementTypes DEF TypeOK, StreamTypeOK, DqbufPop
  <2>2. {FirstDone} \ {NULL} \subseteq Elements
    BY HeadTailProperties DEF FirstDone, TypeOK, StreamTypeOK, ListTypeOK
  <2> QED BY <1>9, <2>1, <2>2 DEF TypeOK, StreamTypeOK, DqbufPop, memoryVars, ctlrVars, Goto, Tasks, DqbufPcs, ControlPcs, StartPcs, StopPcs, RestartPcs
<1>10. ASSUME NEW t \in AppTasks, StreamOn(t)
      PROVE  TypeOK'
  BY <1>10 DEF TypeOK, StreamTypeOK, ListTypeOK, streamVars, memoryVars, listVars, ctlrVars, StreamOn, Goto, Tasks, DqbufPcs, ControlPcs, StartPcs, StopPcs, RestartPcs
<1>11. ASSUME NEW t \in AppTasks, StreamOnController(t)
      PROVE  TypeOK'
  BY <1>11, StartControllerTypes DEF TypeOK, StreamTypeOK, StreamOnController, memoryVars, Goto, Tasks, DqbufPcs, ControlPcs, StartPcs, StopPcs, RestartPcs
<1>12. ASSUME NEW t \in AppTasks, StreamOnControllerFails(t)
      PROVE  TypeOK'
  BY <1>12 DEF TypeOK, StreamTypeOK, ListTypeOK, streamVars, memoryVars, listVars, ctlrVars, StreamOnControllerFails, Lock, Unlock, Goto, Tasks, DqbufPcs, ControlPcs, StartPcs, StopPcs, RestartPcs
<1>13. ASSUME NEW t \in AppTasks, StreamOnSensor(t)
      PROVE  TypeOK'
  BY <1>13 DEF TypeOK, StreamTypeOK, ListTypeOK, streamVars, memoryVars, listVars, ctlrVars, StreamOnSensor, Lock, Unlock, Goto, Tasks, DqbufPcs, ControlPcs, StartPcs, StopPcs, RestartPcs
<1>14. ASSUME NEW t \in AppTasks, StreamOnSensorFails(t)
      PROVE  TypeOK'
  BY <1>14 DEF TypeOK, StreamTypeOK, ListTypeOK, streamVars, memoryVars, listVars, ctlrVars, StreamOnSensorFails, StopController, HaltDriver, Lock, Unlock, Goto, Tasks, DqbufPcs, ControlPcs, StartPcs, StopPcs, RestartPcs
<1>15. ASSUME NEW t \in AppTasks, StreamOnDone(t)
      PROVE  TypeOK'
  BY <1>15 DEF TypeOK, StreamTypeOK, ListTypeOK, streamVars, memoryVars, listVars, ctlrVars, StreamOnDone, Lock, Unlock, Goto, Tasks, DqbufPcs, ControlPcs, StartPcs, StopPcs, RestartPcs
<1>16. ASSUME NEW t \in AppTasks, StreamOff(t)
      PROVE  TypeOK'
  BY <1>16 DEF TypeOK, StreamTypeOK, ListTypeOK, streamVars, memoryVars, listVars, ctlrVars, StreamOff, Lock, Unlock, Goto, Tasks, DqbufPcs, ControlPcs, StartPcs, StopPcs, RestartPcs
<1>17. ASSUME NEW t \in AppTasks, StreamOffController(t)
      PROVE  TypeOK'
  BY <1>17 DEF TypeOK, StreamTypeOK, ListTypeOK, streamVars, memoryVars, listVars, ctlrVars, StreamOffController, StopController, HaltDriver, Lock, Unlock, Goto, Tasks, DqbufPcs, ControlPcs, StartPcs, StopPcs, RestartPcs
<1>18. ASSUME NEW t \in AppTasks, StreamOffControllerFails(t)
      PROVE  TypeOK'
  BY <1>18 DEF TypeOK, StreamTypeOK, ListTypeOK, streamVars, memoryVars, listVars, ctlrVars, StreamOffControllerFails, StopControllerFails, HaltDriver, Goto, Tasks, DqbufPcs, ControlPcs, StartPcs, StopPcs, RestartPcs
<1>19. ASSUME NEW t \in AppTasks, StreamOffDrain(t)
      PROVE  TypeOK'
  BY <1>19 DEF TypeOK, StreamTypeOK, ListTypeOK, streamVars, memoryVars, listVars, ctlrVars, StreamOffDrain, DrainReady, Goto, Tasks, DqbufPcs, ControlPcs, StartPcs, StopPcs, RestartPcs
<1>20. ASSUME NEW t \in AppTasks, StreamOffLists(t)
      PROVE  TypeOK'
  BY <1>20, EmptySeq DEF TypeOK, StreamTypeOK, ListTypeOK, streamVars, memoryVars, listVars, ctlrVars, StreamOffLists, ResetLists, Goto, Tasks, DqbufPcs, ControlPcs, StartPcs, StopPcs, RestartPcs
<1>21. ASSUME NEW t \in AppTasks, StreamOffReset(t)
      PROVE  TypeOK'
  BY <1>21 DEF TypeOK, StreamTypeOK, ListTypeOK, streamVars, memoryVars, listVars, ctlrVars, StreamOffReset, BufferReset, Goto, Tasks, DqbufPcs, ControlPcs, StartPcs, StopPcs, RestartPcs
<1>22. ASSUME NEW t \in AppTasks, StreamOffDone(t)
      PROVE  TypeOK'
  BY <1>22 DEF TypeOK, StreamTypeOK, ListTypeOK, streamVars, memoryVars, listVars, ctlrVars, StreamOffDone, Lock, Unlock, Goto, Tasks, DqbufPcs, ControlPcs, StartPcs, StopPcs, RestartPcs
<1>23. ASSUME NEW r \in EventTasks, Restart(r)
      PROVE  TypeOK'
  BY <1>23 DEF TypeOK, StreamTypeOK, ListTypeOK, streamVars, memoryVars, listVars, ctlrVars, Restart, Lock, Unlock, Goto, Tasks, DqbufPcs, ControlPcs, StartPcs, StopPcs, RestartPcs
<1>24. ASSUME NEW r \in EventTasks, RestartStop(r)
      PROVE  TypeOK'
  BY <1>24 DEF TypeOK, StreamTypeOK, ListTypeOK, streamVars, memoryVars, listVars, ctlrVars, RestartStop, StopController, HaltDriver, Lock, Unlock, Goto, Tasks, DqbufPcs, ControlPcs, StartPcs, StopPcs, RestartPcs
<1>25. ASSUME NEW r \in EventTasks, RestartStopFails(r)
      PROVE  TypeOK'
  BY <1>25 DEF TypeOK, StreamTypeOK, ListTypeOK, streamVars, memoryVars, listVars, ctlrVars, RestartStopFails, StopControllerFails, HaltDriver, Goto, Tasks, DqbufPcs, ControlPcs, StartPcs, StopPcs, RestartPcs
<1>26. ASSUME NEW r \in EventTasks, RestartSkip(r)
      PROVE  TypeOK'
  BY <1>26, SkipBufferTypes DEF TypeOK, StreamTypeOK, RestartSkip, memoryVars, Goto, Tasks, DqbufPcs, ControlPcs, StartPcs, StopPcs, RestartPcs
<1>27. ASSUME NEW r \in EventTasks, RestartStart(r)
      PROVE  TypeOK'
  BY <1>27, StartControllerTypes DEF TypeOK, StreamTypeOK, RestartStart, memoryVars, Goto, Tasks, DqbufPcs, ControlPcs, StartPcs, StopPcs, RestartPcs
<1>28. ASSUME NEW r \in EventTasks, RestartStartFails(r)
      PROVE  TypeOK'
  BY <1>28 DEF TypeOK, StreamTypeOK, ListTypeOK, streamVars, memoryVars, listVars, ctlrVars, RestartStartFails, Lock, Unlock, Goto, Tasks, DqbufPcs, ControlPcs, StartPcs, StopPcs, RestartPcs
<1>29. ASSUME NEW r \in EventTasks, RestartSensor(r)
      PROVE  TypeOK'
  BY <1>29 DEF TypeOK, StreamTypeOK, ListTypeOK, streamVars, memoryVars, listVars, ctlrVars, RestartSensor, Lock, Unlock, Goto, Tasks, DqbufPcs, ControlPcs, StartPcs, StopPcs, RestartPcs
<1>30. ASSUME NEW r \in EventTasks, RestartSensorFails(r)
      PROVE  TypeOK'
  BY <1>30 DEF TypeOK, StreamTypeOK, ListTypeOK, streamVars, memoryVars, listVars, ctlrVars, RestartSensorFails, StopController, HaltDriver, Lock, Unlock, Goto, Tasks, DqbufPcs, ControlPcs, StartPcs, StopPcs, RestartPcs
<1>31. CASE IsrGetFirst
  BY <1>31, OnGetNewTransTypes DEF TypeOK, StreamTypeOK, IsrGetFirst, memoryVars
<1>32. CASE IsrFinishFirst
  BY <1>32 DEF TypeOK, StreamTypeOK, ListTypeOK, streamVars, memoryVars, listVars, ctlrVars, IsrFinishFirst
<1>33. CASE IsrGetLast
  BY <1>33, OnGetNewTransTypes DEF TypeOK, StreamTypeOK, IsrGetLast, memoryVars
<1>34. CASE IsrDrop
  BY <1>34 DEF TypeOK, StreamTypeOK, ListTypeOK, streamVars, memoryVars, listVars, ctlrVars, IsrDrop, AfterFinish
<1>35. CASE IsrDone
  BY <1>35, DoneElementTypes, NextSkipCountType DEF TypeOK, StreamTypeOK, IsrDone, memoryVars, AfterFinish
<1>36. CASE IsrGive
  BY <1>36, NextSkipCountType DEF TypeOK, StreamTypeOK, ListTypeOK, streamVars, memoryVars, listVars, ctlrVars, IsrGive, GiveReady, AfterFinish, NULL
<1>37. CASE IsrSkip
  BY <1>37, SkipBufferTypes, NextSkipCountType DEF TypeOK, StreamTypeOK, IsrSkip, memoryVars, AfterFinish
<1>38. CASE UNCHANGED vars
  BY <1>38 DEF TypeOK, StreamTypeOK, ListTypeOK, streamVars, memoryVars, listVars, ctlrVars, vars
<1> QED
  BY <1>1, <1>2, <1>3, <1>4, <1>5, <1>6, <1>7, <1>8, <1>9, <1>10, <1>11, <1>12, <1>13, <1>14, <1>15, <1>16, <1>17, <1>18, <1>19, <1>20, <1>21, <1>22, <1>23, <1>24, <1>25, <1>26, <1>27, <1>28, <1>29, <1>30, <1>31, <1>32, <1>33, <1>34, <1>35, <1>36, <1>37, <1>38
     DEF Next, AppNext, ReqbufsNext, TransferNext, StreamOnNext, StreamOffNext, RestartNext, IsrNext

\* Every variable keeps its type, whatever the application and the faults do.
THEOREM TypeCorrect == Spec => []TypeOK
<1>1. Init => TypeOK
  BY TypeInit
<1>2. TypeOK /\ [Next]_vars => TypeOK'
  BY TypeStep
<1> QED BY <1>1, <1>2, PTL DEF Spec

-------------------------------------------------------------------------------
(* Which calls may be under way together, when no ioctls overlap carelessly. *)

Discipline ==
    /\ \A t \in AppTasks : pc[t] \in {"idle"} \cup DqbufPcs \cup ControlPcs
    /\ \A r \in EventTasks : pc[r] \in {"idle"} \cup RestartPcs
    /\ \A t \in AppTasks : pc[t] \in ControlPcs => \A u \in Tasks \ {t} : pc[u] = "idle"
    /\ \A t \in AppTasks : pc[t] \in StartPcs => ~started
    /\ \A t \in AppTasks : pc[t] \in DqbufPcs \cup StopPcs => started
    /\ \A r \in EventTasks : pc[r] \in RestartPcs => started

\* Whose call holds cam_ctlr_mutex.
MutexHeld ==
    \A x \in Tasks : mutex = x <=> pc[x] \in {"on_sensor", "rs_skip", "rs_start", "rs_sensor"}

LEMMA DisciplineInit == Init => Discipline /\ MutexHeld
BY CaptureAssumption DEF Init, StreamInit, Discipline, MutexHeld, Tasks,
   StartPcs, StopPcs, RestartPcs, DqbufPcs, ControlPcs

LEMMA DisciplineStep ==
    ASSUME Careless = {}, TypeOK, Discipline, [Next]_vars
    PROVE  Discipline'
<1>1. ASSUME NEW t \in AppTasks, NEW n \in 1 .. MaxCount, ReqbufsSetup(t, n)
      PROVE  Discipline'
  BY <1>1 DEF Discipline, ReqbufsSetup, SetupBuffer, StorageReplaced
<1>2. ASSUME NEW t \in AppTasks, NEW n \in 1 .. MaxCount, ReqbufsNoMemory(t, n)
      PROVE  Discipline'
  BY <1>2 DEF Discipline, ReqbufsNoMemory, SetupBufferFails, StorageReplaced
<1>3. ASSUME NEW t \in AppTasks, ReqbufsRelease(t)
      PROVE  Discipline'
  BY <1>3 DEF Discipline, ReqbufsRelease, ReleaseBuffer, StorageReplaced
<1>4. ASSUME NEW t \in AppTasks, NEW e \in Elements, Qbuf(t, e)
      PROVE  Discipline'
  BY <1>4 DEF Discipline, Qbuf
<1>5. ASSUME NEW t \in AppTasks, Dqbuf(t)
      PROVE  Discipline'
  BY <1>5, CaptureAssumption DEF Discipline, TypeOK, Dqbuf, Goto, Tasks, StartPcs, StopPcs, RestartPcs, DqbufPcs, ControlPcs, streamVars, MayTransfer
<1>6. ASSUME NEW t \in AppTasks, DqbufTake(t)
      PROVE  Discipline'
  BY <1>6, CaptureAssumption DEF Discipline, TypeOK, DqbufTake, Goto, Tasks, StartPcs, StopPcs, RestartPcs, DqbufPcs, ControlPcs, streamVars
<1>7. ASSUME NEW t \in AppTasks, DqbufTimeout(t)
      PROVE  Discipline'
  BY <1>7, CaptureAssumption DEF Discipline, TypeOK, DqbufTimeout, Goto, Tasks, StartPcs, StopPcs, RestartPcs, DqbufPcs, ControlPcs, streamVars
<1>8. ASSUME NEW t \in AppTasks, DqbufReprocess(t)
      PROVE  Discipline'
  BY <1>8, CaptureAssumption DEF Discipline, TypeOK, DqbufReprocess, Goto, Tasks, StartPcs, StopPcs, RestartPcs, DqbufPcs, ControlPcs, streamVars
<1>9. ASSUME NEW t \in AppTasks, DqbufPop(t)
      PROVE  Discipline'
  BY <1>9, CaptureAssumption DEF Discipline, TypeOK, DqbufPop, Goto, Tasks, StartPcs, StopPcs, RestartPcs, DqbufPcs, ControlPcs, streamVars
<1>10. ASSUME NEW t \in AppTasks, StreamOn(t)
      PROVE  Discipline'
  BY <1>10, CaptureAssumption DEF Discipline, TypeOK, StreamOn, Goto, Tasks, StartPcs, StopPcs, RestartPcs, DqbufPcs, ControlPcs, streamVars, MayControl, NoRestart
<1>11. ASSUME NEW t \in AppTasks, StreamOnController(t)
      PROVE  Discipline'
  BY <1>11, CaptureAssumption DEF Discipline, TypeOK, StreamOnController, Goto, Tasks, StartPcs, StopPcs, RestartPcs, DqbufPcs, ControlPcs, streamVars
<1>12. ASSUME NEW t \in AppTasks, StreamOnControllerFails(t)
      PROVE  Discipline'
  BY <1>12, CaptureAssumption DEF Discipline, TypeOK, StreamOnControllerFails, Goto, Tasks, StartPcs, StopPcs, RestartPcs, DqbufPcs, ControlPcs, streamVars
<1>13. ASSUME NEW t \in AppTasks, StreamOnSensor(t)
      PROVE  Discipline'
  BY <1>13, CaptureAssumption DEF Discipline, TypeOK, StreamOnSensor, Goto, Tasks, StartPcs, StopPcs, RestartPcs, DqbufPcs, ControlPcs, streamVars
<1>14. ASSUME NEW t \in AppTasks, StreamOnSensorFails(t)
      PROVE  Discipline'
  BY <1>14, CaptureAssumption DEF Discipline, TypeOK, StreamOnSensorFails, Goto, Tasks, StartPcs, StopPcs, RestartPcs, DqbufPcs, ControlPcs, streamVars
<1>15. ASSUME NEW t \in AppTasks, StreamOnDone(t)
      PROVE  Discipline'
  BY <1>15, CaptureAssumption DEF Discipline, TypeOK, StreamOnDone, Goto, Tasks, StartPcs, StopPcs, RestartPcs, DqbufPcs, ControlPcs, streamVars
<1>16. ASSUME NEW t \in AppTasks, StreamOff(t)
      PROVE  Discipline'
  BY <1>16, CaptureAssumption DEF Discipline, TypeOK, StreamOff, Goto, Tasks, StartPcs, StopPcs, RestartPcs, DqbufPcs, ControlPcs, streamVars, MayStop, NoRestart
<1>17. ASSUME NEW t \in AppTasks, StreamOffController(t)
      PROVE  Discipline'
  BY <1>17, CaptureAssumption DEF Discipline, TypeOK, StreamOffController, Goto, Tasks, StartPcs, StopPcs, RestartPcs, DqbufPcs, ControlPcs, streamVars
<1>18. ASSUME NEW t \in AppTasks, StreamOffControllerFails(t)
      PROVE  Discipline'
  BY <1>18, CaptureAssumption DEF Discipline, TypeOK, StreamOffControllerFails, Goto, Tasks, StartPcs, StopPcs, RestartPcs, DqbufPcs, ControlPcs, streamVars
<1>19. ASSUME NEW t \in AppTasks, StreamOffDrain(t)
      PROVE  Discipline'
  BY <1>19, CaptureAssumption DEF Discipline, TypeOK, StreamOffDrain, Goto, Tasks, StartPcs, StopPcs, RestartPcs, DqbufPcs, ControlPcs, streamVars
<1>20. ASSUME NEW t \in AppTasks, StreamOffLists(t)
      PROVE  Discipline'
  BY <1>20, CaptureAssumption DEF Discipline, TypeOK, StreamOffLists, Goto, Tasks, StartPcs, StopPcs, RestartPcs, DqbufPcs, ControlPcs, streamVars
<1>21. ASSUME NEW t \in AppTasks, StreamOffReset(t)
      PROVE  Discipline'
  BY <1>21, CaptureAssumption DEF Discipline, TypeOK, StreamOffReset, Goto, Tasks, StartPcs, StopPcs, RestartPcs, DqbufPcs, ControlPcs, streamVars
<1>22. ASSUME NEW t \in AppTasks, StreamOffDone(t)
      PROVE  Discipline'
  BY <1>22, CaptureAssumption DEF Discipline, TypeOK, StreamOffDone, Goto, Tasks, StartPcs, StopPcs, RestartPcs, DqbufPcs, ControlPcs, streamVars
<1>23. ASSUME NEW r \in EventTasks, Restart(r)
      PROVE  Discipline'
  BY <1>23, CaptureAssumption DEF Discipline, TypeOK, Restart, Goto, Tasks, StartPcs, StopPcs, RestartPcs, DqbufPcs, ControlPcs, streamVars, MayRestart
<1>24. ASSUME NEW r \in EventTasks, RestartStop(r)
      PROVE  Discipline'
  BY <1>24, CaptureAssumption DEF Discipline, TypeOK, RestartStop, Goto, Tasks, StartPcs, StopPcs, RestartPcs, DqbufPcs, ControlPcs, streamVars
<1>25. ASSUME NEW r \in EventTasks, RestartStopFails(r)
      PROVE  Discipline'
  BY <1>25, CaptureAssumption DEF Discipline, TypeOK, RestartStopFails, Goto, Tasks, StartPcs, StopPcs, RestartPcs, DqbufPcs, ControlPcs, streamVars
<1>26. ASSUME NEW r \in EventTasks, RestartSkip(r)
      PROVE  Discipline'
  BY <1>26, CaptureAssumption DEF Discipline, TypeOK, RestartSkip, Goto, Tasks, StartPcs, StopPcs, RestartPcs, DqbufPcs, ControlPcs, streamVars
<1>27. ASSUME NEW r \in EventTasks, RestartStart(r)
      PROVE  Discipline'
  BY <1>27, CaptureAssumption DEF Discipline, TypeOK, RestartStart, Goto, Tasks, StartPcs, StopPcs, RestartPcs, DqbufPcs, ControlPcs, streamVars
<1>28. ASSUME NEW r \in EventTasks, RestartStartFails(r)
      PROVE  Discipline'
  BY <1>28, CaptureAssumption DEF Discipline, TypeOK, RestartStartFails, Goto, Tasks, StartPcs, StopPcs, RestartPcs, DqbufPcs, ControlPcs, streamVars
<1>29. ASSUME NEW r \in EventTasks, RestartSensor(r)
      PROVE  Discipline'
  BY <1>29, CaptureAssumption DEF Discipline, TypeOK, RestartSensor, Goto, Tasks, StartPcs, StopPcs, RestartPcs, DqbufPcs, ControlPcs, streamVars
<1>30. ASSUME NEW r \in EventTasks, RestartSensorFails(r)
      PROVE  Discipline'
  BY <1>30, CaptureAssumption DEF Discipline, TypeOK, RestartSensorFails, Goto, Tasks, StartPcs, StopPcs, RestartPcs, DqbufPcs, ControlPcs, streamVars
<1>31. CASE IsrGetFirst
  BY <1>31 DEF Discipline, IsrGetFirst
<1>32. CASE IsrFinishFirst
  BY <1>32 DEF Discipline, IsrFinishFirst, streamVars
<1>33. CASE IsrGetLast
  BY <1>33 DEF Discipline, IsrGetLast
<1>34. CASE IsrDrop
  BY <1>34 DEF Discipline, IsrDrop, streamVars
<1>35. CASE IsrDone
  BY <1>35 DEF Discipline, IsrDone
<1>36. CASE IsrGive
  BY <1>36 DEF Discipline, IsrGive
<1>37. CASE IsrSkip
  BY <1>37 DEF Discipline, IsrSkip
<1>38. CASE UNCHANGED vars
  BY <1>38 DEF Discipline, vars, streamVars, ctlrVars
<1> QED
  BY <1>1, <1>2, <1>3, <1>4, <1>5, <1>6, <1>7, <1>8, <1>9, <1>10, <1>11, <1>12, <1>13, <1>14, <1>15, <1>16, <1>17, <1>18, <1>19, <1>20, <1>21, <1>22, <1>23, <1>24, <1>25, <1>26, <1>27, <1>28, <1>29, <1>30, <1>31, <1>32, <1>33, <1>34, <1>35, <1>36, <1>37, <1>38
     DEF Next, AppNext, ReqbufsNext, TransferNext, StreamOnNext, StreamOffNext, RestartNext, IsrNext

LEMMA MutexStep ==
    ASSUME TypeOK, MutexHeld, [Next]_vars
    PROVE  MutexHeld'
<1>1. ASSUME NEW t \in AppTasks, NEW n \in 1 .. MaxCount, ReqbufsSetup(t, n)
      PROVE  MutexHeld'
  BY <1>1 DEF MutexHeld, ReqbufsSetup, SetupBuffer, StorageReplaced
<1>2. ASSUME NEW t \in AppTasks, NEW n \in 1 .. MaxCount, ReqbufsNoMemory(t, n)
      PROVE  MutexHeld'
  BY <1>2 DEF MutexHeld, ReqbufsNoMemory, SetupBufferFails, StorageReplaced
<1>3. ASSUME NEW t \in AppTasks, ReqbufsRelease(t)
      PROVE  MutexHeld'
  BY <1>3 DEF MutexHeld, ReqbufsRelease, ReleaseBuffer, StorageReplaced
<1>4. ASSUME NEW t \in AppTasks, NEW e \in Elements, Qbuf(t, e)
      PROVE  MutexHeld'
  BY <1>4 DEF MutexHeld, Qbuf
<1>5. ASSUME NEW t \in AppTasks, Dqbuf(t)
      PROVE  MutexHeld'
  BY <1>5, CaptureAssumption DEF MutexHeld, TypeOK, Dqbuf, Goto, Tasks, StartPcs, StopPcs, RestartPcs, DqbufPcs, ControlPcs, MayTransfer
<1>6. ASSUME NEW t \in AppTasks, DqbufTake(t)
      PROVE  MutexHeld'
  BY <1>6, CaptureAssumption DEF MutexHeld, TypeOK, DqbufTake, Goto, Tasks, StartPcs, StopPcs, RestartPcs, DqbufPcs, ControlPcs
<1>7. ASSUME NEW t \in AppTasks, DqbufTimeout(t)
      PROVE  MutexHeld'
  BY <1>7, CaptureAssumption DEF MutexHeld, TypeOK, DqbufTimeout, Goto, Tasks, StartPcs, StopPcs, RestartPcs, DqbufPcs, ControlPcs
<1>8. ASSUME NEW t \in AppTasks, DqbufReprocess(t)
      PROVE  MutexHeld'
  BY <1>8, CaptureAssumption DEF MutexHeld, TypeOK, DqbufReprocess, Goto, Tasks, StartPcs, StopPcs, RestartPcs, DqbufPcs, ControlPcs
<1>9. ASSUME NEW t \in AppTasks, DqbufPop(t)
      PROVE  MutexHeld'
  BY <1>9, CaptureAssumption DEF MutexHeld, TypeOK, DqbufPop, Goto, Tasks, StartPcs, StopPcs, RestartPcs, DqbufPcs, ControlPcs
<1>10. ASSUME NEW t \in AppTasks, StreamOn(t)
      PROVE  MutexHeld'
  BY <1>10, CaptureAssumption DEF MutexHeld, TypeOK, StreamOn, Goto, Tasks, StartPcs, StopPcs, RestartPcs, DqbufPcs, ControlPcs, MayControl, NoRestart
<1>11. ASSUME NEW t \in AppTasks, StreamOnController(t)
      PROVE  MutexHeld'
  BY <1>11, CaptureAssumption DEF MutexHeld, TypeOK, StreamOnController, Goto, Tasks, StartPcs, StopPcs, RestartPcs, DqbufPcs, ControlPcs
<1>12. ASSUME NEW t \in AppTasks, StreamOnControllerFails(t)
      PROVE  MutexHeld'
  BY <1>12, CaptureAssumption DEF MutexHeld, TypeOK, StreamOnControllerFails, Goto, Tasks, StartPcs, StopPcs, RestartPcs, DqbufPcs, ControlPcs
<1>13. ASSUME NEW t \in AppTasks, StreamOnSensor(t)
      PROVE  MutexHeld'
  BY <1>13, CaptureAssumption DEF MutexHeld, TypeOK, StreamOnSensor, Goto, Tasks, StartPcs, StopPcs, RestartPcs, DqbufPcs, ControlPcs, Unlock
<1>14. ASSUME NEW t \in AppTasks, StreamOnSensorFails(t)
      PROVE  MutexHeld'
  BY <1>14, CaptureAssumption DEF MutexHeld, TypeOK, StreamOnSensorFails, Goto, Tasks, StartPcs, StopPcs, RestartPcs, DqbufPcs, ControlPcs, Unlock
<1>15. ASSUME NEW t \in AppTasks, StreamOnDone(t)
      PROVE  MutexHeld'
  BY <1>15, CaptureAssumption DEF MutexHeld, TypeOK, StreamOnDone, Goto, Tasks, StartPcs, StopPcs, RestartPcs, DqbufPcs, ControlPcs
<1>16. ASSUME NEW t \in AppTasks, StreamOff(t)
      PROVE  MutexHeld'
  BY <1>16, CaptureAssumption DEF MutexHeld, TypeOK, StreamOff, Goto, Tasks, StartPcs, StopPcs, RestartPcs, DqbufPcs, ControlPcs, MayStop, NoRestart
<1>17. ASSUME NEW t \in AppTasks, StreamOffController(t)
      PROVE  MutexHeld'
  BY <1>17, CaptureAssumption DEF MutexHeld, TypeOK, StreamOffController, Goto, Tasks, StartPcs, StopPcs, RestartPcs, DqbufPcs, ControlPcs
<1>18. ASSUME NEW t \in AppTasks, StreamOffControllerFails(t)
      PROVE  MutexHeld'
  BY <1>18, CaptureAssumption DEF MutexHeld, TypeOK, StreamOffControllerFails, Goto, Tasks, StartPcs, StopPcs, RestartPcs, DqbufPcs, ControlPcs
<1>19. ASSUME NEW t \in AppTasks, StreamOffDrain(t)
      PROVE  MutexHeld'
  BY <1>19, CaptureAssumption DEF MutexHeld, TypeOK, StreamOffDrain, Goto, Tasks, StartPcs, StopPcs, RestartPcs, DqbufPcs, ControlPcs
<1>20. ASSUME NEW t \in AppTasks, StreamOffLists(t)
      PROVE  MutexHeld'
  BY <1>20, CaptureAssumption DEF MutexHeld, TypeOK, StreamOffLists, Goto, Tasks, StartPcs, StopPcs, RestartPcs, DqbufPcs, ControlPcs
<1>21. ASSUME NEW t \in AppTasks, StreamOffReset(t)
      PROVE  MutexHeld'
  BY <1>21, CaptureAssumption DEF MutexHeld, TypeOK, StreamOffReset, Goto, Tasks, StartPcs, StopPcs, RestartPcs, DqbufPcs, ControlPcs
<1>22. ASSUME NEW t \in AppTasks, StreamOffDone(t)
      PROVE  MutexHeld'
  BY <1>22, CaptureAssumption DEF MutexHeld, TypeOK, StreamOffDone, Goto, Tasks, StartPcs, StopPcs, RestartPcs, DqbufPcs, ControlPcs
<1>23. ASSUME NEW r \in EventTasks, Restart(r)
      PROVE  MutexHeld'
  BY <1>23, CaptureAssumption DEF MutexHeld, TypeOK, Restart, Goto, Tasks, StartPcs, StopPcs, RestartPcs, DqbufPcs, ControlPcs, MayRestart
<1>24. ASSUME NEW r \in EventTasks, RestartStop(r)
      PROVE  MutexHeld'
  BY <1>24, CaptureAssumption DEF MutexHeld, TypeOK, RestartStop, Goto, Tasks, StartPcs, StopPcs, RestartPcs, DqbufPcs, ControlPcs, Lock
<1>25. ASSUME NEW r \in EventTasks, RestartStopFails(r)
      PROVE  MutexHeld'
  BY <1>25, CaptureAssumption DEF MutexHeld, TypeOK, RestartStopFails, Goto, Tasks, StartPcs, StopPcs, RestartPcs, DqbufPcs, ControlPcs
<1>26. ASSUME NEW r \in EventTasks, RestartSkip(r)
      PROVE  MutexHeld'
  BY <1>26, CaptureAssumption DEF MutexHeld, TypeOK, RestartSkip, Goto, Tasks, StartPcs, StopPcs, RestartPcs, DqbufPcs, ControlPcs
<1>27. ASSUME NEW r \in EventTasks, RestartStart(r)
      PROVE  MutexHeld'
  BY <1>27, CaptureAssumption DEF MutexHeld, TypeOK, RestartStart, Goto, Tasks, StartPcs, StopPcs, RestartPcs, DqbufPcs, ControlPcs
<1>28. ASSUME NEW r \in EventTasks, RestartStartFails(r)
      PROVE  MutexHeld'
  BY <1>28, CaptureAssumption DEF MutexHeld, TypeOK, RestartStartFails, Goto, Tasks, StartPcs, StopPcs, RestartPcs, DqbufPcs, ControlPcs, Unlock
<1>29. ASSUME NEW r \in EventTasks, RestartSensor(r)
      PROVE  MutexHeld'
  BY <1>29, CaptureAssumption DEF MutexHeld, TypeOK, RestartSensor, Goto, Tasks, StartPcs, StopPcs, RestartPcs, DqbufPcs, ControlPcs, Unlock
<1>30. ASSUME NEW r \in EventTasks, RestartSensorFails(r)
      PROVE  MutexHeld'
  BY <1>30, CaptureAssumption DEF MutexHeld, TypeOK, RestartSensorFails, Goto, Tasks, StartPcs, StopPcs, RestartPcs, DqbufPcs, ControlPcs, Unlock
<1>31. CASE IsrGetFirst
  BY <1>31 DEF MutexHeld, IsrGetFirst
<1>32. CASE IsrFinishFirst
  BY <1>32 DEF MutexHeld, IsrFinishFirst
<1>33. CASE IsrGetLast
  BY <1>33 DEF MutexHeld, IsrGetLast
<1>34. CASE IsrDrop
  BY <1>34 DEF MutexHeld, IsrDrop
<1>35. CASE IsrDone
  BY <1>35 DEF MutexHeld, IsrDone
<1>36. CASE IsrGive
  BY <1>36 DEF MutexHeld, IsrGive
<1>37. CASE IsrSkip
  BY <1>37 DEF MutexHeld, IsrSkip
<1>38. CASE UNCHANGED vars
  BY <1>38 DEF MutexHeld, vars
<1> QED
  BY <1>1, <1>2, <1>3, <1>4, <1>5, <1>6, <1>7, <1>8, <1>9, <1>10, <1>11, <1>12, <1>13, <1>14, <1>15, <1>16, <1>17, <1>18, <1>19, <1>20, <1>21, <1>22, <1>23, <1>24, <1>25, <1>26, <1>27, <1>28, <1>29, <1>30, <1>31, <1>32, <1>33, <1>34, <1>35, <1>36, <1>37, <1>38
     DEF Next, AppNext, ReqbufsNext, TransferNext, StreamOnNext, StreamOffNext, RestartNext, IsrNext

-------------------------------------------------------------------------------
(* When a controller exists, and what the interrupt knows of it. *)

Controller ==
    /\ ctlr # "running" => cur = NULL /\ isr = "idle"
    /\ ctlr = "running" /\ isr = "idle" => cur # NULL
    /\ fin # NULL <=> isr = "finish"
    /\ ~started /\ (\A t \in AppTasks : pc[t] \notin {"on_sensor", "on_done"}) => ctlr = "null"
    /\ \A t \in AppTasks : pc[t] \in {"off_drain", "off_lists", "off_reset", "off_done"} => ctlr = "null"
    /\ \A r \in EventTasks : pc[r] \in {"rs_skip", "rs_start"} => ctlr = "null"

LEMMA OnGetNewTransCur == OnGetNewTrans => cur' # NULL
BY DEF OnGetNewTrans, Own, NULL

LEMMA ControllerInit == Init => Controller
BY DEF Init, StreamInit, Controller

LEMMA ControllerStep ==
    ASSUME Careless = {}, TypeOK, Discipline, MutexHeld, Controller, [Next]_vars
    PROVE  Controller'
<1>1. ASSUME NEW t \in AppTasks, NEW n \in 1 .. MaxCount, ReqbufsSetup(t, n)
      PROVE  Controller'
  BY <1>1 DEF Controller, ReqbufsSetup, SetupBuffer, StorageReplaced, MayControl, NoRestart, Freed,
     Elements, NULL
<1>2. ASSUME NEW t \in AppTasks, NEW n \in 1 .. MaxCount, ReqbufsNoMemory(t, n)
      PROVE  Controller'
  BY <1>2 DEF Controller, ReqbufsNoMemory, SetupBufferFails, StorageReplaced, MayControl, NoRestart, Freed,
     Elements, NULL
<1>3. ASSUME NEW t \in AppTasks, ReqbufsRelease(t)
      PROVE  Controller'
  BY <1>3 DEF Controller, ReqbufsRelease, ReleaseBuffer, StorageReplaced, MayControl, NoRestart, Freed,
     Elements, NULL
<1>4. ASSUME NEW t \in AppTasks, NEW e \in Elements, Qbuf(t, e)
      PROVE  Controller'
  BY <1>4 DEF Controller, Qbuf, ctlrVars
<1>5. ASSUME NEW t \in AppTasks, Dqbuf(t)
      PROVE  Controller'
  BY <1>5, CaptureAssumption
  DEF Controller, Discipline, TypeOK, Dqbuf, Goto, Tasks, StartPcs, StopPcs, RestartPcs, DqbufPcs, ControlPcs, streamVars, ctlrVars
<1>6. ASSUME NEW t \in AppTasks, DqbufTake(t)
      PROVE  Controller'
  BY <1>6, CaptureAssumption
  DEF Controller, Discipline, TypeOK, DqbufTake, Goto, Tasks, StartPcs, StopPcs, RestartPcs, DqbufPcs, ControlPcs, streamVars, ctlrVars
<1>7. ASSUME NEW t \in AppTasks, DqbufTimeout(t)
      PROVE  Controller'
  BY <1>7, CaptureAssumption
  DEF Controller, Discipline, TypeOK, DqbufTimeout, Goto, Tasks, StartPcs, StopPcs, RestartPcs, DqbufPcs, ControlPcs, streamVars, ctlrVars
<1>8. ASSUME NEW t \in AppTasks, DqbufReprocess(t)
      PROVE  Controller'
  BY <1>8, CaptureAssumption
  DEF Controller, Discipline, TypeOK, DqbufReprocess, Goto, Tasks, StartPcs, StopPcs, RestartPcs, DqbufPcs, ControlPcs, streamVars, ctlrVars
<1>9. ASSUME NEW t \in AppTasks, DqbufPop(t)
      PROVE  Controller'
  BY <1>9, CaptureAssumption
  DEF Controller, Discipline, TypeOK, DqbufPop, Goto, Tasks, StartPcs, StopPcs, RestartPcs, DqbufPcs, ControlPcs, streamVars, ctlrVars
<1>10. ASSUME NEW t \in AppTasks, StreamOn(t)
      PROVE  Controller'
  BY <1>10, CaptureAssumption
  DEF Controller, Discipline, TypeOK, StreamOn, Goto, Tasks, StartPcs, StopPcs, RestartPcs, DqbufPcs, ControlPcs, streamVars, ctlrVars, MayControl, NoRestart
<1>11. ASSUME NEW t \in AppTasks, StreamOnController(t)
      PROVE  Controller'
  BY <1>11, CaptureAssumption, OnGetNewTransCur
  DEF Controller, Discipline, TypeOK, StreamOnController, Goto, Tasks, StartPcs, StopPcs, RestartPcs, DqbufPcs, ControlPcs, streamVars, ctlrVars, StartController, StartsEmpty, Own, NULL
<1>12. ASSUME NEW t \in AppTasks, StreamOnControllerFails(t)
      PROVE  Controller'
  BY <1>12, CaptureAssumption
  DEF Controller, Discipline, TypeOK, StreamOnControllerFails, Goto, Tasks, StartPcs, StopPcs, RestartPcs, DqbufPcs, ControlPcs, streamVars, ctlrVars
<1>13. ASSUME NEW t \in AppTasks, StreamOnSensor(t)
      PROVE  Controller'
  BY <1>13, CaptureAssumption
  DEF Controller, Discipline, TypeOK, StreamOnSensor, Goto, Tasks, StartPcs, StopPcs, RestartPcs, DqbufPcs, ControlPcs, streamVars, ctlrVars
<1>14. ASSUME NEW t \in AppTasks, StreamOnSensorFails(t)
      PROVE  Controller'
  BY <1>14, CaptureAssumption
  DEF Controller, Discipline, TypeOK, StreamOnSensorFails, Goto, Tasks, StartPcs, StopPcs, RestartPcs, DqbufPcs, ControlPcs, streamVars, ctlrVars, StopController, HaltDriver
<1>15. ASSUME NEW t \in AppTasks, StreamOnDone(t)
      PROVE  Controller'
  BY <1>15, CaptureAssumption
  DEF Controller, Discipline, TypeOK, StreamOnDone, Goto, Tasks, StartPcs, StopPcs, RestartPcs, DqbufPcs, ControlPcs, streamVars, ctlrVars
<1>16. ASSUME NEW t \in AppTasks, StreamOff(t)
      PROVE  Controller'
  BY <1>16, CaptureAssumption
  DEF Controller, Discipline, TypeOK, StreamOff, Goto, Tasks, StartPcs, StopPcs, RestartPcs, DqbufPcs, ControlPcs, streamVars, ctlrVars
<1>17. ASSUME NEW t \in AppTasks, StreamOffController(t)
      PROVE  Controller'
  BY <1>17, CaptureAssumption
  DEF Controller, Discipline, TypeOK, StreamOffController, Goto, Tasks, StartPcs, StopPcs, RestartPcs, DqbufPcs, ControlPcs, streamVars, ctlrVars, StopController, HaltDriver
<1>18. ASSUME NEW t \in AppTasks, StreamOffControllerFails(t)
      PROVE  Controller'
  BY <1>18, CaptureAssumption
  DEF Controller, Discipline, TypeOK, StreamOffControllerFails, Goto, Tasks, StartPcs, StopPcs, RestartPcs, DqbufPcs, ControlPcs, streamVars, ctlrVars, StopControllerFails, HaltDriver
<1>19. ASSUME NEW t \in AppTasks, StreamOffDrain(t)
      PROVE  Controller'
  BY <1>19, CaptureAssumption
  DEF Controller, Discipline, TypeOK, StreamOffDrain, Goto, Tasks, StartPcs, StopPcs, RestartPcs, DqbufPcs, ControlPcs, streamVars, ctlrVars
<1>20. ASSUME NEW t \in AppTasks, StreamOffLists(t)
      PROVE  Controller'
  BY <1>20, CaptureAssumption
  DEF Controller, Discipline, TypeOK, StreamOffLists, Goto, Tasks, StartPcs, StopPcs, RestartPcs, DqbufPcs, ControlPcs, streamVars, ctlrVars
<1>21. ASSUME NEW t \in AppTasks, StreamOffReset(t)
      PROVE  Controller'
  BY <1>21, CaptureAssumption
  DEF Controller, Discipline, TypeOK, StreamOffReset, Goto, Tasks, StartPcs, StopPcs, RestartPcs, DqbufPcs, ControlPcs, streamVars, ctlrVars
<1>22. ASSUME NEW t \in AppTasks, StreamOffDone(t)
      PROVE  Controller'
  BY <1>22, CaptureAssumption
  DEF Controller, Discipline, TypeOK, StreamOffDone, Goto, Tasks, StartPcs, StopPcs, RestartPcs, DqbufPcs, ControlPcs, streamVars, ctlrVars
<1>23. ASSUME NEW r \in EventTasks, Restart(r)
      PROVE  Controller'
  BY <1>23, CaptureAssumption
  DEF Controller, Discipline, TypeOK, Restart, Goto, Tasks, StartPcs, StopPcs, RestartPcs, DqbufPcs, ControlPcs, streamVars, ctlrVars
<1>24. ASSUME NEW r \in EventTasks, RestartStop(r)
      PROVE  Controller'
  BY <1>24, CaptureAssumption
  DEF Controller, Discipline, TypeOK, RestartStop, Goto, Tasks, StartPcs, StopPcs, RestartPcs, DqbufPcs, ControlPcs, streamVars, ctlrVars, StopController, HaltDriver, Lock
<1>25. ASSUME NEW r \in EventTasks, RestartStopFails(r)
      PROVE  Controller'
  BY <1>25, CaptureAssumption
  DEF Controller, Discipline, TypeOK, RestartStopFails, Goto, Tasks, StartPcs, StopPcs, RestartPcs, DqbufPcs, ControlPcs, streamVars, ctlrVars, StopControllerFails, HaltDriver
<1>26. ASSUME NEW r \in EventTasks, RestartSkip(r)
      PROVE  Controller'
  BY <1>26, CaptureAssumption
  DEF Controller, Discipline, TypeOK, RestartSkip, Goto, Tasks, StartPcs, StopPcs, RestartPcs, DqbufPcs, ControlPcs, streamVars, ctlrVars, MutexHeld
<1>27. ASSUME NEW r \in EventTasks, RestartStart(r)
      PROVE  Controller'
  BY <1>27, CaptureAssumption, OnGetNewTransCur
  DEF Controller, Discipline, TypeOK, RestartStart, Goto, Tasks, StartPcs, StopPcs, RestartPcs, DqbufPcs, ControlPcs, streamVars, ctlrVars, StartController, StartsEmpty, Own, NULL, MutexHeld
<1>28. ASSUME NEW r \in EventTasks, RestartStartFails(r)
      PROVE  Controller'
  BY <1>28, CaptureAssumption
  DEF Controller, Discipline, TypeOK, RestartStartFails, Goto, Tasks, StartPcs, StopPcs, RestartPcs, DqbufPcs, ControlPcs, streamVars, ctlrVars
<1>29. ASSUME NEW r \in EventTasks, RestartSensor(r)
      PROVE  Controller'
  BY <1>29, CaptureAssumption
  DEF Controller, Discipline, TypeOK, RestartSensor, Goto, Tasks, StartPcs, StopPcs, RestartPcs, DqbufPcs, ControlPcs, streamVars, ctlrVars
<1>30. ASSUME NEW r \in EventTasks, RestartSensorFails(r)
      PROVE  Controller'
  BY <1>30, CaptureAssumption
  DEF Controller, Discipline, TypeOK, RestartSensorFails, Goto, Tasks, StartPcs, StopPcs, RestartPcs, DqbufPcs, ControlPcs, streamVars, ctlrVars, StopController, HaltDriver
<1>31. CASE IsrGetFirst
  BY <1>31, OnGetNewTransCur DEF Controller, IsrGetFirst
<1>32. CASE IsrFinishFirst
  BY <1>32 DEF Controller, IsrFinishFirst, streamVars, NULL, Own
<1>33. CASE IsrGetLast
  BY <1>33, OnGetNewTransCur DEF Controller, IsrGetLast
<1>34. CASE IsrDrop
  BY <1>34 DEF Controller, IsrDrop, streamVars, AfterFinish
<1>35. CASE IsrDone
  BY <1>35 DEF Controller, IsrDone, AfterFinish
<1>36. CASE IsrGive
  BY <1>36 DEF Controller, IsrGive, AfterFinish
<1>37. CASE IsrSkip
  BY <1>37 DEF Controller, IsrSkip, AfterFinish
<1>38. CASE UNCHANGED vars
  BY <1>38 DEF Controller, vars, streamVars, ctlrVars
<1> QED
  BY <1>1, <1>2, <1>3, <1>4, <1>5, <1>6, <1>7, <1>8, <1>9, <1>10, <1>11, <1>12, <1>13, <1>14, <1>15, <1>16, <1>17, <1>18, <1>19, <1>20, <1>21, <1>22, <1>23, <1>24, <1>25, <1>26, <1>27, <1>28, <1>29, <1>30, <1>31, <1>32, <1>33, <1>34, <1>35, <1>36, <1>37, <1>38
     DEF Next, AppNext, ReqbufsNext, TransferNext, StreamOnNext, StreamOffNext, RestartNext, IsrNext

-------------------------------------------------------------------------------
(* Where every buffer is. *)

\* The stream is on, or will be when the call that starts it returns.
On == started \/ \E t \in AppTasks : pc[t] \in {"on_sensor", "on_done"}

\* A running controller fills the backup element.
Refillable == UseBackup /\ ctlr = "running" => cur \in buffer /\ cur = backup_element

\* What backup_element names: nobody else's buffer while the stream is on, and anything
\* but a done buffer while it is off.
Backup ==
    IF On THEN backup_element \in (buffer \ (app \cup Listed)) \cup {NULL}
    ELSE backup_element \in (buffer \ Range(done_list)) \cup {NULL, Dangling}

\* What a start offers the controller is nobody else's.
Startable == queued_list # <<>> \/ backup_element \in (buffer \ (app \cup Listed)) \cup {NULL}

Places ==
    /\ FreeFlagSound
    /\ ExclusiveOwnership
    /\ Refillable
    /\ app \subseteq buffer
    /\ Held \subseteq buffer
    /\ cur # Dangling /\ fin # Dangling
    /\ UseBackup => Backup
    /\ UseBackup => \A t \in AppTasks : pc[t] = "on_start" => Startable
    /\ \A t \in AppTasks : pc[t] \in {"off_reset", "off_done"} => Listed = {}

LEMMA PlacesInit == Init => Places
<1> SUFFICES ASSUME Init PROVE Places
  OBVIOUS
<1>1. Listed = {} /\ ListsSound /\ FlagsSound
  BY EmptyListsSound DEF Init, StreamInit
<1>2. \A t \in AppTasks : pc[t] = "idle"
  BY DEF Init, Tasks
<1>3. ~On
  BY <1>2 DEF Init, StreamInit, On
<1>4. Held = {} /\ NULL # Dangling /\ NULL \notin Elements
  BY DEF Init, Held, Elements, NULL, Dangling
<1>5. FreeFlagSound /\ ExclusiveOwnership /\ Refillable
  BY <1>1, <1>4 DEF Init, FreeFlagSound, ExclusiveOwnership, Refillable
<1>6. Backup
  BY <1>3 DEF Init, Backup
<1> QED
  BY <1>2, <1>4, <1>5, <1>6 DEF Init, Places

\* While the controller runs, no STREAMON is about to start it and no STREAMOFF has
\* stopped it.
LEMMA RunningPcs ==
    ASSUME Discipline, Controller, ctlr = "running"
    PROVE  \A t \in AppTasks : pc[t] \notin {"on_start", "off_lists", "off_reset", "off_done"}
BY DEF Discipline, Controller, Tasks, StartPcs, ControlPcs

\* Steps that move no buffer: what the controller holds can only shrink.
LEMMA PlacesFrame ==
    ASSUME Places,
           UNCHANGED <<memoryVars, listVars, app, backup_element>>,
           cur' \in {cur, NULL},
           fin' \in {fin, NULL} \/ (~UseBackup /\ cur' = NULL /\ fin' = cur),
           UseBackup /\ ctlr' = "running" => ctlr = "running" /\ cur' = cur,
           On' => On,
           \A t \in AppTasks :
               /\ pc[t] = "off_reset" => pc'[t] = "off_reset"
               /\ pc'[t] = "on_start" => pc[t] = "on_start" \/ ~UseBackup \/ Startable
               /\ pc'[t] \in {"off_reset", "off_done"} => pc[t] \in {"off_reset", "off_done"}
    PROVE  Places'
<1>1. Listed' = Listed /\ (ListsSound => ListsSound') /\ (FlagsSound => FlagsSound')
  BY DEF Listed, ListsSound, FlagsSound, listVars, memoryVars
<1>2. NULL \notin Elements /\ NULL # Dangling
  BY DEF NULL, Elements, Dangling
<1>3. Held' \subseteq Held
  BY <1>2 DEF Held
<1>4. FreeFlagSound'
  BY <1>1 DEF Places, FreeFlagSound
<1>5. ExclusiveOwnership'
  BY <1>1, <1>2, <1>3 DEF Places, ExclusiveOwnership, Held
<1>6. Refillable'
  BY DEF Places, Refillable, memoryVars
<1>7. (UseBackup => Backup') /\ (Startable => Startable')
  <2>1. Range(done_list) \subseteq Listed /\ done_list' = done_list
    BY DEF Listed, listVars
  <2> QED BY <1>1, <2>1 DEF Places, Backup, Startable, listVars, memoryVars
<1> QED
  BY <1>1, <1>2, <1>3, <1>4, <1>5, <1>6, <1>7 DEF Places, listVars, memoryVars

\* The controller is given its next buffer: the oldest queued one, else the backup
\* element.
LEMMA NewTransPlaces ==
    ASSUME TypeOK, Places, FlagsSound, OnGetNewTrans,
           UNCHANGED <<memoryVars, app>>,
           UseBackup => \/ queued_list # <<>>
                        \/ backup_element \in buffer \ (app \cup Listed),
           fin' \in {NULL, cur},
           \A t \in AppTasks : pc'[t] \notin {"on_start", "off_reset", "off_done"}
    PROVE  Places'
<1>1. /\ StreamTypeOK /\ ListsSound /\ buffer' = buffer /\ app' = app
      /\ GetQueuedElement
      /\ NULL \notin Elements /\ Own \notin Elements /\ NULL # Dangling /\ Own # Dangling
      /\ NULL # Own
  BY DEF TypeOK, Places, FreeFlagSound, memoryVars, OnGetNewTrans, NULL, Own, Dangling, Elements
<1>2. /\ ListsSound' /\ FlagsSound'
      /\ queued_list = <<>> => Listed' = Listed
      /\ queued_list # <<>> => /\ Head(queued_list) \in Listed
                               /\ Listed' = Listed \ {Head(queued_list)}
  BY <1>1, GetQueuedElementSound
<1>3. FreeFlagSound'
  BY <1>2 DEF FreeFlagSound
<1>4. Listed \subseteq buffer /\ buffer \subseteq Elements
  BY <1>1 DEF ListsSound, StreamTypeOK
<1>5. \/ /\ cur' \in Listed /\ Listed' = Listed \ {cur'}
         /\ backup_element' = cur'
      \/ /\ UseBackup /\ Listed' = Listed
         /\ backup_element' = backup_element /\ cur' = backup_element
         /\ backup_element \in buffer \ (app \cup Listed)
      \/ /\ ~UseBackup /\ Listed' = Listed
         /\ cur' = Own
  <2>1. CASE queued_list # <<>>
    <3>1. NewTrans = Head(queued_list) /\ NewTrans # NULL
      BY <2>1, <1>1, <1>2, <1>4 DEF NewTrans
    <3> QED BY <3>1, <2>1, <1>2 DEF OnGetNewTrans
  <2>2. CASE queued_list = <<>> /\ UseBackup
    <3>1. NewTrans = backup_element /\ NewTrans # NULL
      BY <2>2, <1>1, <1>4 DEF NewTrans
    <3> QED BY <3>1, <2>2, <1>2 DEF OnGetNewTrans
  <2>3. CASE queued_list = <<>> /\ ~UseBackup
    <3>1. NewTrans = NULL
      BY <2>3 DEF NewTrans
    <3> QED BY <3>1, <2>3, <1>2 DEF OnGetNewTrans
  <2> QED BY <2>1, <2>2, <2>3
<1>6. cur' = fin' /\ cur' \in Elements => cur' \in Held /\ cur = cur'
  BY <1>1 DEF Held
<1>7. ExclusiveOwnership'
  <2>1. app \cap Listed = {} /\ app \cap Held = {} /\ Held \cap Listed = {}
    BY DEF Places, ExclusiveOwnership
  <2>2. fin' \in Elements => fin' \in Held
    BY <1>1 DEF Held
  <2>3. app' \cap (Listed' \cup Held') = {} /\ Held' \cap Listed' = {}
    BY <1>1, <1>4, <1>5, <2>1, <2>2 DEF Held
  <2>4. cur' = fin' /\ cur' \in Elements => UseBackup /\ cur' = backup_element'
    BY <1>1, <1>5, <1>6, <2>1
  <2> QED BY <2>3, <2>4 DEF ExclusiveOwnership
<1>8. Refillable'
  BY <1>1, <1>4, <1>5 DEF Refillable
<1>9. app' \subseteq buffer' /\ Held' \subseteq buffer' /\ cur' # Dangling /\ fin' # Dangling
  BY <1>1, <1>4, <1>5 DEF Places, Held, Dangling, Elements
<1>10. UseBackup => backup_element' \in buffer' \ (app' \cup Listed')
  BY <1>1, <1>4, <1>5 DEF Places, ExclusiveOwnership
<1>11. UseBackup => Backup'
  BY <1>10 DEF Backup, Listed
<1> QED BY <1>3, <1>7, <1>8, <1>9, <1>11 DEF Places

\* A driver that starts without one of the stream's buffers.
LEMMA StartsEmptyPlaces ==
    ASSUME TypeOK, Places, FlagsSound, StartsEmpty, fin = NULL,
           UNCHANGED <<memoryVars, app, fin>>,
           \A t \in AppTasks : pc'[t] \notin {"on_start", "off_reset", "off_done"}
    PROVE  Places'
<1>1. Listed' = Listed /\ (ListsSound => ListsSound') /\ (FlagsSound => FlagsSound')
  BY DEF StartsEmpty, Listed, ListsSound, FlagsSound, listVars, memoryVars
<1>2. Held' = {} /\ Own # Dangling /\ NULL # Dangling
  BY DEF StartsEmpty, Held, NULL, Own, Elements, Dangling
<1>3. FreeFlagSound' /\ ExclusiveOwnership' /\ Refillable'
  BY <1>1, <1>2 DEF Places, FreeFlagSound, ExclusiveOwnership, Refillable, StartsEmpty, Own, NULL
<1> QED BY <1>2, <1>3 DEF Places, StartsEmpty, memoryVars, Own, Dangling, NULL

\* The interrupt gives back the buffer it has finished.
LEMMA GiveBackPlaces ==
    ASSUME TypeOK, Discipline, Controller, Places,
           isr = "finish",
           UseBackup => fin # backup_element,
           DoneElement(fin) \/ SkipBuffer(fin),
           fin' = NULL,
           UNCHANGED <<started, memoryVars, pc, ctlr, cur, backup_element, app>>
    PROVE  Places'
<1>1. \A t \in AppTasks : pc[t] \notin {"on_start", "off_lists", "off_reset", "off_done"}
  BY RunningPcs DEF Controller, TypeOK
<1>2. /\ StreamTypeOK /\ ListsSound /\ FlagsSound
      /\ buffer' = buffer
      /\ NULL \notin Elements /\ NULL # Dangling
  BY <1>1 DEF TypeOK, Places, FreeFlagSound, memoryVars, NULL, Dangling, Elements
<1>3. fin \in Elements /\ fin \in Held /\ fin \in buffer
  BY DEF TypeOK, Controller, Places, Held
<1>4. ListsSound' /\ FlagsSound' /\ Listed' = Listed \cup ({fin} \cap buffer)
  <2>1. CASE DoneElement(fin)
    BY <1>2, <2>1, DoneElementSound
  <2>2. CASE SkipBuffer(fin)
    BY <1>2, <2>2, SkipBufferSound
  <2> QED BY <2>1, <2>2
<1>5. Listed' = Listed \cup {fin}
  BY <1>3, <1>4
<1>6. Held' = {cur} \cap Elements /\ Held' \subseteq Held
  BY <1>2 DEF Held
<1>7. cur \in Elements => cur # fin
  BY DEF Places, ExclusiveOwnership
<1>8. ExclusiveOwnership'
  BY <1>2, <1>3, <1>5, <1>6, <1>7 DEF Places, ExclusiveOwnership
<1>9. FreeFlagSound' /\ Refillable'
  BY <1>2, <1>4 DEF Places, FreeFlagSound, Refillable
<1>10. On' = On
  BY DEF On
<1>11. UseBackup => Backup'
  <2>1. On
    BY DEF Controller, TypeOK, On
  <2> QED BY <1>2, <1>5, <1>10, <2>1 DEF Places, Backup
<1> QED
  BY <1>1, <1>2, <1>6, <1>8, <1>9, <1>10, <1>11 DEF Places

\* A request for buffers finds no controller and leaves every list empty.
LEMMA StoragePlaces ==
    ASSUME NEW t \in AppTasks,
           TypeOK, Discipline, Controller, Careless = {},
           MayControl(t), ~started, started' = started,
           queued_list' = <<>>, done_list' = <<>>,
           free' = [e \in Elements |-> TRUE],
           buffer' \subseteq Elements,
           StorageReplaced
    PROVE  Places'
<1>1. \A u \in AppTasks : pc[u] = "idle"
  BY DEF MayControl
<1>2. ctlr = "null" /\ cur = NULL /\ fin = NULL
  BY <1>1 DEF Controller
<1>3. /\ cur' = NULL /\ fin' = NULL
      /\ NULL \notin Elements /\ NULL # Dangling
      /\ pc' = pc /\ ctlr' = ctlr /\ app' = buffer'
  BY <1>2 DEF StorageReplaced, Freed, NULL, Elements, Dangling
<1>4. Listed' = {} /\ ListsSound' /\ FlagsSound'
  BY EmptyRange DEF Listed, ListsSound, FlagsSound
<1>5. Held' = {}
  BY <1>3 DEF Held
<1>6. ~On'
  BY <1>1, <1>3 DEF On
<1>7. FreeFlagSound' /\ ExclusiveOwnership' /\ Refillable'
  BY <1>2, <1>3, <1>4, <1>5 DEF FreeFlagSound, ExclusiveOwnership, Refillable
<1>8. Backup'
  BY <1>6 DEF Backup, StorageReplaced, Freed, TypeOK
<1> QED BY <1>1, <1>3, <1>4, <1>5, <1>7, <1>8 DEF Places

LEMMA PlacesStep ==
    ASSUME Careless = {}, UseBackup \/ EventTasks = {},
           TypeOK, Discipline, MutexHeld, Controller, Places, [Next]_vars
    PROVE  Places'
<1>1. ASSUME NEW t \in AppTasks, NEW n \in 1 .. MaxCount, ReqbufsSetup(t, n)
      PROVE  Places'
  BY <1>1, StoragePlaces, MaxCountAssumption DEF ReqbufsSetup, SetupBuffer, Elements
<1>2. ASSUME NEW t \in AppTasks, NEW n \in 1 .. MaxCount, ReqbufsNoMemory(t, n)
      PROVE  Places'
  BY <1>2, StoragePlaces, MaxCountAssumption DEF ReqbufsNoMemory, SetupBufferFails, Elements
<1>3. ASSUME NEW t \in AppTasks, ReqbufsRelease(t)
      PROVE  Places'
  BY <1>3, StoragePlaces, MaxCountAssumption DEF ReqbufsRelease, ReleaseBuffer, Elements
<1>4. ASSUME NEW t \in AppTasks, NEW e \in Elements, Qbuf(t, e)
      PROVE  Places'
  <2>1. \A u \in AppTasks : pc[u] \notin StartPcs \cup StopPcs
    BY <1>4 DEF Qbuf, MayTransfer
  <2>2. /\ StreamTypeOK /\ ListsSound /\ FlagsSound
        /\ buffer' = buffer /\ pc' = pc /\ started' = started
        /\ cur' = cur /\ fin' = fin /\ ctlr' = ctlr /\ backup_element' = backup_element
    BY <1>4, <2>1 DEF Qbuf, TypeOK, Places, FreeFlagSound, StopPcs, memoryVars, ctlrVars
  <2>3. e \in buffer
    BY <1>4, <2>2 DEF Qbuf, Places, ListsSound
  <2>4. ListsSound' /\ FlagsSound' /\ Listed' = Listed \cup {e}
    BY <1>4, <2>2, <2>3, QueueElementSound DEF Qbuf
  <2>5. /\ app' \cup Listed' = app \cup Listed
        /\ app' \subseteq app
        /\ app' \cap Listed' = {}
    BY <1>4, <2>2, <2>3, <2>4 DEF Qbuf, FlagsSound, Places, ExclusiveOwnership
  <2>6. Held' = Held /\ On' = On
    BY <2>2 DEF Held, On
  <2>7. FreeFlagSound' /\ ExclusiveOwnership' /\ Refillable'
    BY <2>2, <2>4, <2>5, <2>6 DEF Places, FreeFlagSound, ExclusiveOwnership, Refillable
  <2>8. \A u \in AppTasks : pc'[u] \notin {"on_start", "off_reset", "off_done"}
    BY <2>1, <2>2 DEF StartPcs, StopPcs
  <2>9. UseBackup => Backup'
    <3>1. done_list' = done_list
      BY <1>4 DEF Qbuf, QueueElement, listVars
    <3> QED BY <2>2, <2>5, <2>6, <3>1 DEF Places, Backup
  <2>10. app' \subseteq buffer' /\ Held' \subseteq buffer' /\ cur' # Dangling /\ fin' # Dangling
    BY <2>2, <2>5, <2>6 DEF Places
  <2> QED BY <2>7, <2>8, <2>9, <2>10 DEF Places
<1>5. ASSUME NEW t \in AppTasks, Dqbuf(t)
      PROVE  Places'
  BY <1>5, PlacesFrame, CaptureAssumption
  DEF Dqbuf, Discipline, TypeOK, Goto, Tasks, On, StartPcs, StopPcs, RestartPcs, DqbufPcs, ControlPcs, streamVars, ctlrVars, listVars, memoryVars, MayTransfer
<1>6. ASSUME NEW t \in AppTasks, DqbufTake(t)
      PROVE  Places'
  BY <1>6, PlacesFrame, CaptureAssumption
  DEF DqbufTake, Discipline, TypeOK, Goto, Tasks, On, StartPcs, StopPcs, RestartPcs, DqbufPcs, ControlPcs, streamVars, ctlrVars, listVars, memoryVars
<1>7. ASSUME NEW t \in AppTasks, DqbufTimeout(t)
      PROVE  Places'
  BY <1>7, PlacesFrame, CaptureAssumption
  DEF DqbufTimeout, Discipline, TypeOK, Goto, Tasks, On, StartPcs, StopPcs, RestartPcs, DqbufPcs, ControlPcs, streamVars, ctlrVars, listVars, memoryVars
<1>8. ASSUME NEW t \in AppTasks, DqbufReprocess(t)
      PROVE  Places'
  BY <1>8, PlacesFrame, CaptureAssumption
  DEF DqbufReprocess, Discipline, TypeOK, Goto, Tasks, On, StartPcs, StopPcs, RestartPcs, DqbufPcs, ControlPcs, streamVars, ctlrVars, listVars, memoryVars
<1>9. ASSUME NEW t \in AppTasks, DqbufPop(t)
      PROVE  Places'
  <2>1. \A u \in AppTasks : pc[u] \notin ControlPcs
    BY <1>9 DEF DqbufPop, Discipline, DqbufPcs, Tasks, ControlPcs, StartPcs, StopPcs
  <2>2. /\ StreamTypeOK /\ ListsSound /\ FlagsSound /\ GetDoneElement
        /\ buffer' = buffer /\ started' = started
        /\ cur' = cur /\ fin' = fin /\ ctlr' = ctlr /\ backup_element' = backup_element
        /\ NULL \notin Elements
    BY <1>9, <2>1 DEF DqbufPop, TypeOK, Places, FreeFlagSound, ControlPcs, StopPcs, memoryVars, ctlrVars, NULL, Elements
  <2>3. /\ ListsSound' /\ FlagsSound'
        /\ done_list = <<>> => Listed' = Listed
        /\ done_list # <<>> => /\ Head(done_list) \in Listed
                               /\ Listed' = Listed \ {Head(done_list)}
    BY <2>2, GetDoneElementSound
  <2>4. Listed \subseteq buffer /\ buffer \subseteq Elements
    BY <2>2 DEF ListsSound, StreamTypeOK
  <2>5. app' \cup Listed' = app \cup Listed /\ app' \cap Listed' = {}
    BY <1>9, <2>2, <2>3, <2>4 DEF DqbufPop, FirstDone, Places, ExclusiveOwnership
  <2>6. \A u \in AppTasks : pc'[u] \notin ControlPcs
    BY <1>9, <2>1 DEF DqbufPop, Goto, TypeOK, Tasks, ControlPcs, StartPcs, StopPcs
  <2>7. Held' = Held /\ (On' => On)
    BY <2>2, <2>6 DEF Held, On, ControlPcs, StartPcs
  <2>8. FreeFlagSound' /\ ExclusiveOwnership' /\ Refillable'
    BY <2>2, <2>3, <2>5, <2>7 DEF Places, FreeFlagSound, ExclusiveOwnership, Refillable
  <2>9. UseBackup => Backup'
    <3>1. On /\ On'
      BY <1>9, <2>2 DEF DqbufPop, Discipline, DqbufPcs, On
    <3> QED BY <2>2, <2>5, <3>1 DEF Places, Backup
  <2>10. app' \subseteq buffer' /\ Held' \subseteq buffer' /\ cur' # Dangling /\ fin' # Dangling
    BY <2>2, <2>4, <2>5, <2>7 DEF Places
  <2> QED BY <2>6, <2>8, <2>9, <2>10 DEF Places, ControlPcs, StartPcs, StopPcs
<1>10. ASSUME NEW t \in AppTasks, StreamOn(t)
      PROVE  Places'
  <2>1. ~On
    BY <1>10 DEF StreamOn, MayControl, On
  <2>2. UseBackup => Startable
    <3>1. queued_list = <<>> => Listed = Range(done_list)
      BY EmptyRange DEF Listed
    <3> QED BY <1>10, <2>1, <3>1 DEF StreamOn, MayStart, Places, Backup, Startable
  <2>3. /\ UNCHANGED <<memoryVars, listVars, app, backup_element, cur, fin, ctlr, started>>
        /\ \A u \in AppTasks : pc[u] = "idle" /\ pc'[u] \in {"idle", "on_start"}
    BY <1>10 DEF StreamOn, MayControl, Goto, TypeOK, Tasks, streamVars, listVars, memoryVars
  <2>4. On' => On
    BY <2>3 DEF On
  <2> QED BY <2>2, <2>3, <2>4, PlacesFrame
<1>11. ASSUME NEW t \in AppTasks, StreamOnController(t)
      PROVE  Places'
  <2>1. /\ pc[t] = "on_start" /\ ~started /\ started' = started
        /\ \A u \in AppTasks \ {t} : pc[u] = "idle"
    BY <1>11 DEF StreamOnController, Discipline, StartPcs, ControlPcs, Tasks
  <2>2. ctlr = "null" /\ fin = NULL
    BY <2>1 DEF Controller
  <2>3. OnGetNewTrans \/ StartsEmpty
    BY <1>11, <2>2 DEF StreamOnController, StartController
  <2>6. fin' = fin /\ UNCHANGED <<memoryVars, app>>
    BY <1>11 DEF StreamOnController
  <2>4. FlagsSound /\ (UseBackup => queued_list # <<>>
                                   \/ backup_element \in buffer \ (app \cup Listed))
    BY <1>11, <2>1, <2>2
       DEF Places, FreeFlagSound, Startable, StreamOnController, StartController, CanStart, NewTrans
  <2>5. \A u \in AppTasks : pc'[u] \notin {"on_start", "off_reset", "off_done"}
    BY <1>11, <2>1, <2>2 DEF StreamOnController, Goto, TypeOK, Tasks
  <2> QED BY <2>2, <2>3, <2>4, <2>5, <2>6, NewTransPlaces, StartsEmptyPlaces
<1>12. ASSUME NEW t \in AppTasks, StreamOnControllerFails(t)
      PROVE  Places'
  BY <1>12, PlacesFrame, CaptureAssumption
  DEF StreamOnControllerFails, Discipline, TypeOK, Goto, Tasks, On, StartPcs, StopPcs, RestartPcs, DqbufPcs, ControlPcs, streamVars, ctlrVars, listVars, memoryVars
<1>13. ASSUME NEW t \in AppTasks, StreamOnSensor(t)
      PROVE  Places'
  BY <1>13, PlacesFrame, CaptureAssumption
  DEF StreamOnSensor, Discipline, TypeOK, Goto, Tasks, On, StartPcs, StopPcs, RestartPcs, DqbufPcs, ControlPcs, streamVars, ctlrVars, listVars, memoryVars
<1>14. ASSUME NEW t \in AppTasks, StreamOnSensorFails(t)
      PROVE  Places'
  BY <1>14, PlacesFrame, CaptureAssumption
  DEF StreamOnSensorFails, Discipline, TypeOK, Goto, Tasks, On, StartPcs, StopPcs, RestartPcs, DqbufPcs, ControlPcs, streamVars, ctlrVars, listVars, memoryVars, StopController, HaltDriver
<1>15. ASSUME NEW t \in AppTasks, StreamOnDone(t)
      PROVE  Places'
  BY <1>15, PlacesFrame, CaptureAssumption
  DEF StreamOnDone, Discipline, TypeOK, Goto, Tasks, On, StartPcs, StopPcs, RestartPcs, DqbufPcs, ControlPcs, streamVars, ctlrVars, listVars, memoryVars
<1>16. ASSUME NEW t \in AppTasks, StreamOff(t)
      PROVE  Places'
  BY <1>16, PlacesFrame, CaptureAssumption
  DEF StreamOff, Discipline, TypeOK, Goto, Tasks, On, StartPcs, StopPcs, RestartPcs, DqbufPcs, ControlPcs, streamVars, ctlrVars, listVars, memoryVars, MayStop, NoRestart
<1>17. ASSUME NEW t \in AppTasks, StreamOffController(t)
      PROVE  Places'
  BY <1>17, PlacesFrame, CaptureAssumption
  DEF StreamOffController, Discipline, TypeOK, Goto, Tasks, On, StartPcs, StopPcs, RestartPcs, DqbufPcs, ControlPcs, streamVars, ctlrVars, listVars, memoryVars, StopController, HaltDriver
<1>18. ASSUME NEW t \in AppTasks, StreamOffControllerFails(t)
      PROVE  Places'
  BY <1>18, PlacesFrame, CaptureAssumption
  DEF StreamOffControllerFails, Discipline, TypeOK, Goto, Tasks, On, StartPcs, StopPcs, RestartPcs, DqbufPcs, ControlPcs, streamVars, ctlrVars, listVars, memoryVars, StopControllerFails, HaltDriver
<1>19. ASSUME NEW t \in AppTasks, StreamOffDrain(t)
      PROVE  Places'
  BY <1>19, PlacesFrame, CaptureAssumption
  DEF StreamOffDrain, Discipline, TypeOK, Goto, Tasks, On, StartPcs, StopPcs, RestartPcs, DqbufPcs, ControlPcs, streamVars, ctlrVars, listVars, memoryVars
<1>20. ASSUME NEW t \in AppTasks, StreamOffLists(t)
      PROVE  Places'
  <2>1. /\ pc[t] = "off_lists" /\ pc' = [pc EXCEPT ![t] = "off_reset"]
        /\ \A u \in AppTasks \ {t} : pc[u] = "idle"
    BY <1>20 DEF StreamOffLists, Discipline, StopPcs, ControlPcs, Tasks, Goto
  <2>2. pc'[t] = "off_reset" /\ \A u \in AppTasks \ {t} : pc'[u] = "idle"
    BY <2>1 DEF TypeOK, Tasks
  <2>3. /\ queued_list' = <<>> /\ done_list' = <<>>
        /\ started' = started /\ buffer' = buffer /\ app' = app
        /\ cur' = cur /\ fin' = fin /\ ctlr' = ctlr /\ backup_element' = backup_element
    BY <1>20 DEF StreamOffLists, ResetLists, memoryVars, ctlrVars
  <2>4. Listed' = {} /\ ListsSound'
    BY <2>3, EmptyRange DEF Listed, ListsSound
  <2>5. Held' = Held /\ (On' => On)
    BY <2>1, <2>2, <2>3 DEF Held, On
  <2>6. FreeFlagSound' /\ ExclusiveOwnership' /\ Refillable'
    BY <2>2, <2>3, <2>4, <2>5 DEF Places, FreeFlagSound, ExclusiveOwnership, Refillable
  <2>7. UseBackup => Backup'
    <3>1. On /\ On'
      BY <2>1, <2>3 DEF Discipline, StopPcs, On
    <3> QED BY <2>3, <2>4, <3>1 DEF Places, Backup
  <2> QED BY <2>2, <2>3, <2>4, <2>5, <2>6, <2>7 DEF Places
<1>21. ASSUME NEW t \in AppTasks, StreamOffReset(t)
      PROVE  Places'
  <2>1. /\ pc[t] = "off_reset" /\ pc' = [pc EXCEPT ![t] = "off_done"]
        /\ \A u \in AppTasks \ {t} : pc[u] = "idle"
    BY <1>21 DEF StreamOffReset, Discipline, StopPcs, ControlPcs, Tasks, Goto
  <2>2. pc'[t] = "off_done" /\ \A u \in AppTasks \ {t} : pc'[u] = "idle"
    BY <2>1 DEF TypeOK, Tasks
  <2>3. /\ free' = [e \in Elements |-> TRUE]
        /\ queued_list' = queued_list /\ done_list' = done_list
        /\ started' = started /\ buffer' = buffer /\ app' = app
        /\ cur' = cur /\ fin' = fin /\ ctlr' = ctlr /\ backup_element' = backup_element
    BY <1>21 DEF StreamOffReset, BufferReset, memoryVars, ctlrVars
  <2>4. Listed' = {} /\ Listed = {} /\ (ListsSound => ListsSound')
    BY <2>1, <2>3 DEF Places, Listed, ListsSound
  <2>5. FlagsSound'
    BY <2>3, <2>4 DEF FlagsSound, TypeOK, StreamTypeOK
  <2>6. Held' = Held /\ (On' => On)
    BY <2>1, <2>2, <2>3 DEF Held, On
  <2>7. FreeFlagSound' /\ ExclusiveOwnership' /\ Refillable'
    BY <2>3, <2>4, <2>5, <2>6 DEF Places, FreeFlagSound, ExclusiveOwnership, Refillable
  <2>8. UseBackup => Backup'
    <3>1. On /\ On'
      BY <2>1, <2>3 DEF Discipline, StopPcs, On
    <3> QED BY <2>3, <2>4, <3>1 DEF Places, Backup
  <2> QED BY <2>2, <2>3, <2>4, <2>6, <2>7, <2>8 DEF Places
<1>22. ASSUME NEW t \in AppTasks, StreamOffDone(t)
      PROVE  Places'
  <2>1. /\ pc[t] = "off_done" /\ pc' = [pc EXCEPT ![t] = "idle"]
        /\ \A u \in AppTasks \ {t} : pc[u] = "idle"
    BY <1>22 DEF StreamOffDone, Discipline, StopPcs, ControlPcs, Tasks, Goto
  <2>2. \A u \in AppTasks : pc'[u] = "idle"
    BY <2>1 DEF TypeOK, Tasks
  <2>3. /\ UNCHANGED <<queued_list, done_list, free, buffer, cur, fin, ctlr, backup_element>>
        /\ app' = buffer /\ ~started'
    BY <1>22 DEF StreamOffDone, listVars, memoryVars, ctlrVars
  <2>4. Listed' = {} /\ (ListsSound => ListsSound') /\ (FlagsSound => FlagsSound')
    BY <2>1, <2>3 DEF Places, Listed, ListsSound, FlagsSound
  <2>5. ctlr = "null" /\ Held = {} /\ Held' = Held
    BY <2>1, <2>3 DEF Controller, Held, NULL, Elements
  <2>6. FreeFlagSound'
    BY <2>1, <2>4 DEF Places, FreeFlagSound
  <2>7. ExclusiveOwnership' /\ Refillable'
    BY <2>3, <2>4, <2>5 DEF Places, ExclusiveOwnership, Refillable, Controller, NULL, Elements
  <2>8. ~On'
    BY <2>2, <2>3 DEF On
  <2>9. UseBackup => Backup'
    <3>1. On
      BY <2>1 DEF Discipline, StopPcs, On
    <3>2. Range(done_list') = {}
      BY <2>4 DEF Listed
    <3> QED BY <2>3, <2>8, <3>1, <3>2 DEF Places, Backup
  <2> QED BY <2>2, <2>3, <2>5, <2>6, <2>7, <2>9 DEF Places
<1>23. ASSUME NEW r \in EventTasks, Restart(r)
      PROVE  Places'
  BY <1>23, PlacesFrame, CaptureAssumption
  DEF Restart, Discipline, TypeOK, Goto, Tasks, On, StartPcs, StopPcs, RestartPcs, DqbufPcs, ControlPcs, streamVars, ctlrVars, listVars, memoryVars
<1>24. ASSUME NEW r \in EventTasks, RestartStop(r)
      PROVE  Places'
  BY <1>24, PlacesFrame, CaptureAssumption
  DEF RestartStop, Discipline, TypeOK, Goto, Tasks, On, StartPcs, StopPcs, RestartPcs, DqbufPcs, ControlPcs, streamVars, ctlrVars, listVars, memoryVars, StopController, HaltDriver
<1>25. ASSUME NEW r \in EventTasks, RestartStopFails(r)
      PROVE  Places'
  BY <1>25, PlacesFrame, CaptureAssumption
  DEF RestartStopFails, Discipline, TypeOK, Goto, Tasks, On, StartPcs, StopPcs, RestartPcs, DqbufPcs, ControlPcs, streamVars, ctlrVars, listVars, memoryVars, StopControllerFails, HaltDriver
<1>26. ASSUME NEW r \in EventTasks, RestartSkip(r)
      PROVE  Places'
  <2>1. /\ started /\ UseBackup
        /\ \A u \in AppTasks : pc[u] \notin ControlPcs
        /\ \A u \in AppTasks : pc'[u] = pc[u]
    BY <1>26, CaptureAssumption
    DEF RestartSkip, Discipline, RestartPcs, Tasks, Goto, TypeOK
  <2>2. /\ StreamTypeOK /\ ListsSound /\ FlagsSound /\ SkipBuffer(backup_element)
        /\ UNCHANGED <<started, buffer, cur, fin, ctlr, app>>
        /\ backup_element' = NULL
        /\ \A u \in AppTasks : pc'[u] \notin {"on_start", "off_reset", "off_done"}
    BY <1>26, <2>1 DEF RestartSkip, TypeOK, Places, FreeFlagSound, ControlPcs, StartPcs, StopPcs, memoryVars
  <2>3. ListsSound' /\ FlagsSound' /\ Listed' = Listed \cup ({backup_element} \cap buffer)
    BY <2>2, SkipBufferSound
  <2>4. ctlr = "null" /\ Held = {} /\ Held' = {}
    BY <1>26, <2>2 DEF RestartSkip, Controller, Held, NULL, Elements
  <2>5. app \cap Listed' = {}
    BY <2>1, <2>2, <2>3 DEF Places, Backup, ExclusiveOwnership, On, StreamTypeOK, NULL, Elements
  <2>6. FreeFlagSound' /\ ExclusiveOwnership' /\ Refillable'
    BY <2>2, <2>3, <2>4, <2>5 DEF FreeFlagSound, ExclusiveOwnership, Refillable, Controller, NULL, Elements
  <2>7. Backup'
    BY <2>2 DEF Backup
  <2> QED BY <2>2, <2>4, <2>6, <2>7 DEF Places
<1>27. ASSUME NEW r \in EventTasks, RestartStart(r)
      PROVE  Places'
  <2>1. /\ started /\ UseBackup
        /\ \A u \in AppTasks : pc[u] \notin ControlPcs
        /\ \A u \in AppTasks : pc'[u] = pc[u]
    BY <1>27, CaptureAssumption
    DEF RestartStart, Discipline, RestartPcs, Tasks, Goto, TypeOK
  <2>2. ctlr = "null" /\ fin = NULL
    BY <1>27 DEF RestartStart, Controller
  <2>3. OnGetNewTrans /\ CanStart /\ fin' = NULL /\ UNCHANGED <<memoryVars, app>>
    BY <1>27, <2>1, <2>2 DEF RestartStart, StartController, StartsEmpty
  <2>4. FlagsSound
    BY <2>1 DEF Places, FreeFlagSound, ControlPcs, StopPcs
  <2>5. queued_list # <<>> \/ backup_element \in buffer \ (app \cup Listed)
    BY <2>1, <2>3 DEF CanStart, NewTrans, Places, Backup, On
  <2>6. \A u \in AppTasks : pc'[u] \notin {"on_start", "off_reset", "off_done"}
    BY <2>1 DEF ControlPcs, StartPcs, StopPcs
  <2> QED BY <2>3, <2>4, <2>5, <2>6, NewTransPlaces
<1>28. ASSUME NEW r \in EventTasks, RestartStartFails(r)
      PROVE  Places'
  BY <1>28, PlacesFrame, CaptureAssumption
  DEF RestartStartFails, Discipline, TypeOK, Goto, Tasks, On, StartPcs, StopPcs, RestartPcs, DqbufPcs, ControlPcs, streamVars, ctlrVars, listVars, memoryVars
<1>29. ASSUME NEW r \in EventTasks, RestartSensor(r)
      PROVE  Places'
  BY <1>29, PlacesFrame, CaptureAssumption
  DEF RestartSensor, Discipline, TypeOK, Goto, Tasks, On, StartPcs, StopPcs, RestartPcs, DqbufPcs, ControlPcs, streamVars, ctlrVars, listVars, memoryVars
<1>30. ASSUME NEW r \in EventTasks, RestartSensorFails(r)
      PROVE  Places'
  BY <1>30, PlacesFrame, CaptureAssumption
  DEF RestartSensorFails, Discipline, TypeOK, Goto, Tasks, On, StartPcs, StopPcs, RestartPcs, DqbufPcs, ControlPcs, streamVars, ctlrVars, listVars, memoryVars, StopController, HaltDriver
<1>31. CASE IsrGetFirst
  <2>1. ctlr = "running" /\ pc' = pc
    BY <1>31 DEF IsrGetFirst, Controller
  <2>2. \A u \in AppTasks : pc[u] \notin {"on_start", "off_lists", "off_reset", "off_done"}
    BY <2>1, RunningPcs
  <2>3. FlagsSound
    BY <2>2 DEF Places, FreeFlagSound
  <2>4. UseBackup => backup_element \in buffer \ (app \cup Listed)
    BY <2>1 DEF Places, Refillable, ExclusiveOwnership, Held, TypeOK, StreamTypeOK
  <2>5. OnGetNewTrans /\ fin' \in {NULL, cur} /\ UNCHANGED <<memoryVars, app>>
    BY <1>31 DEF IsrGetFirst, Controller
  <2> QED BY <2>1, <2>2, <2>3, <2>4, <2>5, NewTransPlaces
<1>32. CASE IsrFinishFirst
  BY <1>32, PlacesFrame DEF IsrFinishFirst, streamVars, listVars, memoryVars, On, Controller
<1>33. CASE IsrGetLast
  <2>1. ctlr = "running" /\ pc' = pc
    BY <1>33 DEF IsrGetLast, Controller
  <2>2. \A u \in AppTasks : pc[u] \notin {"on_start", "off_lists", "off_reset", "off_done"}
    BY <2>1, RunningPcs
  <2>3. FlagsSound
    BY <2>2 DEF Places, FreeFlagSound
  <2>4. UseBackup => backup_element \in buffer \ (app \cup Listed)
    BY <2>1 DEF Places, Refillable, ExclusiveOwnership, Held, TypeOK, StreamTypeOK
  <2>5. OnGetNewTrans /\ fin' \in {NULL, cur} /\ UNCHANGED <<memoryVars, app>>
    BY <1>33 DEF IsrGetLast, Controller
  <2> QED BY <2>1, <2>2, <2>3, <2>4, <2>5, NewTransPlaces
<1>34. CASE IsrDrop
  BY <1>34, PlacesFrame DEF IsrDrop, streamVars, listVars, memoryVars, On
<1>35. CASE IsrDone
  BY <1>35, GiveBackPlaces DEF IsrDone
<1>36. CASE IsrGive
  BY <1>36, PlacesFrame DEF IsrGive, streamVars, listVars, memoryVars, On
<1>37. CASE IsrSkip
  BY <1>37, GiveBackPlaces DEF IsrSkip
<1>38. CASE UNCHANGED vars
  BY <1>38, PlacesFrame DEF vars, streamVars, ctlrVars, listVars, memoryVars, On
<1> QED
  BY <1>1, <1>2, <1>3, <1>4, <1>5, <1>6, <1>7, <1>8, <1>9, <1>10, <1>11, <1>12, <1>13, <1>14, <1>15, <1>16, <1>17, <1>18, <1>19, <1>20, <1>21, <1>22, <1>23, <1>24, <1>25, <1>26, <1>27, <1>28, <1>29, <1>30, <1>31, <1>32, <1>33, <1>34, <1>35, <1>36, <1>37, <1>38
     DEF Next, AppNext, ReqbufsNext, TransferNext, StreamOnNext, StreamOffNext, RestartNext, IsrNext

-------------------------------------------------------------------------------
(* The theorems.  They are about an application that keeps control ioctls apart *)
(* from the others (Careless = {}); what happens without that is for the model  *)
(* checker to show.                                                             *)

IInv == TypeOK /\ Discipline /\ MutexHeld /\ Controller

LEMMA IInvCorrect ==
    ASSUME Careless = {}
    PROVE  Spec => []IInv
<1>1. Init => IInv
  BY TypeInit, DisciplineInit, ControllerInit DEF IInv
<1>2. IInv /\ [Next]_vars => IInv'
  BY TypeStep, DisciplineStep, MutexStep, ControllerStep DEF IInv
<1> QED BY <1>1, <1>2, PTL DEF Spec

LEMMA PlacesCorrect ==
    ASSUME Careless = {}, UseBackup \/ EventTasks = {}
    PROVE  Spec => []Places
<1>1. Init => Places
  BY PlacesInit
<1>2. IInv /\ Places /\ [Next]_vars => Places'
  BY PlacesStep DEF IInv
<1> QED BY <1>1, <1>2, IInvCorrect, PTL DEF Spec

\* The free flags tell what is in the lists, for any number of tasks, buffers and
\* skipped frames, and whatever allocations, starts, stops and restarts fail.  A
\* stream that is restarted needs the backup element.
THEOREM FreeFlags ==
    ASSUME Careless = {}, UseBackup \/ EventTasks = {}
    PROVE  Spec => []FreeFlagSound
<1>1. Places => FreeFlagSound
  BY DEF Places
<1> QED BY <1>1, PlacesCorrect, PTL

\* Under the same conditions no buffer is with the application and in a list or with
\* the controller at the same time, and none is in a list while it is being filled.
THEOREM Ownership ==
    ASSUME Careless = {}, UseBackup \/ EventTasks = {}
    PROVE  Spec => []ExclusiveOwnership
<1>1. Places => ExclusiveOwnership
  BY DEF Places
<1> QED BY <1>1, PlacesCorrect, PTL

\* A stream whose controller has no buffer of its own keeps one in reserve for it, which
\* is not the application's, in no list, and in the storage, through all restarts: for an
\* application that does not let its control ioctls overlap others and turns the stream on
\* with a buffer queued since it got all of them back (MayStart, part of Careless = {}).
\* The code does not enforce the second rule, and without it the statement is false: a
\* STREAMON with an empty queue after STREAMOFF or REQBUFS reserves the application's
\* buffer, or freed storage.
THEOREM Reserved ==
    ASSUME Careless = {}, UseBackup \/ EventTasks = {}
    PROVE  Spec => []ReservedForDriver
<1>1. TypeOK /\ Places => ReservedForDriver
  BY DEF TypeOK, StreamTypeOK, Places, Refillable, ExclusiveOwnership, Held, ReservedForDriver
<1> QED BY <1>1, TypeCorrect, PlacesCorrect, PTL

LEMMA StorageStep ==
    ASSUME Controller, [Next]_vars
    PROVE  buffer' # buffer => ctlr = "null"
<1>1. ASSUME NEW t \in AppTasks, NEW n \in 1 .. MaxCount, ReqbufsSetup(t, n)
      PROVE  buffer' # buffer => ctlr = "null"
  BY <1>1 DEF ReqbufsSetup, Controller, MayControl, SetupBuffer
<1>2. ASSUME NEW t \in AppTasks, NEW n \in 1 .. MaxCount, ReqbufsNoMemory(t, n)
      PROVE  buffer' # buffer => ctlr = "null"
  BY <1>2 DEF ReqbufsNoMemory, Controller, MayControl, SetupBufferFails
<1>3. ASSUME NEW t \in AppTasks, ReqbufsRelease(t)
      PROVE  buffer' # buffer => ctlr = "null"
  BY <1>3 DEF ReqbufsRelease, Controller, MayControl, ReleaseBuffer
<1>4. ASSUME NEW t \in AppTasks, NEW e \in Elements, Qbuf(t, e)
      PROVE  buffer' # buffer => ctlr = "null"
  BY <1>4 DEF Qbuf, streamVars, memoryVars
<1>5. ASSUME NEW t \in AppTasks, Dqbuf(t)
      PROVE  buffer' # buffer => ctlr = "null"
  BY <1>5 DEF Dqbuf, streamVars, memoryVars
<1>6. ASSUME NEW t \in AppTasks, DqbufTake(t)
      PROVE  buffer' # buffer => ctlr = "null"
  BY <1>6 DEF DqbufTake, streamVars, memoryVars
<1>7. ASSUME NEW t \in AppTasks, DqbufTimeout(t)
      PROVE  buffer' # buffer => ctlr = "null"
  BY <1>7 DEF DqbufTimeout, streamVars, memoryVars
<1>8. ASSUME NEW t \in AppTasks, DqbufReprocess(t)
      PROVE  buffer' # buffer => ctlr = "null"
  BY <1>8 DEF DqbufReprocess, streamVars, memoryVars
<1>9. ASSUME NEW t \in AppTasks, DqbufPop(t)
      PROVE  buffer' # buffer => ctlr = "null"
  BY <1>9 DEF DqbufPop, streamVars, memoryVars
<1>10. ASSUME NEW t \in AppTasks, StreamOn(t)
      PROVE  buffer' # buffer => ctlr = "null"
  BY <1>10 DEF StreamOn, streamVars, memoryVars
<1>11. ASSUME NEW t \in AppTasks, StreamOnController(t)
      PROVE  buffer' # buffer => ctlr = "null"
  BY <1>11 DEF StreamOnController, streamVars, memoryVars
<1>12. ASSUME NEW t \in AppTasks, StreamOnControllerFails(t)
      PROVE  buffer' # buffer => ctlr = "null"
  BY <1>12 DEF StreamOnControllerFails, streamVars, memoryVars
<1>13. ASSUME NEW t \in AppTasks, StreamOnSensor(t)
      PROVE  buffer' # buffer => ctlr = "null"
  BY <1>13 DEF StreamOnSensor, streamVars, memoryVars
<1>14. ASSUME NEW t \in AppTasks, StreamOnSensorFails(t)
      PROVE  buffer' # buffer => ctlr = "null"
  BY <1>14 DEF StreamOnSensorFails, streamVars, memoryVars
<1>15. ASSUME NEW t \in AppTasks, StreamOnDone(t)
      PROVE  buffer' # buffer => ctlr = "null"
  BY <1>15 DEF StreamOnDone, streamVars, memoryVars
<1>16. ASSUME NEW t \in AppTasks, StreamOff(t)
      PROVE  buffer' # buffer => ctlr = "null"
  BY <1>16 DEF StreamOff, streamVars, memoryVars
<1>17. ASSUME NEW t \in AppTasks, StreamOffController(t)
      PROVE  buffer' # buffer => ctlr = "null"
  BY <1>17 DEF StreamOffController, streamVars, memoryVars
<1>18. ASSUME NEW t \in AppTasks, StreamOffControllerFails(t)
      PROVE  buffer' # buffer => ctlr = "null"
  BY <1>18 DEF StreamOffControllerFails, streamVars, memoryVars
<1>19. ASSUME NEW t \in AppTasks, StreamOffDrain(t)
      PROVE  buffer' # buffer => ctlr = "null"
  BY <1>19 DEF StreamOffDrain, streamVars, memoryVars
<1>20. ASSUME NEW t \in AppTasks, StreamOffLists(t)
      PROVE  buffer' # buffer => ctlr = "null"
  BY <1>20 DEF StreamOffLists, streamVars, memoryVars
<1>21. ASSUME NEW t \in AppTasks, StreamOffReset(t)
      PROVE  buffer' # buffer => ctlr = "null"
  BY <1>21 DEF StreamOffReset, streamVars, memoryVars
<1>22. ASSUME NEW t \in AppTasks, StreamOffDone(t)
      PROVE  buffer' # buffer => ctlr = "null"
  BY <1>22 DEF StreamOffDone, streamVars, memoryVars
<1>23. ASSUME NEW r \in EventTasks, Restart(r)
      PROVE  buffer' # buffer => ctlr = "null"
  BY <1>23 DEF Restart, streamVars, memoryVars
<1>24. ASSUME NEW r \in EventTasks, RestartStop(r)
      PROVE  buffer' # buffer => ctlr = "null"
  BY <1>24 DEF RestartStop, streamVars, memoryVars
<1>25. ASSUME NEW r \in EventTasks, RestartStopFails(r)
      PROVE  buffer' # buffer => ctlr = "null"
  BY <1>25 DEF RestartStopFails, streamVars, memoryVars
<1>26. ASSUME NEW r \in EventTasks, RestartSkip(r)
      PROVE  buffer' # buffer => ctlr = "null"
  BY <1>26 DEF RestartSkip, streamVars, memoryVars
<1>27. ASSUME NEW r \in EventTasks, RestartStart(r)
      PROVE  buffer' # buffer => ctlr = "null"
  BY <1>27 DEF RestartStart, streamVars, memoryVars
<1>28. ASSUME NEW r \in EventTasks, RestartStartFails(r)
      PROVE  buffer' # buffer => ctlr = "null"
  BY <1>28 DEF RestartStartFails, streamVars, memoryVars
<1>29. ASSUME NEW r \in EventTasks, RestartSensor(r)
      PROVE  buffer' # buffer => ctlr = "null"
  BY <1>29 DEF RestartSensor, streamVars, memoryVars
<1>30. ASSUME NEW r \in EventTasks, RestartSensorFails(r)
      PROVE  buffer' # buffer => ctlr = "null"
  BY <1>30 DEF RestartSensorFails, streamVars, memoryVars
<1>31. CASE IsrGetFirst
  BY <1>31 DEF IsrGetFirst, streamVars, memoryVars
<1>32. CASE IsrFinishFirst
  BY <1>32 DEF IsrFinishFirst, streamVars, memoryVars
<1>33. CASE IsrGetLast
  BY <1>33 DEF IsrGetLast, streamVars, memoryVars
<1>34. CASE IsrDrop
  BY <1>34 DEF IsrDrop, streamVars, memoryVars
<1>35. CASE IsrDone
  BY <1>35 DEF IsrDone, streamVars, memoryVars
<1>36. CASE IsrGive
  BY <1>36 DEF IsrGive, streamVars, memoryVars
<1>37. CASE IsrSkip
  BY <1>37 DEF IsrSkip, streamVars, memoryVars
<1>38. CASE UNCHANGED vars
  BY <1>38 DEF vars, streamVars, memoryVars
<1> QED
  BY <1>1, <1>2, <1>3, <1>4, <1>5, <1>6, <1>7, <1>8, <1>9, <1>10, <1>11, <1>12, <1>13, <1>14, <1>15, <1>16, <1>17, <1>18, <1>19, <1>20, <1>21, <1>22, <1>23, <1>24, <1>25, <1>26, <1>27, <1>28, <1>29, <1>30, <1>31, <1>32, <1>33, <1>34, <1>35, <1>36, <1>37, <1>38
     DEF Next, AppNext, ReqbufsNext, TransferNext, StreamOnNext, StreamOffNext, RestartNext, IsrNext

\* The storage of the buffers is replaced or freed only when no controller exists,
\* with a backup element or without, through every failure and every restart.
THEOREM StorageSafe ==
    ASSUME Careless = {}
    PROVE  Spec => StorageOutlivesController
<1>1. IInv /\ [Next]_vars => [buffer' # buffer => ctlr = "null"]_vars
  BY StorageStep DEF IInv
<1> QED BY <1>1, IInvCorrect, PTL DEF Spec, StorageOutlivesController

-------------------------------------------------------------------------------
(* The semaphore counts the frames in the done list. *)

(* The storage, its semaphore and the count of both. *)
Storage == buffer # {} => buffer = 0 .. count - 1 /\ ready_sem # NULL

(* The tasks in VIDIOC_DQBUF that have taken a unit of the semaphore and no element yet. *)
Takers == {t \in AppTasks : pc[t] \in {"took", "cooked"}}

Units == IF ready_sem = NULL THEN 0 ELSE ready_sem

Wakeups ==
    /\ Storage
    /\ \A t \in AppTasks : pc[t] = "cooked" => Reprocess
    /\ \A t \in AppTasks : pc[t] = "off_lists" => ready_sem = 0
    /\ \A t \in AppTasks : pc[t] \in {"off_reset", "off_done"} => done_list = <<>>
    /\ (\A t \in AppTasks : pc[t] # "off_lists") =>
           Len(done_list) = Units + (IF isr = "give" THEN 1 ELSE 0) + Cardinality(Takers)

LEMMA TakersFinite == IsFiniteSet(Takers) /\ Cardinality(Takers) \in Nat
BY CaptureAssumption, FS_Subset, FS_CardinalityType DEF Takers

LEMMA UnitsType == TypeOK => Units \in Nat
BY DEF TypeOK, StreamTypeOK, Units

LEMMA WakeupsInit == Init => Wakeups
<1> SUFFICES ASSUME Init PROVE Wakeups
  OBVIOUS
<1>1. Takers = {} /\ Cardinality(Takers) = 0
  BY FS_EmptySet DEF Init, Takers, Tasks
<1>2. Units = 0 /\ Len(done_list) = 0 /\ isr = "idle"
  BY DEF Init, StreamInit, Units
<1>3. Storage
  BY DEF Init, StreamInit, Storage
<1> QED BY <1>1, <1>2, <1>3 DEF Init, Wakeups, Tasks

\* The elements of a list without repetition are no more than the buffers.
LEMMA DoneListBounded ==
    ASSUME TypeOK, ListsSound, Storage
    PROVE  /\ Len(done_list) <= count
           /\ done_list # <<>> => ready_sem # NULL
<1>1. /\ done_list \in Seq(Elements) /\ Len(done_list) \in Nat
      /\ DOMAIN done_list = 1 .. Len(done_list)
      /\ IsInjective(done_list)
      /\ \A i \in 1 .. Len(done_list) : done_list[i] \in buffer
      /\ count \in Nat
  BY LenProperties DEF TypeOK, StreamTypeOK, ListTypeOK, ListsSound, Listed, Range
<1>2. CASE done_list = <<>>
  BY <1>1, <1>2
<1>3. CASE done_list # <<>>
  <2>1. Len(done_list) > 0
    BY <1>1, <1>3, EmptySeq
  <2>2. buffer # {} /\ buffer = 0 .. count - 1 /\ ready_sem # NULL
    BY <1>1, <2>1 DEF Storage
  <2>3. count > 0
    BY <1>1, <2>2
  <2>4. IsFiniteSet(buffer) /\ Cardinality(buffer) = count
    <3>1. 0 \in Int /\ count - 1 \in Int /\ ~(0 > count - 1) /\ (count - 1) - 0 + 1 = count
      BY <1>1, <2>3
    <3> QED BY <2>2, <3>1, FS_Interval
  <2> DEFINE places == 1 .. Len(done_list)
  <2>5. IsFiniteSet(places) /\ Cardinality(places) = Len(done_list)
    <3>1. 1 \in Int /\ Len(done_list) \in Int /\ ~(1 > Len(done_list)) /\ Len(done_list) - 1 + 1 = Len(done_list)
      BY <1>1, <2>1
    <3> QED BY <3>1, FS_Interval
  <2>6. done_list \in [places -> buffer]
    BY <1>1
  <2>7. done_list \in Injection(places, buffer)
    BY <1>1, <2>6 DEF Injection, IsInjective
  <2> HIDE DEF places
  <2>8. Cardinality(places) <= Cardinality(buffer)
    BY <2>4, <2>5, <2>7, FS_Injection
  <2> QED BY <2>2, <2>4, <2>5, <2>8
<1> QED BY <1>2, <1>3

\* Steps that neither take a unit nor fill or empty the done list.
LEMMA WakeupsFrame ==
    ASSUME Wakeups,
           UNCHANGED <<done_list, ready_sem, count, buffer>>,
           isr' = "give" <=> isr = "give",
           \A t \in AppTasks :
               /\ pc'[t] \in {"took", "cooked"} <=> pc[t] \in {"took", "cooked"}
               /\ pc'[t] = "cooked" => pc[t] = "cooked" \/ Reprocess
               /\ pc'[t] = "off_lists" <=> pc[t] = "off_lists"
               /\ pc'[t] \in {"off_reset", "off_done"} => pc[t] \in {"off_reset", "off_done"}
    PROVE  Wakeups'
<1>1. Takers' = Takers
  BY DEF Takers
<1>2. Storage' /\ Units' = Units
  BY DEF Wakeups, Storage, Units
<1>3. (\A t \in AppTasks : pc'[t] # "off_lists") =>
          Len(done_list') = Units' + (IF isr' = "give" THEN 1 ELSE 0) + Cardinality(Takers')
  BY <1>1, <1>2 DEF Wakeups
<1> QED BY <1>2, <1>3 DEF Wakeups

\* A request for buffers finds every task idle and leaves no frame behind.
LEMMA WakeupsStorage ==
    ASSUME NEW t \in AppTasks,
           Controller, MayControl(t), ~started, StorageReplaced,
           done_list' = <<>>,
           \/ buffer' = {} /\ ready_sem' = NULL
           \/ buffer' = 0 .. count' - 1 /\ ready_sem' = 0
    PROVE  Wakeups'
<1>1. \A u \in AppTasks : pc[u] = "idle" /\ pc'[u] = "idle"
  BY DEF MayControl, StorageReplaced
<1>2. isr' # "give"
  BY <1>1 DEF Controller, StorageReplaced
<1>3. Takers' = {} /\ Cardinality(Takers') = 0
  BY <1>1, FS_EmptySet DEF Takers
<1>4. Storage' /\ Units' = 0
  BY DEF Storage, Units, NULL
<1>5. Len(done_list') = Units' + (IF isr' = "give" THEN 1 ELSE 0) + Cardinality(Takers')
  BY <1>2, <1>3, <1>4
<1> QED BY <1>1, <1>4, <1>5 DEF Wakeups

LEMMA WakeupsStep ==
    ASSUME Careless = {}, TypeOK, Discipline, Controller, Places, Wakeups, [Next]_vars
    PROVE  Wakeups'
<1>1. ASSUME NEW t \in AppTasks, NEW n \in 1 .. MaxCount, ReqbufsSetup(t, n)
      PROVE  Wakeups'
  BY <1>1, WakeupsStorage DEF ReqbufsSetup, SetupBuffer
<1>2. ASSUME NEW t \in AppTasks, NEW n \in 1 .. MaxCount, ReqbufsNoMemory(t, n)
      PROVE  Wakeups'
  BY <1>2, WakeupsStorage DEF ReqbufsNoMemory, SetupBufferFails
<1>3. ASSUME NEW t \in AppTasks, ReqbufsRelease(t)
      PROVE  Wakeups'
  BY <1>3, WakeupsStorage DEF ReqbufsRelease, ReleaseBuffer
<1>4. ASSUME NEW t \in AppTasks, NEW e \in Elements, Qbuf(t, e)
      PROVE  Wakeups'
  BY <1>4, WakeupsFrame
     DEF Qbuf, TypeOK, Tasks, ctlrVars, memoryVars, listVars, QueueElement
<1>5. ASSUME NEW t \in AppTasks, Dqbuf(t)
      PROVE  Wakeups'
  BY <1>5, WakeupsFrame DEF Dqbuf, TypeOK, Tasks, Goto, ctlrVars, streamVars, MayTransfer
<1>6. ASSUME NEW t \in AppTasks, DqbufTake(t)
      PROVE  Wakeups'
  <2>1. Takers' = Takers \cup {t} /\ t \notin Takers
    BY <1>6 DEF DqbufTake, Takers, Goto, TypeOK, Tasks
  <2>2. Cardinality(Takers') = Cardinality(Takers) + 1
    BY <2>1, TakersFinite, FS_AddElement
  <2>3. ready_sem \in Nat /\ ready_sem' = ready_sem - 1 /\ ready_sem' \in Nat
    BY <1>6 DEF DqbufTake, TakeReady, TypeOK, StreamTypeOK, NULL
  <2>4. Units' = Units - 1
    BY <2>3 DEF Units, NULL
  <2>5. \A u \in AppTasks : pc[u] \notin ControlPcs
    BY <1>6 DEF DqbufTake, Discipline, Tasks, ControlPcs, StartPcs, StopPcs
  <2>6. /\ \A u \in AppTasks : pc'[u] = pc[u] \/ pc'[u] = "took"
        /\ UNCHANGED <<done_list, count, buffer, isr>>
    BY <1>6 DEF DqbufTake, Goto, TypeOK, Tasks, memoryVars, listVars, ctlrVars
  <2>7. Storage'
    BY <2>3, <2>6 DEF Wakeups, Storage, NULL
  <2>8. Len(done_list) = Units + (IF isr = "give" THEN 1 ELSE 0) + Cardinality(Takers)
    BY <2>5 DEF Wakeups, ControlPcs, StopPcs
  <2>9. Cardinality(Takers) \in Nat /\ Units \in Nat
    BY TakersFinite, UnitsType
  <2>10. Len(done_list') = Units' + (IF isr' = "give" THEN 1 ELSE 0) + Cardinality(Takers')
    BY <2>2, <2>4, <2>6, <2>8, <2>9
  <2> QED BY <2>5, <2>6, <2>7, <2>10 DEF Wakeups, ControlPcs, StopPcs
<1>7. ASSUME NEW t \in AppTasks, DqbufTimeout(t)
      PROVE  Wakeups'
  BY <1>7, WakeupsFrame DEF DqbufTimeout, TypeOK, Tasks, Goto, ctlrVars, streamVars
<1>8. ASSUME NEW t \in AppTasks, DqbufReprocess(t)
      PROVE  Wakeups'
  BY <1>8, WakeupsFrame DEF DqbufReprocess, TypeOK, Tasks, Goto, ctlrVars, streamVars
<1>9. ASSUME NEW t \in AppTasks, DqbufPop(t)
      PROVE  Wakeups'
  <2>1. t \in Takers /\ Takers' = Takers \ {t}
    BY <1>9 DEF DqbufPop, Takers, Goto, TypeOK, Tasks
  <2>2. Cardinality(Takers') = Cardinality(Takers) - 1 /\ Cardinality(Takers') \in Nat
    BY <2>1, TakersFinite, FS_RemoveElement, FS_CardinalityType
  <2>3. \A u \in AppTasks : pc[u] \notin ControlPcs
    BY <1>9 DEF DqbufPop, Discipline, Tasks, ControlPcs, StartPcs, StopPcs
  <2>4. Len(done_list) = Units + (IF isr = "give" THEN 1 ELSE 0) + Cardinality(Takers)
    BY <2>3 DEF Wakeups, ControlPcs, StopPcs
  <2>5. Cardinality(Takers) \in Nat /\ Units \in Nat
    BY TakersFinite, UnitsType
  <2>6. done_list # <<>> /\ done_list \in Seq(Elements)
    BY <2>2, <2>4, <2>5 DEF TypeOK, StreamTypeOK, ListTypeOK
  <2>7. done_list' = Tail(done_list)
    BY <1>9, <2>6 DEF DqbufPop, GetDoneElement
  <2>8. Len(done_list') = Len(done_list) - 1
    BY <2>6, <2>7, HeadTailProperties
  <2>9. /\ \A u \in AppTasks : pc'[u] = pc[u] \/ pc'[u] = "idle"
        /\ UNCHANGED <<ready_sem, count, buffer, isr>>
    BY <1>9 DEF DqbufPop, Goto, TypeOK, Tasks, memoryVars, ctlrVars
  <2>10. Storage' /\ Units' = Units
    BY <2>9 DEF Wakeups, Storage, Units
  <2>11. Len(done_list') = Units' + (IF isr' = "give" THEN 1 ELSE 0) + Cardinality(Takers')
    BY <2>2, <2>4, <2>5, <2>8, <2>9, <2>10
  <2> QED BY <2>3, <2>9, <2>10, <2>11 DEF Wakeups, ControlPcs, StopPcs
<1>10. ASSUME NEW t \in AppTasks, StreamOn(t)
      PROVE  Wakeups'
  BY <1>10, WakeupsFrame DEF StreamOn, TypeOK, Tasks, Goto, streamVars, MayControl
<1>11. ASSUME NEW t \in AppTasks, StreamOnController(t)
      PROVE  Wakeups'
  BY <1>11, WakeupsFrame
     DEF StreamOnController, TypeOK, Tasks, Goto, memoryVars, listVars, StartController,
         OnGetNewTrans, GetQueuedElement, StartsEmpty
<1>12. ASSUME NEW t \in AppTasks, StreamOnControllerFails(t)
      PROVE  Wakeups'
  BY <1>12, WakeupsFrame
     DEF StreamOnControllerFails, TypeOK, Tasks, Goto, ctlrVars, streamVars
<1>13. ASSUME NEW t \in AppTasks, StreamOnSensor(t)
      PROVE  Wakeups'
  BY <1>13, WakeupsFrame DEF StreamOnSensor, TypeOK, Tasks, Goto, ctlrVars, streamVars
<1>14. ASSUME NEW t \in AppTasks, StreamOnSensorFails(t)
      PROVE  Wakeups'
  BY <1>14, WakeupsFrame
     DEF StreamOnSensorFails, TypeOK, Tasks, Goto, streamVars, StopController, HaltDriver
<1>15. ASSUME NEW t \in AppTasks, StreamOnDone(t)
      PROVE  Wakeups'
  BY <1>15, WakeupsFrame
     DEF StreamOnDone, TypeOK, Tasks, Goto, ctlrVars, memoryVars, listVars
<1>16. ASSUME NEW t \in AppTasks, StreamOff(t)
      PROVE  Wakeups'
  BY <1>16, WakeupsFrame DEF StreamOff, TypeOK, Tasks, Goto, ctlrVars, streamVars, MayStop
<1>17. ASSUME NEW t \in AppTasks, StreamOffController(t)
      PROVE  Wakeups'
  BY <1>17, WakeupsFrame
     DEF StreamOffController, TypeOK, Tasks, Goto, streamVars, StopController, HaltDriver
<1>18. ASSUME NEW t \in AppTasks, StreamOffControllerFails(t)
      PROVE  Wakeups'
  BY <1>18, WakeupsFrame
     DEF StreamOffControllerFails, TypeOK, Tasks, Goto, streamVars, StopControllerFails,
         HaltDriver
<1>19. ASSUME NEW t \in AppTasks, StreamOffDrain(t)
      PROVE  Wakeups'
  <2>1. /\ \A u \in AppTasks : pc'[u] = IF u = t THEN "off_lists" ELSE pc[u]
        /\ ready_sem' = 0
        /\ UNCHANGED <<done_list, count, buffer>>
    BY <1>19 DEF StreamOffDrain, DrainReady, Goto, TypeOK, Tasks, memoryVars, listVars
  <2>2. Storage'
    BY <2>1 DEF Wakeups, Storage, NULL
  <2> QED BY <2>1, <2>2 DEF Wakeups
<1>20. ASSUME NEW t \in AppTasks, StreamOffLists(t)
      PROVE  Wakeups'
  <2>1. /\ \A u \in AppTasks : pc'[u] = IF u = t THEN "off_reset" ELSE "idle"
        /\ done_list' = <<>>
        /\ ready_sem = 0
        /\ isr = "idle"
        /\ UNCHANGED <<ready_sem, count, buffer, isr>>
    BY <1>20
       DEF StreamOffLists, ResetLists, Goto, TypeOK, Tasks, memoryVars, ctlrVars,
           Discipline, ControlPcs, StopPcs, Controller, Wakeups
  <2>2. Takers' = {} /\ Cardinality(Takers') = 0
    BY <2>1, FS_EmptySet DEF Takers
  <2>3. Storage' /\ Units' = 0
    BY <2>1 DEF Wakeups, Storage, Units, NULL
  <2>4. Len(done_list') = Units' + (IF isr' = "give" THEN 1 ELSE 0) + Cardinality(Takers')
    BY <2>1, <2>2, <2>3
  <2> QED BY <2>1, <2>3, <2>4 DEF Wakeups
<1>21. ASSUME NEW t \in AppTasks, StreamOffReset(t)
      PROVE  Wakeups'
  BY <1>21, WakeupsFrame
     DEF StreamOffReset, TypeOK, Tasks, Goto, ctlrVars, memoryVars, BufferReset
<1>22. ASSUME NEW t \in AppTasks, StreamOffDone(t)
      PROVE  Wakeups'
  BY <1>22, WakeupsFrame
     DEF StreamOffDone, TypeOK, Tasks, Goto, ctlrVars, memoryVars, listVars
<1>23. ASSUME NEW r \in EventTasks, Restart(r)
      PROVE  Wakeups'
  BY <1>23, WakeupsFrame, CaptureAssumption
     DEF Restart, TypeOK, Tasks, Goto, ctlrVars, streamVars
<1>24. ASSUME NEW r \in EventTasks, RestartStop(r)
      PROVE  Wakeups'
  BY <1>24, WakeupsFrame, CaptureAssumption
     DEF RestartStop, TypeOK, Tasks, Goto, streamVars, StopController, HaltDriver
<1>25. ASSUME NEW r \in EventTasks, RestartStopFails(r)
      PROVE  Wakeups'
  BY <1>25, WakeupsFrame, CaptureAssumption
     DEF RestartStopFails, TypeOK, Tasks, Goto, streamVars, StopControllerFails, HaltDriver
<1>26. ASSUME NEW r \in EventTasks, RestartSkip(r)
      PROVE  Wakeups'
  BY <1>26, WakeupsFrame, CaptureAssumption
     DEF RestartSkip, TypeOK, Tasks, Goto, memoryVars, listVars, SkipBuffer
<1>27. ASSUME NEW r \in EventTasks, RestartStart(r)
      PROVE  Wakeups'
  BY <1>27, WakeupsFrame, CaptureAssumption
     DEF RestartStart, TypeOK, Tasks, Goto, memoryVars, listVars, StartController,
         OnGetNewTrans, GetQueuedElement, StartsEmpty
<1>28. ASSUME NEW r \in EventTasks, RestartStartFails(r)
      PROVE  Wakeups'
  BY <1>28, WakeupsFrame, CaptureAssumption
     DEF RestartStartFails, TypeOK, Tasks, Goto, ctlrVars, streamVars
<1>29. ASSUME NEW r \in EventTasks, RestartSensor(r)
      PROVE  Wakeups'
  BY <1>29, WakeupsFrame, CaptureAssumption
     DEF RestartSensor, TypeOK, Tasks, Goto, ctlrVars, streamVars
<1>30. ASSUME NEW r \in EventTasks, RestartSensorFails(r)
      PROVE  Wakeups'
  BY <1>30, WakeupsFrame, CaptureAssumption
     DEF RestartSensorFails, TypeOK, Tasks, Goto, streamVars, StopController, HaltDriver
<1>31. CASE IsrGetFirst
  BY <1>31, WakeupsFrame
     DEF IsrGetFirst, TypeOK, Tasks, memoryVars, listVars, OnGetNewTrans, GetQueuedElement
<1>32. CASE IsrFinishFirst
  BY <1>32, WakeupsFrame DEF IsrFinishFirst, TypeOK, Tasks, streamVars
<1>33. CASE IsrGetLast
  BY <1>33, WakeupsFrame
     DEF IsrGetLast, TypeOK, Tasks, memoryVars, listVars, OnGetNewTrans, GetQueuedElement
<1>34. CASE IsrDrop
  BY <1>34, WakeupsFrame DEF IsrDrop, TypeOK, Tasks, streamVars, AfterFinish
<1>35. CASE IsrDone
  <2>1. /\ isr = "finish" /\ ctlr = "running"
        /\ UNCHANGED <<pc, ready_sem, count, buffer>>
    BY <1>35 DEF IsrDone, Controller, memoryVars, TypeOK
  <2>2. \A u \in AppTasks : pc[u] \notin {"off_lists", "off_reset", "off_done"}
    BY <2>1, RunningPcs
  <2>3. Len(done_list) = Units + Cardinality(Takers) /\ done_list \in Seq(Elements)
    BY <2>1, <2>2, TakersFinite, UnitsType DEF Wakeups, TypeOK, StreamTypeOK, ListTypeOK
  <2>4. Cardinality(Takers) \in Nat /\ Units \in Nat
    BY TakersFinite, UnitsType
  <2>5. Storage' /\ Units' = Units /\ Takers' = Takers
    BY <2>1 DEF Wakeups, Storage, Units, Takers
  <2>6. CASE Accepted(fin)
    <3>1. isr' = "give" /\ done_list' = Append(done_list, fin)
      BY <1>35, <2>6 DEF IsrDone, DoneElement
    <3>2. Len(done_list') = Len(done_list) + 1
      BY <2>3, <2>6, <3>1, AppendProperties DEF Accepted, TypeOK, StreamTypeOK
    <3>3. Len(done_list') = Units' + (IF isr' = "give" THEN 1 ELSE 0) + Cardinality(Takers')
      BY <2>3, <2>4, <2>5, <3>1, <3>2
    <3> QED BY <2>1, <2>2, <2>5, <3>3 DEF Wakeups
  <2>7. CASE ~Accepted(fin)
    <3>1. isr' # "give" /\ done_list' = done_list
      BY <1>35, <2>7 DEF IsrDone, DoneElement, listVars, AfterFinish
    <3>2. Len(done_list') = Units' + (IF isr' = "give" THEN 1 ELSE 0) + Cardinality(Takers')
      BY <2>3, <2>4, <2>5, <3>1
    <3> QED BY <2>1, <2>2, <2>5, <3>2 DEF Wakeups
  <2> QED BY <2>6, <2>7
<1>36. CASE IsrGive
  <2>1. /\ isr = "give" /\ isr' # "give" /\ ctlr = "running"
        /\ UNCHANGED <<pc, done_list, count, buffer>>
    BY <1>36 DEF IsrGive, Controller, memoryVars, listVars, AfterFinish, TypeOK
  <2>2. \A u \in AppTasks : pc[u] \notin {"off_lists", "off_reset", "off_done"}
    BY <2>1, RunningPcs
  <2>3. Len(done_list) = Units + 1 + Cardinality(Takers)
    BY <2>1, <2>2 DEF Wakeups
  <2>4. Cardinality(Takers) \in Nat /\ Units \in Nat /\ count \in Nat
    BY TakersFinite, UnitsType DEF TypeOK, StreamTypeOK
  <2>5. Len(done_list) <= count /\ (done_list # <<>> => ready_sem # NULL)
    BY DoneListBounded DEF Wakeups, Places, FreeFlagSound
  <2>6. done_list # <<>>
    BY <2>3, <2>4
  <2>7. ready_sem = Units /\ ready_sem < count
    BY <2>3, <2>4, <2>5, <2>6 DEF Units
  <2>8. ready_sem' = Units + 1
    BY <1>36, <2>7 DEF IsrGive, GiveReady
  <2>9. ready_sem' # NULL /\ Units' = Units + 1 /\ Takers' = Takers
    BY <2>1, <2>4, <2>8 DEF Units, Takers, NULL
  <2>10. Storage'
    BY <2>1, <2>9 DEF Wakeups, Storage
  <2>11. Len(done_list') = Units' + (IF isr' = "give" THEN 1 ELSE 0) + Cardinality(Takers')
    BY <2>1, <2>3, <2>4, <2>9
  <2> QED BY <2>1, <2>2, <2>10, <2>11 DEF Wakeups
<1>37. CASE IsrSkip
  BY <1>37, WakeupsFrame
     DEF IsrSkip, TypeOK, Tasks, memoryVars, listVars, SkipBuffer, AfterFinish
<1>38. CASE UNCHANGED vars
  BY <1>38, WakeupsFrame DEF vars, streamVars, ctlrVars
<1> QED
  BY <1>1, <1>2, <1>3, <1>4, <1>5, <1>6, <1>7, <1>8, <1>9, <1>10, <1>11, <1>12, <1>13,
     <1>14, <1>15, <1>16, <1>17, <1>18, <1>19, <1>20, <1>21, <1>22, <1>23, <1>24, <1>25,
     <1>26, <1>27, <1>28, <1>29, <1>30, <1>31, <1>32, <1>33, <1>34, <1>35, <1>36, <1>37,
     <1>38
     DEF Next, AppNext, ReqbufsNext, TransferNext, StreamOnNext, StreamOffNext, RestartNext,
         IsrNext

LEMMA WakeupsCorrect ==
    ASSUME Careless = {}, UseBackup \/ EventTasks = {}
    PROVE  Spec => []Wakeups
<1>1. Init => Wakeups
  BY WakeupsInit
<1>2. IInv /\ Places /\ Wakeups /\ [Next]_vars => Wakeups'
  BY WakeupsStep DEF IInv
<1> QED BY <1>1, <1>2, IInvCorrect, PlacesCorrect, PTL DEF Spec

\* A frame in the done list is matched by a unit of the semaphore, by the give that is
\* about to come or by a DQBUF that has taken its unit: no DQBUF finds the list empty
\* and no give is lost, for any number of tasks and buffers and whatever fails.
THEOREM Accounted ==
    ASSUME Careless = {}, UseBackup \/ EventTasks = {}
    PROVE  Spec => []SemAccounting
<1>1. Wakeups => SemAccounting
  BY DEF Wakeups, SemAccounting, Units, Takers
<1> QED BY <1>1, WakeupsCorrect, PTL

-------------------------------------------------------------------------------
(* The data hook, when one task takes the frames. *)

Cooked == \E t \in AppTasks : pc[t] = "cooked"

\* The frames in the done list have not been through the hook, the first one excepted
\* once it is about to be handed out.
Fresh ==
    \A i \in DOMAIN done_list :
        reprocessed[done_list[i]] = IF Cooked /\ i = 1 THEN 1 ELSE 0

\* A DQBUF that has taken a unit of the semaphore has a frame waiting for it.
LEMMA FrameTaken ==
    ASSUME TypeOK, Discipline, Wakeups, NEW t \in AppTasks, pc[t] \in {"took", "cooked"}
    PROVE  done_list # <<>>
<1>1. \A u \in AppTasks : pc[u] # "off_lists"
  BY DEF Discipline, Tasks, ControlPcs, StopPcs
<1>2. t \in Takers
  BY DEF Takers
<1>3. Cardinality(Takers) \in Nat /\ Cardinality(Takers) # 0
  BY <1>2, TakersFinite, FS_EmptySet
<1>4. Len(done_list) # 0
  BY <1>1, <1>3, UnitsType DEF Wakeups
<1> QED BY <1>4

LEMMA EmptyList == DOMAIN <<>> = {}
OBVIOUS

LEMMA FreshFrame ==
    ASSUME Fresh, UNCHANGED <<done_list, reprocessed>>,
           \A t \in AppTasks : pc'[t] = "cooked" <=> pc[t] = "cooked"
    PROVE  Fresh'
BY DEF Fresh, Cooked

LEMMA FreshStep ==
    ASSUME \A t, u \in AppTasks : t = u,
           TypeOK, Discipline, Controller, Places, Wakeups, Fresh, [Next]_vars
    PROVE  Fresh'
<1>0. /\ done_list \in Seq(Elements) /\ DOMAIN done_list = 1 .. Len(done_list)
      /\ IsInjective(done_list)
  BY LenProperties DEF TypeOK, StreamTypeOK, ListTypeOK, Places, FreeFlagSound, ListsSound
<1>1. ASSUME NEW t \in AppTasks, NEW n \in 1 .. MaxCount, ReqbufsSetup(t, n)
      PROVE  Fresh'
  <2>1. done_list' = <<>>
    BY <1>1 DEF ReqbufsSetup, SetupBuffer
  <2> QED BY <2>1, EmptyList DEF Fresh
<1>2. ASSUME NEW t \in AppTasks, NEW n \in 1 .. MaxCount, ReqbufsNoMemory(t, n)
      PROVE  Fresh'
  <2>1. done_list' = <<>>
    BY <1>2 DEF ReqbufsNoMemory, SetupBufferFails
  <2> QED BY <2>1, EmptyList DEF Fresh
<1>3. ASSUME NEW t \in AppTasks, ReqbufsRelease(t)
      PROVE  Fresh'
  <2>1. done_list' = <<>>
    BY <1>3 DEF ReqbufsRelease, ReleaseBuffer
  <2> QED BY <2>1, EmptyList DEF Fresh
<1>4. ASSUME NEW t \in AppTasks, NEW e \in Elements, Qbuf(t, e)
      PROVE  Fresh'
  BY <1>4, FreshFrame DEF Qbuf, QueueElement, TypeOK, Tasks, ctlrVars, memoryVars, listVars
<1>5. ASSUME NEW t \in AppTasks, Dqbuf(t)
      PROVE  Fresh'
  BY <1>5, FreshFrame DEF Dqbuf, MayTransfer, TypeOK, Tasks, Goto, ctlrVars, streamVars
<1>6. ASSUME NEW t \in AppTasks, DqbufTake(t)
      PROVE  Fresh'
  BY <1>6, FreshFrame DEF DqbufTake, TypeOK, Tasks, Goto, ctlrVars, memoryVars, listVars
<1>7. ASSUME NEW t \in AppTasks, DqbufTimeout(t)
      PROVE  Fresh'
  BY <1>7, FreshFrame DEF DqbufTimeout, TypeOK, Tasks, Goto, ctlrVars, streamVars
<1>8. ASSUME NEW t \in AppTasks, DqbufReprocess(t)
      PROVE  Fresh'
  <2>1. /\ pc[t] = "took" /\ done_list' = done_list /\ Cooked'
        /\ reprocessed' = [e \in Elements |->
               IF e = FirstDone /\ reprocessed[e] < 2 THEN reprocessed[e] + 1 ELSE reprocessed[e]]
    BY <1>8 DEF DqbufReprocess, Goto, TypeOK, Tasks, Cooked, streamVars
  <2>2. ~Cooked
    BY <2>1 DEF Cooked
  <2>3. done_list # <<>>
    BY <2>1, FrameTaken
  <2>4. FirstDone = done_list[1] /\ 1 \in DOMAIN done_list
    BY <2>3, <1>0, EmptySeq, LenProperties DEF FirstDone
  <2>5. \A i \in DOMAIN done_list : /\ reprocessed[done_list[i]] = 0
                                    /\ done_list[i] \in Elements
                                    /\ done_list[i] = done_list[1] => i = 1
    BY <2>2, <2>4, <1>0 DEF Fresh, IsInjective
  <2>6. \A i \in DOMAIN done_list : reprocessed'[done_list[i]] = IF i = 1 THEN 1 ELSE 0
    BY <2>1, <2>4, <2>5
  <2> QED BY <2>1, <2>6 DEF Fresh
<1>9. ASSUME NEW t \in AppTasks, DqbufPop(t)
      PROVE  Fresh'
  <2>1. /\ pc[t] \in {"took", "cooked"} /\ ~Cooked' /\ reprocessed' = reprocessed
    BY <1>9 DEF DqbufPop, Goto, TypeOK, Tasks, Cooked
  <2>2. done_list # <<>>
    BY <2>1, FrameTaken
  <2>3. done_list' = Tail(done_list)
    BY <1>9, <2>2 DEF DqbufPop, GetDoneElement
  <2>4. /\ done_list' \in Seq(Elements) /\ Len(done_list') = Len(done_list) - 1
        /\ \A i \in 1 .. Len(done_list') : done_list'[i] = done_list[i + 1]
        /\ Len(done_list) \in Nat
    BY <2>2, <2>3, <1>0, HeadTailProperties, LenProperties
  <2>5. \A i \in 1 .. Len(done_list') : i + 1 \in DOMAIN done_list /\ i + 1 # 1
    BY <2>4, <1>0
  <2>6. \A i \in 1 .. Len(done_list') : reprocessed'[done_list'[i]] = 0
    BY <2>1, <2>4, <2>5 DEF Fresh
  <2>7. DOMAIN done_list' = 1 .. Len(done_list')
    BY <2>4, LenProperties
  <2> QED BY <2>1, <2>6, <2>7 DEF Fresh
<1>10. ASSUME NEW t \in AppTasks, StreamOn(t)
      PROVE  Fresh'
  BY <1>10, FreshFrame DEF StreamOn, MayControl, TypeOK, Tasks, Goto, streamVars
<1>11. ASSUME NEW t \in AppTasks, StreamOnController(t)
      PROVE  Fresh'
  BY <1>11, FreshFrame
     DEF StreamOnController, StartController, OnGetNewTrans, GetQueuedElement, StartsEmpty,
         TypeOK, Tasks, Goto, memoryVars, listVars
<1>12. ASSUME NEW t \in AppTasks, StreamOnControllerFails(t)
      PROVE  Fresh'
  BY <1>12, FreshFrame
     DEF StreamOnControllerFails, TypeOK, Tasks, Goto, ctlrVars, streamVars
<1>13. ASSUME NEW t \in AppTasks, StreamOnSensor(t)
      PROVE  Fresh'
  BY <1>13, FreshFrame DEF StreamOnSensor, TypeOK, Tasks, Goto, ctlrVars, streamVars
<1>14. ASSUME NEW t \in AppTasks, StreamOnSensorFails(t)
      PROVE  Fresh'
  BY <1>14, FreshFrame DEF StreamOnSensorFails, TypeOK, Tasks, Goto, streamVars
<1>15. ASSUME NEW t \in AppTasks, StreamOnDone(t)
      PROVE  Fresh'
  BY <1>15, FreshFrame DEF StreamOnDone, TypeOK, Tasks, Goto, ctlrVars, memoryVars, listVars
<1>16. ASSUME NEW t \in AppTasks, StreamOff(t)
      PROVE  Fresh'
  BY <1>16, FreshFrame DEF StreamOff, MayStop, TypeOK, Tasks, Goto, ctlrVars, streamVars
<1>17. ASSUME NEW t \in AppTasks, StreamOffController(t)
      PROVE  Fresh'
  BY <1>17, FreshFrame DEF StreamOffController, TypeOK, Tasks, Goto, streamVars
<1>18. ASSUME NEW t \in AppTasks, StreamOffControllerFails(t)
      PROVE  Fresh'
  BY <1>18, FreshFrame DEF StreamOffControllerFails, TypeOK, Tasks, Goto, streamVars
<1>19. ASSUME NEW t \in AppTasks, StreamOffDrain(t)
      PROVE  Fresh'
  BY <1>19, FreshFrame
     DEF StreamOffDrain, TypeOK, Tasks, Goto, ctlrVars, memoryVars, listVars
<1>20. ASSUME NEW t \in AppTasks, StreamOffLists(t)
      PROVE  Fresh'
  <2>1. done_list' = <<>>
    BY <1>20 DEF StreamOffLists, ResetLists
  <2> QED BY <2>1, EmptyList DEF Fresh
<1>21. ASSUME NEW t \in AppTasks, StreamOffReset(t)
      PROVE  Fresh'
  BY <1>21, FreshFrame
     DEF StreamOffReset, BufferReset, TypeOK, Tasks, Goto, ctlrVars, memoryVars
<1>22. ASSUME NEW t \in AppTasks, StreamOffDone(t)
      PROVE  Fresh'
  BY <1>22, FreshFrame
     DEF StreamOffDone, TypeOK, Tasks, Goto, ctlrVars, memoryVars, listVars
<1>23. ASSUME NEW r \in EventTasks, Restart(r)
      PROVE  Fresh'
  BY <1>23, FreshFrame, CaptureAssumption
     DEF Restart, MayRestart, TypeOK, Tasks, Goto, ctlrVars, streamVars
<1>24. ASSUME NEW r \in EventTasks, RestartStop(r)
      PROVE  Fresh'
  BY <1>24, FreshFrame, CaptureAssumption DEF RestartStop, TypeOK, Tasks, Goto, streamVars
<1>25. ASSUME NEW r \in EventTasks, RestartStopFails(r)
      PROVE  Fresh'
  BY <1>25, FreshFrame, CaptureAssumption
     DEF RestartStopFails, TypeOK, Tasks, Goto, streamVars
<1>26. ASSUME NEW r \in EventTasks, RestartSkip(r)
      PROVE  Fresh'
  BY <1>26, FreshFrame, CaptureAssumption
     DEF RestartSkip, SkipBuffer, TypeOK, Tasks, Goto, memoryVars, listVars
<1>27. ASSUME NEW r \in EventTasks, RestartStart(r)
      PROVE  Fresh'
  BY <1>27, FreshFrame, CaptureAssumption
     DEF RestartStart, StartController, OnGetNewTrans, GetQueuedElement, StartsEmpty,
         TypeOK, Tasks, Goto, memoryVars, listVars
<1>28. ASSUME NEW r \in EventTasks, RestartStartFails(r)
      PROVE  Fresh'
  BY <1>28, FreshFrame, CaptureAssumption
     DEF RestartStartFails, TypeOK, Tasks, Goto, ctlrVars, streamVars
<1>29. ASSUME NEW r \in EventTasks, RestartSensor(r)
      PROVE  Fresh'
  BY <1>29, FreshFrame, CaptureAssumption
     DEF RestartSensor, TypeOK, Tasks, Goto, ctlrVars, streamVars
<1>30. ASSUME NEW r \in EventTasks, RestartSensorFails(r)
      PROVE  Fresh'
  BY <1>30, FreshFrame, CaptureAssumption
     DEF RestartSensorFails, TypeOK, Tasks, Goto, streamVars
<1>31. CASE IsrGetFirst
  BY <1>31, FreshFrame
     DEF IsrGetFirst, OnGetNewTrans, GetQueuedElement, memoryVars, listVars
<1>32. CASE IsrFinishFirst
  BY <1>32, FreshFrame DEF IsrFinishFirst, streamVars
<1>33. CASE IsrGetLast
  BY <1>33, FreshFrame DEF IsrGetLast, OnGetNewTrans, GetQueuedElement, memoryVars, listVars
<1>34. CASE IsrDrop
  BY <1>34, FreshFrame DEF IsrDrop, streamVars
<1>35. CASE IsrDone
  <2>1. /\ Cooked' = Cooked
        /\ reprocessed' = [e \in Elements |-> IF e = fin THEN 0 ELSE reprocessed[e]]
        /\ isr = "finish" /\ fin \in Elements /\ fin \in Held
    BY <1>35 DEF IsrDone, Cooked, Controller, Places, Held, TypeOK
  <2>2. \A i \in DOMAIN done_list : done_list[i] # fin /\ done_list[i] \in Elements
    BY <2>1, <1>0 DEF Places, ExclusiveOwnership, Listed, Range
  <2>3. \A i \in DOMAIN done_list : reprocessed'[done_list[i]] = reprocessed[done_list[i]]
    BY <2>1, <2>2
  <2>4. CASE done_list' = done_list
    BY <2>1, <2>3, <2>4 DEF Fresh
  <2>5. CASE done_list' = Append(done_list, fin)
    <3>1. /\ DOMAIN done_list' = 1 .. Len(done_list) + 1
          /\ \A i \in DOMAIN done_list : done_list'[i] = done_list[i]
          /\ done_list'[Len(done_list) + 1] = fin
          /\ Len(done_list) \in Nat /\ DOMAIN done_list = 1 .. Len(done_list)
      BY <2>1, <2>5, <1>0, AppendProperties, LenProperties
    <3>2. Cooked => Len(done_list) # 0
      <4>1. Cooked => done_list # <<>>
        BY FrameTaken DEF Cooked
      <4> QED BY <4>1, <1>0, EmptySeq
    <3>3. reprocessed'[fin] = 0
      BY <2>1
    <3>4. ASSUME NEW i \in DOMAIN done_list'
          PROVE  reprocessed'[done_list'[i]] = IF Cooked' /\ i = 1 THEN 1 ELSE 0
      <4>1. CASE i \in DOMAIN done_list
        BY <4>1, <3>1, <2>1, <2>3 DEF Fresh
      <4>2. CASE i = Len(done_list) + 1
        BY <4>2, <3>1, <3>2, <3>3, <2>1
      <4> QED BY <4>1, <4>2, <3>1
    <3> QED BY <3>4 DEF Fresh
  <2> QED BY <1>35, <2>4, <2>5 DEF IsrDone, DoneElement, listVars
<1>36. CASE IsrGive
  BY <1>36, FreshFrame DEF IsrGive, memoryVars, listVars
<1>37. CASE IsrSkip
  BY <1>37, FreshFrame DEF IsrSkip, SkipBuffer, memoryVars, listVars
<1>38. CASE UNCHANGED vars
  BY <1>38, FreshFrame DEF vars, ctlrVars, streamVars
<1> QED
  BY <1>1, <1>2, <1>3, <1>4, <1>5, <1>6, <1>7, <1>8, <1>9, <1>10, <1>11, <1>12, <1>13,
     <1>14, <1>15, <1>16, <1>17, <1>18, <1>19, <1>20, <1>21, <1>22, <1>23, <1>24, <1>25,
     <1>26, <1>27, <1>28, <1>29, <1>30, <1>31, <1>32, <1>33, <1>34, <1>35, <1>36, <1>37,
     <1>38
     DEF Next, AppNext, ReqbufsNext, TransferNext, StreamOnNext, StreamOffNext, RestartNext,
         IsrNext

LEMMA HookStep ==
    ASSUME TypeOK, Fresh, [Next]_vars
    PROVE  Reprocess /\ started /\ started' => \A x \in app' \ app : reprocessed[x] = 1
<1>1. ASSUME NEW t \in AppTasks, NEW n \in 1 .. MaxCount, ReqbufsSetup(t, n)
      PROVE  Reprocess /\ started /\ started' => \A x \in app' \ app : reprocessed[x] = 1
  BY <1>1 DEF ReqbufsSetup, SetupBuffer
<1>2. ASSUME NEW t \in AppTasks, NEW n \in 1 .. MaxCount, ReqbufsNoMemory(t, n)
      PROVE  Reprocess /\ started /\ started' => \A x \in app' \ app : reprocessed[x] = 1
  BY <1>2 DEF ReqbufsNoMemory, SetupBufferFails
<1>3. ASSUME NEW t \in AppTasks, ReqbufsRelease(t)
      PROVE  Reprocess /\ started /\ started' => \A x \in app' \ app : reprocessed[x] = 1
  BY <1>3 DEF ReqbufsRelease, ReleaseBuffer
<1>4. ASSUME NEW t \in AppTasks, NEW e \in Elements, Qbuf(t, e)
      PROVE  Reprocess /\ started /\ started' => \A x \in app' \ app : reprocessed[x] = 1
  BY <1>4 DEF Qbuf
<1>5. ASSUME NEW t \in AppTasks, Dqbuf(t)
      PROVE  Reprocess /\ started /\ started' => \A x \in app' \ app : reprocessed[x] = 1
  BY <1>5 DEF Dqbuf
<1>6. ASSUME NEW t \in AppTasks, DqbufTake(t)
      PROVE  Reprocess /\ started /\ started' => \A x \in app' \ app : reprocessed[x] = 1
  BY <1>6 DEF DqbufTake
<1>7. ASSUME NEW t \in AppTasks, DqbufTimeout(t)
      PROVE  Reprocess /\ started /\ started' => \A x \in app' \ app : reprocessed[x] = 1
  BY <1>7 DEF DqbufTimeout
<1>8. ASSUME NEW t \in AppTasks, DqbufReprocess(t)
      PROVE  Reprocess /\ started /\ started' => \A x \in app' \ app : reprocessed[x] = 1
  BY <1>8 DEF DqbufReprocess
<1>9. ASSUME NEW t \in AppTasks, DqbufPop(t)
      PROVE  Reprocess /\ started /\ started' => \A x \in app' \ app : reprocessed[x] = 1
  <2>1. Reprocess => pc[t] = "cooked"
    BY <1>9 DEF DqbufPop
  <2>2. app' = app \cup ({FirstDone} \ {NULL})
    BY <1>9 DEF DqbufPop
  <2>3. done_list # <<>> => 1 \in DOMAIN done_list /\ FirstDone = done_list[1]
    BY EmptySeq, LenProperties DEF FirstDone, TypeOK, StreamTypeOK, ListTypeOK
  <2>4. done_list = <<>> => FirstDone = NULL
    BY DEF FirstDone
  <2> QED BY <2>1, <2>2, <2>3, <2>4 DEF Fresh, Cooked
<1>10. ASSUME NEW t \in AppTasks, StreamOn(t)
      PROVE  Reprocess /\ started /\ started' => \A x \in app' \ app : reprocessed[x] = 1
  BY <1>10 DEF StreamOn
<1>11. ASSUME NEW t \in AppTasks, StreamOnController(t)
      PROVE  Reprocess /\ started /\ started' => \A x \in app' \ app : reprocessed[x] = 1
  BY <1>11 DEF StreamOnController
<1>12. ASSUME NEW t \in AppTasks, StreamOnControllerFails(t)
      PROVE  Reprocess /\ started /\ started' => \A x \in app' \ app : reprocessed[x] = 1
  BY <1>12 DEF StreamOnControllerFails
<1>13. ASSUME NEW t \in AppTasks, StreamOnSensor(t)
      PROVE  Reprocess /\ started /\ started' => \A x \in app' \ app : reprocessed[x] = 1
  BY <1>13 DEF StreamOnSensor
<1>14. ASSUME NEW t \in AppTasks, StreamOnSensorFails(t)
      PROVE  Reprocess /\ started /\ started' => \A x \in app' \ app : reprocessed[x] = 1
  BY <1>14 DEF StreamOnSensorFails
<1>15. ASSUME NEW t \in AppTasks, StreamOnDone(t)
      PROVE  Reprocess /\ started /\ started' => \A x \in app' \ app : reprocessed[x] = 1
  BY <1>15 DEF StreamOnDone
<1>16. ASSUME NEW t \in AppTasks, StreamOff(t)
      PROVE  Reprocess /\ started /\ started' => \A x \in app' \ app : reprocessed[x] = 1
  BY <1>16 DEF StreamOff
<1>17. ASSUME NEW t \in AppTasks, StreamOffController(t)
      PROVE  Reprocess /\ started /\ started' => \A x \in app' \ app : reprocessed[x] = 1
  BY <1>17 DEF StreamOffController
<1>18. ASSUME NEW t \in AppTasks, StreamOffControllerFails(t)
      PROVE  Reprocess /\ started /\ started' => \A x \in app' \ app : reprocessed[x] = 1
  BY <1>18 DEF StreamOffControllerFails
<1>19. ASSUME NEW t \in AppTasks, StreamOffDrain(t)
      PROVE  Reprocess /\ started /\ started' => \A x \in app' \ app : reprocessed[x] = 1
  BY <1>19 DEF StreamOffDrain
<1>20. ASSUME NEW t \in AppTasks, StreamOffLists(t)
      PROVE  Reprocess /\ started /\ started' => \A x \in app' \ app : reprocessed[x] = 1
  BY <1>20 DEF StreamOffLists
<1>21. ASSUME NEW t \in AppTasks, StreamOffReset(t)
      PROVE  Reprocess /\ started /\ started' => \A x \in app' \ app : reprocessed[x] = 1
  BY <1>21 DEF StreamOffReset
<1>22. ASSUME NEW t \in AppTasks, StreamOffDone(t)
      PROVE  Reprocess /\ started /\ started' => \A x \in app' \ app : reprocessed[x] = 1
  BY <1>22 DEF StreamOffDone
<1>23. ASSUME NEW r \in EventTasks, Restart(r)
      PROVE  Reprocess /\ started /\ started' => \A x \in app' \ app : reprocessed[x] = 1
  BY <1>23 DEF Restart
<1>24. ASSUME NEW r \in EventTasks, RestartStop(r)
      PROVE  Reprocess /\ started /\ started' => \A x \in app' \ app : reprocessed[x] = 1
  BY <1>24 DEF RestartStop
<1>25. ASSUME NEW r \in EventTasks, RestartStopFails(r)
      PROVE  Reprocess /\ started /\ started' => \A x \in app' \ app : reprocessed[x] = 1
  BY <1>25 DEF RestartStopFails
<1>26. ASSUME NEW r \in EventTasks, RestartSkip(r)
      PROVE  Reprocess /\ started /\ started' => \A x \in app' \ app : reprocessed[x] = 1
  BY <1>26 DEF RestartSkip
<1>27. ASSUME NEW r \in EventTasks, RestartStart(r)
      PROVE  Reprocess /\ started /\ started' => \A x \in app' \ app : reprocessed[x] = 1
  BY <1>27 DEF RestartStart
<1>28. ASSUME NEW r \in EventTasks, RestartStartFails(r)
      PROVE  Reprocess /\ started /\ started' => \A x \in app' \ app : reprocessed[x] = 1
  BY <1>28 DEF RestartStartFails
<1>29. ASSUME NEW r \in EventTasks, RestartSensor(r)
      PROVE  Reprocess /\ started /\ started' => \A x \in app' \ app : reprocessed[x] = 1
  BY <1>29 DEF RestartSensor
<1>30. ASSUME NEW r \in EventTasks, RestartSensorFails(r)
      PROVE  Reprocess /\ started /\ started' => \A x \in app' \ app : reprocessed[x] = 1
  BY <1>30 DEF RestartSensorFails
<1>31. CASE IsrGetFirst
  BY <1>31 DEF IsrGetFirst
<1>32. CASE IsrFinishFirst
  BY <1>32 DEF IsrFinishFirst
<1>33. CASE IsrGetLast
  BY <1>33 DEF IsrGetLast
<1>34. CASE IsrDrop
  BY <1>34 DEF IsrDrop
<1>35. CASE IsrDone
  BY <1>35 DEF IsrDone
<1>36. CASE IsrGive
  BY <1>36 DEF IsrGive
<1>37. CASE IsrSkip
  BY <1>37 DEF IsrSkip
<1>38. CASE UNCHANGED vars
  BY <1>38 DEF vars
<1> QED
  BY <1>1, <1>2, <1>3, <1>4, <1>5, <1>6, <1>7, <1>8, <1>9, <1>10, <1>11, <1>12, <1>13,
     <1>14, <1>15, <1>16, <1>17, <1>18, <1>19, <1>20, <1>21, <1>22, <1>23, <1>24, <1>25,
     <1>26, <1>27, <1>28, <1>29, <1>30, <1>31, <1>32, <1>33, <1>34, <1>35, <1>36, <1>37,
     <1>38
     DEF Next, AppNext, ReqbufsNext, TransferNext, StreamOnNext, StreamOffNext, RestartNext,
         IsrNext

\* When one task takes the frames, each goes through the data hook exactly once before
\* it is handed out.  Two tasks may both run the hook on the frame that is first.
THEOREM HookOnce ==
    ASSUME Careless = {}, UseBackup \/ EventTasks = {}, \A t, u \in AppTasks : t = u
    PROVE  Spec => ReprocessedOnce
<1>1. Init => Fresh
  BY EmptyList DEF Init, StreamInit, Fresh
<1>2. IInv /\ Places /\ Wakeups /\ Fresh /\ [Next]_vars => Fresh'
  BY FreshStep DEF IInv
<1> DEFINE A == Reprocess /\ started /\ started' => \A e \in app' \ app : reprocessed[e] = 1
<1>3. IInv /\ Fresh /\ [Next]_vars => [A]_vars
  BY HookStep DEF IInv
<1> HIDE DEF A
<1>4. Spec => [][A]_vars
  BY <1>1, <1>2, <1>3, IInvCorrect, PlacesCorrect, WakeupsCorrect, PTL DEF Spec
<1> QED BY <1>4, PTL DEF A, ReprocessedOnce

-------------------------------------------------------------------------------
(* No buffer is lost. *)

(* The elements that are in a place from which they are found again. *)
Placed == app \cup Listed \cup Held

(* While the controller runs, and before it is started, no buffer depends on backup_element. *)
Kept ==
    /\ isr = "refill" => cur = NULL
    /\ cur \in Elements => cur = backup_element
    /\ \A r \in EventTasks : pc[r] = "rs_start" => backup_element = NULL
    /\ ~Closing => buffer \subseteq Placed \cup {backup_element}
    /\ ~Closing /\ (ctlr = "running" \/ ~On) => buffer \subseteq Placed

LEMMA KeptInit == Init => Kept
BY DEF Init, StreamInit, Kept, Tasks, NULL, Elements

\* Steps that take no buffer from its place.
LEMMA KeptGrow ==
    ASSUME Kept,
           buffer' = buffer, backup_element' = backup_element,
           Placed \subseteq Placed',
           isr' = "refill" => cur' = NULL,
           cur' \in Elements => cur' = cur,
           \A r \in EventTasks : pc'[r] = "rs_start" => pc[r] = "rs_start",
           Closing => Closing',
           ctlr' = "running" \/ ~On' => ctlr = "running" \/ ~On
    PROVE  Kept'
<1>1. ~Closing' => buffer' \subseteq Placed' \cup {backup_element'}
  BY DEF Kept
<1>2. ~Closing' /\ (ctlr' = "running" \/ ~On') => buffer' \subseteq Placed'
  BY DEF Kept
<1> QED BY <1>1, <1>2 DEF Kept

\* Steps that move no buffer.
LEMMA KeptFrame ==
    ASSUME Kept,
           UNCHANGED <<buffer, listVars, app, cur, fin, backup_element>>,
           isr' = "refill" => isr = "refill" \/ cur = NULL,
           \A u \in Tasks : pc'[u] = pc[u] \/ (/\ pc'[u] # "rs_start"
                                               /\ pc[u] \notin {"off_reset", "off_done"}),
           ctlr' = "running" \/ ~On' => ctlr = "running" \/ ~On
    PROVE  Kept'
<1>1. Placed' = Placed
  BY DEF Placed, Held, Listed, listVars
<1>2. Closing => Closing'
  BY DEF Closing, Tasks
<1> QED BY <1>1, <1>2, KeptGrow DEF Kept, Tasks

\* The controller stops: what it was filling is the backup element.
LEMMA KeptHalt ==
    ASSUME Kept, Controller, HaltDriver, ctlr' # "running", started,
           UNCHANGED <<started, listVars, buffer, app, fin, backup_element>>,
           \A u \in Tasks : pc'[u] = pc[u] \/ (/\ pc'[u] # "rs_start"
                                               /\ pc[u] \notin {"off_reset", "off_done"})
    PROVE  Kept'
<1>1. On' /\ (Closing => Closing')
  BY DEF On, Closing, Tasks
<1>2. Placed \subseteq Placed' \cup {backup_element} /\ NULL \notin Elements
  BY DEF Placed, Held, Listed, listVars, Kept, NULL, Elements
<1>3. isr' # "refill" /\ cur' = NULL
  BY DEF HaltDriver
<1>4. ~Closing' => buffer' \subseteq Placed' \cup {backup_element'}
  BY <1>1, <1>2 DEF Kept
<1> QED BY <1>1, <1>2, <1>3, <1>4 DEF Kept, Tasks

\* The controller takes its next buffer.
LEMMA KeptTake ==
    ASSUME TypeOK, Places, FlagsSound, OnGetNewTrans,
           buffer \subseteq Placed,
           buffer' = buffer, app' = app,
           cur \in Elements => fin' = cur,
           fin \in Elements => fin' = fin,
           isr' # "refill",
           \A r \in EventTasks : pc'[r] # "rs_start"
    PROVE  Kept'
<1>1. /\ GetQueuedElement /\ Own \notin Elements /\ NULL \notin Elements
      /\ cur' \in Elements => cur' = backup_element'
  BY DEF OnGetNewTrans, Own, NULL, Elements
<1>2. /\ queued_list = <<>> => Listed' = Listed
      /\ queued_list # <<>> => /\ Head(queued_list) \in Listed
                               /\ Listed' = Listed \ {Head(queued_list)}
  BY <1>1, GetQueuedElementSound DEF TypeOK, Places, FreeFlagSound
<1>3. Listed \subseteq Elements
  BY DEF Places, FreeFlagSound, ListsSound, TypeOK, StreamTypeOK
<1>4. queued_list # <<>> => cur' = Head(queued_list)
  BY <1>1, <1>2, <1>3 DEF OnGetNewTrans, NewTrans
<1>5. Listed \subseteq Listed' \cup Held'
  BY <1>2, <1>3, <1>4 DEF Held
<1>6. Held \subseteq Held'
  BY DEF Held
<1>7. buffer' \subseteq Placed'
  BY <1>5, <1>6 DEF Placed
<1> QED BY <1>1, <1>7 DEF Kept

\* A driver that starts without one of the stream's buffers takes none.
LEMMA KeptEmpty ==
    ASSUME StartsEmpty, cur = NULL, isr = "idle",
           buffer \subseteq Placed,
           UNCHANGED <<buffer, app, fin, isr>>,
           \A r \in EventTasks : pc'[r] # "rs_start"
    PROVE  Kept'
<1>1. Own \notin Elements /\ NULL \notin Elements
  BY DEF Own, NULL, Elements
<1>2. buffer' \subseteq Placed' /\ cur' = Own
  BY <1>1 DEF Placed, Held, Listed, listVars, StartsEmpty
<1> QED BY <1>1, <1>2 DEF Kept

\* The application owns all buffers after a request.
LEMMA KeptStorage ==
    ASSUME NEW t \in AppTasks,
           Controller, Careless = {}, MayControl(t), ~started, StorageReplaced
    PROVE  Kept'
<1>1. /\ \A u \in Tasks : pc[u] = "idle"
      /\ pc' = pc /\ app' = buffer'
  BY DEF MayControl, NoRestart, Tasks, StorageReplaced
<1>2. cur = NULL /\ isr = "idle"
  BY <1>1 DEF Controller, Tasks
<1>3. cur' = NULL /\ isr' = "idle" /\ NULL \notin Elements
  BY <1>2 DEF StorageReplaced, Freed, NULL, Elements
<1>4. buffer' \subseteq Placed'
  BY <1>1 DEF Placed
<1> QED BY <1>1, <1>3, <1>4 DEF Kept, Tasks

LEMMA KeptStep ==
    ASSUME Careless = {}, "start" \notin Faults,
           TypeOK, Discipline, MutexHeld, Controller, Places, Kept, [Next]_vars
    PROVE  Kept'
<1>1. ASSUME NEW t \in AppTasks, NEW n \in 1 .. MaxCount, ReqbufsSetup(t, n)
      PROVE  Kept'
  BY <1>1, KeptStorage DEF ReqbufsSetup, SetupBuffer
<1>2. ASSUME NEW t \in AppTasks, NEW n \in 1 .. MaxCount, ReqbufsNoMemory(t, n)
      PROVE  Kept'
  BY <1>2, KeptStorage DEF ReqbufsNoMemory, SetupBufferFails
<1>3. ASSUME NEW t \in AppTasks, ReqbufsRelease(t)
      PROVE  Kept'
  BY <1>3, KeptStorage DEF ReqbufsRelease, ReleaseBuffer
<1>4. ASSUME NEW t \in AppTasks, NEW e \in Elements, Qbuf(t, e)
      PROVE  Kept'
  <2>1. /\ \A u \in AppTasks : pc[u] \notin StopPcs
        /\ UNCHANGED <<started, pc, ctlr, isr, cur, fin, backup_element, buffer>>
    BY <1>4 DEF Qbuf, MayTransfer, memoryVars, ctlrVars
  <2>2. FlagsSound /\ ListsSound /\ e \in buffer
    BY <1>4, <2>1 DEF Qbuf, Places, FreeFlagSound, ListsSound, StopPcs
  <2>3. Listed' = Listed \cup {e}
    BY <1>4, <2>1, <2>2, QueueElementSound DEF Qbuf, TypeOK
  <2>4. app \subseteq app' \cup {e}
    BY <1>4 DEF Qbuf
  <2>5. Placed \subseteq Placed'
    BY <2>1, <2>3, <2>4 DEF Placed, Held
  <2> QED BY <2>1, <2>5, KeptGrow DEF Kept, On, Closing
<1>5. ASSUME NEW t \in AppTasks, Dqbuf(t)
      PROVE  Kept'
  <2>1. /\ UNCHANGED <<ctlr, isr, backup_element, buffer, listVars, app, cur, fin>>
        /\ \A u \in Tasks : pc'[u] = pc[u] \/ (pc'[u] \notin {"rs_start"} /\ pc[u] \notin {"off_reset", "off_done"})
    BY <1>5 DEF Dqbuf, TypeOK, Tasks, Goto, ctlrVars, streamVars, listVars, MayTransfer
  <2>2. ctlr' = "running" \/ ~On' => ctlr = "running" \/ ~On
    BY <1>5, <2>1
       DEF Dqbuf, On, Discipline, TypeOK, Tasks, StartPcs, StopPcs, DqbufPcs, ControlPcs,
           RestartPcs, Goto, ctlrVars, streamVars, listVars, MayTransfer
  <2> QED BY <2>1, <2>2, KeptFrame
<1>6. ASSUME NEW t \in AppTasks, DqbufTake(t)
      PROVE  Kept'
  <2>1. /\ UNCHANGED <<ctlr, isr, backup_element, buffer, listVars, app, cur, fin>>
        /\ \A u \in Tasks : pc'[u] = pc[u] \/ (pc'[u] \notin {"rs_start"} /\ pc[u] \notin {"off_reset", "off_done"})
    BY <1>6 DEF DqbufTake, TypeOK, Tasks, Goto, ctlrVars, memoryVars, listVars
  <2>2. ctlr' = "running" \/ ~On' => ctlr = "running" \/ ~On
    BY <1>6, <2>1
       DEF DqbufTake, On, Discipline, TypeOK, Tasks, StartPcs, StopPcs, DqbufPcs,
           ControlPcs, RestartPcs, Goto, ctlrVars, memoryVars, listVars
  <2> QED BY <2>1, <2>2, KeptFrame
<1>7. ASSUME NEW t \in AppTasks, DqbufTimeout(t)
      PROVE  Kept'
  <2>1. /\ UNCHANGED <<ctlr, isr, backup_element, buffer, listVars, app, cur, fin>>
        /\ \A u \in Tasks : pc'[u] = pc[u] \/ (pc'[u] \notin {"rs_start"} /\ pc[u] \notin {"off_reset", "off_done"})
    BY <1>7 DEF DqbufTimeout, TypeOK, Tasks, Goto, ctlrVars, streamVars, listVars
  <2>2. ctlr' = "running" \/ ~On' => ctlr = "running" \/ ~On
    BY <1>7, <2>1
       DEF DqbufTimeout, On, Discipline, TypeOK, Tasks, StartPcs, StopPcs, DqbufPcs,
           ControlPcs, RestartPcs, Goto, ctlrVars, streamVars, listVars
  <2> QED BY <2>1, <2>2, KeptFrame
<1>8. ASSUME NEW t \in AppTasks, DqbufReprocess(t)
      PROVE  Kept'
  <2>1. /\ UNCHANGED <<ctlr, isr, backup_element, buffer, listVars, app, cur, fin>>
        /\ \A u \in Tasks : pc'[u] = pc[u] \/ (pc'[u] \notin {"rs_start"} /\ pc[u] \notin {"off_reset", "off_done"})
    BY <1>8 DEF DqbufReprocess, TypeOK, Tasks, Goto, ctlrVars, streamVars, listVars
  <2>2. ctlr' = "running" \/ ~On' => ctlr = "running" \/ ~On
    BY <1>8, <2>1
       DEF DqbufReprocess, On, Discipline, TypeOK, Tasks, StartPcs, StopPcs, DqbufPcs,
           ControlPcs, RestartPcs, Goto, ctlrVars, streamVars, listVars
  <2> QED BY <2>1, <2>2, KeptFrame
<1>9. ASSUME NEW t \in AppTasks, DqbufPop(t)
      PROVE  Kept'
  <2>1. /\ \A u \in AppTasks : pc[u] \notin ControlPcs
        /\ \A u \in Tasks : pc'[u] = pc[u] \/ (pc'[u] = "idle" /\ pc[u] \notin ControlPcs \cup RestartPcs)
        /\ UNCHANGED <<started, ctlr, isr, cur, fin, backup_element, buffer>>
    BY <1>9
       DEF DqbufPop, Discipline, Goto, TypeOK, Tasks, StartPcs, StopPcs, DqbufPcs,
           ControlPcs, RestartPcs, memoryVars, ctlrVars
  <2>2. FlagsSound /\ ListsSound
    BY <1>9, <2>1 DEF Places, FreeFlagSound, ControlPcs, StopPcs
  <2>3. /\ done_list = <<>> => Listed' = Listed
        /\ done_list # <<>> => Head(done_list) \in Listed /\ Listed' = Listed \ {Head(done_list)}
    BY <1>9, <2>1, <2>2, GetDoneElementSound DEF DqbufPop, TypeOK
  <2>4. Listed \subseteq Elements /\ NULL \notin Elements
    BY <2>2 DEF ListsSound, TypeOK, StreamTypeOK, NULL, Elements
  <2>5. app \cup Listed \subseteq app' \cup Listed'
    BY <1>9, <2>3, <2>4 DEF DqbufPop, FirstDone
  <2>6. Placed \subseteq Placed'
    BY <2>1, <2>5 DEF Placed, Held
  <2>7. ~Closing /\ (~On' => ~On) /\ \A r \in EventTasks : pc'[r] = "rs_start" => pc[r] = "rs_start"
    BY <2>1, CaptureAssumption DEF Closing, On, ControlPcs, StopPcs, StartPcs, Tasks
  <2> QED BY <2>1, <2>6, <2>7, KeptGrow DEF Kept
<1>10. ASSUME NEW t \in AppTasks, StreamOn(t)
      PROVE  Kept'
  <2>1. /\ UNCHANGED <<ctlr, isr, backup_element, buffer, listVars, app, cur, fin>>
        /\ \A u \in Tasks : pc'[u] = pc[u] \/ (pc'[u] \notin {"rs_start"} /\ pc[u] \notin {"off_reset", "off_done"})
    BY <1>10 DEF StreamOn, TypeOK, Tasks, Goto, streamVars, listVars, MayControl
  <2>2. ctlr' = "running" \/ ~On' => ctlr = "running" \/ ~On
    BY <1>10, <2>1
       DEF StreamOn, On, Discipline, TypeOK, Tasks, StartPcs, StopPcs, DqbufPcs, ControlPcs,
           RestartPcs, Goto, streamVars, listVars, MayControl
  <2> QED BY <2>1, <2>2, KeptFrame
<1>11. ASSUME NEW t \in AppTasks, StreamOnController(t)
      PROVE  Kept'
  <2>1. /\ \A u \in Tasks \ {t} : pc[u] = "idle"
        /\ ~started /\ ctlr = "null" /\ cur = NULL /\ isr = "idle" /\ fin = NULL
    BY <1>11 DEF StreamOnController, Discipline, Controller, Tasks, ControlPcs, StartPcs
  <2>2. FlagsSound /\ buffer \subseteq Placed
    BY <1>11, <2>1 DEF StreamOnController, Places, FreeFlagSound, Kept, On, Closing, Tasks
  <2>3. /\ \A u \in Tasks : pc'[u] # "rs_start"
        /\ UNCHANGED <<buffer, app, fin, isr>>
    BY <1>11, <2>1 DEF StreamOnController, Goto, TypeOK, Tasks, memoryVars
  <2>4. NULL \notin Elements
    BY DEF NULL, Elements
  <2>5. CASE OnGetNewTrans
    BY <2>1, <2>2, <2>3, <2>4, <2>5, KeptTake DEF Tasks
  <2>6. CASE StartsEmpty
    BY <2>1, <2>2, <2>3, <2>4, <2>6, KeptEmpty DEF Tasks
  <2> QED BY <1>11, <2>1, <2>5, <2>6 DEF StreamOnController, StartController
<1>12. ASSUME NEW t \in AppTasks, StreamOnControllerFails(t)
      PROVE  Kept'
  <2>1. /\ UNCHANGED <<ctlr, isr, backup_element, buffer, listVars, app, cur, fin>>
        /\ \A u \in Tasks : pc'[u] = pc[u] \/ (pc'[u] \notin {"rs_start"} /\ pc[u] \notin {"off_reset", "off_done"})
    BY <1>12
       DEF StreamOnControllerFails, TypeOK, Tasks, Goto, ctlrVars, streamVars, listVars
  <2>2. ctlr' = "running" \/ ~On' => ctlr = "running" \/ ~On
    BY <1>12, <2>1
       DEF StreamOnControllerFails, On, Discipline, TypeOK, Tasks, StartPcs, StopPcs,
           DqbufPcs, ControlPcs, RestartPcs, Goto, ctlrVars, streamVars, listVars
  <2> QED BY <2>1, <2>2, KeptFrame
<1>13. ASSUME NEW t \in AppTasks, StreamOnSensor(t)
      PROVE  Kept'
  <2>1. /\ UNCHANGED <<ctlr, isr, backup_element, buffer, listVars, app, cur, fin>>
        /\ \A u \in Tasks : pc'[u] = pc[u] \/ (pc'[u] \notin {"rs_start"} /\ pc[u] \notin {"off_reset", "off_done"})
    BY <1>13 DEF StreamOnSensor, TypeOK, Tasks, Goto, ctlrVars, streamVars, listVars
  <2>2. ctlr' = "running" \/ ~On' => ctlr = "running" \/ ~On
    BY <1>13, <2>1
       DEF StreamOnSensor, On, Discipline, TypeOK, Tasks, StartPcs, StopPcs, DqbufPcs,
           ControlPcs, RestartPcs, Goto, ctlrVars, streamVars, listVars
  <2> QED BY <2>1, <2>2, KeptFrame
<1>14. ASSUME NEW t \in AppTasks, StreamOnSensorFails(t)
      PROVE  Kept'
  BY <1>14 DEF StreamOnSensorFails
<1>15. ASSUME NEW t \in AppTasks, StreamOnDone(t)
      PROVE  Kept'
  <2>1. /\ UNCHANGED <<ctlr, isr, backup_element, buffer, listVars, app, cur, fin>>
        /\ \A u \in Tasks : pc'[u] = pc[u] \/ (pc'[u] = "idle" /\ pc[u] = "on_done")
    BY <1>15 DEF StreamOnDone, TypeOK, Tasks, Goto, ctlrVars, memoryVars, listVars
  <2>2. On' /\ On
    BY <1>15 DEF StreamOnDone, On
  <2> QED BY <2>1, <2>2, KeptFrame DEF Tasks
<1>16. ASSUME NEW t \in AppTasks, StreamOff(t)
      PROVE  Kept'
  <2>1. /\ UNCHANGED <<ctlr, isr, backup_element, buffer, listVars, app, cur, fin>>
        /\ \A u \in Tasks : pc'[u] = pc[u] \/ (pc'[u] \notin {"rs_start"} /\ pc[u] \notin {"off_reset", "off_done"})
    BY <1>16 DEF StreamOff, TypeOK, Tasks, Goto, ctlrVars, streamVars, listVars, MayStop
  <2>2. ctlr' = "running" \/ ~On' => ctlr = "running" \/ ~On
    BY <1>16, <2>1
       DEF StreamOff, On, Discipline, TypeOK, Tasks, StartPcs, StopPcs, DqbufPcs,
           ControlPcs, RestartPcs, Goto, ctlrVars, streamVars, listVars, MayStop
  <2> QED BY <2>1, <2>2, KeptFrame
<1>17. ASSUME NEW t \in AppTasks, StreamOffController(t)
      PROVE  Kept'
  <2>1. /\ HaltDriver /\ ctlr' # "running" /\ started
        /\ UNCHANGED <<started, listVars, buffer, app, fin, backup_element>>
        /\ \A u \in Tasks : pc'[u] = pc[u] \/ (pc'[u] # "rs_start" /\ pc[u] \notin {"off_reset", "off_done"})
    BY <1>17
       DEF StreamOffController, StopController, Discipline, StartPcs, StopPcs, DqbufPcs,
           ControlPcs, RestartPcs, Goto, streamVars, listVars, TypeOK, Tasks
  <2> QED BY <2>1, KeptHalt
<1>18. ASSUME NEW t \in AppTasks, StreamOffControllerFails(t)
      PROVE  Kept'
  <2>1. /\ (HaltDriver /\ ctlr' = "halted") \/ UNCHANGED <<ctlr, cur, isr>>
        /\ started
        /\ UNCHANGED <<started, listVars, buffer, app, fin, backup_element>>
        /\ \A u \in Tasks : pc'[u] = pc[u] \/ (pc'[u] = "idle" /\ pc[u] \notin {"off_reset", "off_done"})
    BY <1>18
       DEF StreamOffControllerFails, StopControllerFails, Discipline, StartPcs, StopPcs,
           DqbufPcs, ControlPcs, RestartPcs, Goto, streamVars, listVars, TypeOK, Tasks
  <2>2. CASE HaltDriver /\ ctlr' = "halted"
    BY <2>1, <2>2, KeptHalt
  <2>3. CASE UNCHANGED <<ctlr, cur, isr>>
    BY <2>1, <2>3, KeptFrame DEF On
  <2> QED BY <2>1, <2>2, <2>3
<1>19. ASSUME NEW t \in AppTasks, StreamOffDrain(t)
      PROVE  Kept'
  <2>1. /\ UNCHANGED <<ctlr, isr, backup_element, buffer, listVars, app, cur, fin>>
        /\ \A u \in Tasks : pc'[u] = pc[u] \/ (pc'[u] \notin {"rs_start"} /\ pc[u] \notin {"off_reset", "off_done"})
    BY <1>19 DEF StreamOffDrain, TypeOK, Tasks, Goto, ctlrVars, memoryVars, listVars
  <2>2. ctlr' = "running" \/ ~On' => ctlr = "running" \/ ~On
    BY <1>19, <2>1
       DEF StreamOffDrain, On, Discipline, TypeOK, Tasks, StartPcs, StopPcs, DqbufPcs,
           ControlPcs, RestartPcs, Goto, ctlrVars, memoryVars, listVars
  <2> QED BY <2>1, <2>2, KeptFrame
<1>20. ASSUME NEW t \in AppTasks, StreamOffLists(t)
      PROVE  Kept'
  <2>1. /\ pc' = [pc EXCEPT ![t] = "off_reset"] /\ pc \in [Tasks -> {"idle"} \cup DqbufPcs \cup ControlPcs \cup RestartPcs]
        /\ UNCHANGED <<isr, cur, backup_element>>
    BY <1>20 DEF StreamOffLists, Goto, TypeOK, ctlrVars
  <2>2. Closing' /\ \A r \in EventTasks : pc'[r] = pc[r]
    BY <2>1, CaptureAssumption DEF Closing, Tasks
  <2> QED BY <2>1, <2>2 DEF Kept
<1>21. ASSUME NEW t \in AppTasks, StreamOffReset(t)
      PROVE  Kept'
  <2>1. /\ pc' = [pc EXCEPT ![t] = "off_done"] /\ pc \in [Tasks -> {"idle"} \cup DqbufPcs \cup ControlPcs \cup RestartPcs]
        /\ UNCHANGED <<isr, cur, backup_element>>
    BY <1>21 DEF StreamOffReset, Goto, TypeOK, ctlrVars
  <2>2. Closing' /\ \A r \in EventTasks : pc'[r] = pc[r]
    BY <2>1, CaptureAssumption DEF Closing, Tasks
  <2> QED BY <2>1, <2>2 DEF Kept
<1>22. ASSUME NEW t \in AppTasks, StreamOffDone(t)
      PROVE  Kept'
  <2>1. /\ pc' = [pc EXCEPT ![t] = "idle"] /\ pc \in [Tasks -> {"idle"} \cup DqbufPcs \cup ControlPcs \cup RestartPcs]
        /\ app' = buffer /\ UNCHANGED <<buffer, isr, cur, backup_element>>
    BY <1>22 DEF StreamOffDone, Goto, TypeOK, ctlrVars, memoryVars
  <2>2. buffer' \subseteq Placed' /\ \A r \in EventTasks : pc'[r] = pc[r]
    BY <2>1, CaptureAssumption DEF Placed, Tasks
  <2> QED BY <2>1, <2>2 DEF Kept
<1>23. ASSUME NEW r \in EventTasks, Restart(r)
      PROVE  Kept'
  <2>1. /\ UNCHANGED <<ctlr, isr, backup_element, buffer, listVars, app, cur, fin>>
        /\ \A u \in Tasks : pc'[u] = pc[u] \/ (pc'[u] \notin {"rs_start"} /\ pc[u] \notin {"off_reset", "off_done"})
    BY <1>23 DEF Restart, TypeOK, Tasks, Goto, ctlrVars, streamVars, listVars, MayRestart
  <2>2. ctlr' = "running" \/ ~On' => ctlr = "running" \/ ~On
    BY <1>23, <2>1
       DEF Restart, On, Discipline, TypeOK, Tasks, StartPcs, StopPcs, DqbufPcs, ControlPcs,
           RestartPcs, Goto, ctlrVars, streamVars, listVars, MayRestart
  <2> QED BY <2>1, <2>2, KeptFrame
<1>24. ASSUME NEW r \in EventTasks, RestartStop(r)
      PROVE  Kept'
  <2>1. /\ HaltDriver /\ ctlr' # "running" /\ started
        /\ UNCHANGED <<started, listVars, buffer, app, fin, backup_element>>
        /\ \A u \in Tasks : pc'[u] = pc[u] \/ (pc'[u] # "rs_start" /\ pc[u] \notin {"off_reset", "off_done"})
    BY <1>24, CaptureAssumption
       DEF RestartStop, StopController, Discipline, StartPcs, StopPcs, DqbufPcs, ControlPcs,
           RestartPcs, Goto, streamVars, listVars, TypeOK, Tasks
  <2> QED BY <2>1, KeptHalt
<1>25. ASSUME NEW r \in EventTasks, RestartStopFails(r)
      PROVE  Kept'
  <2>1. /\ (HaltDriver /\ ctlr' = "halted") \/ UNCHANGED <<ctlr, cur, isr>>
        /\ started
        /\ UNCHANGED <<started, listVars, buffer, app, fin, backup_element>>
        /\ \A u \in Tasks : pc'[u] = pc[u] \/ (pc'[u] = "idle" /\ pc[u] \notin {"off_reset", "off_done"})
    BY <1>25, CaptureAssumption
       DEF RestartStopFails, StopControllerFails, Discipline, StartPcs, StopPcs, DqbufPcs,
           ControlPcs, RestartPcs, Goto, streamVars, listVars, TypeOK, Tasks
  <2>2. CASE HaltDriver /\ ctlr' = "halted"
    BY <2>1, <2>2, KeptHalt
  <2>3. CASE UNCHANGED <<ctlr, cur, isr>>
    BY <2>1, <2>3, KeptFrame DEF On
  <2> QED BY <2>1, <2>2, <2>3
<1>26. ASSUME NEW r \in EventTasks, RestartSkip(r)
      PROVE  Kept'
  <2>1. /\ started /\ ctlr = "null" /\ cur = NULL /\ fin = NULL /\ isr = "idle"
        /\ \A u \in AppTasks : pc[u] \notin ControlPcs
    BY <1>26, CaptureAssumption
       DEF RestartSkip, Discipline, Controller, Tasks, RestartPcs, ControlPcs, StartPcs,
           StopPcs
  <2>2. /\ UNCHANGED <<started, buffer, app, cur, fin, isr, ctlr>>
        /\ backup_element' = NULL /\ SkipBuffer(backup_element)
    BY <1>26 DEF RestartSkip, memoryVars
  <2>3. FlagsSound /\ ListsSound /\ ~Closing
    BY <2>1 DEF Places, FreeFlagSound, Closing, ControlPcs, StopPcs
  <2>4. Listed' = Listed \cup ({backup_element} \cap buffer)
    BY <2>2, <2>3, SkipBufferSound DEF TypeOK
  <2>5. buffer \subseteq Placed \cup {backup_element}
    BY <2>3 DEF Kept
  <2>6. buffer' \subseteq Placed'
    BY <2>2, <2>4, <2>5 DEF Placed, Held
  <2>7. cur' \notin Elements /\ isr' # "refill"
    BY <2>1, <2>2 DEF NULL, Elements
  <2> QED BY <2>2, <2>6, <2>7 DEF Kept
<1>27. ASSUME NEW r \in EventTasks, RestartStart(r)
      PROVE  Kept'
  <2>1. /\ started /\ ctlr = "null" /\ cur = NULL /\ fin = NULL /\ isr = "idle" /\ backup_element = NULL
        /\ \A u \in AppTasks : pc[u] \notin ControlPcs
    BY <1>27, CaptureAssumption
       DEF RestartStart, Discipline, Controller, Kept, Tasks, RestartPcs, ControlPcs,
           StartPcs, StopPcs
  <2>2. /\ \A u \in EventTasks : pc'[u] # "rs_start"
        /\ UNCHANGED <<buffer, app, fin, isr>>
    BY <1>27, CaptureAssumption DEF RestartStart, MutexHeld, Goto, TypeOK, Tasks, memoryVars
  <2>3. NULL \notin Elements
    BY DEF NULL, Elements
  <2>4. FlagsSound /\ buffer \subseteq Placed
    BY <2>1, <2>3
       DEF Places, FreeFlagSound, Kept, Closing, ControlPcs, StopPcs, TypeOK, StreamTypeOK
  <2>5. CASE OnGetNewTrans
    BY <2>1, <2>2, <2>3, <2>4, <2>5, KeptTake
  <2>6. CASE StartsEmpty
    BY <2>1, <2>2, <2>3, <2>4, <2>6, KeptEmpty
  <2> QED BY <1>27, <2>1, <2>5, <2>6 DEF RestartStart, StartController
<1>28. ASSUME NEW r \in EventTasks, RestartStartFails(r)
      PROVE  Kept'
  <2>1. /\ UNCHANGED <<ctlr, isr, backup_element, buffer, listVars, app, cur, fin>>
        /\ \A u \in Tasks : pc'[u] = pc[u] \/ (pc'[u] \notin {"rs_start"} /\ pc[u] \notin {"off_reset", "off_done"})
    BY <1>28 DEF RestartStartFails, TypeOK, Tasks, Goto, ctlrVars, streamVars, listVars
  <2>2. ctlr' = "running" \/ ~On' => ctlr = "running" \/ ~On
    BY <1>28, <2>1
       DEF RestartStartFails, On, Discipline, TypeOK, Tasks, StartPcs, StopPcs, DqbufPcs,
           ControlPcs, RestartPcs, Goto, ctlrVars, streamVars, listVars
  <2> QED BY <2>1, <2>2, KeptFrame
<1>29. ASSUME NEW r \in EventTasks, RestartSensor(r)
      PROVE  Kept'
  <2>1. /\ UNCHANGED <<ctlr, isr, backup_element, buffer, listVars, app, cur, fin>>
        /\ \A u \in Tasks : pc'[u] = pc[u] \/ (pc'[u] \notin {"rs_start"} /\ pc[u] \notin {"off_reset", "off_done"})
    BY <1>29 DEF RestartSensor, TypeOK, Tasks, Goto, ctlrVars, streamVars, listVars
  <2>2. ctlr' = "running" \/ ~On' => ctlr = "running" \/ ~On
    BY <1>29, <2>1
       DEF RestartSensor, On, Discipline, TypeOK, Tasks, StartPcs, StopPcs, DqbufPcs,
           ControlPcs, RestartPcs, Goto, ctlrVars, streamVars, listVars
  <2> QED BY <2>1, <2>2, KeptFrame
<1>30. ASSUME NEW r \in EventTasks, RestartSensorFails(r)
      PROVE  Kept'
  <2>1. /\ HaltDriver /\ ctlr' # "running" /\ started
        /\ UNCHANGED <<started, listVars, buffer, app, fin, backup_element>>
        /\ \A u \in Tasks : pc'[u] = pc[u] \/ (pc'[u] # "rs_start" /\ pc[u] \notin {"off_reset", "off_done"})
    BY <1>30, CaptureAssumption
       DEF RestartSensorFails, StopController, Discipline, StartPcs, StopPcs, DqbufPcs,
           ControlPcs, RestartPcs, Goto, streamVars, listVars, TypeOK, Tasks
  <2> QED BY <2>1, KeptHalt
<1>31. CASE IsrGetFirst
  <2>1. /\ ctlr = "running" /\ isr = "idle" /\ fin = NULL /\ cur # NULL
        /\ NULL \notin Elements /\ Own \notin Elements
    BY <1>31 DEF IsrGetFirst, Controller, NULL, Own, Elements
  <2>2. FlagsSound /\ buffer \subseteq Placed
    BY <2>1, RunningPcs DEF Places, FreeFlagSound, Kept, Closing
  <2>3. /\ \A r \in EventTasks : pc'[r] # "rs_start"
        /\ UNCHANGED <<buffer, app>>
        /\ isr' # "refill" /\ (cur \in Elements => fin' = cur)
    BY <1>31, <2>1 DEF IsrGetFirst, Controller, memoryVars
  <2> QED BY <1>31, <2>1, <2>2, <2>3, KeptTake DEF IsrGetFirst
<1>32. CASE IsrFinishFirst
  <2>1. /\ isr = "idle" /\ isr' = "finish" /\ fin = NULL /\ fin' = cur /\ cur' = NULL
        /\ NULL \notin Elements
        /\ UNCHANGED <<started, pc, ctlr, backup_element, buffer, listVars, app>>
    BY <1>32 DEF IsrFinishFirst, Controller, NULL, Elements, streamVars, listVars
  <2>2. Placed' = Placed
    BY <2>1 DEF Placed, Held, Listed, listVars
  <2> QED BY <2>1, <2>2, KeptGrow DEF Kept, On, Closing
<1>33. CASE IsrGetLast
  <2>1. /\ ctlr = "running" /\ isr = "refill" /\ cur = NULL
        /\ NULL \notin Elements /\ Own \notin Elements
    BY <1>33 DEF IsrGetLast, Controller, Kept, NULL, Own, Elements, TypeOK
  <2>2. FlagsSound /\ buffer \subseteq Placed
    BY <2>1, RunningPcs DEF Places, FreeFlagSound, Kept, Closing
  <2>3. /\ \A r \in EventTasks : pc'[r] # "rs_start"
        /\ UNCHANGED <<buffer, app, fin>>
        /\ isr' # "refill"
    BY <1>33, <2>1 DEF IsrGetLast, Controller, memoryVars
  <2> QED BY <1>33, <2>1, <2>2, <2>3, KeptTake DEF IsrGetLast
<1>34. CASE IsrDrop
  <2>1. /\ fin = backup_element /\ UseBackup /\ ctlr = "running" /\ fin' = NULL /\ isr' = AfterFinish
        /\ NULL \notin Elements
        /\ UNCHANGED <<started, pc, ctlr, cur, backup_element, buffer, listVars, app>>
    BY <1>34 DEF IsrDrop, Controller, NULL, Elements, streamVars, listVars, TypeOK
  <2>2. cur = fin
    BY <2>1 DEF Places, Refillable
  <2>3. Placed' = Placed
    BY <2>1, <2>2 DEF Placed, Held, Listed, listVars
  <2> QED BY <2>1, <2>3, KeptGrow DEF Kept, On, Closing, AfterFinish
<1>35. CASE IsrDone
  <2>1. /\ isr = "finish" /\ ctlr = "running" /\ fin \in Elements /\ fin' = NULL
        /\ NULL \notin Elements
        /\ isr' = "refill" => cur = NULL
        /\ UNCHANGED <<started, pc, ctlr, cur, backup_element, buffer, app>>
    BY <1>35
       DEF IsrDone, Controller, NULL, Elements, memoryVars, AfterFinish, Places, TypeOK
  <2>2. FlagsSound /\ ListsSound /\ fin \in buffer
    BY <2>1, RunningPcs DEF Places, FreeFlagSound, Held
  <2>3. Listed' = Listed \cup {fin}
    BY <1>35, <2>1, <2>2, DoneElementSound DEF IsrDone, TypeOK
  <2>4. Placed \subseteq Placed'
    BY <2>1, <2>3 DEF Placed, Held
  <2> QED BY <2>1, <2>4, KeptGrow DEF Kept, On, Closing
<1>36. CASE IsrGive
  <2>1. /\ UNCHANGED <<started, pc, ctlr, backup_element, buffer, listVars, app, cur, fin>>
        /\ isr' = "refill" => cur = NULL
    BY <1>36 DEF IsrGive, TypeOK, Tasks, memoryVars, listVars, AfterFinish
  <2> QED BY <2>1, KeptFrame DEF On
<1>37. CASE IsrSkip
  <2>1. /\ isr = "finish" /\ ctlr = "running" /\ fin \in Elements /\ fin' = NULL
        /\ NULL \notin Elements
        /\ isr' = "refill" => cur = NULL
        /\ UNCHANGED <<started, pc, ctlr, cur, backup_element, buffer, app>>
    BY <1>37
       DEF IsrSkip, Controller, NULL, Elements, memoryVars, AfterFinish, Places, TypeOK
  <2>2. FlagsSound /\ ListsSound /\ fin \in buffer
    BY <2>1, RunningPcs DEF Places, FreeFlagSound, Held
  <2>3. Listed' = Listed \cup {fin}
    BY <1>37, <2>1, <2>2, SkipBufferSound DEF IsrSkip, TypeOK
  <2>4. Placed \subseteq Placed'
    BY <2>1, <2>3 DEF Placed, Held
  <2> QED BY <2>1, <2>4, KeptGrow DEF Kept, On, Closing
<1>38. CASE UNCHANGED vars
  <2>1. UNCHANGED <<started, pc, ctlr, isr, backup_element, buffer, listVars, app, cur, fin>>
    BY <1>38 DEF vars, ctlrVars, streamVars, listVars
  <2> QED BY <2>1, KeptFrame DEF On
<1> QED
  BY <1>1, <1>2, <1>3, <1>4, <1>5, <1>6, <1>7, <1>8, <1>9, <1>10, <1>11, <1>12, <1>13,
     <1>14, <1>15, <1>16, <1>17, <1>18, <1>19, <1>20, <1>21, <1>22, <1>23, <1>24, <1>25,
     <1>26, <1>27, <1>28, <1>29, <1>30, <1>31, <1>32, <1>33, <1>34, <1>35, <1>36, <1>37,
     <1>38
     DEF Next, AppNext, ReqbufsNext, TransferNext, StreamOnNext, StreamOffNext, RestartNext,
         IsrNext

\* No buffer of a stream is lost: while the stream is not being turned off, each is with
\* the application, in a list, with the controller, or the backup element that RESTART
\* puts back, whatever stops and restarts fail.  A STREAMON whose sensor fails does lose
\* the buffer the controller had taken, so that fault is left out.
THEOREM NothingLost ==
    ASSUME Careless = {}, UseBackup \/ EventTasks = {}, "start" \notin Faults
    PROVE  Spec => []NoBufferLost
<1>1. Init => Kept
  BY KeptInit
<1>2. IInv /\ Places /\ Kept /\ [Next]_vars => Kept'
  BY KeptStep DEF IInv
<1>3. Kept => NoBufferLost
  BY DEF Kept, NoBufferLost, Placed
<1> QED BY <1>1, <1>2, <1>3, IInvCorrect, PlacesCorrect, PTL DEF Spec

-------------------------------------------------------------------------------
(* The stream implements BufferFifo. *)

LEMMA AsSeqCases ==
    /\ AsSeq({}) = <<>>
    /\ \A x : AsSeq({x}) = <<x>>
BY DEF AsSeq

FifoInv ==
    /\ TypeOK /\ Discipline /\ MutexHeld /\ Controller
    /\ Places /\ Kept
    /\ skip_count = 0

\* The frames in the order in which DQBUF returns them, and the buffers in the order in
\* which they will be filled.
Finished == IF fin \in Elements /\ fin # cur THEN Append(done_list, fin) ELSE done_list

Unfilled ==
    IF cur \in Elements THEN <<cur>> \o queued_list
    ELSE IF Limbo = {} THEN queued_list ELSE <<backup_element>> \o queued_list

LEMMA PipeTypes ==
    FifoInv => Finished \in Seq(Elements) /\ Unfilled \in Seq(Elements)
<1> SUFFICES ASSUME FifoInv PROVE Finished \in Seq(Elements) /\ Unfilled \in Seq(Elements)
  OBVIOUS
<1>1. queued_list \in Seq(Elements) /\ done_list \in Seq(Elements) /\ buffer \subseteq Elements
  BY DEF FifoInv, TypeOK, StreamTypeOK, ListTypeOK
<1>2. Limbo # {} => backup_element \in Elements
  BY <1>1 DEF Limbo
<1> QED BY <1>1, <1>2, AppendRange, ConsRange DEF Finished, Unfilled

LEMMA PipeIs ==
    UseBackup /\ FifoInv /\ ~Closing => fifoPipe = Finished \o Unfilled /\ fifoApp = app
<1> SUFFICES ASSUME UseBackup, FifoInv, ~Closing PROVE fifoPipe = Finished \o Unfilled
  BY DEF fifoApp
<1>1. queued_list \in Seq(Elements) /\ done_list \in Seq(Elements) /\ buffer \subseteq Elements
  BY DEF FifoInv, TypeOK, StreamTypeOK, ListTypeOK
<1>2. cur \in Elements => Limbo = {}
  BY DEF FifoInv, Kept, Limbo, Held
<1>3. Limbo = {} \/ (Limbo = {backup_element} /\ backup_element \in Elements)
  BY <1>1 DEF Limbo
<1> DEFINE a == AsSeq({fin} \cap Elements)
           b == AsSeq(({cur} \ {fin}) \cap Elements)
           l == AsSeq(Limbo)
<1>4. a = IF fin \in Elements THEN <<fin>> ELSE <<>>
  <2>1. {fin} \cap Elements = IF fin \in Elements THEN {fin} ELSE {}
    OBVIOUS
  <2> QED BY <2>1, AsSeqCases
<1>5. b = IF cur \in Elements /\ cur # fin THEN <<cur>> ELSE <<>>
  <2>1. ({cur} \ {fin}) \cap Elements = IF cur \in Elements /\ cur # fin THEN {cur} ELSE {}
    OBVIOUS
  <2> QED BY <2>1, AsSeqCases
<1>6. l = IF Limbo = {} THEN <<>> ELSE <<backup_element>>
  BY <1>3, AsSeqCases
<1>7. fifoPipe = (((done_list \o a) \o b) \o l) \o queued_list
  BY DEF fifoPipe
<1> HIDE DEF a, b, l
<1>8. fin \in Elements => cur \in Elements
  BY 
     DEF FifoInv, Controller, Places, Refillable, TypeOK, StreamTypeOK, NULL,
         Elements
<1>9. /\ done_list \o <<>> = done_list
      /\ \A x \in Elements : /\ (done_list \o <<x>>) \in Seq(Elements)
                             /\ (done_list \o <<x>>) \o <<>> = done_list \o <<x>>
                             /\ done_list \o <<x>> = Append(done_list, x)
                             /\ (done_list \o <<x>>) \o queued_list = done_list \o (<<x>> \o queued_list)
  BY <1>1, ConcatEmptySeq, MoveAcross, AppendIsConcat, AppendRange
<1>10. CASE cur \notin Elements
  <2>1. fin \notin Elements /\ a = <<>> /\ b = <<>> /\ Finished = done_list
    BY <1>4, <1>5, <1>8, <1>10 DEF Finished
  <2> QED BY <1>3, <1>6, <1>7, <1>9, <1>10, <2>1 DEF Unfilled
<1>11. CASE cur \in Elements /\ (fin = cur \/ fin \notin Elements)
  <2>1. /\ l = <<>> /\ Finished = done_list /\ Unfilled = <<cur>> \o queued_list
        /\ (a = <<cur>> /\ b = <<>>) \/ (a = <<>> /\ b = <<cur>>)
    BY <1>2, <1>4, <1>5, <1>6, <1>11 DEF Finished, Unfilled
  <2> QED BY <1>7, <1>9, <1>11, <2>1
<1>12. CASE cur \in Elements /\ fin # cur /\ fin \in Elements
  <2> DEFINE f == Append(done_list, fin)
  <2>1. /\ l = <<>> /\ Finished = f /\ Unfilled = <<cur>> \o queued_list
        /\ a = <<fin>> /\ b = <<cur>>
    BY <1>2, <1>4, <1>5, <1>6, <1>12 DEF Finished, Unfilled
  <2>2. f \in Seq(Elements) /\ done_list \o a = f
    BY <1>1, <1>9, <1>12, <2>1, AppendRange
  <2> HIDE DEF f
  <2>3. /\ (f \o <<cur>>) \in Seq(Elements)
        /\ (f \o <<cur>>) \o <<>> = f \o <<cur>>
        /\ (f \o <<cur>>) \o queued_list = f \o (<<cur>> \o queued_list)
    BY <1>1, <1>12, <2>2, ConcatEmptySeq, MoveAcross, AppendIsConcat, AppendRange
  <2> QED BY <1>7, <2>1, <2>2, <2>3
<1> QED BY <1>10, <1>11, <1>12

LEMMA PipeIsNext ==
    (UseBackup /\ FifoInv /\ ~Closing => fifoPipe = Finished \o Unfilled /\ fifoApp = app)'
BY PipeIs, PTL

LEMMA PipeTypesNext ==
    (FifoInv => Finished \in Seq(Elements) /\ Unfilled \in Seq(Elements))'
BY PipeTypes, PTL

\* Steps that leave every buffer where it is.
LEMMA FifoFrame ==
    ASSUME UNCHANGED <<buffer, app, queued_list, done_list, cur, fin, backup_element>>,
           \A u \in AppTasks :
               pc'[u] \in {"off_reset", "off_done"} <=> pc[u] \in {"off_reset", "off_done"}
    PROVE  [Fifo!Next]_Fifo!vars
<1>1. Limbo' = Limbo /\ Closing' = Closing
  BY DEF Limbo, Listed, Held, Closing
<1>2. fifoPipe' = fifoPipe /\ fifoApp' = fifoApp
  BY <1>1 DEF fifoPipe, fifoApp
<1> QED BY <1>2 DEF Fifo!vars

\* Steps that move buffers inside the pipe.
LEMMA FifoStutter ==
    ASSUME UseBackup, FifoInv, FifoInv', ~Closing, ~Closing',
           UNCHANGED <<buffer, app>>,
           Finished' \o Unfilled' = Finished \o Unfilled
    PROVE  [Fifo!Next]_Fifo!vars
BY PipeIs, PipeIsNext DEF Fifo!vars

\* A request for buffers empties the pipe.
LEMMA FifoRequest ==
    ASSUME NEW t \in AppTasks,
           UseBackup, FifoInv, FifoInv', MayControl(t), ~started,
           queued_list' = <<>>, done_list' = <<>>, StorageReplaced
    PROVE  [Fifo!Next]_Fifo!vars
<1>1. \A u \in AppTasks : pc[u] = "idle" /\ pc'[u] = "idle"
  BY DEF MayControl, StorageReplaced
<1>2. ~Closing' /\ cur = NULL /\ fin = NULL
  BY <1>1 DEF FifoInv, Controller, Closing
<1>3. app' = buffer' /\ cur' = NULL /\ fin' = NULL /\ NULL \notin Elements
  BY <1>2 DEF StorageReplaced, Freed, NULL, Elements
<1>4. Limbo' = {}
  BY <1>3 DEF Limbo
<1>5. Finished' = <<>> /\ Unfilled' = <<>>
  BY <1>3, <1>4 DEF Finished, Unfilled
<1>6. fifoPipe' = <<>> /\ fifoApp' = buffer'
  BY <1>2, <1>3, <1>5, EmptySeq, ConcatEmptySeq, PipeIsNext
<1>7. buffer' \in SUBSET Elements
  BY DEF FifoInv, TypeOK, StreamTypeOK
<1>8. Fifo!Request(buffer')
  BY <1>6 DEF Fifo!Request
<1> QED BY <1>7, <1>8 DEF Fifo!Next

\* The controller starts with the oldest queued buffer.
LEMMA FifoTake ==
    ASSUME UseBackup, FifoInv, FifoInv', ~Closing, ~Closing',
           OnGetNewTrans, queued_list # <<>>,
           cur = NULL, fin = NULL, Limbo = {},
           UNCHANGED <<buffer, app, fin>>
    PROVE  [Fifo!Next]_Fifo!vars
<1>1. queued_list \in Seq(Elements) /\ NULL \notin Elements
  BY DEF FifoInv, TypeOK, StreamTypeOK, ListTypeOK, NULL, Elements
<1> DEFINE h == Head(queued_list)
<1>2. h \in Elements /\ queued_list = <<h>> \o Tail(queued_list)
  BY <1>1, HeadTailProperties, HeadAndTail
<1>3. cur' = h /\ queued_list' = Tail(queued_list) /\ done_list' = done_list
  BY <1>1, <1>2 DEF OnGetNewTrans, NewTrans, GetQueuedElement
<1> HIDE DEF h
<1>4. Finished' = Finished /\ Unfilled' = Unfilled
  BY <1>1, <1>2, <1>3 DEF Finished, Unfilled
<1> QED BY <1>4, FifoStutter

\* The controller stops: the buffer it was filling is the next one to be filled.
LEMMA FifoHalt ==
    ASSUME UseBackup, FifoInv, FifoInv', HaltDriver, started,
           UNCHANGED <<buffer, app, queued_list, done_list, fin, backup_element>>,
           \A u \in AppTasks :
               pc'[u] \in {"off_reset", "off_done"} <=> pc[u] \in {"off_reset", "off_done"}
    PROVE  [Fifo!Next]_Fifo!vars
<1>1. fin = NULL /\ fin' = NULL /\ cur' = NULL /\ NULL \notin Elements /\ Listed' = Listed
  BY DEF HaltDriver, FifoInv, Controller, NULL, Elements, Listed
<1>2. CASE cur \in Elements
  <2>1. /\ cur = backup_element /\ cur \in Held
        /\ cur \in buffer \ (app \cup Listed)
    BY <1>2 DEF FifoInv, Kept, Places, Held, ExclusiveOwnership
  <2>2. Limbo' # {}
    BY <1>1, <2>1 DEF Limbo, Held
  <2>3. Finished' = Finished /\ Unfilled' = Unfilled
    BY <1>1, <1>2, <2>1, <2>2 DEF Finished, Unfilled
  <2>4. ~Closing /\ ~Closing'
    <3>1. ctlr = "running"
      BY <1>1, <1>2 DEF FifoInv, Controller
    <3> QED BY <3>1, RunningPcs DEF FifoInv, Closing
  <2> QED BY <2>3, <2>4, FifoStutter
<1>3. CASE cur \notin Elements
  <2>1. Limbo' = Limbo /\ Closing' = Closing
    BY <1>1, <1>3 DEF Limbo, Held, Closing
  <2>2. /\ {cur} \cap Elements = {} /\ {cur'} \cap Elements = {}
        /\ ({cur} \ {fin}) \cap Elements = {} /\ ({cur'} \ {fin'}) \cap Elements = {}
    BY <1>1, <1>3
  <2>3. fifoPipe' = fifoPipe /\ fifoApp' = fifoApp
    BY <2>1, <2>2 DEF fifoPipe, fifoApp
  <2> QED BY <2>3 DEF Fifo!vars
<1> QED BY <1>2, <1>3

\* Every step is a step of the FIFO or leaves it as it is.
LEMMA FifoStep ==
    ASSUME UseBackup, Careless = {}, "start" \notin Faults,
           FifoInv, FifoInv', [Next]_vars
    PROVE  [Fifo!Next]_Fifo!vars
<1>1. ASSUME NEW t \in AppTasks, NEW n \in 1 .. MaxCount, ReqbufsSetup(t, n)
      PROVE  [Fifo!Next]_Fifo!vars
  BY <1>1, FifoRequest DEF ReqbufsSetup, SetupBuffer
<1>2. ASSUME NEW t \in AppTasks, NEW n \in 1 .. MaxCount, ReqbufsNoMemory(t, n)
      PROVE  [Fifo!Next]_Fifo!vars
  BY <1>2, FifoRequest DEF ReqbufsNoMemory, SetupBufferFails
<1>3. ASSUME NEW t \in AppTasks, ReqbufsRelease(t)
      PROVE  [Fifo!Next]_Fifo!vars
  BY <1>3, FifoRequest DEF ReqbufsRelease, ReleaseBuffer
<1>4. ASSUME NEW t \in AppTasks, NEW e \in Elements, Qbuf(t, e)
      PROVE  [Fifo!Next]_Fifo!vars
  <2>1. /\ \A u \in AppTasks : pc[u] \notin StopPcs
        /\ UNCHANGED <<pc, cur, fin, backup_element, buffer>>
    BY <1>4 DEF Qbuf, MayTransfer, memoryVars, ctlrVars
  <2>2. ~Closing /\ ~Closing'
    BY <2>1 DEF Closing, StopPcs
  <2>3. ListsSound /\ FlagsSound /\ e \in buffer
    BY <1>4, <2>1 DEF Qbuf, FifoInv, Places, FreeFlagSound, ListsSound, StopPcs
  <2>4. CASE free[e]
    <3>1. e \in app /\ app' = app \ {e} /\ queued_list' = Append(queued_list, e) /\ done_list' = done_list
      BY <1>4, <2>3, <2>4 DEF Qbuf, QueueElement, FlagsSound
    <3>2. Listed' = Listed \cup {e}
      BY <1>4, <2>1, <2>3, QueueElementSound DEF Qbuf, FifoInv, TypeOK
    <3>3. Limbo' = Limbo /\ Finished' = Finished
      BY <2>1, <3>1, <3>2 DEF Limbo, Held, Finished
    <3>4. queued_list \in Seq(Elements)
      BY DEF FifoInv, TypeOK, StreamTypeOK, ListTypeOK
    <3>5. \A x \in Elements : <<x>> \in Seq(Elements) /\ <<x>> \o Append(queued_list, e) = Append(<<x>> \o queued_list, e)
      BY <3>4, MoveAcross
    <3>6. Limbo # {} => backup_element \in Elements
      BY DEF Limbo, FifoInv, TypeOK, StreamTypeOK
    <3>7. Unfilled' = Append(Unfilled, e)
      BY <2>1, <3>1, <3>3, <3>5, <3>6 DEF Unfilled
    <3>8. Finished' \o Unfilled' = Append(Finished \o Unfilled, e)
      BY <3>3, <3>7, PipeTypes, MoveAcross
    <3>9. fifoPipe' = Append(fifoPipe, e) /\ fifoApp' = fifoApp \ {e} /\ e \in fifoApp
      BY <2>2, <3>1, <3>8, PipeIs, PipeIsNext
    <3>10. Fifo!Queue(e)
      BY <2>1, <3>9 DEF Fifo!Queue
    <3> QED BY <3>10 DEF Fifo!Next
  <2>5. CASE ~free[e]
    <3>1. UNCHANGED <<app, queued_list, done_list>>
      BY <1>4, <2>5 DEF Qbuf, QueueElement, listVars
    <3> QED BY <2>1, <3>1, FifoFrame
  <2> QED BY <2>4, <2>5
<1>5. ASSUME NEW t \in AppTasks, Dqbuf(t)
      PROVE  [Fifo!Next]_Fifo!vars
  <2>1. UNCHANGED <<buffer, app, queued_list, done_list, cur, fin, backup_element>>
    BY <1>5 DEF Dqbuf, Goto, ctlrVars, streamVars
  <2>2. \A u \in AppTasks : pc'[u] \in {"off_reset", "off_done"} <=> pc[u] \in {"off_reset", "off_done"}
    BY <1>5 DEF Dqbuf, FifoInv, TypeOK, Tasks, Goto, ctlrVars, streamVars, MayTransfer
  <2> QED BY <2>1, <2>2, FifoFrame
<1>6. ASSUME NEW t \in AppTasks, DqbufTake(t)
      PROVE  [Fifo!Next]_Fifo!vars
  <2>1. UNCHANGED <<buffer, app, queued_list, done_list, cur, fin, backup_element>>
    BY <1>6 DEF DqbufTake, Goto, ctlrVars, memoryVars, listVars
  <2>2. \A u \in AppTasks : pc'[u] \in {"off_reset", "off_done"} <=> pc[u] \in {"off_reset", "off_done"}
    BY <1>6 DEF DqbufTake, FifoInv, TypeOK, Tasks, Goto, ctlrVars, memoryVars, listVars
  <2> QED BY <2>1, <2>2, FifoFrame
<1>7. ASSUME NEW t \in AppTasks, DqbufTimeout(t)
      PROVE  [Fifo!Next]_Fifo!vars
  <2>1. UNCHANGED <<buffer, app, queued_list, done_list, cur, fin, backup_element>>
    BY <1>7 DEF DqbufTimeout, Goto, ctlrVars, streamVars
  <2>2. \A u \in AppTasks : pc'[u] \in {"off_reset", "off_done"} <=> pc[u] \in {"off_reset", "off_done"}
    BY <1>7 DEF DqbufTimeout, FifoInv, TypeOK, Tasks, Goto, ctlrVars, streamVars
  <2> QED BY <2>1, <2>2, FifoFrame
<1>8. ASSUME NEW t \in AppTasks, DqbufReprocess(t)
      PROVE  [Fifo!Next]_Fifo!vars
  <2>1. UNCHANGED <<buffer, app, queued_list, done_list, cur, fin, backup_element>>
    BY <1>8 DEF DqbufReprocess, Goto, ctlrVars, streamVars
  <2>2. \A u \in AppTasks : pc'[u] \in {"off_reset", "off_done"} <=> pc[u] \in {"off_reset", "off_done"}
    BY <1>8 DEF DqbufReprocess, FifoInv, TypeOK, Tasks, Goto, ctlrVars, streamVars
  <2> QED BY <2>1, <2>2, FifoFrame
<1>9. ASSUME NEW t \in AppTasks, DqbufPop(t)
      PROVE  [Fifo!Next]_Fifo!vars
  <2>1. /\ \A u \in AppTasks : pc[u] \notin ControlPcs /\ pc'[u] \notin ControlPcs
        /\ UNCHANGED <<cur, fin, backup_element, buffer>>
    BY <1>9
       DEF DqbufPop, FifoInv, Discipline, Goto, TypeOK, Tasks, StartPcs, StopPcs, DqbufPcs,
           ControlPcs, RestartPcs, memoryVars, ctlrVars
  <2>2. ~Closing /\ ~Closing'
    BY <2>1 DEF Closing, ControlPcs, StopPcs
  <2>3. ListsSound /\ FlagsSound
    BY <2>1 DEF FifoInv, Places, FreeFlagSound, ControlPcs, StopPcs
  <2>4. CASE done_list # <<>>
    <3> DEFINE h == Head(done_list)
    <3>1. /\ queued_list' = queued_list /\ done_list' = Tail(done_list)
          /\ h \in Listed /\ Listed' = Listed \ {h}
      <4>1. GetDoneElement
        BY <1>9 DEF DqbufPop
      <4>2. h \in Listed /\ Listed' = Listed \ {h}
        BY <2>1, <2>3, <2>4, <4>1, GetDoneElementSound DEF FifoInv, TypeOK
      <4> QED BY <2>4, <4>1, <4>2 DEF GetDoneElement
    <3>2. h \in Elements /\ NULL \notin Elements
      <4>1. NULL \notin Elements
        BY DEF NULL, Elements
      <4>2. Listed \subseteq Elements
        BY <2>3 DEF ListsSound, FifoInv, TypeOK, StreamTypeOK
      <4> QED BY <3>1, <4>1, <4>2
    <3>3. app' = app \cup {h}
      BY <1>9, <2>4, <3>2 DEF DqbufPop, FirstDone
    <3>4. Limbo' = Limbo
      BY <2>1, <3>1, <3>3 DEF Limbo, Held
    <3>5. Unfilled' = Unfilled
      BY <2>1, <3>1, <3>4 DEF Unfilled
    <3>6. done_list \in Seq(Elements)
      BY DEF FifoInv, TypeOK, StreamTypeOK, ListTypeOK
    <3>7. \A x \in Elements : /\ Append(done_list, x) # <<>>
                               /\ Head(Append(done_list, x)) = h
                               /\ Tail(Append(done_list, x)) = Append(Tail(done_list), x)
      <4>1. SUFFICES ASSUME NEW x \in Elements
                     PROVE  /\ Append(done_list, x) # <<>>
                            /\ Head(Append(done_list, x)) = h
                            /\ Tail(Append(done_list, x)) = Append(Tail(done_list), x)
        OBVIOUS
      <4>2. /\ <<x>> \in Seq(Elements) /\ Tail(done_list) \in Seq(Elements)
            /\ Append(done_list, x) = done_list \o <<x>>
            /\ Append(Tail(done_list), x) = Tail(done_list) \o <<x>>
        BY <2>4, <3>6, AppendIsConcat, HeadTailProperties
      <4> QED BY <2>4, <3>6, <4>2, TakeFirst
    <3>8. Finished # <<>> /\ Head(Finished) = h /\ Finished' = Tail(Finished)
      BY <2>1, <2>4, <3>1, <3>7 DEF Finished
    <3>9. /\ Finished \o Unfilled # <<>>
          /\ Head(Finished \o Unfilled) = h
          /\ Finished' \o Unfilled' = Tail(Finished \o Unfilled)
      BY <3>5, <3>8, PipeTypes, TakeFirst
    <3>10. /\ fifoPipe # <<>> /\ Head(fifoPipe) = h /\ fifoPipe' = Tail(fifoPipe)
           /\ fifoApp' = fifoApp \cup {h}
      BY <2>2, <3>3, <3>9, PipeIs, PipeIsNext
    <3>11. Fifo!Dequeue
      BY <2>1, <3>10 DEF Fifo!Dequeue
    <3> QED BY <3>11 DEF Fifo!Next
  <2>5. CASE done_list = <<>>
    <3>1. UNCHANGED <<app, queued_list, done_list>>
      BY <1>9, <2>5 DEF DqbufPop, GetDoneElement, FirstDone, listVars
    <3> QED BY <2>1, <3>1, FifoFrame DEF ControlPcs, StopPcs
  <2> QED BY <2>4, <2>5
<1>10. ASSUME NEW t \in AppTasks, StreamOn(t)
      PROVE  [Fifo!Next]_Fifo!vars
  <2>1. UNCHANGED <<buffer, app, queued_list, done_list, cur, fin, backup_element>>
    BY <1>10 DEF StreamOn, Goto, streamVars
  <2>2. \A u \in AppTasks : pc'[u] \in {"off_reset", "off_done"} <=> pc[u] \in {"off_reset", "off_done"}
    BY <1>10 DEF StreamOn, FifoInv, TypeOK, Tasks, Goto, streamVars, MayControl
  <2> QED BY <2>1, <2>2, FifoFrame
<1>11. ASSUME NEW t \in AppTasks, StreamOnController(t)
      PROVE  [Fifo!Next]_Fifo!vars
  <2>1. /\ \A u \in Tasks \ {t} : pc[u] = "idle"
        /\ ~started /\ ctlr = "null" /\ cur = NULL /\ fin = NULL
    BY <1>11
       DEF StreamOnController, FifoInv, Discipline, Controller, Tasks, ControlPcs, StartPcs
  <2>2. /\ OnGetNewTrans /\ UNCHANGED <<buffer, app, fin>>
        /\ ~Closing /\ ~Closing'
    BY <1>11, <2>1
       DEF StreamOnController, StartController, StartsEmpty, Closing, Goto, FifoInv, TypeOK,
           Tasks, memoryVars
  <2>3. Limbo = {}
    BY <1>11, <2>1, <2>2 DEF StreamOnController, FifoInv, Kept, On, Tasks, Placed, Limbo
  <2>4. queued_list # <<>>
    <3>1. NULL \notin Elements
      BY DEF NULL, Elements
    <3>2. Held = {}
      BY <2>1, <3>1 DEF Held
    <3> QED BY <1>11, <2>1, <2>3, <3>2
            DEF StreamOnController, StartController, CanStart, NewTrans, FifoInv, Places,
                Startable, Limbo
  <2> QED BY <2>1, <2>2, <2>3, <2>4, FifoTake
<1>12. ASSUME NEW t \in AppTasks, StreamOnControllerFails(t)
      PROVE  [Fifo!Next]_Fifo!vars
  <2>1. UNCHANGED <<buffer, app, queued_list, done_list, cur, fin, backup_element>>
    BY <1>12 DEF StreamOnControllerFails, Goto, ctlrVars, streamVars
  <2>2. \A u \in AppTasks : pc'[u] \in {"off_reset", "off_done"} <=> pc[u] \in {"off_reset", "off_done"}
    BY <1>12 DEF StreamOnControllerFails, FifoInv, TypeOK, Tasks, Goto, ctlrVars, streamVars
  <2> QED BY <2>1, <2>2, FifoFrame
<1>13. ASSUME NEW t \in AppTasks, StreamOnSensor(t)
      PROVE  [Fifo!Next]_Fifo!vars
  <2>1. UNCHANGED <<buffer, app, queued_list, done_list, cur, fin, backup_element>>
    BY <1>13 DEF StreamOnSensor, Goto, ctlrVars, streamVars
  <2>2. \A u \in AppTasks : pc'[u] \in {"off_reset", "off_done"} <=> pc[u] \in {"off_reset", "off_done"}
    BY <1>13 DEF StreamOnSensor, FifoInv, TypeOK, Tasks, Goto, ctlrVars, streamVars
  <2> QED BY <2>1, <2>2, FifoFrame
<1>14. ASSUME NEW t \in AppTasks, StreamOnSensorFails(t)
      PROVE  [Fifo!Next]_Fifo!vars
  BY <1>14 DEF StreamOnSensorFails
<1>15. ASSUME NEW t \in AppTasks, StreamOnDone(t)
      PROVE  [Fifo!Next]_Fifo!vars
  <2>1. UNCHANGED <<buffer, app, queued_list, done_list, cur, fin, backup_element>>
    BY <1>15 DEF StreamOnDone, Goto, ctlrVars, memoryVars, listVars
  <2>2. \A u \in AppTasks : pc'[u] \in {"off_reset", "off_done"} <=> pc[u] \in {"off_reset", "off_done"}
    BY <1>15 DEF StreamOnDone, FifoInv, TypeOK, Tasks, Goto, ctlrVars, memoryVars, listVars
  <2> QED BY <2>1, <2>2, FifoFrame
<1>16. ASSUME NEW t \in AppTasks, StreamOff(t)
      PROVE  [Fifo!Next]_Fifo!vars
  <2>1. UNCHANGED <<buffer, app, queued_list, done_list, cur, fin, backup_element>>
    BY <1>16 DEF StreamOff, Goto, ctlrVars, streamVars
  <2>2. \A u \in AppTasks : pc'[u] \in {"off_reset", "off_done"} <=> pc[u] \in {"off_reset", "off_done"}
    BY <1>16 DEF StreamOff, FifoInv, TypeOK, Tasks, Goto, ctlrVars, streamVars, MayStop
  <2> QED BY <2>1, <2>2, FifoFrame
<1>17. ASSUME NEW t \in AppTasks, StreamOffController(t)
      PROVE  [Fifo!Next]_Fifo!vars
  <2>1. /\ HaltDriver /\ started
        /\ UNCHANGED <<buffer, app, queued_list, done_list, fin, backup_element>>
        /\ \A u \in AppTasks : pc'[u] \in {"off_reset", "off_done"} <=> pc[u] \in {"off_reset", "off_done"}
    BY <1>17
       DEF StreamOffController, StopController, FifoInv, Discipline, TypeOK, Tasks,
           StartPcs, StopPcs, DqbufPcs, ControlPcs, RestartPcs, Goto, streamVars
  <2> QED BY <2>1, FifoHalt
<1>18. ASSUME NEW t \in AppTasks, StreamOffControllerFails(t)
      PROVE  [Fifo!Next]_Fifo!vars
  <2>1. /\ HaltDriver \/ cur' = cur
        /\ started
        /\ UNCHANGED <<buffer, app, queued_list, done_list, fin, backup_element>>
        /\ \A u \in AppTasks : pc'[u] \in {"off_reset", "off_done"} <=> pc[u] \in {"off_reset", "off_done"}
    BY <1>18
       DEF StreamOffControllerFails, StopControllerFails, FifoInv, Discipline, TypeOK,
           Tasks, StartPcs, StopPcs, DqbufPcs, ControlPcs, RestartPcs, Goto, streamVars
  <2> QED BY <2>1, FifoHalt, FifoFrame
<1>19. ASSUME NEW t \in AppTasks, StreamOffDrain(t)
      PROVE  [Fifo!Next]_Fifo!vars
  <2>1. UNCHANGED <<buffer, app, queued_list, done_list, cur, fin, backup_element>>
    BY <1>19 DEF StreamOffDrain, Goto, ctlrVars, memoryVars, listVars
  <2>2. \A u \in AppTasks : pc'[u] \in {"off_reset", "off_done"} <=> pc[u] \in {"off_reset", "off_done"}
    BY <1>19
       DEF StreamOffDrain, FifoInv, TypeOK, Tasks, Goto, ctlrVars, memoryVars, listVars
  <2> QED BY <2>1, <2>2, FifoFrame
<1>20. ASSUME NEW t \in AppTasks, StreamOffLists(t)
      PROVE  [Fifo!Next]_Fifo!vars
  <2>1. /\ \A u \in AppTasks \ {t} : pc[u] = "idle"
        /\ pc[t] = "off_lists" /\ pc'[t] = "off_reset" /\ buffer' = buffer
    BY <1>20
       DEF StreamOffLists, FifoInv, Discipline, TypeOK, Tasks, Goto, ControlPcs, StopPcs,
           memoryVars
  <2>2. Closing'
    BY <2>1 DEF Closing
  <2>3. fifoPipe' = <<>> /\ fifoApp' = buffer
    BY <2>1, <2>2 DEF fifoPipe, fifoApp
  <2>4. Fifo!StreamOff
    BY <2>1, <2>3 DEF Fifo!StreamOff
  <2> QED BY <2>4 DEF Fifo!Next
<1>21. ASSUME NEW t \in AppTasks, StreamOffReset(t)
      PROVE  [Fifo!Next]_Fifo!vars
  <2>1. pc[t] = "off_reset" /\ pc'[t] = "off_done" /\ buffer' = buffer
    BY <1>21 DEF StreamOffReset, FifoInv, TypeOK, Tasks, Goto, memoryVars
  <2>2. Closing /\ Closing'
    BY <2>1 DEF Closing
  <2>3. fifoPipe' = fifoPipe /\ fifoApp' = fifoApp
    BY <2>1, <2>2 DEF fifoPipe, fifoApp
  <2> QED BY <2>1, <2>3 DEF Fifo!vars
<1>22. ASSUME NEW t \in AppTasks, StreamOffDone(t)
      PROVE  [Fifo!Next]_Fifo!vars
  <2>1. /\ \A u \in AppTasks : pc'[u] = "idle"
        /\ pc[t] = "off_done" /\ app' = buffer
        /\ UNCHANGED <<buffer, queued_list, done_list, cur, fin>>
        /\ cur = NULL /\ fin = NULL
    BY <1>22
       DEF StreamOffDone, FifoInv, Discipline, Controller, TypeOK, Tasks, Goto, ControlPcs,
           StopPcs, memoryVars, listVars, ctlrVars
  <2>2. Closing /\ ~Closing'
    BY <2>1 DEF Closing
  <2>3. Listed = {}
    BY <2>1 DEF FifoInv, Places
  <2>4. queued_list \in Seq(Elements) /\ done_list \in Seq(Elements)
    BY DEF FifoInv, TypeOK, StreamTypeOK, ListTypeOK
  <2>5. queued_list = <<>> /\ done_list = <<>>
    <3>1. queued_list # <<>> => 1 \in DOMAIN queued_list
      BY <2>4, EmptySeq, LenProperties
    <3>2. done_list # <<>> => 1 \in DOMAIN done_list
      BY <2>4, EmptySeq, LenProperties
    <3> QED BY <2>3, <3>1, <3>2 DEF Listed, Range
  <2>6. Limbo' = {} /\ NULL \notin Elements
    BY <2>1 DEF Limbo, NULL, Elements
  <2>7. Finished' = <<>> /\ Unfilled' = <<>>
    BY <2>1, <2>5, <2>6 DEF Finished, Unfilled
  <2>8. fifoPipe' = <<>> /\ fifoApp' = buffer
    BY <2>1, <2>2, <2>4, <2>5, <2>7, ConcatEmptySeq, PipeIsNext
  <2>9. fifoPipe = <<>> /\ fifoApp = buffer
    BY <2>2 DEF fifoPipe, fifoApp
  <2> QED BY <2>1, <2>8, <2>9 DEF Fifo!vars
<1>23. ASSUME NEW r \in EventTasks, Restart(r)
      PROVE  [Fifo!Next]_Fifo!vars
  <2>1. UNCHANGED <<buffer, app, queued_list, done_list, cur, fin, backup_element>>
    BY <1>23 DEF Restart, Goto, ctlrVars, streamVars
  <2>2. \A u \in AppTasks : pc'[u] \in {"off_reset", "off_done"} <=> pc[u] \in {"off_reset", "off_done"}
    BY <1>23, CaptureAssumption
       DEF Restart, FifoInv, TypeOK, Tasks, Goto, ctlrVars, streamVars, MayRestart
  <2> QED BY <2>1, <2>2, FifoFrame
<1>24. ASSUME NEW r \in EventTasks, RestartStop(r)
      PROVE  [Fifo!Next]_Fifo!vars
  <2>1. /\ HaltDriver /\ started
        /\ UNCHANGED <<buffer, app, queued_list, done_list, fin, backup_element>>
        /\ \A u \in AppTasks : pc'[u] \in {"off_reset", "off_done"} <=> pc[u] \in {"off_reset", "off_done"}
    BY <1>24, CaptureAssumption
       DEF RestartStop, StopController, FifoInv, Discipline, TypeOK, Tasks, StartPcs,
           StopPcs, DqbufPcs, ControlPcs, RestartPcs, Goto, streamVars
  <2> QED BY <2>1, FifoHalt
<1>25. ASSUME NEW r \in EventTasks, RestartStopFails(r)
      PROVE  [Fifo!Next]_Fifo!vars
  <2>1. /\ HaltDriver \/ cur' = cur
        /\ started
        /\ UNCHANGED <<buffer, app, queued_list, done_list, fin, backup_element>>
        /\ \A u \in AppTasks : pc'[u] \in {"off_reset", "off_done"} <=> pc[u] \in {"off_reset", "off_done"}
    BY <1>25, CaptureAssumption
       DEF RestartStopFails, StopControllerFails, FifoInv, Discipline, TypeOK, Tasks,
           StartPcs, StopPcs, DqbufPcs, ControlPcs, RestartPcs, Goto, streamVars
  <2> QED BY <2>1, FifoHalt, FifoFrame
<1>26. ASSUME NEW r \in EventTasks, RestartSkip(r)
      PROVE  [Fifo!Next]_Fifo!vars
  <2>1. /\ started /\ cur = NULL /\ fin = NULL
        /\ \A u \in AppTasks : pc[u] \notin ControlPcs /\ pc'[u] = pc[u]
    BY <1>26, CaptureAssumption
       DEF RestartSkip, FifoInv, Discipline, Controller, TypeOK, Tasks, Goto, StartPcs,
           StopPcs, DqbufPcs, ControlPcs, RestartPcs
  <2>2. /\ UNCHANGED <<buffer, app, cur, fin, done_list>>
        /\ backup_element' = NULL /\ SkipBuffer(backup_element)
    BY <1>26 DEF RestartSkip, SkipBuffer, memoryVars, listVars
  <2>3. FlagsSound /\ ListsSound /\ ~Closing /\ ~Closing'
    BY <2>1 DEF FifoInv, Places, FreeFlagSound, Closing, ControlPcs, StopPcs
  <2>4. backup_element \in (buffer \ (app \cup Listed)) \cup {NULL} /\ NULL \notin Elements /\ buffer \subseteq Elements
    BY <2>1 DEF FifoInv, Places, Backup, On, TypeOK, StreamTypeOK, NULL, Elements
  <2>5. Limbo' = {}
    BY <2>2, <2>4 DEF Limbo
  <2>6. Finished' = Finished
    BY <2>2 DEF Finished
  <2>7. CASE backup_element = NULL
    <3>1. queued_list' = queued_list /\ Limbo = {}
      BY <2>2, <2>4, <2>7 DEF SkipBuffer, Accepted, listVars, Limbo
    <3>2. Unfilled' = Unfilled
      BY <2>1, <2>2, <2>5, <3>1 DEF Unfilled
    <3> QED BY <2>2, <2>3, <2>6, <3>2, FifoStutter
  <2>8. CASE backup_element # NULL
    <3>1. Accepted(backup_element)
      BY <2>3, <2>4, <2>8 DEF Accepted, FlagsSound
    <3>2. queued_list' = <<backup_element>> \o queued_list
      BY <2>2, <3>1 DEF SkipBuffer
    <3>3. Limbo # {}
      BY <2>1, <2>4, <2>8 DEF Limbo, Held
    <3>4. Unfilled' = Unfilled
      BY <2>1, <2>2, <2>4, <2>5, <3>2, <3>3 DEF Unfilled
    <3> QED BY <2>2, <2>3, <2>6, <3>4, FifoStutter
  <2> QED BY <2>7, <2>8
<1>27. ASSUME NEW r \in EventTasks, RestartStart(r)
      PROVE  [Fifo!Next]_Fifo!vars
  <2>1. /\ started /\ ctlr = "null" /\ cur = NULL /\ fin = NULL /\ backup_element = NULL
        /\ \A u \in AppTasks : pc[u] \notin ControlPcs /\ pc'[u] = pc[u]
    BY <1>27, CaptureAssumption
       DEF RestartStart, FifoInv, Discipline, Controller, Kept, TypeOK, Tasks, Goto,
           StartPcs, StopPcs, DqbufPcs, ControlPcs, RestartPcs
  <2>2. /\ OnGetNewTrans /\ UNCHANGED <<buffer, app, fin>>
        /\ ~Closing /\ ~Closing' /\ queued_list # <<>>
    BY <1>27, <2>1
       DEF RestartStart, StartController, CanStart, NewTrans, StartsEmpty, Closing,
           ControlPcs, StopPcs, memoryVars
  <2>3. Limbo = {}
    BY <2>1 DEF Limbo, FifoInv, TypeOK, StreamTypeOK, NULL, Elements
  <2> QED BY <2>1, <2>2, <2>3, FifoTake
<1>28. ASSUME NEW r \in EventTasks, RestartStartFails(r)
      PROVE  [Fifo!Next]_Fifo!vars
  <2>1. UNCHANGED <<buffer, app, queued_list, done_list, cur, fin, backup_element>>
    BY <1>28 DEF RestartStartFails, Goto, ctlrVars, streamVars
  <2>2. \A u \in AppTasks : pc'[u] \in {"off_reset", "off_done"} <=> pc[u] \in {"off_reset", "off_done"}
    BY <1>28, CaptureAssumption
       DEF RestartStartFails, FifoInv, TypeOK, Tasks, Goto, ctlrVars, streamVars
  <2> QED BY <2>1, <2>2, FifoFrame
<1>29. ASSUME NEW r \in EventTasks, RestartSensor(r)
      PROVE  [Fifo!Next]_Fifo!vars
  <2>1. UNCHANGED <<buffer, app, queued_list, done_list, cur, fin, backup_element>>
    BY <1>29 DEF RestartSensor, Goto, ctlrVars, streamVars
  <2>2. \A u \in AppTasks : pc'[u] \in {"off_reset", "off_done"} <=> pc[u] \in {"off_reset", "off_done"}
    BY <1>29, CaptureAssumption
       DEF RestartSensor, FifoInv, TypeOK, Tasks, Goto, ctlrVars, streamVars
  <2> QED BY <2>1, <2>2, FifoFrame
<1>30. ASSUME NEW r \in EventTasks, RestartSensorFails(r)
      PROVE  [Fifo!Next]_Fifo!vars
  <2>1. /\ HaltDriver /\ started
        /\ UNCHANGED <<buffer, app, queued_list, done_list, fin, backup_element>>
        /\ \A u \in AppTasks : pc'[u] \in {"off_reset", "off_done"} <=> pc[u] \in {"off_reset", "off_done"}
    BY <1>30, CaptureAssumption
       DEF RestartSensorFails, StopController, FifoInv, Discipline, TypeOK, Tasks, StartPcs,
           StopPcs, DqbufPcs, ControlPcs, RestartPcs, Goto, streamVars
  <2> QED BY <2>1, FifoHalt
<1>31. CASE IsrGetFirst
  <2>1. /\ ctlr = "running" /\ isr = "idle" /\ fin = NULL
        /\ cur \in buffer /\ cur = backup_element /\ cur \in Held
        /\ NULL \notin Elements /\ Own \notin Elements /\ buffer \subseteq Elements
    BY <1>31
       DEF IsrGetFirst, FifoInv, Controller, Places, Refillable, Held, TypeOK,
           StreamTypeOK, NULL, Own, Elements
  <2>2. /\ OnGetNewTrans /\ fin' = cur /\ ctlr' = "running"
        /\ UNCHANGED <<buffer, app, pc, ctlr>>
    BY <1>31, <2>1 DEF IsrGetFirst, memoryVars
  <2>3. FlagsSound /\ ListsSound /\ ~Closing /\ ~Closing'
    BY <2>1, <2>2, RunningPcs DEF FifoInv, Places, FreeFlagSound, Closing
  <2>4. queued_list \in Seq(Elements) /\ done_list \in Seq(Elements)
    BY DEF FifoInv, TypeOK, StreamTypeOK, ListTypeOK
  <2>5. Finished = done_list /\ Unfilled = <<cur>> \o queued_list
    BY <2>1 DEF Finished, Unfilled
  <2>6. CASE queued_list # <<>>
    <3> DEFINE h == Head(queued_list)
    <3>1. /\ queued_list' = Tail(queued_list) /\ done_list' = done_list
          /\ h \in Listed /\ h \in Elements
          /\ queued_list = <<h>> \o Tail(queued_list)
      BY <2>2, <2>3, <2>4, <2>6, TailRange, HeadAndTail
         DEF OnGetNewTrans, GetQueuedElement, Listed, ListsSound
    <3>2. cur' = h /\ h # cur
      BY <2>1, <2>2, <2>6, <3>1
         DEF OnGetNewTrans, NewTrans, FifoInv, Places, ExclusiveOwnership
    <3> HIDE DEF h
    <3>3. Finished' = Append(done_list, cur) /\ Unfilled' = queued_list
      BY <2>1, <2>2, <3>1, <3>2 DEF Finished, Unfilled
    <3>4. Finished' \o Unfilled' = Finished \o Unfilled
      BY <2>1, <2>4, <2>5, <3>3, MoveAcross
    <3> QED BY <2>2, <2>3, <3>4, FifoStutter
  <2>7. CASE queued_list = <<>>
    <3>1. cur' = cur /\ queued_list' = queued_list /\ done_list' = done_list
      BY <2>1, <2>2, <2>7 DEF OnGetNewTrans, NewTrans, GetQueuedElement, listVars
    <3>2. Finished' = done_list /\ Unfilled' = <<cur>> \o queued_list
      BY <2>1, <2>2, <3>1 DEF Finished, Unfilled
    <3> QED BY <2>2, <2>3, <2>5, <3>2, FifoStutter
  <2> QED BY <2>6, <2>7
<1>32. CASE IsrFinishFirst
  BY <1>32 DEF IsrFinishFirst
<1>33. CASE IsrGetLast
  <2>1. cur = NULL /\ ctlr = "running" /\ cur \in buffer
    BY <1>33 DEF IsrGetLast, FifoInv, Kept, Controller, Places, Refillable, TypeOK
  <2> QED BY <2>1 DEF FifoInv, TypeOK, StreamTypeOK, NULL, Elements
<1>34. CASE IsrDrop
  <2>1. /\ ctlr = "running" /\ fin = cur /\ fin' = NULL /\ NULL \notin Elements
        /\ cur \in Elements
        /\ UNCHANGED <<buffer, app, queued_list, done_list, pc, cur>>
    BY <1>34
       DEF IsrDrop, FifoInv, Controller, Places, Refillable, TypeOK, StreamTypeOK,
           NULL, Elements, streamVars
  <2>2. ~Closing /\ ~Closing'
    BY <2>1, RunningPcs DEF FifoInv, Closing
  <2>3. Finished' = Finished /\ Unfilled' = Unfilled
    BY <2>1 DEF Finished, Unfilled
  <2> QED BY <2>1, <2>2, <2>3, FifoStutter
<1>35. CASE IsrDone
  <2>1. /\ ctlr = "running" /\ fin # cur /\ fin' = NULL /\ NULL \notin Elements
        /\ cur \in Elements /\ fin \in Elements /\ fin \in Held
        /\ DoneElement(fin)
        /\ UNCHANGED <<buffer, app, pc, cur>>
    BY <1>35
       DEF IsrDone, FifoInv, Controller, Places, Refillable, Held, TypeOK,
           StreamTypeOK, NULL, Elements, memoryVars
  <2>2. FlagsSound /\ ~Closing /\ ~Closing'
    BY <2>1, RunningPcs DEF FifoInv, Places, FreeFlagSound, Closing
  <2>3. Accepted(fin)
    BY <2>1, <2>2 DEF Accepted, FlagsSound, FifoInv, Places, ExclusiveOwnership
  <2>4. done_list' = Append(done_list, fin) /\ queued_list' = queued_list
    BY <2>1, <2>3 DEF DoneElement
  <2>5. Finished' = Finished /\ Unfilled' = Unfilled
    BY <2>1, <2>4 DEF Finished, Unfilled
  <2> QED BY <2>1, <2>2, <2>5, FifoStutter
<1>36. CASE IsrGive
  <2>1. UNCHANGED <<buffer, app, queued_list, done_list, cur, fin, backup_element>>
    BY <1>36 DEF IsrGive, memoryVars, listVars
  <2>2. \A u \in AppTasks : pc'[u] \in {"off_reset", "off_done"} <=> pc[u] \in {"off_reset", "off_done"}
    BY <1>36 DEF IsrGive, FifoInv, TypeOK, Tasks, memoryVars, listVars
  <2> QED BY <2>1, <2>2, FifoFrame
<1>37. CASE IsrSkip
  BY <1>37 DEF IsrSkip, FifoInv
<1>38. CASE UNCHANGED vars
  BY <1>38, FifoFrame DEF vars, ctlrVars, streamVars
<1> QED
  BY <1>1, <1>2, <1>3, <1>4, <1>5, <1>6, <1>7, <1>8, <1>9, <1>10, <1>11, <1>12, <1>13,
     <1>14, <1>15, <1>16, <1>17, <1>18, <1>19, <1>20, <1>21, <1>22, <1>23, <1>24, <1>25,
     <1>26, <1>27, <1>28, <1>29, <1>30, <1>31, <1>32, <1>33, <1>34, <1>35, <1>36, <1>37,
     <1>38
     DEF Next, AppNext, ReqbufsNext, TransferNext, StreamOnNext, StreamOffNext, RestartNext,
         IsrNext

LEMMA FifoInit == Init => Fifo!Init
<1> SUFFICES ASSUME Init PROVE Fifo!Init
  OBVIOUS
<1>1. /\ queued_list = <<>> /\ done_list = <<>> /\ buffer = {} /\ app = {}
      /\ cur = NULL /\ fin = NULL /\ NULL \notin Elements /\ ~Closing
  BY DEF Init, StreamInit, NULL, Elements, Closing, Tasks
<1>2. {fin} \cap Elements = {} /\ ({cur} \ {fin}) \cap Elements = {} /\ Limbo = {}
  BY <1>1 DEF Limbo
<1>3. fifoPipe = <<>>
  <2>1. fifoPipe = (((<<>> \o AsSeq({})) \o AsSeq({})) \o AsSeq({})) \o <<>>
    BY <1>1, <1>2 DEF fifoPipe
  <2> QED BY <2>1, AsSeqCases, ConcatEmptySeq, EmptySeq
<1> QED BY <1>1, <1>3 DEF Fifo!Init, fifoApp

\* Without frames to skip, none is counted.
LEMMA NoSkipStep ==
    ASSUME SkipFrames = 0, skip_count = 0, [Next]_vars
    PROVE  skip_count' = 0
<1>1. ASSUME NEW t \in AppTasks, NEW n \in 1 .. MaxCount, ReqbufsSetup(t, n)
      PROVE  skip_count' = 0
  BY <1>1 DEF ReqbufsSetup, StorageReplaced
<1>2. ASSUME NEW t \in AppTasks, NEW n \in 1 .. MaxCount, ReqbufsNoMemory(t, n)
      PROVE  skip_count' = 0
  BY <1>2 DEF ReqbufsNoMemory, StorageReplaced
<1>3. ASSUME NEW t \in AppTasks, ReqbufsRelease(t)
      PROVE  skip_count' = 0
  BY <1>3 DEF ReqbufsRelease, StorageReplaced
<1>4. ASSUME NEW t \in AppTasks, NEW e \in Elements, Qbuf(t, e)
      PROVE  skip_count' = 0
  BY <1>4 DEF Qbuf, ctlrVars
<1>5. ASSUME NEW t \in AppTasks, Dqbuf(t)
      PROVE  skip_count' = 0
  BY <1>5 DEF Dqbuf, ctlrVars
<1>6. ASSUME NEW t \in AppTasks, DqbufTake(t)
      PROVE  skip_count' = 0
  BY <1>6 DEF DqbufTake, ctlrVars
<1>7. ASSUME NEW t \in AppTasks, DqbufTimeout(t)
      PROVE  skip_count' = 0
  BY <1>7 DEF DqbufTimeout, ctlrVars
<1>8. ASSUME NEW t \in AppTasks, DqbufReprocess(t)
      PROVE  skip_count' = 0
  BY <1>8 DEF DqbufReprocess, ctlrVars
<1>9. ASSUME NEW t \in AppTasks, DqbufPop(t)
      PROVE  skip_count' = 0
  BY <1>9 DEF DqbufPop, ctlrVars
<1>10. ASSUME NEW t \in AppTasks, StreamOn(t)
      PROVE  skip_count' = 0
  BY <1>10 DEF StreamOn
<1>11. ASSUME NEW t \in AppTasks, StreamOnController(t)
      PROVE  skip_count' = 0
  BY <1>11 DEF StreamOnController
<1>12. ASSUME NEW t \in AppTasks, StreamOnControllerFails(t)
      PROVE  skip_count' = 0
  BY <1>12 DEF StreamOnControllerFails, ctlrVars
<1>13. ASSUME NEW t \in AppTasks, StreamOnSensor(t)
      PROVE  skip_count' = 0
  BY <1>13 DEF StreamOnSensor, ctlrVars
<1>14. ASSUME NEW t \in AppTasks, StreamOnSensorFails(t)
      PROVE  skip_count' = 0
  BY <1>14 DEF StreamOnSensorFails
<1>15. ASSUME NEW t \in AppTasks, StreamOnDone(t)
      PROVE  skip_count' = 0
  BY <1>15 DEF StreamOnDone, ctlrVars
<1>16. ASSUME NEW t \in AppTasks, StreamOff(t)
      PROVE  skip_count' = 0
  BY <1>16 DEF StreamOff, ctlrVars
<1>17. ASSUME NEW t \in AppTasks, StreamOffController(t)
      PROVE  skip_count' = 0
  BY <1>17 DEF StreamOffController
<1>18. ASSUME NEW t \in AppTasks, StreamOffControllerFails(t)
      PROVE  skip_count' = 0
  BY <1>18 DEF StreamOffControllerFails
<1>19. ASSUME NEW t \in AppTasks, StreamOffDrain(t)
      PROVE  skip_count' = 0
  BY <1>19 DEF StreamOffDrain, ctlrVars
<1>20. ASSUME NEW t \in AppTasks, StreamOffLists(t)
      PROVE  skip_count' = 0
  BY <1>20 DEF StreamOffLists, ctlrVars
<1>21. ASSUME NEW t \in AppTasks, StreamOffReset(t)
      PROVE  skip_count' = 0
  BY <1>21 DEF StreamOffReset, ctlrVars
<1>22. ASSUME NEW t \in AppTasks, StreamOffDone(t)
      PROVE  skip_count' = 0
  BY <1>22 DEF StreamOffDone, ctlrVars
<1>23. ASSUME NEW r \in EventTasks, Restart(r)
      PROVE  skip_count' = 0
  BY <1>23 DEF Restart, ctlrVars
<1>24. ASSUME NEW r \in EventTasks, RestartStop(r)
      PROVE  skip_count' = 0
  BY <1>24 DEF RestartStop
<1>25. ASSUME NEW r \in EventTasks, RestartStopFails(r)
      PROVE  skip_count' = 0
  BY <1>25 DEF RestartStopFails
<1>26. ASSUME NEW r \in EventTasks, RestartSkip(r)
      PROVE  skip_count' = 0
  BY <1>26 DEF RestartSkip
<1>27. ASSUME NEW r \in EventTasks, RestartStart(r)
      PROVE  skip_count' = 0
  BY <1>27 DEF RestartStart
<1>28. ASSUME NEW r \in EventTasks, RestartStartFails(r)
      PROVE  skip_count' = 0
  BY <1>28 DEF RestartStartFails, ctlrVars
<1>29. ASSUME NEW r \in EventTasks, RestartSensor(r)
      PROVE  skip_count' = 0
  BY <1>29 DEF RestartSensor, ctlrVars
<1>30. ASSUME NEW r \in EventTasks, RestartSensorFails(r)
      PROVE  skip_count' = 0
  BY <1>30 DEF RestartSensorFails
<1>31. CASE IsrGetFirst
  BY <1>31 DEF IsrGetFirst
<1>32. CASE IsrFinishFirst
  BY <1>32 DEF IsrFinishFirst
<1>33. CASE IsrGetLast
  BY <1>33 DEF IsrGetLast
<1>34. CASE IsrDrop
  BY <1>34 DEF IsrDrop
<1>35. CASE IsrDone
  BY <1>35 DEF IsrDone, NextSkipCount
<1>36. CASE IsrGive
  BY <1>36 DEF IsrGive, NextSkipCount
<1>37. CASE IsrSkip
  BY <1>37 DEF IsrSkip, NextSkipCount
<1>38. CASE UNCHANGED vars
  BY <1>38 DEF vars, ctlrVars
<1> QED
  BY <1>1, <1>2, <1>3, <1>4, <1>5, <1>6, <1>7, <1>8, <1>9, <1>10, <1>11, <1>12, <1>13,
     <1>14, <1>15, <1>16, <1>17, <1>18, <1>19, <1>20, <1>21, <1>22, <1>23, <1>24, <1>25,
     <1>26, <1>27, <1>28, <1>29, <1>30, <1>31, <1>32, <1>33, <1>34, <1>35, <1>36, <1>37,
     <1>38
     DEF Next, AppNext, ReqbufsNext, TransferNext, StreamOnNext, StreamOffNext, RestartNext,
         IsrNext

\* Without frames to skip, a stream with a backup element implements BufferFifo: whatever
\* the controller, the interrupt and RESTART do, and whatever allocations, stops and
\* restarts fail, the application sees its buffers come back in the order in which it
\* queued them.  A STREAMON whose sensor fails breaks this, so that fault is left out.
THEOREM ImplementsFifo ==
    ASSUME UseBackup, SkipFrames = 0, Careless = {}, "start" \notin Faults
    PROVE  Spec => FifoSpec
<1>1. Init => FifoInv
  BY TypeInit, DisciplineInit, ControllerInit, PlacesInit, KeptInit DEF FifoInv, Init
<1>2. FifoInv /\ [Next]_vars => FifoInv'
  BY TypeStep, DisciplineStep, MutexStep, ControllerStep, PlacesStep, KeptStep, NoSkipStep
     DEF FifoInv
<1>3. Init => Fifo!Init
  BY FifoInit
<1>4. FifoInv /\ FifoInv' /\ [Next]_vars => [Fifo!Next]_Fifo!vars
  BY FifoStep
<1> QED BY <1>1, <1>2, <1>3, <1>4, PTL DEF Spec, FifoSpec, Fifo!Spec
===============================================================================
