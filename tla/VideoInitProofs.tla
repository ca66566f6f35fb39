---------------------------- MODULE VideoInitProofs ----------------------------
(***************************************************************************)
(* Proofs about VideoInit, for every choice of configured devices, sensor   *)
(* drivers and I2C ports.                                                   *)
(*                                                                          *)
(* The types need only where a call stands (AtCamera) and that what is      *)
(* opened is initialised (Opened).  The rest is about an application that   *)
(* calls with nothing open and deinitialises everything (Careless = {}):    *)
(* what each camera that exists, and the one at hand, has set up            *)
(* (SensorsKept to BusNew), what goes with the CSI device (Dependents), and *)
(* that a deinitialisation still has ahead of it all there is to destroy,   *)
(* the CSI device before the ISP (Unwinding).  With one SPI device the      *)
(* flags are exact besides (Finishing).                                     *)
(***************************************************************************)
EXTENDS VideoInit, SequenceTheorems, TLAPS

-------------------------------------------------------------------------------
(* The inductive invariant *)

\* The steps of the camera at hand at which it has its device, its sensor, its clock,
\* its SCCB handle and its bus.
BuiltSteps == {"motor", "pipeline"}
SensorSteps == BuiltSteps \cup {"create", "fail_3"}
ClockSteps == SensorSteps \cup {"detect", "fail_2"}
SccbSteps == ClockSteps \cup {"clock", "fail_1"}
BusSteps == SccbSteps \cup {"sccb", "fail_0"}

\* The camera at hand, when it is at one of these steps.
Here(steps) == IF at \in steps THEN {Head(todo)} ELSE {}

\* The call's place: only a camera has steps of its own, and it is not initialised
\* yet; one that has its device already is the CSI camera.
AtCamera ==
    /\ at # "next" =>
        /\ call = "init" /\ todo # <<>>
        /\ Head(todo) \in Cameras /\ Head(todo) \notin flags
    /\ at \in BuiltSteps => Head(todo) = "csi"

\* Every object but that of the CSI camera at hand is that of an initialised device,
\* and only those are opened.
Opened ==
    /\ objects \subseteq flags \cup Here(BuiltSteps)
    /\ Here(BuiltSteps) \subseteq objects
    /\ opened \subseteq flags

\* Nothing is open while a call of a careful application is under way.
Quiet == call # "none" => opened = {}

\* The cameras that exist, the one at hand apart.
Existing == (objects \ Here(BuiltSteps)) \cap Cameras

\* They have their sensor, their SCCB handle, their clock and their bus, and the camera
\* at hand what its steps have set up; the end of a deinitialisation may still have
\* buses to close and the SPI clock to stop.
SensorsKept == sensor = Existing \cup Here(SensorSteps)

HandlesKept == sccb = Existing \cup Here(SccbSteps) \cup (flags \cap {"motor"})

ClocksKept ==
    LET clocked == (Existing \cup Here(ClockSteps)) \ {"csi"} IN
    /\ clocked \subseteq clocks
    /\ clocks \subseteq IF call \in {"none", "init"} THEN clocked ELSE clocked \cup {"spi"}

BusesKept ==
    LET ports == {Port[c] : c \in Existing \cup Here(BusSteps)} IN
    /\ ports \subseteq bus
    /\ call \in {"none", "init"} => bus \subseteq ports

\* The camera at hand opened its bus when no other camera was on it.
BusNew ==
    at # "next" => (i2c_initialized <=> \A c \in Existing : Port[c] # Port[Head(todo)])

\* The motor and the pipeline go with the CSI device; the pipeline needs the ISP too.
Dependents ==
    /\ "motor" \in flags => "csi" \in objects /\ at # "motor"
    /\ pipeline => {"csi", "isp"} \subseteq objects \cap flags

\* The order the dependencies ask for: the CSI device before the ISP, no camera after
\* the SPI one.
Ordered(s) ==
    \A i, j \in 1..Len(s) :
        /\ s[i] = "isp" /\ s[j] = "csi" => j < i
        /\ s[i] = "spi" /\ s[j] \in Cameras => j <= i

\* The cameras a deinitialisation has still to destroy are ahead of it, in that order.
Unwinding ==
    call \in {"deinit", "unwind"} =>
        /\ objects \subseteq want /\ objects \cap Cameras \subseteq Range(todo)
        /\ Ordered(todo)

\* The invariant of a careful application.
IInv ==
    /\ TypeOK /\ AtCamera /\ Opened /\ Quiet
    /\ SensorsKept /\ HandlesKept /\ ClocksKept /\ BusesKept /\ BusNew
    /\ Dependents /\ Unwinding

\* With one SPI device the flags say what exists, everything left is asked for and ahead.
Finishing ==
    /\ flags \ {"motor"} = objects \ Here(BuiltSteps)
    /\ call \in {"deinit", "unwind"} =>
        flags \subseteq want \cup {"motor"} /\ objects \subseteq Range(todo)
    /\ call = "deinit" => ret = "ok"

-------------------------------------------------------------------------------
(* The lists of devices *)

\* What is left of a list is of the same type.
LEMMA TailOf ==
    ASSUME NEW S, NEW s \in Seq(S), s # <<>>
    PROVE  Head(s) \in S /\ Tail(s) \in Seq(S)
BY HeadTailProperties

\* The two orders are lists of devices.
LEMMA OrdersTyped ==
    /\ InitOrder \in Seq(PlainDevices \cup Cameras)
    /\ DeinitOrder \in Seq(PlainDevices \cup Cameras)
<1>1. DeinitOrder \in Seq(PlainDevices \cup Cameras)
  BY DEF DeinitOrder, PlainDevices, Cameras
<1>2. /\ <<"isp", "uvc">> \in Seq(PlainDevices \cup Cameras)
      /\ <<"h264", "jpeg_enc", "jpeg_dec">> \in Seq(PlainDevices \cup Cameras)
  BY DEF PlainDevices, Cameras
<1>3. Detect \in Seq(PlainDevices \cup Cameras)
  BY VideoInitAssumption
<1> QED BY <1>1, <1>2, <1>3, ConcatProperties DEF InitOrder

\* The elements of a list are its first and those of what is left.
LEMMA TailRange ==
    ASSUME NEW S, NEW s \in Seq(S), s # <<>>
    PROVE  Range(s) = {Head(s)} \cup Range(Tail(s))
<1>1. /\ Len(s) \in Nat \ {0} /\ DOMAIN s = 1..Len(s) /\ Head(s) = s[1]
      /\ DOMAIN Tail(s) = 1..(Len(s) - 1)
      /\ \A i \in 1..(Len(s) - 1) : Tail(s)[i] = s[i + 1]
  BY HeadTailProperties, LenProperties, EmptySeq
<1>2. ASSUME NEW i \in 1..Len(s) PROVE s[i] \in {Head(s)} \cup Range(Tail(s))
  <2>1. CASE i = 1
    BY <1>1, <2>1
  <2>2. CASE i # 1
    <3>1. i - 1 \in 1..(Len(s) - 1) /\ s[i] = Tail(s)[i - 1]
      BY <1>1, <1>2, <2>2
    <3> QED BY <1>1, <3>1 DEF Range
  <2> QED BY <2>1, <2>2
<1>3. ASSUME NEW i \in 1..(Len(s) - 1) PROVE Tail(s)[i] \in Range(s)
  <2>1. i + 1 \in 1..Len(s) /\ Tail(s)[i] = s[i + 1]
    BY <1>1, <1>3
  <2> QED BY <1>1, <2>1 DEF Range
<1>4. Head(s) \in Range(s)
  <2>1. 1 \in 1..Len(s)
    BY <1>1
  <2> QED BY <1>1, <2>1 DEF Range
<1> QED BY <1>1, <1>2, <1>3, <1>4 DEF Range

\* What is left keeps the order, and says what cannot come after the ISP or an SPI camera.
LEMMA TailOrdered ==
    ASSUME NEW S, NEW s \in Seq(S), s # <<>>, Ordered(s)
    PROVE  /\ Ordered(Tail(s))
           /\ Head(s) = "isp" => "csi" \notin Range(Tail(s))
           /\ Head(s) = "spi" => Range(Tail(s)) \cap Cameras = {}
<1>1. /\ Len(s) \in Nat \ {0} /\ Head(s) = s[1] /\ Len(Tail(s)) = Len(s) - 1
      /\ DOMAIN Tail(s) = 1..(Len(s) - 1)
      /\ \A i \in 1..(Len(s) - 1) : i + 1 \in 1..Len(s) /\ Tail(s)[i] = s[i + 1]
  BY HeadTailProperties, LenProperties, EmptySeq
<1>2. Ordered(Tail(s))
  BY <1>1 DEF Ordered
<1>3. ASSUME Head(s) = "isp" PROVE "csi" \notin Range(Tail(s))
  BY <1>1, <1>3 DEF Ordered, Range
<1>4. ASSUME Head(s) = "spi" PROVE Range(Tail(s)) \cap Cameras = {}
  BY <1>1, <1>4 DEF Ordered, Range
<1> QED BY <1>2, <1>3, <1>4

\* The deinitialisation looks at every device, in the order the dependencies ask for.
LEMMA DeinitOrdered ==
    /\ Ordered(DeinitOrder) /\ Range(DeinitOrder) = PlainDevices \cup Cameras
    /\ Ordered(<<>>) /\ Range(<<>>) = {}
<1>1. /\ Len(DeinitOrder) = 8 /\ DOMAIN DeinitOrder = 1..8
      /\ DeinitOrder[1] = "jpeg_enc" /\ DeinitOrder[2] = "jpeg_dec"
      /\ DeinitOrder[3] = "h264"
      /\ DeinitOrder[4] = "csi" /\ DeinitOrder[5] = "dvp" /\ DeinitOrder[6] = "spi"
      /\ DeinitOrder[7] = "uvc" /\ DeinitOrder[8] = "isp"
  BY DEF DeinitOrder
<1>2. 1..8 = {1, 2, 3, 4, 5, 6, 7, 8}
  OBVIOUS
<1>3. Ordered(DeinitOrder)
  BY <1>1, <1>2 DEF Ordered, Cameras
<1>4. Range(DeinitOrder) = PlainDevices \cup Cameras
  <2>1. Range(DeinitOrder) = {DeinitOrder[i] : i \in {1, 2, 3, 4, 5, 6, 7, 8}}
    BY <1>1, <1>2 DEF Range
  <2> QED BY <1>1, <2>1 DEF PlainDevices, Cameras
<1>5. Ordered(<<>>) /\ Range(<<>>) = {}
  BY DEF Ordered, Range
<1> QED BY <1>3, <1>4, <1>5

\* What the devices without a sensor are not.
LEMMA PlainApart ==
    /\ Plain \cap Cameras = {} /\ Plain \subseteq PlainDevices /\ "motor" \notin Plain
    /\ Units \subseteq PlainDevices \cup Cameras /\ "motor" \notin Units
BY VideoInitAssumption DEF PlainDevices, Cameras, Units

\* What the device at hand leaves of the list.
TodoFacts ==
    todo # <<>> =>
        /\ Head(todo) \in PlainDevices \cup Cameras
        /\ Tail(todo) \in Seq(PlainDevices \cup Cameras)
        /\ Range(todo) = {Head(todo)} \cup Range(Tail(todo))
        /\ Ordered(todo) =>
            /\ Ordered(Tail(todo))
            /\ Head(todo) = "isp" => "csi" \notin Range(Tail(todo))
            /\ Head(todo) = "spi" => Range(Tail(todo)) \cap Cameras = {}

LEMMA TodoTail == TypeOK => TodoFacts
BY TailOf, TailRange, TailOrdered DEF TypeOK, TodoFacts

-------------------------------------------------------------------------------
(* Types, whatever the application does *)

LEMMA TypeInit == Init => TypeOK /\ AtCamera /\ Opened
<1>1. Init => TypeOK
  <2>1. <<>> \in Seq(PlainDevices \cup Cameras)
    OBVIOUS
  <2> QED BY <2>1 DEF Init, TypeOK
<1>2. Init => AtCamera /\ Opened
  BY DEF Init, AtCamera, Opened, Here, BuiltSteps
<1> QED BY <1>1, <1>2

LEMMA TypeStep == TypeOK /\ AtCamera /\ Opened /\ [Next]_vars => TypeOK'
<1> SUFFICES ASSUME TypeOK, AtCamera, Opened, [Next]_vars PROVE TypeOK'
  OBVIOUS
<1> USE DEF TypeOK, AtCamera, Opened, Here, Flags, Units, Cameras, BuiltSteps
<1>a. todo # <<>> => /\ Head(todo) \in PlainDevices \cup Cameras
                      /\ Tail(todo) \in Seq(PlainDevices \cup Cameras)
  BY TodoTail DEF TodoFacts
<1>b. <<>> \in Seq(PlainDevices \cup Cameras)
  OBVIOUS
<1>1. ASSUME InitCall PROVE TypeOK'
  BY <1>1, PlainApart, OrdersTyped DEF InitCall, Call, boardVars
<1>2. ASSUME DeinitCall PROVE TypeOK'
  BY <1>2, PlainApart, OrdersTyped DEF DeinitCall, Call, boardVars
<1>3. ASSUME NEW u \in Units, Open(u) PROVE TypeOK'
  BY <1>3, PlainApart DEF Open, boardVars, callVars
<1>4. ASSUME NEW u \in Units, Close(u) PROVE TypeOK'
  BY <1>4, PlainApart DEF Close, boardVars, callVars
<1>5. ASSUME Skip PROVE TypeOK'
  BY <1>5, PlainApart, <1>a DEF Skip, Due, boardVars
<1>6. ASSUME NEW u \in Plain, CreatePlain(u) PROVE TypeOK'
  BY <1>6, PlainApart, <1>a DEF CreatePlain, Creating, Due, boardVars
<1>7. ASSUME NEW u \in Plain, CreatePlainFails(u) PROVE TypeOK'
  BY <1>7, PlainApart, <1>b, OrdersTyped DEF CreatePlainFails, Creating, Due, Fail1,
     boardVars
<1>8. ASSUME InitEnd PROVE TypeOK'
  BY <1>8, PlainApart DEF InitEnd, boardVars
<1>9. ASSUME NEW c \in Cameras, OpenBus(c) PROVE TypeOK'
  <2>1. bus' \subseteq {Port[d] : d \in Cameras}
    BY <1>9 DEF OpenBus
  <2> QED BY <1>9, <2>1 DEF OpenBus, CameraAt, Creating, Due
<1>10. ASSUME NEW c \in Cameras, OpenBusFails(c) PROVE TypeOK'
  BY <1>10, PlainApart, OrdersTyped DEF OpenBusFails, Fail1, CameraAt, Creating, Due,
     boardVars
<1>11. ASSUME NEW c \in Cameras, NewSccb(c) PROVE TypeOK'
  BY <1>11, PlainApart DEF NewSccb, CameraAt, Creating, Due, FailAt
<1>12. ASSUME NEW c \in Cameras, StartClock(c) PROVE TypeOK'
  BY <1>12, PlainApart DEF StartClock, CameraAt, Creating, Due, FailAt
<1>13. ASSUME NEW c \in Cameras, DetectSensor(c) PROVE TypeOK'
  BY <1>13, PlainApart DEF DetectSensor, CameraAt, Creating, Due, FailAt
<1>14. ASSUME NEW c \in Cameras, CreateDevice(c) PROVE TypeOK'
  BY <1>14, PlainApart, <1>a DEF CreateDevice, CameraAt, Creating, Due, Inited, boardVars
<1>15. ASSUME NEW c \in Cameras, CreateDeviceFails(c) PROVE TypeOK'
  BY <1>15, PlainApart DEF CreateDeviceFails, CameraAt, Creating, Due, FailAt, boardVars
<1>16. ASSUME AddMotor PROVE TypeOK'
  BY <1>16, PlainApart DEF AddMotor, CameraAt, Creating, Due, FailAt
<1>17. ASSUME StartPipeline PROVE TypeOK'
  BY <1>17, PlainApart, <1>a DEF StartPipeline, CameraAt, Creating, Due, Inited
<1>18. ASSUME StartPipelineFails PROVE TypeOK'
  BY <1>18, PlainApart DEF StartPipelineFails, CameraAt, Creating, Due, FailAt
<1>19. ASSUME NEW c \in Cameras, UnwindSensor(c) PROVE TypeOK'
  BY <1>19, PlainApart DEF UnwindSensor, CameraAt, Creating, Due
<1>20. ASSUME NEW c \in Cameras, UnwindClock(c) PROVE TypeOK'
  BY <1>20, PlainApart DEF UnwindClock, CameraAt, Creating, Due
<1>21. ASSUME NEW c \in Cameras, UnwindSccb(c) PROVE TypeOK'
  BY <1>21, PlainApart DEF UnwindSccb, CameraAt, Creating, Due
<1>22. ASSUME NEW c \in Cameras, UnwindBus(c) PROVE TypeOK'
  BY <1>22, PlainApart, <1>a, OrdersTyped DEF UnwindBus, CameraAt, Creating, Due,
     AfterUnwind, Fail1
<1>23. ASSUME NEW u \in Plain, DestroyPlain(u) PROVE TypeOK'
  BY <1>23, PlainApart, <1>a, <1>b DEF DestroyPlain, Destroying, Due, Destroyed, Busy,
     boardVars
<1>24. ASSUME DestroyCsi PROVE TypeOK'
  BY <1>24, PlainApart, <1>a, <1>b DEF DestroyCsi, Destroying, Due
<1>25. ASSUME DestroyDvp PROVE TypeOK'
  BY <1>25, PlainApart, <1>a, <1>b DEF DestroyDvp, Destroying, Due, Destroyed, Busy
<1>26. ASSUME DestroySpi PROVE TypeOK'
  BY <1>26, PlainApart, <1>a, <1>b DEF DestroySpi, Destroying, Due, Destroyed, Busy
<1>27. ASSUME DeinitEnd PROVE TypeOK'
  BY <1>27, PlainApart DEF DeinitEnd
<1>28. CASE UNCHANGED vars
  BY <1>28 DEF vars, boardVars, callVars
<1> QED BY <1>1, <1>2, <1>3, <1>4, <1>5, <1>6, <1>7, <1>8, <1>9, <1>10, <1>11, <1>12,
        <1>13, <1>14, <1>15, <1>16, <1>17, <1>18, <1>19, <1>20, <1>21, <1>22, <1>23, <1>24,
                <1>25, <1>26, <1>27, <1>28 DEF Next, Step, StartCamera

LEMMA AtCameraStep == TypeOK /\ AtCamera /\ Opened /\ [Next]_vars => AtCamera'
<1> SUFFICES ASSUME TypeOK, AtCamera, Opened, [Next]_vars PROVE AtCamera'
  OBVIOUS
<1> USE DEF AtCamera, Cameras, BuiltSteps
<1>1. ASSUME InitCall PROVE AtCamera'
  BY <1>1, PlainApart DEF InitCall, Call, boardVars
<1>2. ASSUME DeinitCall PROVE AtCamera'
  BY <1>2, PlainApart DEF DeinitCall, Call, boardVars
<1>3. ASSUME NEW u \in Units, Open(u) PROVE AtCamera'
  BY <1>3, PlainApart DEF Open, boardVars, callVars
<1>4. ASSUME NEW u \in Units, Close(u) PROVE AtCamera'
  BY <1>4, PlainApart DEF Close, boardVars, callVars
<1>5. ASSUME Skip PROVE AtCamera'
  BY <1>5, PlainApart DEF Skip, Due, boardVars
<1>6. ASSUME NEW u \in Plain, CreatePlain(u) PROVE AtCamera'
  BY <1>6, PlainApart DEF CreatePlain, Creating, Due, boardVars
<1>7. ASSUME NEW u \in Plain, CreatePlainFails(u) PROVE AtCamera'
  BY <1>7, PlainApart DEF CreatePlainFails, Creating, Due, Fail1, boardVars
<1>8. ASSUME InitEnd PROVE AtCamera'
  BY <1>8, PlainApart DEF InitEnd, boardVars
<1>9. ASSUME NEW c \in Cameras, OpenBus(c) PROVE AtCamera'
  BY <1>9, PlainApart DEF OpenBus, CameraAt, Creating, Due
<1>10. ASSUME NEW c \in Cameras, OpenBusFails(c) PROVE AtCamera'
  BY <1>10, PlainApart DEF OpenBusFails, Fail1, CameraAt, Creating, Due, boardVars
<1>11. ASSUME NEW c \in Cameras, NewSccb(c) PROVE AtCamera'
  BY <1>11, PlainApart DEF NewSccb, CameraAt, Creating, Due, FailAt
<1>12. ASSUME NEW c \in Cameras, StartClock(c) PROVE AtCamera'
  BY <1>12, PlainApart DEF StartClock, CameraAt, Creating, Due, FailAt
<1>13. ASSUME NEW c \in Cameras, DetectSensor(c) PROVE AtCamera'
  BY <1>13, PlainApart DEF DetectSensor, CameraAt, Creating, Due, FailAt
<1>14. ASSUME NEW c \in Cameras, CreateDevice(c) PROVE AtCamera'
  BY <1>14, PlainApart DEF CreateDevice, CameraAt, Creating, Due, Inited, boardVars
<1>15. ASSUME NEW c \in Cameras, CreateDeviceFails(c) PROVE AtCamera'
  BY <1>15, PlainApart DEF CreateDeviceFails, CameraAt, Creating, Due, FailAt, boardVars
<1>16. ASSUME AddMotor PROVE AtCamera'
  BY <1>16, PlainApart DEF AddMotor, CameraAt, Creating, Due, FailAt
<1>17. ASSUME StartPipeline PROVE AtCamera'
  BY <1>17, PlainApart DEF StartPipeline, CameraAt, Creating, Due, Inited
<1>18. ASSUME StartPipelineFails PROVE AtCamera'
  BY <1>18, PlainApart DEF StartPipelineFails, CameraAt, Creating, Due, FailAt
<1>19. ASSUME NEW c \in Cameras, UnwindSensor(c) PROVE AtCamera'
  BY <1>19, PlainApart DEF UnwindSensor, CameraAt, Creating, Due
<1>20. ASSUME NEW c \in Cameras, UnwindClock(c) PROVE AtCamera'
  BY <1>20, PlainApart DEF UnwindClock, CameraAt, Creating, Due
<1>21. ASSUME NEW c \in Cameras, UnwindSccb(c) PROVE AtCamera'
  BY <1>21, PlainApart DEF UnwindSccb, CameraAt, Creating, Due
<1>22. ASSUME NEW c \in Cameras, UnwindBus(c) PROVE AtCamera'
  BY <1>22, PlainApart DEF UnwindBus, CameraAt, Creating, Due, AfterUnwind, Fail1
<1>23. ASSUME NEW u \in Plain, DestroyPlain(u) PROVE AtCamera'
  BY <1>23, PlainApart DEF DestroyPlain, Destroying, Due, Destroyed, Busy, boardVars
<1>24. ASSUME DestroyCsi PROVE AtCamera'
  BY <1>24, PlainApart DEF DestroyCsi, Destroying, Due
<1>25. ASSUME DestroyDvp PROVE AtCamera'
  BY <1>25, PlainApart DEF DestroyDvp, Destroying, Due, Destroyed, Busy
<1>26. ASSUME DestroySpi PROVE AtCamera'
  BY <1>26, PlainApart DEF DestroySpi, Destroying, Due, Destroyed, Busy
<1>27. ASSUME DeinitEnd PROVE AtCamera'
  BY <1>27, PlainApart DEF DeinitEnd
<1>28. CASE UNCHANGED vars
  BY <1>28 DEF vars, boardVars, callVars
<1> QED BY <1>1, <1>2, <1>3, <1>4, <1>5, <1>6, <1>7, <1>8, <1>9, <1>10, <1>11, <1>12,
        <1>13, <1>14, <1>15, <1>16, <1>17, <1>18, <1>19, <1>20, <1>21, <1>22, <1>23, <1>24,
                <1>25, <1>26, <1>27, <1>28 DEF Next, Step, StartCamera

LEMMA OpenedStep == TypeOK /\ AtCamera /\ Opened /\ [Next]_vars => Opened'
<1> SUFFICES ASSUME TypeOK, AtCamera, Opened, [Next]_vars PROVE Opened'
  OBVIOUS
<1> USE DEF AtCamera, Opened, Here, Units, BuiltSteps
<1>q. "motor" \notin objects /\ opened \subseteq objects
  BY PlainApart DEF TypeOK
<1>1. ASSUME InitCall PROVE Opened'
  BY <1>1, PlainApart, <1>q DEF InitCall, Call, boardVars
<1>2. ASSUME DeinitCall PROVE Opened'
  BY <1>2, PlainApart, <1>q DEF DeinitCall, Call, boardVars
<1>3. ASSUME NEW u \in Units, Open(u) PROVE Opened'
  BY <1>3, PlainApart, <1>q DEF Open, boardVars, callVars
<1>4. ASSUME NEW u \in Units, Close(u) PROVE Opened'
  BY <1>4, PlainApart, <1>q DEF Close, boardVars, callVars
<1>5. ASSUME Skip PROVE Opened'
  BY <1>5, PlainApart, <1>q DEF Skip, Due, boardVars
<1>6. ASSUME NEW u \in Plain, CreatePlain(u) PROVE Opened'
  BY <1>6, PlainApart, <1>q DEF CreatePlain, Creating, Due, boardVars
<1>7. ASSUME NEW u \in Plain, CreatePlainFails(u) PROVE Opened'
  BY <1>7, PlainApart, <1>q DEF CreatePlainFails, Creating, Due, Fail1, boardVars
<1>8. ASSUME InitEnd PROVE Opened'
  BY <1>8, PlainApart, <1>q DEF InitEnd, boardVars
<1>9. ASSUME NEW c \in Cameras, OpenBus(c) PROVE Opened'
  BY <1>9, PlainApart, <1>q DEF OpenBus, CameraAt, Creating, Due
<1>10. ASSUME NEW c \in Cameras, OpenBusFails(c) PROVE Opened'
  BY <1>10, PlainApart, <1>q DEF OpenBusFails, Fail1, CameraAt, Creating, Due, boardVars
<1>11. ASSUME NEW c \in Cameras, NewSccb(c) PROVE Opened'
  BY <1>11, PlainApart, <1>q DEF NewSccb, CameraAt, Creating, Due, FailAt
<1>12. ASSUME NEW c \in Cameras, StartClock(c) PROVE Opened'
  BY <1>12, PlainApart, <1>q DEF StartClock, CameraAt, Creating, Due, FailAt
<1>13. ASSUME NEW c \in Cameras, DetectSensor(c) PROVE Opened'
  BY <1>13, PlainApart, <1>q DEF DetectSensor, CameraAt, Creating, Due, FailAt
<1>14. ASSUME NEW c \in Cameras, CreateDevice(c) PROVE Opened'
  BY <1>14, PlainApart, <1>q DEF CreateDevice, CameraAt, Creating, Due, Inited, boardVars
<1>15. ASSUME NEW c \in Cameras, CreateDeviceFails(c) PROVE Opened'
  BY <1>15, PlainApart, <1>q DEF CreateDeviceFails, CameraAt, Creating, Due, FailAt,
     boardVars
<1>16. ASSUME AddMotor PROVE Opened'
  BY <1>16, PlainApart, <1>q DEF AddMotor, CameraAt, Creating, Due, FailAt
<1>17. ASSUME StartPipeline PROVE Opened'
  BY <1>17, PlainApart, <1>q DEF StartPipeline, CameraAt, Creating, Due, Inited
<1>18. ASSUME StartPipelineFails PROVE Opened'
  BY <1>18, PlainApart, <1>q DEF StartPipelineFails, CameraAt, Creating, Due, FailAt
<1>19. ASSUME NEW c \in Cameras, UnwindSensor(c) PROVE Opened'
  BY <1>19, PlainApart, <1>q DEF UnwindSensor, CameraAt, Creating, Due
<1>20. ASSUME NEW c \in Cameras, UnwindClock(c) PROVE Opened'
  BY <1>20, PlainApart, <1>q DEF UnwindClock, CameraAt, Creating, Due
<1>21. ASSUME NEW c \in Cameras, UnwindSccb(c) PROVE Opened'
  BY <1>21, PlainApart, <1>q DEF UnwindSccb, CameraAt, Creating, Due
<1>22. ASSUME NEW c \in Cameras, UnwindBus(c) PROVE Opened'
  BY <1>22, PlainApart, <1>q DEF UnwindBus, CameraAt, Creating, Due, AfterUnwind, Fail1
<1>23. ASSUME NEW u \in Plain, DestroyPlain(u) PROVE Opened'
  BY <1>23, PlainApart, <1>q DEF DestroyPlain, Destroying, Due, Destroyed, Busy, boardVars
<1>24. ASSUME DestroyCsi PROVE Opened'
  BY <1>24, PlainApart, <1>q DEF DestroyCsi, Destroying, Due
<1>25. ASSUME DestroyDvp PROVE Opened'
  BY <1>25, PlainApart, <1>q DEF DestroyDvp, Destroying, Due, Destroyed, Busy
<1>26. ASSUME DestroySpi PROVE Opened'
  BY <1>26, PlainApart, <1>q DEF DestroySpi, Destroying, Due, Destroyed, Busy
<1>27. ASSUME DeinitEnd PROVE Opened'
  BY <1>27, PlainApart, <1>q DEF DeinitEnd
<1>28. CASE UNCHANGED vars
  BY <1>28 DEF vars, boardVars, callVars
<1> QED BY <1>1, <1>2, <1>3, <1>4, <1>5, <1>6, <1>7, <1>8, <1>9, <1>10, <1>11, <1>12,
        <1>13, <1>14, <1>15, <1>16, <1>17, <1>18, <1>19, <1>20, <1>21, <1>22, <1>23, <1>24,
                <1>25, <1>26, <1>27, <1>28 DEF Next, Step, StartCamera

\* The flags, the objects, the descriptors, the handles and the place of a call are
\* always what their declarations say, whatever the application does.
THEOREM TypeCorrect == Spec => []TypeOK
<1> DEFINE I == TypeOK /\ AtCamera /\ Opened
<1>1. Init => I
  BY TypeInit
<1>2. I /\ [Next]_vars => I'
  BY TypeStep, AtCameraStep, OpenedStep
<1>3. I => TypeOK
  OBVIOUS
<1> QED BY <1>1, <1>2, <1>3, PTL DEF Spec

-------------------------------------------------------------------------------
(* What each camera has set up *)

\* What the parts of the invariant say of the camera at hand and of the others.
StepFacts ==
    /\ "motor" \notin objects /\ opened \subseteq objects /\ objects \subseteq Units
    /\ Existing \subseteq flags \cap Cameras
    /\ call \in {"deinit", "unwind"} => opened = {} /\ at = "next"
    /\ call \in {"deinit", "unwind"} /\ todo = <<>> => Existing = {}
    /\ at \in BuiltSteps => "csi" \in objects /\ "csi" \notin Existing

LEMMA Facts ==
    TypeOK /\ AtCamera /\ Opened /\ Quiet /\ Unwinding => StepFacts
<1> SUFFICES ASSUME TypeOK, AtCamera, Opened, Quiet, Unwinding PROVE StepFacts
  OBVIOUS
<1>1. "motor" \notin objects /\ opened \subseteq objects /\ objects \subseteq Units
  BY PlainApart DEF TypeOK
<1>2. Existing \subseteq flags \cap Cameras
  BY DEF Existing, Opened
<1>3. call \in {"deinit", "unwind"} => opened = {} /\ at = "next"
  BY DEF Quiet, AtCamera
<1>4. call \in {"deinit", "unwind"} /\ todo = <<>> => Existing = {}
  BY <1>3, DeinitOrdered DEF Existing, Unwinding, Here
<1>5. at \in BuiltSteps => "csi" \in objects /\ "csi" \notin Existing
  BY DEF Opened, AtCamera, Here, Existing
<1> QED BY <1>1, <1>2, <1>3, <1>4, <1>5 DEF StepFacts

\* What steps do to the cameras that exist, where their definition alone does not say so.
ExistingMoves ==
    /\ StartPipeline => Existing' = Existing \cup {"csi"}
    /\ DestroyCsi => Existing' = Existing \ {"csi"}
    /\ DestroyDvp => Existing' = Existing \ {"dvp"}
    /\ DestroySpi => Existing' = Existing \ {"spi"}
    /\ DeinitEnd => Existing = {} /\ Existing' = {}
    /\ \A u \in Plain : CreatePlain(u) \/ DestroyPlain(u) => Existing' = Existing

LEMMA ExistingAfter == AtCamera /\ StepFacts => ExistingMoves
<1> SUFFICES ASSUME AtCamera, StepFacts PROVE ExistingMoves
  OBVIOUS
<1> USE DEF AtCamera, StepFacts, Here, Existing, Cameras, BuiltSteps
<1>1. ASSUME StartPipeline PROVE Existing' = Existing \cup {"csi"}
  BY <1>1 DEF StartPipeline, CameraAt, Creating, Due, Inited
<1>2. ASSUME DestroyCsi PROVE Existing' = Existing \ {"csi"}
  BY <1>2 DEF DestroyCsi, Destroying, Due
<1>3. ASSUME DestroyDvp PROVE Existing' = Existing \ {"dvp"}
  BY <1>3 DEF DestroyDvp, Destroying, Due, Destroyed, Busy
<1>4. ASSUME DestroySpi PROVE Existing' = Existing \ {"spi"}
  BY <1>4 DEF DestroySpi, Destroying, Due, Destroyed, Busy
<1>5. ASSUME DeinitEnd PROVE Existing = {} /\ Existing' = {}
  <2>1. Existing = {}
    BY <1>5 DEF DeinitEnd
  <2> QED BY <1>5, <2>1 DEF DeinitEnd
<1>6. ASSUME NEW u \in Plain, CreatePlain(u) PROVE Existing' = Existing
  BY <1>6, PlainApart DEF CreatePlain, Creating, Due, boardVars
<1>7. ASSUME NEW u \in Plain, DestroyPlain(u) PROVE Existing' = Existing
  BY <1>7, PlainApart DEF DestroyPlain, Destroying, Due, Destroyed, Busy, boardVars
<1> QED BY <1>1, <1>2, <1>3, <1>4, <1>5, <1>6, <1>7 DEF ExistingMoves

LEMMA QuietStep == Careless = {} /\ Quiet /\ [Next]_vars => Quiet'
<1> SUFFICES ASSUME Careless = {}, Quiet, [Next]_vars PROVE Quiet'
  OBVIOUS
<1> USE DEF Quiet
<1>1. ASSUME InitCall PROVE Quiet'
  BY <1>1 DEF InitCall, Call, boardVars
<1>2. ASSUME DeinitCall PROVE Quiet'
  BY <1>2 DEF DeinitCall, Call, boardVars
<1>3. ASSUME NEW u \in Units, Open(u) PROVE Quiet'
  BY <1>3 DEF Open, boardVars, callVars
<1>4. ASSUME NEW u \in Units, Close(u) PROVE Quiet'
  BY <1>4 DEF Close, boardVars, callVars
<1>5. ASSUME Skip PROVE Quiet'
  BY <1>5 DEF Skip, Due, boardVars
<1>6. ASSUME NEW u \in Plain, CreatePlain(u) PROVE Quiet'
  BY <1>6 DEF CreatePlain, Creating, Due, boardVars
<1>7. ASSUME NEW u \in Plain, CreatePlainFails(u) PROVE Quiet'
  BY <1>7 DEF CreatePlainFails, Creating, Due, Fail1, boardVars
<1>8. ASSUME InitEnd PROVE Quiet'
  BY <1>8 DEF InitEnd, boardVars
<1>9. ASSUME NEW c \in Cameras, OpenBus(c) PROVE Quiet'
  BY <1>9 DEF OpenBus, CameraAt, Creating, Due
<1>10. ASSUME NEW c \in Cameras, OpenBusFails(c) PROVE Quiet'
  BY <1>10 DEF OpenBusFails, Fail1, CameraAt, Creating, Due, boardVars
<1>11. ASSUME NEW c \in Cameras, NewSccb(c) PROVE Quiet'
  BY <1>11 DEF NewSccb, CameraAt, Creating, Due, FailAt
<1>12. ASSUME NEW c \in Cameras, StartClock(c) PROVE Quiet'
  BY <1>12 DEF StartClock, CameraAt, Creating, Due, FailAt
<1>13. ASSUME NEW c \in Cameras, DetectSensor(c) PROVE Quiet'
  BY <1>13 DEF DetectSensor, CameraAt, Creating, Due, FailAt
<1>14. ASSUME NEW c \in Cameras, CreateDevice(c) PROVE Quiet'
  BY <1>14 DEF CreateDevice, CameraAt, Creating, Due, Inited, boardVars
<1>15. ASSUME NEW c \in Cameras, CreateDeviceFails(c) PROVE Quiet'
  BY <1>15 DEF CreateDeviceFails, CameraAt, Creating, Due, FailAt, boardVars
<1>16. ASSUME AddMotor PROVE Quiet'
  BY <1>16 DEF AddMotor, CameraAt, Creating, Due, FailAt
<1>17. ASSUME StartPipeline PROVE Quiet'
  BY <1>17 DEF StartPipeline, CameraAt, Creating, Due, Inited
<1>18. ASSUME StartPipelineFails PROVE Quiet'
  BY <1>18 DEF StartPipelineFails, CameraAt, Creating, Due, FailAt
<1>19. ASSUME NEW c \in Cameras, UnwindSensor(c) PROVE Quiet'
  BY <1>19 DEF UnwindSensor, CameraAt, Creating, Due
<1>20. ASSUME NEW c \in Cameras, UnwindClock(c) PROVE Quiet'
  BY <1>20 DEF UnwindClock, CameraAt, Creating, Due
<1>21. ASSUME NEW c \in Cameras, UnwindSccb(c) PROVE Quiet'
  BY <1>21 DEF UnwindSccb, CameraAt, Creating, Due
<1>22. ASSUME NEW c \in Cameras, UnwindBus(c) PROVE Quiet'
  BY <1>22 DEF UnwindBus, CameraAt, Creating, Due, AfterUnwind, Fail1
<1>23. ASSUME NEW u \in Plain, DestroyPlain(u) PROVE Quiet'
  BY <1>23 DEF DestroyPlain, Destroying, Due, Destroyed, Busy, boardVars
<1>24. ASSUME DestroyCsi PROVE Quiet'
  BY <1>24 DEF DestroyCsi, Destroying, Due
<1>25. ASSUME DestroyDvp PROVE Quiet'
  BY <1>25 DEF DestroyDvp, Destroying, Due, Destroyed, Busy
<1>26. ASSUME DestroySpi PROVE Quiet'
  BY <1>26 DEF DestroySpi, Destroying, Due, Destroyed, Busy
<1>27. ASSUME DeinitEnd PROVE Quiet'
  BY <1>27 DEF DeinitEnd
<1>28. CASE UNCHANGED vars
  BY <1>28 DEF vars, boardVars, callVars
<1> QED BY <1>1, <1>2, <1>3, <1>4, <1>5, <1>6, <1>7, <1>8, <1>9, <1>10, <1>11, <1>12,
        <1>13, <1>14, <1>15, <1>16, <1>17, <1>18, <1>19, <1>20, <1>21, <1>22, <1>23, <1>24,
                <1>25, <1>26, <1>27, <1>28 DEF Next, Step, StartCamera

LEMMA SensorsStep == TypeOK /\ AtCamera /\ Opened /\ Quiet /\ Unwinding /\ SensorsKept
        /\ [Next]_vars => SensorsKept'
<1> SUFFICES ASSUME TypeOK, AtCamera, Opened, Quiet, Unwinding, SensorsKept,
        [Next]_vars PROVE SensorsKept'
  OBVIOUS
<1> USE DEF AtCamera, StepFacts, Here, Existing, Cameras, SensorsKept, BuiltSteps,
        SensorSteps
<1>a. StepFacts /\ ExistingMoves
  BY Facts, ExistingAfter
<1>1. ASSUME InitCall PROVE SensorsKept'
  BY <1>1, <1>a, PlainApart DEF InitCall, Call, boardVars
<1>2. ASSUME DeinitCall PROVE SensorsKept'
  BY <1>2, <1>a, PlainApart DEF DeinitCall, Call, boardVars
<1>3. ASSUME NEW u \in Units, Open(u) PROVE SensorsKept'
  BY <1>3, <1>a, PlainApart DEF Open, boardVars, callVars
<1>4. ASSUME NEW u \in Units, Close(u) PROVE SensorsKept'
  BY <1>4, <1>a, PlainApart DEF Close, boardVars, callVars
<1>5. ASSUME Skip PROVE SensorsKept'
  BY <1>5, <1>a, PlainApart DEF Skip, Due, boardVars
<1>6. ASSUME NEW u \in Plain, CreatePlain(u) PROVE SensorsKept'
  <2>1. Existing' = Existing
    BY <1>6, <1>a DEF ExistingMoves
  <2> QED BY <1>6, <2>1, <1>a, PlainApart DEF CreatePlain, Creating, Due, boardVars
<1>7. ASSUME NEW u \in Plain, CreatePlainFails(u) PROVE SensorsKept'
  BY <1>7, <1>a, PlainApart DEF CreatePlainFails, Creating, Due, Fail1, boardVars
<1>8. ASSUME InitEnd PROVE SensorsKept'
  BY <1>8, <1>a, PlainApart DEF InitEnd, boardVars
<1>9. ASSUME NEW c \in Cameras, OpenBus(c) PROVE SensorsKept'
  BY <1>9, <1>a, PlainApart DEF OpenBus, CameraAt, Creating, Due
<1>10. ASSUME NEW c \in Cameras, OpenBusFails(c) PROVE SensorsKept'
  BY <1>10, <1>a, PlainApart DEF OpenBusFails, Fail1, CameraAt, Creating, Due, boardVars
<1>11. ASSUME NEW c \in Cameras, NewSccb(c) PROVE SensorsKept'
  BY <1>11, <1>a, PlainApart DEF NewSccb, CameraAt, Creating, Due, FailAt
<1>12. ASSUME NEW c \in Cameras, StartClock(c) PROVE SensorsKept'
  BY <1>12, <1>a, PlainApart DEF StartClock, CameraAt, Creating, Due, FailAt
<1>13. ASSUME NEW c \in Cameras, DetectSensor(c) PROVE SensorsKept'
  BY <1>13, <1>a, PlainApart DEF DetectSensor, CameraAt, Creating, Due, FailAt
<1>14. ASSUME NEW c \in Cameras, CreateDevice(c) PROVE SensorsKept'
  BY <1>14, <1>a, PlainApart DEF CreateDevice, CameraAt, Creating, Due, Inited, boardVars
<1>15. ASSUME NEW c \in Cameras, CreateDeviceFails(c) PROVE SensorsKept'
  BY <1>15, <1>a, PlainApart DEF CreateDeviceFails, CameraAt, Creating, Due, FailAt,
     boardVars
<1>16. ASSUME AddMotor PROVE SensorsKept'
  BY <1>16, <1>a, PlainApart DEF AddMotor, CameraAt, Creating, Due, FailAt
<1>17. ASSUME StartPipeline PROVE SensorsKept'
  BY <1>17, <1>a, PlainApart DEF ExistingMoves, StartPipeline, CameraAt, Creating, Due,
     Inited
<1>18. ASSUME StartPipelineFails PROVE SensorsKept'
  BY <1>18, <1>a, PlainApart DEF StartPipelineFails, CameraAt, Creating, Due, FailAt
<1>19. ASSUME NEW c \in Cameras, UnwindSensor(c) PROVE SensorsKept'
  BY <1>19, <1>a, PlainApart DEF UnwindSensor, CameraAt, Creating, Due
<1>20. ASSUME NEW c \in Cameras, UnwindClock(c) PROVE SensorsKept'
  BY <1>20, <1>a, PlainApart DEF UnwindClock, CameraAt, Creating, Due
<1>21. ASSUME NEW c \in Cameras, UnwindSccb(c) PROVE SensorsKept'
  BY <1>21, <1>a, PlainApart DEF UnwindSccb, CameraAt, Creating, Due
<1>22. ASSUME NEW c \in Cameras, UnwindBus(c) PROVE SensorsKept'
  BY <1>22, <1>a, PlainApart DEF UnwindBus, CameraAt, Creating, Due, AfterUnwind, Fail1
<1>23. ASSUME NEW u \in Plain, DestroyPlain(u) PROVE SensorsKept'
  <2>1. Existing' = Existing
    BY <1>23, <1>a DEF ExistingMoves
  <2> QED BY <1>23, <2>1, <1>a, PlainApart DEF DestroyPlain, Destroying, Due, Destroyed,
          Busy, boardVars
<1>24. ASSUME DestroyCsi PROVE SensorsKept'
  BY <1>24, <1>a, PlainApart DEF ExistingMoves, DestroyCsi, Destroying, Due
<1>25. ASSUME DestroyDvp PROVE SensorsKept'
  BY <1>25, <1>a, PlainApart DEF ExistingMoves, DestroyDvp, Destroying, Due, Destroyed, Busy
<1>26. ASSUME DestroySpi PROVE SensorsKept'
  BY <1>26, <1>a, PlainApart DEF ExistingMoves, DestroySpi, Destroying, Due, Destroyed, Busy
<1>27. ASSUME DeinitEnd PROVE SensorsKept'
  BY <1>27, <1>a, PlainApart DEF ExistingMoves, DeinitEnd
<1>28. CASE UNCHANGED vars
  BY <1>28 DEF vars, boardVars, callVars
<1> QED BY <1>1, <1>2, <1>3, <1>4, <1>5, <1>6, <1>7, <1>8, <1>9, <1>10, <1>11, <1>12,
        <1>13, <1>14, <1>15, <1>16, <1>17, <1>18, <1>19, <1>20, <1>21, <1>22, <1>23, <1>24,
                <1>25, <1>26, <1>27, <1>28 DEF Next, Step, StartCamera

LEMMA HandlesStep == TypeOK /\ AtCamera /\ Opened /\ Quiet /\ Unwinding /\ Dependents
        /\ HandlesKept /\ [Next]_vars => HandlesKept'
<1> SUFFICES ASSUME TypeOK, AtCamera, Opened, Quiet, Unwinding, Dependents, HandlesKept,
        [Next]_vars PROVE HandlesKept'
  OBVIOUS
<1> USE DEF AtCamera, StepFacts, Here, Existing, Cameras, HandlesKept, Dependents,
           BuiltSteps, SensorSteps, ClockSteps, SccbSteps
<1>a. StepFacts /\ ExistingMoves
  BY Facts, ExistingAfter
<1>1. ASSUME InitCall PROVE HandlesKept'
  BY <1>1, <1>a, PlainApart DEF InitCall, Call, boardVars
<1>2. ASSUME DeinitCall PROVE HandlesKept'
  BY <1>2, <1>a, PlainApart DEF DeinitCall, Call, boardVars
<1>3. ASSUME NEW u \in Units, Open(u) PROVE HandlesKept'
  BY <1>3, <1>a, PlainApart DEF Open, boardVars, callVars
<1>4. ASSUME NEW u \in Units, Close(u) PROVE HandlesKept'
  BY <1>4, <1>a, PlainApart DEF Close, boardVars, callVars
<1>5. ASSUME Skip PROVE HandlesKept'
  BY <1>5, <1>a, PlainApart DEF Skip, Due, boardVars
<1>6. ASSUME NEW u \in Plain, CreatePlain(u) PROVE HandlesKept'
  <2>1. Existing' = Existing
    BY <1>6, <1>a DEF ExistingMoves
  <2> QED BY <1>6, <2>1, <1>a, PlainApart DEF CreatePlain, Creating, Due, boardVars
<1>7. ASSUME NEW u \in Plain, CreatePlainFails(u) PROVE HandlesKept'
  BY <1>7, <1>a, PlainApart DEF CreatePlainFails, Creating, Due, Fail1, boardVars
<1>8. ASSUME InitEnd PROVE HandlesKept'
  BY <1>8, <1>a, PlainApart DEF InitEnd, boardVars
<1>9. ASSUME NEW c \in Cameras, OpenBus(c) PROVE HandlesKept'
  BY <1>9, <1>a, PlainApart DEF OpenBus, CameraAt, Creating, Due
<1>10. ASSUME NEW c \in Cameras, OpenBusFails(c) PROVE HandlesKept'
  BY <1>10, <1>a, PlainApart DEF OpenBusFails, Fail1, CameraAt, Creating, Due, boardVars
<1>11. ASSUME NEW c \in Cameras, NewSccb(c) PROVE HandlesKept'
  BY <1>11, <1>a, PlainApart DEF NewSccb, CameraAt, Creating, Due, FailAt
<1>12. ASSUME NEW c \in Cameras, StartClock(c) PROVE HandlesKept'
  BY <1>12, <1>a, PlainApart DEF StartClock, CameraAt, Creating, Due, FailAt
<1>13. ASSUME NEW c \in Cameras, DetectSensor(c) PROVE HandlesKept'
  BY <1>13, <1>a, PlainApart DEF DetectSensor, CameraAt, Creating, Due, FailAt
<1>14. ASSUME NEW c \in Cameras, CreateDevice(c) PROVE HandlesKept'
  BY <1>14, <1>a, PlainApart DEF CreateDevice, CameraAt, Creating, Due, Inited, boardVars
<1>15. ASSUME NEW c \in Cameras, CreateDeviceFails(c) PROVE HandlesKept'
  BY <1>15, <1>a, PlainApart DEF CreateDeviceFails, CameraAt, Creating, Due, FailAt,
     boardVars
<1>16. ASSUME AddMotor PROVE HandlesKept'
  BY <1>16, <1>a, PlainApart DEF AddMotor, CameraAt, Creating, Due, FailAt
<1>17. ASSUME StartPipeline PROVE HandlesKept'
  BY <1>17, <1>a, PlainApart DEF ExistingMoves, StartPipeline, CameraAt, Creating, Due,
     Inited
<1>18. ASSUME StartPipelineFails PROVE HandlesKept'
  BY <1>18, <1>a, PlainApart DEF StartPipelineFails, CameraAt, Creating, Due, FailAt
<1>19. ASSUME NEW c \in Cameras, UnwindSensor(c) PROVE HandlesKept'
  BY <1>19, <1>a, PlainApart DEF UnwindSensor, CameraAt, Creating, Due
<1>20. ASSUME NEW c \in Cameras, UnwindClock(c) PROVE HandlesKept'
  BY <1>20, <1>a, PlainApart DEF UnwindClock, CameraAt, Creating, Due
<1>21. ASSUME NEW c \in Cameras, UnwindSccb(c) PROVE HandlesKept'
  BY <1>21, <1>a, PlainApart DEF UnwindSccb, CameraAt, Creating, Due
<1>22. ASSUME NEW c \in Cameras, UnwindBus(c) PROVE HandlesKept'
  BY <1>22, <1>a, PlainApart DEF UnwindBus, CameraAt, Creating, Due, AfterUnwind, Fail1
<1>23. ASSUME NEW u \in Plain, DestroyPlain(u) PROVE HandlesKept'
  <2>1. Existing' = Existing
    BY <1>23, <1>a DEF ExistingMoves
  <2> QED BY <1>23, <2>1, <1>a, PlainApart DEF DestroyPlain, Destroying, Due, Destroyed,
          Busy, boardVars
<1>24. ASSUME DestroyCsi PROVE HandlesKept'
  BY <1>24, <1>a, PlainApart DEF ExistingMoves, DestroyCsi, Destroying, Due
<1>25. ASSUME DestroyDvp PROVE HandlesKept'
  BY <1>25, <1>a, PlainApart DEF ExistingMoves, DestroyDvp, Destroying, Due, Destroyed, Busy
<1>26. ASSUME DestroySpi PROVE HandlesKept'
  BY <1>26, <1>a, PlainApart DEF ExistingMoves, DestroySpi, Destroying, Due, Destroyed, Busy
<1>27. ASSUME DeinitEnd PROVE HandlesKept'
  BY <1>27, <1>a, PlainApart DEF ExistingMoves, DeinitEnd
<1>28. CASE UNCHANGED vars
  BY <1>28 DEF vars, boardVars, callVars
<1> QED BY <1>1, <1>2, <1>3, <1>4, <1>5, <1>6, <1>7, <1>8, <1>9, <1>10, <1>11, <1>12,
        <1>13, <1>14, <1>15, <1>16, <1>17, <1>18, <1>19, <1>20, <1>21, <1>22, <1>23, <1>24,
                <1>25, <1>26, <1>27, <1>28 DEF Next, Step, StartCamera

LEMMA ClocksStep == TypeOK /\ AtCamera /\ Opened /\ Quiet /\ Unwinding /\ ClocksKept
        /\ [Next]_vars => ClocksKept'
<1> SUFFICES ASSUME TypeOK, AtCamera, Opened, Quiet, Unwinding, ClocksKept,
        [Next]_vars PROVE ClocksKept'
  OBVIOUS
<1> USE DEF AtCamera, StepFacts, Here, Existing, Cameras, ClocksKept, BuiltSteps,
        SensorSteps, ClockSteps
<1>a. StepFacts /\ ExistingMoves
  BY Facts, ExistingAfter
<1>1. ASSUME InitCall PROVE ClocksKept'
  BY <1>1, <1>a, PlainApart DEF InitCall, Call, boardVars
<1>2. ASSUME DeinitCall PROVE ClocksKept'
  BY <1>2, <1>a, PlainApart DEF DeinitCall, Call, boardVars
<1>3. ASSUME NEW u \in Units, Open(u) PROVE ClocksKept'
  BY <1>3, <1>a, PlainApart DEF Open, boardVars, callVars
<1>4. ASSUME NEW u \in Units, Close(u) PROVE ClocksKept'
  BY <1>4, <1>a, PlainApart DEF Close, boardVars, callVars
<1>5. ASSUME Skip PROVE ClocksKept'
  BY <1>5, <1>a, PlainApart DEF Skip, Due, boardVars
<1>6. ASSUME NEW u \in Plain, CreatePlain(u) PROVE ClocksKept'
  <2>1. Existing' = Existing
    BY <1>6, <1>a DEF ExistingMoves
  <2> QED BY <1>6, <2>1, <1>a, PlainApart DEF CreatePlain, Creating, Due, boardVars
<1>7. ASSUME NEW u \in Plain, CreatePlainFails(u) PROVE ClocksKept'
  BY <1>7, <1>a, PlainApart DEF CreatePlainFails, Creating, Due, Fail1, boardVars
<1>8. ASSUME InitEnd PROVE ClocksKept'
  BY <1>8, <1>a, PlainApart DEF InitEnd, boardVars
<1>9. ASSUME NEW c \in Cameras, OpenBus(c) PROVE ClocksKept'
  BY <1>9, <1>a, PlainApart DEF OpenBus, CameraAt, Creating, Due
<1>10. ASSUME NEW c \in Cameras, OpenBusFails(c) PROVE ClocksKept'
  BY <1>10, <1>a, PlainApart DEF OpenBusFails, Fail1, CameraAt, Creating, Due, boardVars
<1>11. ASSUME NEW c \in Cameras, NewSccb(c) PROVE ClocksKept'
  BY <1>11, <1>a, PlainApart DEF NewSccb, CameraAt, Creating, Due, FailAt
<1>12. ASSUME NEW c \in Cameras, StartClock(c) PROVE ClocksKept'
  BY <1>12, <1>a, PlainApart DEF StartClock, CameraAt, Creating, Due, FailAt
<1>13. ASSUME NEW c \in Cameras, DetectSensor(c) PROVE ClocksKept'
  BY <1>13, <1>a, PlainApart DEF DetectSensor, CameraAt, Creating, Due, FailAt
<1>14. ASSUME NEW c \in Cameras, CreateDevice(c) PROVE ClocksKept'
  BY <1>14, <1>a, PlainApart DEF CreateDevice, CameraAt, Creating, Due, Inited, boardVars
<1>15. ASSUME NEW c \in Cameras, CreateDeviceFails(c) PROVE ClocksKept'
  BY <1>15, <1>a, PlainApart DEF CreateDeviceFails, CameraAt, Creating, Due, FailAt,
     boardVars
<1>16. ASSUME AddMotor PROVE ClocksKept'
  BY <1>16, <1>a, PlainApart DEF AddMotor, CameraAt, Creating, Due, FailAt
<1>17. ASSUME StartPipeline PROVE ClocksKept'
  BY <1>17, <1>a, PlainApart DEF ExistingMoves, StartPipeline, CameraAt, Creating, Due,
     Inited
<1>18. ASSUME StartPipelineFails PROVE ClocksKept'
  BY <1>18, <1>a, PlainApart DEF StartPipelineFails, CameraAt, Creating, Due, FailAt
<1>19. ASSUME NEW c \in Cameras, UnwindSensor(c) PROVE ClocksKept'
  BY <1>19, <1>a, PlainApart DEF UnwindSensor, CameraAt, Creating, Due
<1>20. ASSUME NEW c \in Cameras, UnwindClock(c) PROVE ClocksKept'
  BY <1>20, <1>a, PlainApart DEF UnwindClock, CameraAt, Creating, Due
<1>21. ASSUME NEW c \in Cameras, UnwindSccb(c) PROVE ClocksKept'
  BY <1>21, <1>a, PlainApart DEF UnwindSccb, CameraAt, Creating, Due
<1>22. ASSUME NEW c \in Cameras, UnwindBus(c) PROVE ClocksKept'
  BY <1>22, <1>a, PlainApart DEF UnwindBus, CameraAt, Creating, Due, AfterUnwind, Fail1
<1>23. ASSUME NEW u \in Plain, DestroyPlain(u) PROVE ClocksKept'
  <2>1. Existing' = Existing
    BY <1>23, <1>a DEF ExistingMoves
  <2> QED BY <1>23, <2>1, <1>a, PlainApart DEF DestroyPlain, Destroying, Due, Destroyed,
          Busy, boardVars
<1>24. ASSUME DestroyCsi PROVE ClocksKept'
  BY <1>24, <1>a, PlainApart DEF ExistingMoves, DestroyCsi, Destroying, Due
<1>25. ASSUME DestroyDvp PROVE ClocksKept'
  BY <1>25, <1>a, PlainApart DEF ExistingMoves, DestroyDvp, Destroying, Due, Destroyed, Busy
<1>26. ASSUME DestroySpi PROVE ClocksKept'
  BY <1>26, <1>a, PlainApart DEF ExistingMoves, DestroySpi, Destroying, Due, Destroyed, Busy
<1>27. ASSUME DeinitEnd PROVE ClocksKept'
  BY <1>27, <1>a, PlainApart DEF ExistingMoves, DeinitEnd
<1>28. CASE UNCHANGED vars
  BY <1>28 DEF vars, boardVars, callVars
<1> QED BY <1>1, <1>2, <1>3, <1>4, <1>5, <1>6, <1>7, <1>8, <1>9, <1>10, <1>11, <1>12,
        <1>13, <1>14, <1>15, <1>16, <1>17, <1>18, <1>19, <1>20, <1>21, <1>22, <1>23, <1>24,
                <1>25, <1>26, <1>27, <1>28 DEF Next, Step, StartCamera

LEMMA BusesStep == TypeOK /\ AtCamera /\ Opened /\ Quiet /\ Unwinding /\ BusNew
        /\ BusesKept /\ [Next]_vars => BusesKept'
<1> SUFFICES ASSUME TypeOK, AtCamera, Opened, Quiet, Unwinding, BusNew, BusesKept,
        [Next]_vars PROVE BusesKept'
  OBVIOUS
<1> USE DEF AtCamera, StepFacts, Here, Existing, Cameras, BusNew, BusesKept,
           BuiltSteps, SensorSteps, ClockSteps, SccbSteps, BusSteps
<1>a. StepFacts /\ ExistingMoves
  BY Facts, ExistingAfter
<1>1. ASSUME InitCall PROVE BusesKept'
  BY <1>1, <1>a, PlainApart DEF InitCall, Call, boardVars
<1>2. ASSUME DeinitCall PROVE BusesKept'
  BY <1>2, <1>a, PlainApart DEF DeinitCall, Call, boardVars
<1>3. ASSUME NEW u \in Units, Open(u) PROVE BusesKept'
  BY <1>3, <1>a, PlainApart DEF Open, boardVars, callVars
<1>4. ASSUME NEW u \in Units, Close(u) PROVE BusesKept'
  BY <1>4, <1>a, PlainApart DEF Close, boardVars, callVars
<1>5. ASSUME Skip PROVE BusesKept'
  BY <1>5, <1>a, PlainApart DEF Skip, Due, boardVars
<1>6. ASSUME NEW u \in Plain, CreatePlain(u) PROVE BusesKept'
  <2>1. Existing' = Existing
    BY <1>6, <1>a DEF ExistingMoves
  <2> QED BY <1>6, <2>1, <1>a, PlainApart DEF CreatePlain, Creating, Due, boardVars
<1>7. ASSUME NEW u \in Plain, CreatePlainFails(u) PROVE BusesKept'
  BY <1>7, <1>a, PlainApart DEF CreatePlainFails, Creating, Due, Fail1, boardVars
<1>8. ASSUME InitEnd PROVE BusesKept'
  BY <1>8, <1>a, PlainApart DEF InitEnd, boardVars
<1>9. ASSUME NEW c \in Cameras, OpenBus(c) PROVE BusesKept'
  BY <1>9, <1>a, PlainApart DEF OpenBus, CameraAt, Creating, Due
<1>10. ASSUME NEW c \in Cameras, OpenBusFails(c) PROVE BusesKept'
  BY <1>10, <1>a, PlainApart DEF OpenBusFails, Fail1, CameraAt, Creating, Due, boardVars
<1>11. ASSUME NEW c \in Cameras, NewSccb(c) PROVE BusesKept'
  BY <1>11, <1>a, PlainApart DEF NewSccb, CameraAt, Creating, Due, FailAt
<1>12. ASSUME NEW c \in Cameras, StartClock(c) PROVE BusesKept'
  BY <1>12, <1>a, PlainApart DEF StartClock, CameraAt, Creating, Due, FailAt
<1>13. ASSUME NEW c \in Cameras, DetectSensor(c) PROVE BusesKept'
  BY <1>13, <1>a, PlainApart DEF DetectSensor, CameraAt, Creating, Due, FailAt
<1>14. ASSUME NEW c \in Cameras, CreateDevice(c) PROVE BusesKept'
  BY <1>14, <1>a, PlainApart DEF CreateDevice, CameraAt, Creating, Due, Inited, boardVars
<1>15. ASSUME NEW c \in Cameras, CreateDeviceFails(c) PROVE BusesKept'
  BY <1>15, <1>a, PlainApart DEF CreateDeviceFails, CameraAt, Creating, Due, FailAt,
     boardVars
<1>16. ASSUME AddMotor PROVE BusesKept'
  BY <1>16, <1>a, PlainApart DEF AddMotor, CameraAt, Creating, Due, FailAt
<1>17. ASSUME StartPipeline PROVE BusesKept'
  BY <1>17, <1>a, PlainApart DEF ExistingMoves, StartPipeline, CameraAt, Creating, Due,
     Inited
<1>18. ASSUME StartPipelineFails PROVE BusesKept'
  BY <1>18, <1>a, PlainApart DEF StartPipelineFails, CameraAt, Creating, Due, FailAt
<1>19. ASSUME NEW c \in Cameras, UnwindSensor(c) PROVE BusesKept'
  BY <1>19, <1>a, PlainApart DEF UnwindSensor, CameraAt, Creating, Due
<1>20. ASSUME NEW c \in Cameras, UnwindClock(c) PROVE BusesKept'
  BY <1>20, <1>a, PlainApart DEF UnwindClock, CameraAt, Creating, Due
<1>21. ASSUME NEW c \in Cameras, UnwindSccb(c) PROVE BusesKept'
  BY <1>21, <1>a, PlainApart DEF UnwindSccb, CameraAt, Creating, Due
<1>22. ASSUME NEW c \in Cameras, UnwindBus(c) PROVE BusesKept'
  <2>1. /\ call = "init" /\ at = "fail_0" /\ c = Head(todo) /\ at' = "next"
         /\ objects' = objects /\ call' \in {"init", "unwind"}
    BY <1>22 DEF UnwindBus, CameraAt, Creating, Due, AfterUnwind, Fail1
  <2>2. Existing' = Existing
    BY <2>1
  <2>3. bus' = IF i2c_initialized THEN bus \ {Port[c]} ELSE bus
    BY <1>22 DEF UnwindBus
  <2>4. bus = {Port[d] : d \in Existing \cup {c}}
    BY <2>1
  <2>5. i2c_initialized <=> \A d \in Existing : Port[d] # Port[c]
    BY <2>1
  <2>6. bus' = {Port[d] : d \in Existing}
    BY <2>3, <2>4, <2>5
  <2> QED BY <2>1, <2>2, <2>6
<1>23. ASSUME NEW u \in Plain, DestroyPlain(u) PROVE BusesKept'
  <2>1. Existing' = Existing
    BY <1>23, <1>a DEF ExistingMoves
  <2> QED BY <1>23, <2>1, <1>a, PlainApart DEF DestroyPlain, Destroying, Due, Destroyed,
          Busy, boardVars
<1>24. ASSUME DestroyCsi PROVE BusesKept'
  BY <1>24, <1>a, PlainApart DEF ExistingMoves, DestroyCsi, Destroying, Due
<1>25. ASSUME DestroyDvp PROVE BusesKept'
  BY <1>25, <1>a, PlainApart DEF ExistingMoves, DestroyDvp, Destroying, Due, Destroyed, Busy
<1>26. ASSUME DestroySpi PROVE BusesKept'
  BY <1>26, <1>a, PlainApart DEF ExistingMoves, DestroySpi, Destroying, Due, Destroyed, Busy
<1>27. ASSUME DeinitEnd PROVE BusesKept'
  BY <1>27, <1>a, PlainApart DEF ExistingMoves, DeinitEnd
<1>28. CASE UNCHANGED vars
  BY <1>28 DEF vars, boardVars, callVars
<1> QED BY <1>1, <1>2, <1>3, <1>4, <1>5, <1>6, <1>7, <1>8, <1>9, <1>10, <1>11, <1>12,
        <1>13, <1>14, <1>15, <1>16, <1>17, <1>18, <1>19, <1>20, <1>21, <1>22, <1>23, <1>24,
                <1>25, <1>26, <1>27, <1>28 DEF Next, Step, StartCamera

LEMMA BusNewStep == TypeOK /\ AtCamera /\ Opened /\ Quiet /\ Unwinding /\ BusesKept
        /\ BusNew /\ [Next]_vars => BusNew'
<1> SUFFICES ASSUME TypeOK, AtCamera, Opened, Quiet, Unwinding, BusesKept, BusNew,
        [Next]_vars PROVE BusNew'
  OBVIOUS
<1> USE DEF AtCamera, StepFacts, Here, Existing, Cameras, BusNew, BusesKept,
           BuiltSteps, SensorSteps, ClockSteps, SccbSteps, BusSteps
<1>a. StepFacts /\ ExistingMoves
  BY Facts, ExistingAfter
<1>1. ASSUME InitCall PROVE BusNew'
  BY <1>1, <1>a, PlainApart DEF InitCall, Call, boardVars
<1>2. ASSUME DeinitCall PROVE BusNew'
  BY <1>2, <1>a, PlainApart DEF DeinitCall, Call, boardVars
<1>3. ASSUME NEW u \in Units, Open(u) PROVE BusNew'
  BY <1>3, <1>a, PlainApart DEF Open, boardVars, callVars
<1>4. ASSUME NEW u \in Units, Close(u) PROVE BusNew'
  BY <1>4, <1>a, PlainApart DEF Close, boardVars, callVars
<1>5. ASSUME Skip PROVE BusNew'
  BY <1>5, <1>a, PlainApart DEF Skip, Due, boardVars
<1>6. ASSUME NEW u \in Plain, CreatePlain(u) PROVE BusNew'
  BY <1>6, <1>a, PlainApart DEF CreatePlain, Creating, Due, boardVars
<1>7. ASSUME NEW u \in Plain, CreatePlainFails(u) PROVE BusNew'
  BY <1>7, <1>a, PlainApart DEF CreatePlainFails, Creating, Due, Fail1, boardVars
<1>8. ASSUME InitEnd PROVE BusNew'
  BY <1>8, <1>a, PlainApart DEF InitEnd, boardVars
<1>9. ASSUME NEW c \in Cameras, OpenBus(c) PROVE BusNew'
  BY <1>9, <1>a, PlainApart DEF OpenBus, CameraAt, Creating, Due
<1>10. ASSUME NEW c \in Cameras, OpenBusFails(c) PROVE BusNew'
  BY <1>10, <1>a, PlainApart DEF OpenBusFails, Fail1, CameraAt, Creating, Due, boardVars
<1>11. ASSUME NEW c \in Cameras, NewSccb(c) PROVE BusNew'
  BY <1>11, <1>a, PlainApart DEF NewSccb, CameraAt, Creating, Due, FailAt
<1>12. ASSUME NEW c \in Cameras, StartClock(c) PROVE BusNew'
  BY <1>12, <1>a, PlainApart DEF StartClock, CameraAt, Creating, Due, FailAt
<1>13. ASSUME NEW c \in Cameras, DetectSensor(c) PROVE BusNew'
  BY <1>13, <1>a, PlainApart DEF DetectSensor, CameraAt, Creating, Due, FailAt
<1>14. ASSUME NEW c \in Cameras, CreateDevice(c) PROVE BusNew'
  BY <1>14, <1>a, PlainApart DEF CreateDevice, CameraAt, Creating, Due, Inited, boardVars
<1>15. ASSUME NEW c \in Cameras, CreateDeviceFails(c) PROVE BusNew'
  BY <1>15, <1>a, PlainApart DEF CreateDeviceFails, CameraAt, Creating, Due, FailAt,
     boardVars
<1>16. ASSUME AddMotor PROVE BusNew'
  BY <1>16, <1>a, PlainApart DEF AddMotor, CameraAt, Creating, Due, FailAt
<1>17. ASSUME StartPipeline PROVE BusNew'
  BY <1>17, <1>a, PlainApart DEF StartPipeline, CameraAt, Creating, Due, Inited
<1>18. ASSUME StartPipelineFails PROVE BusNew'
  BY <1>18, <1>a, PlainApart DEF StartPipelineFails, CameraAt, Creating, Due, FailAt
<1>19. ASSUME NEW c \in Cameras, UnwindSensor(c) PROVE BusNew'
  BY <1>19, <1>a, PlainApart DEF UnwindSensor, CameraAt, Creating, Due
<1>20. ASSUME NEW c \in Cameras, UnwindClock(c) PROVE BusNew'
  BY <1>20, <1>a, PlainApart DEF UnwindClock, CameraAt, Creating, Due
<1>21. ASSUME NEW c \in Cameras, UnwindSccb(c) PROVE BusNew'
  BY <1>21, <1>a, PlainApart DEF UnwindSccb, CameraAt, Creating, Due
<1>22. ASSUME NEW c \in Cameras, UnwindBus(c) PROVE BusNew'
  BY <1>22, <1>a, PlainApart DEF UnwindBus, CameraAt, Creating, Due, AfterUnwind, Fail1
<1>23. ASSUME NEW u \in Plain, DestroyPlain(u) PROVE BusNew'
  BY <1>23, <1>a, PlainApart DEF DestroyPlain, Destroying, Due, Destroyed, Busy, boardVars
<1>24. ASSUME DestroyCsi PROVE BusNew'
  BY <1>24, <1>a, PlainApart DEF DestroyCsi, Destroying, Due
<1>25. ASSUME DestroyDvp PROVE BusNew'
  BY <1>25, <1>a, PlainApart DEF DestroyDvp, Destroying, Due, Destroyed, Busy
<1>26. ASSUME DestroySpi PROVE BusNew'
  BY <1>26, <1>a, PlainApart DEF DestroySpi, Destroying, Due, Destroyed, Busy
<1>27. ASSUME DeinitEnd PROVE BusNew'
  BY <1>27, <1>a, PlainApart DEF DeinitEnd
<1>28. CASE UNCHANGED vars
  BY <1>28 DEF vars, boardVars, callVars
<1> QED BY <1>1, <1>2, <1>3, <1>4, <1>5, <1>6, <1>7, <1>8, <1>9, <1>10, <1>11, <1>12,
        <1>13, <1>14, <1>15, <1>16, <1>17, <1>18, <1>19, <1>20, <1>21, <1>22, <1>23, <1>24,
                <1>25, <1>26, <1>27, <1>28 DEF Next, Step, StartCamera

-------------------------------------------------------------------------------
(* The CSI device, the pipeline and the ISP; what is ahead *)

LEMMA DependentsStep == TypeOK /\ AtCamera /\ Opened /\ Quiet /\ Unwinding /\ Dependents
        /\ [Next]_vars => Dependents'
<1> SUFFICES ASSUME TypeOK, AtCamera, Opened, Quiet, Unwinding, Dependents,
        [Next]_vars PROVE Dependents'
  OBVIOUS
<1> USE DEF AtCamera, StepFacts, Here, Opened, Dependents, BuiltSteps, Cameras
<1>a. StepFacts /\ ExistingMoves
  BY Facts, ExistingAfter
<1>1. ASSUME InitCall PROVE Dependents'
  BY <1>1, <1>a, PlainApart DEF InitCall, Call, boardVars
<1>2. ASSUME DeinitCall PROVE Dependents'
  BY <1>2, <1>a, PlainApart DEF DeinitCall, Call, boardVars
<1>3. ASSUME NEW u \in Units, Open(u) PROVE Dependents'
  BY <1>3, <1>a, PlainApart DEF Open, boardVars, callVars
<1>4. ASSUME NEW u \in Units, Close(u) PROVE Dependents'
  BY <1>4, <1>a, PlainApart DEF Close, boardVars, callVars
<1>5. ASSUME Skip PROVE Dependents'
  BY <1>5, <1>a, PlainApart DEF Skip, Due, boardVars
<1>6. ASSUME NEW u \in Plain, CreatePlain(u) PROVE Dependents'
  BY <1>6, <1>a, PlainApart DEF CreatePlain, Creating, Due, boardVars
<1>7. ASSUME NEW u \in Plain, CreatePlainFails(u) PROVE Dependents'
  BY <1>7, <1>a, PlainApart DEF CreatePlainFails, Creating, Due, Fail1, boardVars
<1>8. ASSUME InitEnd PROVE Dependents'
  BY <1>8, <1>a, PlainApart DEF InitEnd, boardVars
<1>9. ASSUME NEW c \in Cameras, OpenBus(c) PROVE Dependents'
  BY <1>9, <1>a, PlainApart DEF OpenBus, CameraAt, Creating, Due
<1>10. ASSUME NEW c \in Cameras, OpenBusFails(c) PROVE Dependents'
  BY <1>10, <1>a, PlainApart DEF OpenBusFails, Fail1, CameraAt, Creating, Due, boardVars
<1>11. ASSUME NEW c \in Cameras, NewSccb(c) PROVE Dependents'
  BY <1>11, <1>a, PlainApart DEF NewSccb, CameraAt, Creating, Due, FailAt
<1>12. ASSUME NEW c \in Cameras, StartClock(c) PROVE Dependents'
  BY <1>12, <1>a, PlainApart DEF StartClock, CameraAt, Creating, Due, FailAt
<1>13. ASSUME NEW c \in Cameras, DetectSensor(c) PROVE Dependents'
  BY <1>13, <1>a, PlainApart DEF DetectSensor, CameraAt, Creating, Due, FailAt
<1>14. ASSUME NEW c \in Cameras, CreateDevice(c) PROVE Dependents'
  BY <1>14, <1>a, PlainApart DEF CreateDevice, CameraAt, Creating, Due, Inited, boardVars
<1>15. ASSUME NEW c \in Cameras, CreateDeviceFails(c) PROVE Dependents'
  BY <1>15, <1>a, PlainApart DEF CreateDeviceFails, CameraAt, Creating, Due, FailAt,
     boardVars
<1>16. ASSUME AddMotor PROVE Dependents'
  BY <1>16, <1>a, PlainApart DEF AddMotor, CameraAt, Creating, Due, FailAt
<1>17. ASSUME StartPipeline PROVE Dependents'
  BY <1>17, <1>a, PlainApart DEF StartPipeline, CameraAt, Creating, Due, Inited
<1>18. ASSUME StartPipelineFails PROVE Dependents'
  BY <1>18, <1>a, PlainApart DEF StartPipelineFails, CameraAt, Creating, Due, FailAt
<1>19. ASSUME NEW c \in Cameras, UnwindSensor(c) PROVE Dependents'
  BY <1>19, <1>a, PlainApart DEF UnwindSensor, CameraAt, Creating, Due
<1>20. ASSUME NEW c \in Cameras, UnwindClock(c) PROVE Dependents'
  BY <1>20, <1>a, PlainApart DEF UnwindClock, CameraAt, Creating, Due
<1>21. ASSUME NEW c \in Cameras, UnwindSccb(c) PROVE Dependents'
  BY <1>21, <1>a, PlainApart DEF UnwindSccb, CameraAt, Creating, Due
<1>22. ASSUME NEW c \in Cameras, UnwindBus(c) PROVE Dependents'
  BY <1>22, <1>a, PlainApart DEF UnwindBus, CameraAt, Creating, Due, AfterUnwind, Fail1
<1>23. ASSUME NEW u \in Plain, DestroyPlain(u) PROVE Dependents'
  BY <1>23, <1>a, PlainApart DEF DestroyPlain, Destroying, Due, Destroyed, Busy, boardVars
<1>24. ASSUME DestroyCsi PROVE Dependents'
  BY <1>24, <1>a, PlainApart DEF DestroyCsi, Destroying, Due
<1>25. ASSUME DestroyDvp PROVE Dependents'
  BY <1>25, <1>a, PlainApart DEF DestroyDvp, Destroying, Due, Destroyed, Busy
<1>26. ASSUME DestroySpi PROVE Dependents'
  BY <1>26, <1>a, PlainApart DEF DestroySpi, Destroying, Due, Destroyed, Busy
<1>27. ASSUME DeinitEnd PROVE Dependents'
  BY <1>27, <1>a, PlainApart DEF DeinitEnd
<1>28. CASE UNCHANGED vars
  BY <1>28 DEF vars, boardVars, callVars
<1> QED BY <1>1, <1>2, <1>3, <1>4, <1>5, <1>6, <1>7, <1>8, <1>9, <1>10, <1>11, <1>12,
        <1>13, <1>14, <1>15, <1>16, <1>17, <1>18, <1>19, <1>20, <1>21, <1>22, <1>23, <1>24,
                <1>25, <1>26, <1>27, <1>28 DEF Next, Step, StartCamera

\* Nothing stands in the way of destroying a device: when the ISP's turn comes, the
\* pipeline went with the CSI device before.
LEMMA NoneBusy ==
    ASSUME TypeOK, AtCamera, Opened, Quiet, Unwinding, Dependents,
           NEW u \in Units \ {"csi"}, Destroying(u)
    PROVE  ~ Busy(u)
<1>1. opened = {}
  BY Facts DEF StepFacts, Destroying
<1>2. ASSUME u = "isp", pipeline PROVE FALSE
  <2>1. "csi" \in Range(todo)
    BY <1>2 DEF Destroying, Dependents, Unwinding, Cameras
  <2>2. "csi" \in Range(Tail(todo))
    BY <1>2, <2>1, TodoTail DEF TodoFacts, Destroying, Due
  <2> QED BY <1>2, <2>2, TodoTail DEF TodoFacts, Destroying, Due, Unwinding
<1> QED BY <1>1, <1>2 DEF Busy

LEMMA UnwindingStep == Careless = {} /\ TypeOK /\ AtCamera /\ Opened /\ Quiet
        /\ Unwinding /\ Dependents /\ [Next]_vars => Unwinding'
<1> SUFFICES ASSUME Careless = {}, TypeOK, AtCamera, Opened, Quiet, Unwinding, Dependents,
        [Next]_vars PROVE Unwinding'
  OBVIOUS
<1> USE DEF AtCamera, StepFacts, TodoFacts, Here, Opened, Unwinding, Dependents, BuiltSteps
<1>a. StepFacts
  BY Facts
<1>b. TodoFacts
  BY TodoTail
<1>1. ASSUME InitCall PROVE Unwinding'
  BY <1>1, <1>a, <1>b, PlainApart, DeinitOrdered DEF InitCall, Call, boardVars
<1>2. ASSUME DeinitCall PROVE Unwinding'
  BY <1>2, <1>a, <1>b, PlainApart, DeinitOrdered DEF DeinitCall, Call, boardVars
<1>3. ASSUME NEW u \in Units, Open(u) PROVE Unwinding'
  BY <1>3, <1>a, <1>b, PlainApart, DeinitOrdered DEF Open, boardVars, callVars
<1>4. ASSUME NEW u \in Units, Close(u) PROVE Unwinding'
  BY <1>4, <1>a, <1>b, PlainApart, DeinitOrdered DEF Close, boardVars, callVars
<1>5. ASSUME Skip PROVE Unwinding'
  BY <1>5, <1>a, <1>b, PlainApart, DeinitOrdered DEF Skip, Due, boardVars
<1>6. ASSUME NEW u \in Plain, CreatePlain(u) PROVE Unwinding'
  BY <1>6, <1>a, <1>b, PlainApart, DeinitOrdered DEF CreatePlain, Creating, Due, boardVars
<1>7. ASSUME NEW u \in Plain, CreatePlainFails(u) PROVE Unwinding'
  BY <1>7, <1>a, <1>b, PlainApart, DeinitOrdered DEF CreatePlainFails, Creating, Due,
     Fail1, boardVars
<1>8. ASSUME InitEnd PROVE Unwinding'
  BY <1>8, <1>a, <1>b, PlainApart, DeinitOrdered DEF InitEnd, boardVars
<1>9. ASSUME NEW c \in Cameras, OpenBus(c) PROVE Unwinding'
  BY <1>9, <1>a, <1>b, PlainApart, DeinitOrdered DEF OpenBus, CameraAt, Creating, Due
<1>10. ASSUME NEW c \in Cameras, OpenBusFails(c) PROVE Unwinding'
  BY <1>10, <1>a, <1>b, PlainApart, DeinitOrdered DEF OpenBusFails, Fail1, CameraAt,
     Creating, Due, boardVars
<1>11. ASSUME NEW c \in Cameras, NewSccb(c) PROVE Unwinding'
  BY <1>11, <1>a, <1>b, PlainApart, DeinitOrdered DEF NewSccb, CameraAt, Creating, Due,
     FailAt
<1>12. ASSUME NEW c \in Cameras, StartClock(c) PROVE Unwinding'
  BY <1>12, <1>a, <1>b, PlainApart, DeinitOrdered DEF StartClock, CameraAt, Creating, Due,
     FailAt
<1>13. ASSUME NEW c \in Cameras, DetectSensor(c) PROVE Unwinding'
  BY <1>13, <1>a, <1>b, PlainApart, DeinitOrdered DEF DetectSensor, CameraAt, Creating,
     Due, FailAt
<1>14. ASSUME NEW c \in Cameras, CreateDevice(c) PROVE Unwinding'
  BY <1>14, <1>a, <1>b, PlainApart, DeinitOrdered DEF CreateDevice, CameraAt, Creating,
     Due, Inited, boardVars
<1>15. ASSUME NEW c \in Cameras, CreateDeviceFails(c) PROVE Unwinding'
  BY <1>15, <1>a, <1>b, PlainApart, DeinitOrdered DEF CreateDeviceFails, CameraAt,
     Creating, Due, FailAt, boardVars
<1>16. ASSUME AddMotor PROVE Unwinding'
  BY <1>16, <1>a, <1>b, PlainApart, DeinitOrdered DEF AddMotor, CameraAt, Creating, Due,
     FailAt
<1>17. ASSUME StartPipeline PROVE Unwinding'
  BY <1>17, <1>a, <1>b, PlainApart, DeinitOrdered DEF StartPipeline, CameraAt, Creating,
     Due, Inited
<1>18. ASSUME StartPipelineFails PROVE Unwinding'
  BY <1>18, <1>a, <1>b, PlainApart, DeinitOrdered DEF StartPipelineFails, CameraAt,
     Creating, Due, FailAt
<1>19. ASSUME NEW c \in Cameras, UnwindSensor(c) PROVE Unwinding'
  BY <1>19, <1>a, <1>b, PlainApart, DeinitOrdered DEF UnwindSensor, CameraAt, Creating, Due
<1>20. ASSUME NEW c \in Cameras, UnwindClock(c) PROVE Unwinding'
  BY <1>20, <1>a, <1>b, PlainApart, DeinitOrdered DEF UnwindClock, CameraAt, Creating, Due
<1>21. ASSUME NEW c \in Cameras, UnwindSccb(c) PROVE Unwinding'
  BY <1>21, <1>a, <1>b, PlainApart, DeinitOrdered DEF UnwindSccb, CameraAt, Creating, Due
<1>22. ASSUME NEW c \in Cameras, UnwindBus(c) PROVE Unwinding'
  BY <1>22, <1>a, <1>b, PlainApart, DeinitOrdered DEF UnwindBus, CameraAt, Creating, Due,
     AfterUnwind, Fail1
<1>23. ASSUME NEW u \in Plain, DestroyPlain(u) PROVE Unwinding'
  <2>1. ~ Busy(u)
    BY <1>23, NoneBusy, PlainApart DEF DestroyPlain, Units, Cameras
  <2> QED BY <1>23, <2>1, <1>a, <1>b, PlainApart, DeinitOrdered DEF DestroyPlain,
          Destroying, Due, Destroyed, boardVars
<1>24. ASSUME DestroyCsi PROVE Unwinding'
  BY <1>24, <1>a, <1>b, PlainApart, DeinitOrdered DEF DestroyCsi, Destroying, Due
<1>25. ASSUME DestroyDvp PROVE Unwinding'
  BY <1>25, <1>a, <1>b, PlainApart, DeinitOrdered DEF DestroyDvp, Destroying, Due,
     Destroyed, Busy
<1>26. ASSUME DestroySpi PROVE Unwinding'
  BY <1>26, <1>a, <1>b, PlainApart, DeinitOrdered DEF DestroySpi, Destroying, Due,
     Destroyed, Busy
<1>27. ASSUME DeinitEnd PROVE Unwinding'
  BY <1>27, <1>a, <1>b, PlainApart, DeinitOrdered DEF DeinitEnd
<1>28. CASE UNCHANGED vars
  BY <1>28 DEF vars, boardVars, callVars
<1> QED BY <1>1, <1>2, <1>3, <1>4, <1>5, <1>6, <1>7, <1>8, <1>9, <1>10, <1>11, <1>12,
        <1>13, <1>14, <1>15, <1>16, <1>17, <1>18, <1>19, <1>20, <1>21, <1>22, <1>23, <1>24,
                <1>25, <1>26, <1>27, <1>28 DEF Next, Step, StartCamera

LEMMA FinishingStep == Careless = {} /\ SpiNum = 1 /\ TypeOK /\ AtCamera /\ Opened
        /\ Quiet /\ Unwinding /\ Dependents /\ Finishing /\ [Next]_vars => Finishing'
<1> SUFFICES ASSUME Careless = {}, SpiNum = 1, TypeOK, AtCamera, Opened, Quiet, Unwinding,
        Dependents, Finishing, [Next]_vars PROVE Finishing'
  OBVIOUS
<1> USE DEF AtCamera, StepFacts, TodoFacts, Here, Opened, Unwinding, Dependents, Finishing,
        BuiltSteps
<1>a. StepFacts
  BY Facts
<1>b. TodoFacts
  BY TodoTail
<1>1. ASSUME InitCall PROVE Finishing'
  BY <1>1, <1>a, <1>b, PlainApart, DeinitOrdered DEF InitCall, Call, boardVars
<1>2. ASSUME DeinitCall PROVE Finishing'
  BY <1>2, <1>a, <1>b, PlainApart, DeinitOrdered DEF DeinitCall, Call, boardVars
<1>3. ASSUME NEW u \in Units, Open(u) PROVE Finishing'
  BY <1>3, <1>a, <1>b, PlainApart, DeinitOrdered DEF Open, boardVars, callVars
<1>4. ASSUME NEW u \in Units, Close(u) PROVE Finishing'
  BY <1>4, <1>a, <1>b, PlainApart, DeinitOrdered DEF Close, boardVars, callVars
<1>5. ASSUME Skip PROVE Finishing'
  BY <1>5, <1>a, <1>b, PlainApart, DeinitOrdered DEF Skip, Due, boardVars
<1>6. ASSUME NEW u \in Plain, CreatePlain(u) PROVE Finishing'
  BY <1>6, <1>a, <1>b, PlainApart, DeinitOrdered DEF CreatePlain, Creating, Due, boardVars
<1>7. ASSUME NEW u \in Plain, CreatePlainFails(u) PROVE Finishing'
  BY <1>7, <1>a, <1>b, PlainApart, DeinitOrdered DEF CreatePlainFails, Creating, Due,
     Fail1, boardVars
<1>8. ASSUME InitEnd PROVE Finishing'
  BY <1>8, <1>a, <1>b, PlainApart, DeinitOrdered DEF InitEnd, boardVars
<1>9. ASSUME NEW c \in Cameras, OpenBus(c) PROVE Finishing'
  BY <1>9, <1>a, <1>b, PlainApart, DeinitOrdered DEF OpenBus, CameraAt, Creating, Due
<1>10. ASSUME NEW c \in Cameras, OpenBusFails(c) PROVE Finishing'
  BY <1>10, <1>a, <1>b, PlainApart, DeinitOrdered DEF OpenBusFails, Fail1, CameraAt,
     Creating, Due, boardVars
<1>11. ASSUME NEW c \in Cameras, NewSccb(c) PROVE Finishing'
  BY <1>11, <1>a, <1>b, PlainApart, DeinitOrdered DEF NewSccb, CameraAt, Creating, Due,
     FailAt
<1>12. ASSUME NEW c \in Cameras, StartClock(c) PROVE Finishing'
  BY <1>12, <1>a, <1>b, PlainApart, DeinitOrdered DEF StartClock, CameraAt, Creating, Due,
     FailAt
<1>13. ASSUME NEW c \in Cameras, DetectSensor(c) PROVE Finishing'
  BY <1>13, <1>a, <1>b, PlainApart, DeinitOrdered DEF DetectSensor, CameraAt, Creating,
     Due, FailAt
<1>14. ASSUME NEW c \in Cameras, CreateDevice(c) PROVE Finishing'
  BY <1>14, <1>a, <1>b, PlainApart, DeinitOrdered DEF CreateDevice, CameraAt, Creating,
     Due, Inited, boardVars, Cameras
<1>15. ASSUME NEW c \in Cameras, CreateDeviceFails(c) PROVE Finishing'
  BY <1>15, <1>a, <1>b, PlainApart, DeinitOrdered DEF CreateDeviceFails, CameraAt,
     Creating, Due, FailAt, boardVars
<1>16. ASSUME AddMotor PROVE Finishing'
  BY <1>16, <1>a, <1>b, PlainApart, DeinitOrdered DEF AddMotor, CameraAt, Creating, Due,
     FailAt
<1>17. ASSUME StartPipeline PROVE Finishing'
  BY <1>17, <1>a, <1>b, PlainApart, DeinitOrdered DEF StartPipeline, CameraAt, Creating,
     Due, Inited
<1>18. ASSUME StartPipelineFails PROVE Finishing'
  BY <1>18, <1>a, <1>b, PlainApart, DeinitOrdered DEF StartPipelineFails, CameraAt,
     Creating, Due, FailAt
<1>19. ASSUME NEW c \in Cameras, UnwindSensor(c) PROVE Finishing'
  BY <1>19, <1>a, <1>b, PlainApart, DeinitOrdered DEF UnwindSensor, CameraAt, Creating, Due
<1>20. ASSUME NEW c \in Cameras, UnwindClock(c) PROVE Finishing'
  BY <1>20, <1>a, <1>b, PlainApart, DeinitOrdered DEF UnwindClock, CameraAt, Creating, Due
<1>21. ASSUME NEW c \in Cameras, UnwindSccb(c) PROVE Finishing'
  BY <1>21, <1>a, <1>b, PlainApart, DeinitOrdered DEF UnwindSccb, CameraAt, Creating, Due
<1>22. ASSUME NEW c \in Cameras, UnwindBus(c) PROVE Finishing'
  BY <1>22, <1>a, <1>b, PlainApart, DeinitOrdered DEF UnwindBus, CameraAt, Creating, Due,
     AfterUnwind, Fail1
<1>23. ASSUME NEW u \in Plain, DestroyPlain(u) PROVE Finishing'
  <2>1. ~ Busy(u)
    BY <1>23, NoneBusy, PlainApart DEF DestroyPlain, Units, Cameras
  <2> QED BY <1>23, <2>1, <1>a, <1>b, PlainApart, DeinitOrdered DEF DestroyPlain,
          Destroying, Due, Destroyed, boardVars
<1>24. ASSUME DestroyCsi PROVE Finishing'
  BY <1>24, <1>a, <1>b, PlainApart, DeinitOrdered DEF DestroyCsi, Destroying, Due
<1>25. ASSUME DestroyDvp PROVE Finishing'
  BY <1>25, <1>a, <1>b, PlainApart, DeinitOrdered DEF DestroyDvp, Destroying, Due,
     Destroyed, Busy
<1>26. ASSUME DestroySpi PROVE Finishing'
  BY <1>26, <1>a, <1>b, PlainApart, DeinitOrdered DEF DestroySpi, Destroying, Due,
     Destroyed, Busy
<1>27. ASSUME DeinitEnd PROVE Finishing'
  BY <1>27, <1>a, <1>b, PlainApart, DeinitOrdered DEF DeinitEnd
<1>28. CASE UNCHANGED vars
  BY <1>28 DEF vars, boardVars, callVars
<1> QED BY <1>1, <1>2, <1>3, <1>4, <1>5, <1>6, <1>7, <1>8, <1>9, <1>10, <1>11, <1>12,
        <1>13, <1>14, <1>15, <1>16, <1>17, <1>18, <1>19, <1>20, <1>21, <1>22, <1>23, <1>24,
                <1>25, <1>26, <1>27, <1>28 DEF Next, Step, StartCamera

-------------------------------------------------------------------------------
(* The theorems *)

\* Only the end of a deinitialisation ends it.
LEMMA CallEnds ==
    ASSUME Next, call \in {"deinit", "unwind"}, call' = "none"
    PROVE  DeinitEnd
<1>1. ASSUME NEW c \in Cameras, StartCamera(c) PROVE FALSE
  BY <1>1 DEF StartCamera, OpenBus, OpenBusFails, NewSccb, StartClock, DetectSensor,
     CreateDevice, CreateDeviceFails, UnwindSensor, UnwindClock, UnwindSccb, UnwindBus,
     CameraAt, Creating
<1>2. ASSUME NEW u \in Plain, CreatePlain(u) \/ CreatePlainFails(u) \/ DestroyPlain(u)
      PROVE  FALSE
  BY <1>2 DEF CreatePlain, CreatePlainFails, DestroyPlain, Creating
<1>3. ASSUME AddMotor \/ StartPipeline \/ StartPipelineFails \/ InitEnd PROVE FALSE
  BY <1>3 DEF AddMotor, StartPipeline, StartPipelineFails, InitEnd, CameraAt, Creating
<1>4. ASSUME Skip \/ DestroyCsi \/ DestroyDvp \/ DestroySpi PROVE FALSE
  BY <1>4 DEF Skip, DestroyCsi, DestroyDvp, DestroySpi
<1>5. ASSUME NEW u \in Units, Open(u) \/ Close(u) PROVE FALSE
  BY <1>5 DEF Open, Close
<1>6. ASSUME InitCall \/ DeinitCall PROVE FALSE
  BY <1>6 DEF InitCall, DeinitCall, Call
<1> QED BY <1>1, <1>2, <1>3, <1>4, <1>5, <1>6 DEF Next, Step

LEMMA InvInit == Init => IInv
<1> SUFFICES ASSUME Init PROVE IInv
  OBVIOUS
<1>1. TypeOK /\ AtCamera /\ Opened
  BY TypeInit
<1>2. Existing = {} /\ \A steps : "next" \notin steps => Here(steps) = {}
  BY DEF Init, Existing, Here
<1>3. "next" \notin BusSteps /\ "next" \notin SensorSteps /\ "next" \notin SccbSteps
        /\ "next" \notin ClockSteps
  BY DEF BusSteps, SccbSteps, ClockSteps, SensorSteps, BuiltSteps
<1>4. Quiet /\ Dependents /\ Unwinding /\ BusNew
  BY DEF Init, Quiet, Dependents, Unwinding, BusNew
<1>5. SensorsKept /\ HandlesKept /\ ClocksKept /\ BusesKept
  BY <1>2, <1>3 DEF Init, SensorsKept, HandlesKept, ClocksKept, BusesKept
<1> QED BY <1>1, <1>4, <1>5 DEF IInv

LEMMA InvStep == Careless = {} /\ IInv /\ [Next]_vars => IInv'
BY TypeStep, AtCameraStep, OpenedStep, QuietStep, SensorsStep, HandlesStep, ClocksStep,
   BusesStep, BusNewStep, DependentsStep, UnwindingStep DEF IInv

LEMMA Invariant == Careless = {} => (Spec => []IInv)
<1> SUFFICES ASSUME Careless = {} PROVE Spec => []IInv
  OBVIOUS
<1>1. IInv /\ [Next]_vars => IInv'
  BY InvStep
<1> QED BY InvInit, <1>1, PTL DEF Spec

LEMMA FinishingInit == Init => Finishing
BY DEF Init, Finishing, Here, BuiltSteps

LEMMA FinishingInvariant == Careless = {} /\ SpiNum = 1 => (Spec => []Finishing)
<1> SUFFICES ASSUME Careless = {}, SpiNum = 1 PROVE Spec => []Finishing
  OBVIOUS
<1>1. Spec => []IInv
  BY Invariant
<1>2. IInv /\ Finishing /\ [Next]_vars => Finishing'
  BY FinishingStep DEF IInv
<1> QED BY FinishingInit, <1>1, <1>2, PTL DEF Spec

\* In a careful application a sensor that is alive always has its bus and its clock,
\* and the pipeline both devices it has open.
THEOREM Supported == Careless = {} => (Spec => []SensorsSupported)
<1> SUFFICES ASSUME Careless = {} PROVE Spec => []SensorsSupported
  OBVIOUS
<1>1. IInv => SensorsSupported
  <2> SUFFICES ASSUME IInv PROVE SensorsSupported
    OBVIOUS
  <2>1. SensorsKept /\ ClocksKept /\ BusesKept /\ Dependents
    BY DEF IInv
  <2>2. /\ Here(SensorSteps) \subseteq Here(ClockSteps)
        /\ Here(SensorSteps) \subseteq Here(BusSteps)
    BY DEF Here, SensorSteps, ClockSteps, SccbSteps, BusSteps
  <2>3. ASSUME NEW c \in sensor PROVE Port[c] \in bus /\ (c # "csi" => c \in clocks)
    BY <2>1, <2>2 DEF SensorsKept, ClocksKept, BusesKept
  <2> QED BY <2>1, <2>3 DEF SensorsSupported, Dependents
<1>2. Spec => []IInv
  BY Invariant
<1> QED BY <1>1, <1>2, PTL

\* Between calls each device that exists has exactly what it stands on, and the board
\* has nothing else on.
BoardExact ==
    call = "none" =>
        /\ sensor = objects \cap Cameras
        /\ sccb = sensor \cup (flags \cap {"motor"})
        /\ bus = {Port[c] : c \in sensor}
        /\ clocks = sensor \ {"csi"}
        /\ "motor" \in flags => "csi" \in objects

LEMMA InvBoardExact == IInv => BoardExact
<1> SUFFICES ASSUME IInv, call = "none" PROVE BoardExact
  BY DEF BoardExact
<1>1. at = "next"
  BY DEF IInv, AtCamera
<1>2. \A steps : "next" \notin steps => Here(steps) = {}
  BY <1>1 DEF Here
<1>3. /\ Here(BuiltSteps) = {} /\ Here(SensorSteps) = {} /\ Here(ClockSteps) = {}
      /\ Here(SccbSteps) = {} /\ Here(BusSteps) = {}
  BY <1>2 DEF BusSteps, SccbSteps, ClockSteps, SensorSteps, BuiltSteps
<1>4. Existing = objects \cap Cameras
  BY <1>3 DEF Existing
<1>5. sensor = Existing /\ sccb = Existing \cup (flags \cap {"motor"})
  BY <1>3 DEF IInv, SensorsKept, HandlesKept
<1>6. clocks = Existing \ {"csi"}
  BY <1>3 DEF IInv, ClocksKept
<1>7. bus = {Port[c] : c \in Existing}
  BY <1>3 DEF IInv, BusesKept
<1>8. "motor" \in flags => "csi" \in objects
  BY DEF IInv, Dependents
<1> QED BY <1>4, <1>5, <1>6, <1>7, <1>8 DEF BoardExact

\* In a careful application, with one or two SPI devices and whatever failed, sensors,
\* handles, buses and clocks between calls are exactly those of the devices that exist.
THEOREM NothingElseOn == Careless = {} => (Spec => []BoardExact)
<1> SUFFICES ASSUME Careless = {} PROVE Spec => []BoardExact
  OBVIOUS
<1>1. Spec => []IInv
  BY Invariant
<1> QED BY InvBoardExact, <1>1, PTL

\* In a careful application with one SPI device, whatever failed: between calls the
\* flags, the objects, the sensors, the handles, the buses and the clocks agree.
THEOREM Exact == Careless = {} /\ SpiNum = 1 => (Spec => []ResourcesExact)
<1> SUFFICES ASSUME Careless = {}, SpiNum = 1 PROVE Spec => []ResourcesExact
  OBVIOUS
<1>1. IInv /\ Finishing => ResourcesExact
  <2> SUFFICES ASSUME IInv, Finishing, call = "none" PROVE ResourcesExact
    BY DEF ResourcesExact
  <2>1. objects = flags \ {"motor"}
    BY DEF Finishing, IInv, AtCamera, Here, BuiltSteps
  <2>2. "csi" \in objects => "csi" \in flags
    BY <2>1
  <2> QED BY <2>1, <2>2, InvBoardExact DEF ResourcesExact, BoardExact
<1>2. Spec => []IInv
  BY Invariant
<1>3. Spec => []Finishing
  BY FinishingInvariant
<1> QED BY <1>1, <1>2, <1>3, PTL

\* In a careful application with one SPI device a deinitialisation, or the unwinding of
\* a failed initialisation, ends with nothing left of what it was asked for.
THEOREM Completes == Careless = {} /\ SpiNum = 1 => (Spec => DeinitCompletes)
<1> SUFFICES ASSUME Careless = {}, SpiNum = 1 PROVE Spec => DeinitCompletes
  OBVIOUS
<1> DEFINE A == opened = {} /\ call \in {"deinit", "unwind"} /\ call' = "none" =>
                    flags \cap want = {} /\ (call = "deinit" => ret = "ok")
<1>1. IInv /\ Finishing /\ [Next]_vars => [A]_vars
  <2> SUFFICES ASSUME IInv, Finishing, Next,
                      call \in {"deinit", "unwind"}, call' = "none"
               PROVE  flags \cap want = {} /\ (call = "deinit" => ret = "ok")
    OBVIOUS
  <2>1. DeinitEnd
    BY CallEnds
  <2>2. todo = <<>> /\ at = "next"
    BY <2>1 DEF DeinitEnd, IInv, AtCamera
  <2>3. objects = {}
    BY <2>2, DeinitOrdered DEF Finishing
  <2>4. flags \subseteq {"motor"} /\ "motor" \notin flags
    BY <2>2, <2>3 DEF Finishing, IInv, Dependents, Here, BuiltSteps
  <2> QED BY <2>4 DEF Finishing
<1>2. Spec => []IInv
  BY Invariant
<1>3. Spec => []Finishing
  BY FinishingInvariant
<1> QED BY <1>1, <1>2, <1>3, PTL DEF A, DeinitCompletes, Spec

===============================================================================
