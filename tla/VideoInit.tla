------------------------------- MODULE VideoInit -------------------------------
(***************************************************************************)
(* esp_video_init.c: one call of esp_video_init_with_flags or                *)
(* esp_video_deinit_with_flags at a time, under s_init_lock, creates or       *)
(* destroys the video devices one after the other.  A camera needs an I2C bus *)
(* that several cameras may share, an SCCB handle on it, for DVP and SPI a    *)
(* clock, and its sensor; whatever fails, what was set up for it is taken     *)
(* down again, and the devices set up before it with it.                      *)
(***************************************************************************)
EXTENDS Integers, FiniteSets, SequencesExt

CONSTANTS
    Plain,              \* the devices without a sensor that are configured
    Detect,             \* the ports of the sensor drivers linked in, in their order
    Port,               \* the I2C port of each camera
    SpiNum,             \* ESP_VIDEO_SPI_DEVICE_NUM
    Careless            \* what the application does not take care of

PlainDevices == {"isp", "uvc", "h264", "jpeg_enc", "jpeg_dec"}
Cameras == {"csi", "dvp", "spi"}
Units == Plain \cup Cameras
Flags == Units \cup {"motor"}

\* "subset": it deinitialises some of the devices and goes on using the others;
\* "open": it initialises or deinitialises while a device is open.
ASSUME VideoInitAssumption ==
    /\ Plain \subseteq PlainDevices
    /\ Detect \in Seq(Cameras)
    /\ DOMAIN Port = Cameras
    /\ SpiNum \in {1, 2}
    /\ Careless \subseteq {"subset", "open"}

VARIABLES
    flags,              \* s_video_device_inited_flags
    objects,            \* the video devices that exist
    opened,             \* those the application has open
    sensor,             \* cameras whose sensor object is alive
    sccb,               \* cameras, and "motor", with an SCCB handle
    bus,                \* ports with a handle in s_i2c_dev
    clocks,             \* cameras whose clock runs: s_spi_dev[0].xclk_handle, the DVP port
    pipeline,           \* the ISP pipeline runs
    call, want,         \* the call under way and its flags
    todo,               \* what it has still to look at
    at,                 \* the step for the camera it is at
    i2c_initialized,    \* this camera's step opened the bus
    ret

boardVars == <<sensor, sccb, bus, clocks, pipeline>>
callVars == <<call, want, todo, at, i2c_initialized, ret>>
vars == <<flags, objects, opened, boardVars, callVars>>

TypeOK ==
    /\ flags \subseteq Flags
    /\ objects \subseteq Units /\ opened \subseteq objects
    /\ sensor \subseteq Cameras /\ sccb \subseteq Cameras \cup {"motor"}
    /\ bus \subseteq {Port[c] : c \in Cameras}
    /\ clocks \subseteq {"dvp", "spi"}
    /\ pipeline \in BOOLEAN
    /\ call \in {"none", "init", "deinit", "unwind"}
    /\ want \subseteq Flags
    /\ todo \in Seq(PlainDevices \cup Cameras)
    /\ at \in {"next", "sccb", "clock", "detect", "create", "motor", "pipeline",
               "fail_3", "fail_2", "fail_1", "fail_0"}
    /\ i2c_initialized \in BOOLEAN
    /\ ret \in {"ok", "fail"}

Init ==
    /\ flags = {} /\ objects = {} /\ opened = {}
    /\ sensor = {} /\ sccb = {} /\ bus = {} /\ clocks = {} /\ pipeline = FALSE
    /\ call = "none" /\ want = {} /\ todo = <<>> /\ at = "next"
    /\ i2c_initialized = FALSE /\ ret = "ok"

\* Mutant: a kind of device that was added to the initialisation alone.
DeinitOrderForgets == <<"jpeg_enc", "jpeg_dec", "csi", "dvp", "spi", "uvc", "isp">>

\* The order in which the two calls look at the devices.
InitOrder == <<"isp", "uvc">> \o Detect \o <<"h264", "jpeg_enc", "jpeg_dec">>
DeinitOrder == <<"jpeg_enc", "jpeg_dec", "h264", "csi", "dvp", "spi", "uvc", "isp">>

\* esp_video_destroy refuses a device with an open descriptor; the pipeline has two.
Busy(u) == u \in opened \/ (pipeline /\ u \in {"csi", "isp"})

-------------------------------------------------------------------------------
(* The application *)

Open(u) ==
    /\ call = "none" /\ u \in objects
    /\ opened' = opened \cup {u}
    /\ UNCHANGED <<flags, objects, boardVars, callVars>>

Close(u) ==
    /\ call = "none" /\ u \in opened
    /\ opened' = opened \ {u}
    /\ UNCHANGED <<flags, objects, boardVars, callVars>>

Call(kind, order, f) ==
    /\ call = "none"
    /\ opened # {} => "open" \in Careless
    /\ call' = kind /\ want' = f /\ todo' = order
    /\ at' = "next" /\ ret' = "ok"
    /\ UNCHANGED <<flags, objects, opened, boardVars, i2c_initialized>>

InitCall == \E f \in SUBSET Units : Call("init", InitOrder, f)

DeinitCall ==
    \E f \in SUBSET Units :
        /\ f # Units => "subset" \in Careless
        /\ Call("deinit", DeinitOrder, f)

\* What the call is at: a device it was asked for, not initialised yet, or still so.
Due(u) ==
    /\ todo # <<>> /\ u = Head(todo) /\ u \in want
    /\ u \in flags <=> call # "init"

\* The device was not asked for or is already as it should be.
Skip ==
    /\ call # "none" /\ todo # <<>> /\ at = "next"
    /\ ~Due(Head(todo))
    /\ todo' = Tail(todo)
    /\ UNCHANGED <<flags, objects, opened, boardVars, call, want, at, i2c_initialized, ret>>

-------------------------------------------------------------------------------
(* esp_video_init_with_flags *)

Creating(u) == call = "init" /\ Due(u)

\* fail1: whatever was initialised, by this call or by an earlier one.
Fail1 ==
    /\ call' = "unwind" /\ want' = flags /\ todo' = DeinitOrder
    /\ ret' = "fail"

CreatePlain(u) ==
    /\ Creating(u)
    /\ flags' = flags \cup {u} /\ objects' = objects \cup {u}
    /\ todo' = Tail(todo)
    /\ UNCHANGED <<opened, boardVars, call, want, at, i2c_initialized, ret>>

\* The ISP device comes first and leaves by fail0.
CreatePlainFails(u) ==
    /\ Creating(u)
    /\ IF u = "isp" THEN call' = "none" /\ todo' = <<>> /\ ret' = "fail" /\ UNCHANGED want
                    ELSE Fail1
    /\ UNCHANGED <<flags, objects, opened, boardVars, at, i2c_initialized>>

InitEnd ==
    /\ call = "init" /\ todo = <<>>
    /\ call' = "none"
    /\ UNCHANGED <<flags, objects, opened, boardVars, want, todo, at, i2c_initialized, ret>>

-------------------------------------------------------------------------------
(* esp_video_init_sensor_and_video_device, and the create function it calls *)

CameraAt(c, step) == Creating(c) /\ at = step

\* Go on at a label of the unwinding, with an error or, when no sensor was found, without.
FailAt(label) == at' = label /\ ret' = "fail"

OpenBus(c) ==
    /\ CameraAt(c, "next")
    /\ i2c_initialized' = (Port[c] \notin bus)
    /\ bus' = bus \cup {Port[c]}
    /\ at' = "sccb"
    /\ UNCHANGED <<flags, objects, opened, sensor, sccb, clocks, pipeline, call, want, todo, ret>>

OpenBusFails(c) ==
    /\ CameraAt(c, "next")
    /\ Port[c] \notin bus
    /\ Fail1
    /\ UNCHANGED <<flags, objects, opened, boardVars, at, i2c_initialized>>

NewSccb(c) ==
    /\ CameraAt(c, "sccb")
    /\ \/ sccb' = sccb \cup {c} /\ at' = "clock" /\ UNCHANGED ret
       \/ FailAt("fail_0") /\ UNCHANGED sccb
    /\ UNCHANGED <<flags, objects, opened, sensor, bus, clocks, pipeline,
                   call, want, todo, i2c_initialized>>

\* Mutant: a CSI camera counts as one with a clock.
StartClockAll(c) ==
    /\ CameraAt(c, "clock")
    /\ clocks' = clocks \cup {c} /\ at' = "detect"
    /\ UNCHANGED <<flags, objects, opened, sensor, sccb, bus, pipeline,
                   call, want, todo, i2c_initialized, ret>>

\* init_dvp_clk_func and init_spi_clk_func take back what they did when they fail.
StartClock(c) ==
    /\ CameraAt(c, "clock")
    /\ \/ clocks' = clocks \cup ({c} \ {"csi"}) /\ at' = "detect" /\ UNCHANGED ret
       \/ c # "csi" /\ FailAt("fail_1") /\ UNCHANGED clocks
    /\ UNCHANGED <<flags, objects, opened, sensor, sccb, bus, pipeline,
                   call, want, todo, i2c_initialized>>

\* There is no sensor, or it does not take its default format.
DetectSensor(c) ==
    /\ CameraAt(c, "detect")
    /\ \/ sensor' = sensor \cup {c} /\ at' = "create" /\ UNCHANGED ret
       \/ at' = "fail_2" /\ UNCHANGED <<sensor, ret>>
       \/ sensor' = sensor \cup {c} /\ FailAt("fail_3")
    /\ UNCHANGED <<flags, objects, opened, sccb, bus, clocks, pipeline,
                   call, want, todo, i2c_initialized>>

\* The camera is initialised: on to the next entry of the detect array.
Inited(c, more) ==
    /\ flags' = flags \cup {c} \cup more
    /\ todo' = Tail(todo) /\ at' = "next"

CreateDevice(c) ==
    /\ CameraAt(c, "create")
    /\ objects' = objects \cup {c}
    /\ IF c = "csi" THEN at' = "motor" /\ UNCHANGED <<flags, todo>>
                    ELSE Inited(c, {})
    /\ UNCHANGED <<opened, boardVars, call, want, i2c_initialized, ret>>

CreateDeviceFails(c) ==
    /\ CameraAt(c, "create")
    /\ FailAt("fail_3")
    /\ UNCHANGED <<flags, objects, opened, boardVars, call, want, todo, i2c_initialized>>

\* create_csi_video_device: a motor that is found is added to the CSI device.
AddMotor ==
    /\ CameraAt("csi", "motor")
    /\ \/ sccb' = sccb \cup {"motor"} /\ flags' = flags \cup {"motor"} /\ at' = "pipeline"
          /\ UNCHANGED <<objects, ret>>
       \/ at' = "pipeline" /\ UNCHANGED <<sccb, flags, objects, ret>>
       \/ objects' = objects \ {"csi"} /\ FailAt("fail_3") /\ UNCHANGED <<sccb, flags>>
    /\ UNCHANGED <<opened, sensor, bus, clocks, pipeline, call, want, todo, i2c_initialized>>

\* It starts the pipeline when the sensor has an ISP and algorithms configured for it.
StartPipeline ==
    /\ CameraAt("csi", "pipeline")
    /\ \/ pipeline' = FALSE
       \/ "isp" \in objects /\ pipeline' = TRUE
    /\ Inited("csi", {})
    /\ UNCHANGED <<objects, opened, sensor, sccb, bus, clocks, call, want, i2c_initialized, ret>>

StartPipelineFails ==
    /\ CameraAt("csi", "pipeline")
    /\ sccb' = sccb \ {"motor"} /\ flags' = flags \ {"motor"}
    /\ objects' = objects \ {"csi"}
    /\ FailAt("fail_3")
    /\ UNCHANGED <<opened, sensor, bus, clocks, pipeline, call, want, todo, i2c_initialized>>

UnwindSensor(c) ==
    /\ CameraAt(c, "fail_3")
    /\ sensor' = sensor \ {c} /\ at' = "fail_2"
    /\ UNCHANGED <<flags, objects, opened, sccb, bus, clocks, pipeline,
                   call, want, todo, i2c_initialized, ret>>

\* Mutant: a camera whose sensor was not found keeps its clock.
UnwindClockSkipped(c) ==
    /\ CameraAt(c, "fail_2")
    /\ at' = "fail_1"
    /\ clocks' = IF ret = "ok" THEN clocks ELSE clocks \ {c}
    /\ UNCHANGED <<flags, objects, opened, sensor, sccb, bus, pipeline,
                   call, want, todo, i2c_initialized, ret>>

UnwindClock(c) ==
    /\ CameraAt(c, "fail_2")
    /\ clocks' = clocks \ {c} /\ at' = "fail_1"
    /\ UNCHANGED <<flags, objects, opened, sensor, sccb, bus, pipeline,
                   call, want, todo, i2c_initialized, ret>>

UnwindSccb(c) ==
    /\ CameraAt(c, "fail_1")
    /\ sccb' = sccb \ {c} /\ at' = "fail_0"
    /\ UNCHANGED <<flags, objects, opened, sensor, bus, clocks, pipeline,
                   call, want, todo, i2c_initialized, ret>>

\* What fail_0 comes to: the next entry, or the unwinding of everything.
AfterUnwind == IF ret = "fail" THEN Fail1
               ELSE todo' = Tail(todo) /\ UNCHANGED <<call, want, ret>>

\* Mutant: a bus that was open before is closed as well.
UnwindBusShared(c) ==
    /\ CameraAt(c, "fail_0")
    /\ bus' = bus \ {Port[c]}
    /\ at' = "next"
    /\ AfterUnwind
    /\ UNCHANGED <<flags, objects, opened, sensor, sccb, clocks, pipeline, i2c_initialized>>

UnwindBus(c) ==
    /\ CameraAt(c, "fail_0")
    /\ bus' = IF i2c_initialized THEN bus \ {Port[c]} ELSE bus
    /\ at' = "next"
    /\ AfterUnwind
    /\ UNCHANGED <<flags, objects, opened, sensor, sccb, clocks, pipeline, i2c_initialized>>

-------------------------------------------------------------------------------
(* esp_video_deinit_with_flags, called by itself or by fail1 *)

Destroying(u) == call \in {"deinit", "unwind"} /\ Due(u)

\* The device is destroyed and no longer initialised, or the call ends with an error.
Destroyed(u, gone, done) ==
    /\ objects' = objects \ (IF gone THEN {u} ELSE {})
    /\ IF done THEN flags' = flags \ {u} /\ todo' = Tail(todo) /\ UNCHANGED ret
               ELSE todo' = <<>> /\ ret' = "fail" /\ UNCHANGED flags

DestroyPlain(u) ==
    /\ Destroying(u)
    /\ Destroyed(u, ~Busy(u), ~Busy(u))
    /\ UNCHANGED <<opened, boardVars, call, want, at, i2c_initialized>>

\* The sensor goes first; destroying the device may then be refused.  The clock of
\* the DVP port goes last, that of the SPI camera only when the call ends.
DestroyDvp ==
    /\ Destroying("dvp")
    /\ sccb' = sccb \ {"dvp"} /\ sensor' = sensor \ {"dvp"}
    /\ clocks' = IF Busy("dvp") THEN clocks ELSE clocks \ {"dvp"}
    /\ Destroyed("dvp", ~Busy("dvp"), ~Busy("dvp"))
    /\ UNCHANGED <<opened, bus, pipeline, call, want, at, i2c_initialized>>

\* The pipeline closes its descriptors; the motor goes with the sensor.
DestroyCsi ==
    /\ Destroying("csi")
    /\ pipeline' = FALSE
    /\ sccb' = sccb \ {"csi", "motor"} /\ sensor' = sensor \ {"csi"}
    /\ objects' = IF "csi" \in opened THEN objects ELSE objects \ {"csi"}
    /\ flags' = flags \ (IF "csi" \in opened THEN {"motor"} ELSE {"csi", "motor"})
    /\ IF "csi" \in opened THEN todo' = <<>> /\ ret' = "fail"
                           ELSE todo' = Tail(todo) /\ UNCHANGED ret
    /\ UNCHANGED <<opened, bus, clocks, call, want, at, i2c_initialized>>

\* The loop looks for every SPI device there may be.  Only the first is ever
\* created, and what the last look-up returns is what the loop returns.
DestroySpi ==
    /\ Destroying("spi")
    /\ sccb' = sccb \ {"spi"} /\ sensor' = sensor \ {"spi"}
    /\ Destroyed("spi", ~Busy("spi"), ~Busy("spi") /\ SpiNum = 1)
    /\ UNCHANGED <<opened, bus, clocks, pipeline, call, want, at, i2c_initialized>>

\* Every I2C bus and every SPI clock, whichever device they were for.
DeinitEnd ==
    /\ call \in {"deinit", "unwind"} /\ todo = <<>>
    /\ bus' = {} /\ clocks' = clocks \ {"spi"}
    /\ call' = "none"
    /\ UNCHANGED <<flags, objects, opened, sensor, sccb, pipeline,
                   want, todo, at, i2c_initialized, ret>>

-------------------------------------------------------------------------------
StartCamera(c) ==
    \/ OpenBus(c) \/ OpenBusFails(c) \/ NewSccb(c) \/ StartClock(c) \/ DetectSensor(c)
    \/ CreateDevice(c) \/ CreateDeviceFails(c)
    \/ UnwindSensor(c) \/ UnwindClock(c) \/ UnwindSccb(c) \/ UnwindBus(c)

Step ==
    \/ Skip \/ InitEnd \/ AddMotor \/ StartPipeline \/ StartPipelineFails
    \/ \E u \in Plain : CreatePlain(u) \/ CreatePlainFails(u) \/ DestroyPlain(u)
    \/ \E c \in Cameras : StartCamera(c)
    \/ DestroyCsi \/ DestroyDvp \/ DestroySpi \/ DeinitEnd

Next ==
    \/ InitCall \/ DeinitCall
    \/ \E u \in Units : Open(u) \/ Close(u)
    \/ Step

Spec == Init /\ [][Next]_vars

-------------------------------------------------------------------------------
(* Properties *)

\* A sensor that is alive can always be reached and is clocked: whatever another
\* camera's failure or destruction takes down, it is not what this one stands on.
\* The pipeline never outlives the devices it has open.
SensorsSupported ==
    /\ \A c \in sensor : Port[c] \in bus /\ (c # "csi" => c \in clocks)
    /\ pipeline => {"csi", "isp"} \subseteq objects

\* Between calls the flags say what exists, and nothing is left of a device that
\* failed to come up or was destroyed: no sensor, handle, bus or clock.
ResourcesExact ==
    call = "none" =>
        /\ objects = flags \ {"motor"}
        /\ sensor = objects \cap Cameras
        /\ sccb = sensor \cup (flags \cap {"motor"})
        /\ bus = {Port[c] : c \in sensor}
        /\ clocks = sensor \ {"csi"}
        /\ "motor" \in flags => "csi" \in flags

\* A deinitialisation that no open descriptor stands in the way of deinitialises
\* everything it was asked for and succeeds; so does the one after a failed
\* initialisation, which reports the error it began with.
DeinitCompletes ==
    [][opened = {} /\ call \in {"deinit", "unwind"} /\ call' = "none" =>
        flags \cap want = {} /\ (call = "deinit" => ret = "ok")]_vars

===============================================================================
