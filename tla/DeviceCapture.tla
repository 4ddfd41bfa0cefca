--------------------------- MODULE DeviceCapture ----------------------------
(***************************************************************************)
(* Starting and stopping the devices: DeviceManager                        *)
(* (src/src/device_manager/devicemanager.cpp), the two captures of one     *)
(* medium (abstractcapture.cpp, cameracapture.cpp, desktopcapture.cpp,     *)
(* microphonecapture.cpp) and the factory that reads their queues          *)
(* (videoprocessingfactory.cpp, audioprocessingfactory.cpp).               *)
(*                                                                         *)
(* A capture and a factory are each an AbstractThread; what WorkerThread   *)
(* models of its waiting is here a thread that is parked until it should   *)
(* run.  A call of the application is the list of the operations it makes, *)
(* each of which may be overtaken by the threads.  What the frames are     *)
(* and how they are queued is the subject of PacketQueue.                  *)
(***************************************************************************)
EXTENDS Integers, Sequences, FiniteSetsExt

CONSTANTS
    Devices,    \* camera and desktop, or microphone and sound card
    MaxCapture, \* bounds on the std::threads that a capture and the factory
    MaxFactory, \*    ever start
    OpenFails   \* a device may fail to open

ASSUME DeviceAssumption ==
    /\ IsFiniteSet(Devices) /\ "factory" \notin Devices
    /\ MaxCapture \in Nat \ {0} /\ MaxFactory \in Nat \ {0}
    /\ OpenFails \in BOOLEAN

Owners == Devices \cup {"factory"}
Slots(o) == 1..(IF o = "factory" THEN MaxFactory ELSE MaxCapture)

VARIABLES
    kind,       \* the medium, chosen once
    on,         \* video_open_flag or audio_open_flag
    asked,      \* which of start and stop the application called last
    open,       \* open[d]: the device's open flag in DeviceManager
    running,    \* running[d]: _is_running_flag
    ctx,        \* ctx[d]: the device is open (fmtContxt, is_start())
    loc,        \* loc[o][i]: where the i-th thread of object o is
    latest,     \* latest[o]: the thread _thread points to, 0 for nullptr
    exiting,    \* exiting[o]: _thread_exit_flag was set to end the thread
    todo,       \* operations that the application's call has still to make
    destroyed,  \* the DeviceManager's destructor has been called
    failed,     \* some device has failed to open
    nullRead    \* a frame was read from a context that is nullptr

vars == <<kind, on, asked, open, running, ctx, loc, latest, exiting, todo, destroyed,
          failed, nullRead>>

Ops == {"set", "start", "stop", "thread", "serve", "notify", "reopen", "exit"}

TypeOK ==
    /\ kind \in {"video", "audio"}
    /\ asked \in {"none", "start", "stop"}
    /\ on \in BOOLEAN /\ destroyed \in BOOLEAN
    /\ failed \in BOOLEAN /\ nullRead \in BOOLEAN
    /\ \A f \in {open, running, ctx} : f \in [Devices -> BOOLEAN]
    /\ DOMAIN loc = Owners /\ DOMAIN latest = Owners
    /\ \A o \in Owners :
          /\ loc[o] \in [Slots(o) -> {"none", "head", "parked", "run", "read", "done"}]
          /\ latest[o] \in Slots(o) \cup {0}
          /\ ~exiting[o] => \A i \in Slots(o) : loc[o][i] # "done"
    /\ exiting \in [Owners -> BOOLEAN]
    /\ todo \in Seq([op : Ops, on : Owners, arg : BOOLEAN])

\* video_open_flag is not in the list of the constructor's initialisers
Init ==
    /\ kind \in {"video", "audio"}
    /\ on \in (IF kind = "video" THEN BOOLEAN ELSE {FALSE})
    /\ asked = "none"
    /\ open = [d \in Devices |-> FALSE]
    /\ running = [d \in Devices |-> FALSE]
    /\ ctx = [d \in Devices |-> FALSE]
    /\ loc = [o \in Owners |-> [i \in Slots(o) |-> "none"]]
    /\ latest = [o \in Owners |-> 0]
    /\ exiting = [o \in Owners |-> FALSE]
    /\ todo = <<>>
    /\ destroyed = FALSE /\ failed = FALSE /\ nullRead = FALSE

\* get_thread_pause_condition of a capture and of a factory
Pause(o) == IF o = "factory" THEN \A d \in Devices : ~running[d] ELSE ~running[o]

Free(o) == {i \in Slots(o) : loc[o][i] = "none"}
Live(o) == {i \in Slots(o) : loc[o][i] \notin {"none", "done"}}

(***************************************************************************)
(* The application's thread: calls                                         *)
(***************************************************************************)
Op(op, o, arg) == [op |-> op, on |-> o, arg |-> arg]

\* one operation for each device, in some order
Each(op, arg(_)) ==
    {s \in [1..Cardinality(Devices) -> {Op(op, d, arg(d)) : d \in Devices}] :
        {s[i].on : i \in DOMAIN s} = Devices}

Call == todo = <<>> /\ ~destroyed /\ \A o \in Owners : Free(o) # {}

\* set_camera_capture_enable and the like
SetEnable ==
    /\ Call
    /\ \E d \in Devices, b \in BOOLEAN :
          /\ open' = [open EXCEPT ![d] = b]
          /\ todo' = <<IF b THEN Op("start", d, on) ELSE Op("stop", d, FALSE),
                       Op("notify", "factory", FALSE)>>
    /\ UNCHANGED <<kind, on, asked, running, ctx, loc, latest, exiting, destroyed,
                   failed, nullRead>>

\* start_video_capture, stop_video_capture: the factory's set_capture
StartStop ==
    /\ Call
    /\ \E b \in BOOLEAN :
          /\ on' = b /\ asked' = IF b THEN "start" ELSE "stop"
          /\ \E sets \in Each("set", LAMBDA d : b /\ open[d]) :
                todo' = Append(sets, Op("serve", "factory", FALSE))
    /\ UNCHANGED <<kind, open, running, ctx, loc, latest, exiting, destroyed, failed,
                   nullRead>>

\* set_current_device, set_fps, set_video_size of a video device
ChangeDevice ==
    /\ Call /\ kind = "video"
    /\ \E d \in Devices : todo' = <<Op("reopen", d, FALSE)>>
    /\ UNCHANGED <<kind, on, asked, open, running, ctx, loc, latest, exiting, destroyed,
                   failed, nullRead>>

\* ~DeviceManager: the factory is destroyed first, then the captures
Destroy ==
    /\ todo = <<>> /\ ~destroyed
    /\ destroyed' = TRUE
    /\ \E sets \in Each("set", LAMBDA d : FALSE), ends \in Each("exit", LAMBDA d : FALSE) :
          todo' = sets \o <<Op("serve", "factory", FALSE), Op("exit", "factory", FALSE)>> \o ends
    /\ UNCHANGED <<kind, on, asked, open, running, ctx, loc, latest, exiting, failed, nullRead>>

(***************************************************************************)
(* The application's thread: operations                                    *)
(***************************************************************************)
IsNext(op) == todo # <<>> /\ todo[1].op = op
Device == todo[1].on

\* mutant: the enable argument is ignored
StartCapture_Always(d, enable) ==
    IF running[d] THEN UNCHANGED running /\ todo' = Tail(todo)
    ELSE /\ running' = [running EXCEPT ![d] = TRUE]
         /\ todo' = <<Op("thread", d, FALSE)>> \o Tail(todo)

\* AbstractCapture::start_capture(enable); start_thread is the next operation
StartCapture(d, enable) ==
    IF ~enable THEN running' = [running EXCEPT ![d] = FALSE] /\ todo' = Tail(todo)
    ELSE IF running[d] THEN UNCHANGED running /\ todo' = Tail(todo)
    ELSE /\ running' = [running EXCEPT ![d] = TRUE]
         /\ todo' = <<Op("thread", d, FALSE)>> \o Tail(todo)

Start ==
    /\ IsNext("start")
    /\ StartCapture(Device, todo[1].arg)
    /\ UNCHANGED <<kind, on, asked, open, ctx, loc, latest, exiting, destroyed, failed, nullRead>>

\* mutant: the device is closed by the caller
Stop_Closes ==
    /\ IsNext("stop")
    /\ running' = [running EXCEPT ![Device] = FALSE]
    /\ ctx' = [ctx EXCEPT ![Device] = FALSE]
    /\ todo' = Tail(todo)
    /\ UNCHANGED <<kind, on, asked, open, loc, latest, exiting, destroyed, failed, nullRead>>

\* AbstractCapture::stop_capture
Stop ==
    /\ IsNext("stop")
    /\ running' = [running EXCEPT ![Device] = FALSE]
    /\ todo' = Tail(todo)
    /\ UNCHANGED <<kind, on, asked, open, ctx, loc, latest, exiting, destroyed, failed, nullRead>>

\* set_capture for one device: only a flag that differs is changed
Set ==
    /\ IsNext("set")
    /\ IF todo[1].arg = running[Device] THEN UNCHANGED running /\ todo' = Tail(todo)
       ELSE StartCapture(Device, todo[1].arg)
    /\ UNCHANGED <<kind, on, asked, open, ctx, loc, latest, exiting, destroyed, failed, nullRead>>

\* mutant: the pause condition is not looked at
ServeOps_Always == <<Op("thread", "factory", FALSE)>>

\* set_capture at its end: start_thread unless the factory has nothing to do
ServeOps == IF Pause("factory") THEN <<>> ELSE <<Op("thread", "factory", FALSE)>>

Serve ==
    /\ IsNext("serve")
    /\ todo' = ServeOps \o Tail(todo)
    /\ UNCHANGED <<kind, on, asked, open, running, ctx, loc, latest, exiting, destroyed,
                   failed, nullRead>>

\* mutant: both factories only notify
NotifyOps_Never == <<>>

\* notify_capture: start_thread for video, notify_thread for audio
NotifyOps == IF kind = "video" THEN <<Op("thread", "factory", FALSE)>> ELSE <<>>

Notify ==
    /\ IsNext("notify")
    /\ todo' = NotifyOps \o Tail(todo)
    /\ UNCHANGED <<kind, on, asked, open, running, ctx, loc, latest, exiting, destroyed,
                   failed, nullRead>>

\* start_thread notifies a thread that exists and is not to pause
Reuses(o) == latest[o] # 0 /\ ~Pause(o)

StartThread ==
    /\ IsNext("thread")
    /\ IF Reuses(Device) THEN UNCHANGED <<loc, latest>>
       ELSE LET i == Min(Free(Device))
            IN  /\ Free(Device) # {}
                /\ loc' = [loc EXCEPT ![Device][i] = "head"]
                /\ latest' = [latest EXCEPT ![Device] = i]
    /\ todo' = Tail(todo)
    /\ UNCHANGED <<kind, on, asked, open, running, ctx, exiting, destroyed, failed, nullRead>>

\* exit_thread: the flag, and the end of the thread _thread points to
ExitThread ==
    /\ IsNext("exit")
    /\ IF ~exiting[Device] /\ latest[Device] # 0
       THEN exiting' = [exiting EXCEPT ![Device] = TRUE] /\ UNCHANGED <<todo, latest>>
       ELSE /\ latest[Device] # 0 => loc[Device][latest[Device]] = "done"
            /\ latest' = [latest EXCEPT ![Device] = 0]
            /\ todo' = Tail(todo) /\ UNCHANGED exiting
    /\ UNCHANGED <<kind, on, asked, open, running, ctx, loc, destroyed, failed, nullRead>>

\* open_device closes the context first; its result
OpenDevice(d) ==
    \/ ctx' = [ctx EXCEPT ![d] = TRUE] /\ UNCHANGED failed
    \/ OpenFails /\ ctx' = [ctx EXCEPT ![d] = FALSE] /\ failed' = TRUE

Reopen ==
    /\ IsNext("reopen")
    /\ OpenDevice(Device)
    /\ todo' = Tail(todo)
    /\ UNCHANGED <<kind, on, asked, open, running, loc, latest, exiting, destroyed, nullRead>>

(***************************************************************************)
(* The threads                                                             *)
(***************************************************************************)
Move(o, i, from, to) == loc[o][i] = from /\ loc' = [loc EXCEPT ![o][i] = to]

\* the head of the loop; on_thread_pause of a capture closes its device
LoopHead(o, i) ==
    /\ IF Pause(o) \/ exiting[o]
       THEN /\ Move(o, i, "head", IF exiting[o] THEN "done" ELSE "parked")
            /\ ctx' = IF o \in Devices THEN [ctx EXCEPT ![o] = FALSE] ELSE ctx
       ELSE Move(o, i, "head", "run") /\ UNCHANGED ctx
    /\ UNCHANGED <<kind, on, asked, open, running, latest, exiting, todo, destroyed, failed,
                   nullRead>>

\* the wait has ended
Wake(o, i) ==
    /\ ~Pause(o) \/ exiting[o]
    /\ Move(o, i, "parked", IF exiting[o] THEN "done" ELSE "run")
    /\ UNCHANGED <<kind, on, asked, open, running, ctx, latest, exiting, todo, destroyed,
                   failed, nullRead>>

\* on_start up to the lock: a device that cannot be opened stops the capture
TestContext(d, i) ==
    /\ \/ ctx[d] /\ Move(d, i, "run", "read") /\ UNCHANGED <<ctx, failed, running>>
       \/ /\ ~ctx[d] /\ OpenDevice(d)
          /\ Move(d, i, "run", IF ctx'[d] THEN "read" ELSE "head")
          /\ running' = IF ctx'[d] THEN running ELSE [running EXCEPT ![d] = FALSE]
    /\ UNCHANGED <<kind, on, asked, open, latest, exiting, todo, destroyed, nullRead>>

\* the rest of on_start: av_read_frame, or the packet of the audio API
ReadFrame(d, i) ==
    /\ Move(d, i, "read", "head")
    /\ nullRead' = (nullRead \/ (kind = "video" /\ ~ctx[d]))
    /\ UNCHANGED <<kind, on, asked, open, running, ctx, latest, exiting, todo, destroyed, failed>>

\* on_thread_run of the factory takes the newest frames of the captures
Process(i) ==
    /\ Move("factory", i, "run", "head")
    /\ UNCHANGED <<kind, on, asked, open, running, ctx, latest, exiting, todo, destroyed,
                   failed, nullRead>>

-----------------------------------------------------------------------------
AppStep == \/ SetEnable \/ StartStop \/ ChangeDevice \/ Destroy
           \/ Start \/ Stop \/ Set \/ Serve \/ Notify \/ StartThread \/ ExitThread \/ Reopen

ThreadStep == \/ \E o \in Owners : \E i \in Slots(o) : LoopHead(o, i) \/ Wake(o, i)
              \/ \E d \in Devices : \E i \in Slots(d) : TestContext(d, i) \/ ReadFrame(d, i)
              \/ \E i \in Slots("factory") : Process(i)

Next == AppStep \/ ThreadStep

Spec == Init /\ [][Next]_vars

-----------------------------------------------------------------------------
(* Properties *)

\* A device that is enabled captures only while video capture is started
\* (devicemanager.cpp:31-32): between two calls a device that runs is one the
\* application enabled, of a medium it called start for last, although each device
\* stops itself when it cannot be opened.  Video before the first of these calls is
\* the exception: its flag has no initial value, and a device that is enabled runs
\* when that happens to be true.
GlobalSwitch ==
    todo = <<>> =>
        \A d \in Devices : running[d] =>
            open[d] /\ (asked = "start" \/ (kind = "video" /\ asked = "none" /\ on))

\* While devices open, a capture has one thread and never reads from a device
\* that is closed, however starts, stops and changes of the device race with it.
CaptureIsSafe ==
    ~failed => ~nullRead /\ \A d \in Devices : Cardinality(Live(d)) <= 1

\* When a video device runs, the factory that reads its queue has a thread,
\* whichever of the two was started first.
VideoIsProcessed ==
    kind = "video" /\ todo = <<>> /\ (\E d \in Devices : running[d]) => Live("factory") # {}

\* While devices open, only one thread of the audio factory reads a capture's
\* queue: AbstractQueue::get_latest and the factory's members are for one.
AudioHasOneReader ==
    kind = "audio" /\ ~failed => Cardinality(Live("factory")) <= 1
=============================================================================
