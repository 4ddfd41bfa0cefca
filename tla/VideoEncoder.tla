---------------------------- MODULE VideoEncoder ----------------------------
(***************************************************************************)
(* codec::Encoder and codec::VideoEncoder (src/src/codec/encoder.cpp,      *)
(* videoencoder.cpp): the encoding thread takes frames from its input      *)
(* queue, sees whether the codec context still suits the frame and the     *)
(* application's settings, opens another one in hardware or in software if *)
(* not, and pushes what the codec returns with the codec's payload type.   *)
(* A failure of both sets the type to None, which parks the thread, as the *)
(* application does with None or by taking the input queue away.           *)
(*                                                                         *)
(* What the thread alone writes is the record enc; the settings are shared *)
(* with the application.  The class says it is not thread safe: in the     *)
(* behaviours with careful, the application calls the setters between two  *)
(* frames; in the others it calls them between any two stages of encode(), *)
(* which begin at each read of a setting that a later stage reads again.   *)
(*                                                                         *)
(* External: FFmpeg.  Found has the encoders of the build; one that is     *)
(* found may fail to open, hardware and software alike.  A codec keeps     *)
(* frames, returns packets, or refuses a frame; after the null frame it    *)
(* returns what it kept and takes nothing more.                            *)
(***************************************************************************)
EXTENDS Naturals

CONSTANTS
    Sizes,          \* sizes of frames
    Found,          \* the pairs of codec and maker the build has
    NoFormat, NoCodec

Codecs == {"HEVC", "H264"}
Makers == {"QSV", "NVIDIA", "software"}
HWDType == {"None", "Auto", "QSV", "NVIDIA", "DXVA"}
EncoderType == {"Auto", "HEVC", "H264", "None"}

ASSUME EncoderAssumption ==
    /\ Found \subseteq Codecs \X Makers
    /\ NoCodec \notin Codecs

\* NV12 is what the hardware takes, YUV420P what the software does
Formats == [size : Sizes, pix : {"NV12", "YUV420P"}]
ASSUME FormatAssumption == NoFormat \notin Formats

VARIABLES
    pc,             \* where the encoding thread is
    packet,         \* the frame it encodes: format, and whether frame_rate > 0
    enc,            \* contexts and labels: what the encoding thread alone writes
    enc_type_user, use_hw_flag, hwd_type_user,
    _queue,         \* there is an input queue
    sent,           \* the last frame filled for the codec, and what the codec expected
    stopped,        \* the application has set None, or taken the queue away, since
                    \* the context was opened
    careful         \* the application heeds the class's note

settings == <<enc_type_user, use_hw_flag, hwd_type_user>>
vars == <<pc, packet, enc, settings, _queue, sent, stopped, careful>>

NoCtx == [codec |-> NoCodec, maker |-> "software", format |-> NoFormat,
          open |-> FALSE, drained |-> FALSE, held |-> FALSE]
NoPacket == [format |-> NoFormat, rate |-> FALSE]
NotSent == [hw |-> FALSE, wants |-> FALSE, data |-> NoFormat, frame |-> NoFormat,
            stale |-> FALSE]

Contexts == [codec : Codecs \cup {NoCodec}, maker : Makers, format : Formats \cup {NoFormat},
             open : BOOLEAN, drained : BOOLEAN, held : BOOLEAN]
Hw(c) == c.maker # "software"
Labels == [payload_type : Codecs \cup {NoCodec}, format : Formats \cup {NoFormat},
           codec : Codecs \cup {NoCodec}, of : Formats \cup {NoFormat}]
\* lent: the planes of sw_frame are those of a packet; other: Auto has kept the
\* context for a packet of another format
Encoders ==
    [ctx : Contexts, hwdevice : {"null", "raw", "ready"},
     hwd_type_cur : HWDType, enc_type_cur : {"HEVC", "H264", "None"},
     format : Formats \cup {NoFormat}, payload_type : Codecs \cup {NoCodec},
     sw_frame : Formats \cup {NoFormat}, lent : BOOLEAN, other : BOOLEAN,
     pushed : SUBSET Labels]
Frames == [hw : BOOLEAN, wants : BOOLEAN, stale : BOOLEAN,
           data : Formats \cup {NoFormat}, frame : Formats \cup {NoFormat}]

\* the stages of encode(), during which the thread holds the queue's mutex
Stages == {"hardware", "same", "auto", "device", "init", "chosen", "software", "frame",
           "send", "failed"}

TypeOK ==
    /\ pc \in {"top", "waiting", "locking", "queue", "parked", "crashed"} \cup Stages
    /\ packet \in [format : Formats \cup {NoFormat}, rate : BOOLEAN]
    /\ enc \in Encoders
    /\ enc_type_user \in EncoderType /\ hwd_type_user \in HWDType
    /\ use_hw_flag \in BOOLEAN /\ _queue \in BOOLEAN
    /\ stopped \in BOOLEAN /\ careful \in BOOLEAN
    /\ sent \in Frames
    /\ pc \in Stages \ {"failed"} => packet.format \in Formats

Init ==
    /\ pc = "top" /\ packet = NoPacket
    /\ enc = [ctx |-> NoCtx, hwdevice |-> "null", hwd_type_cur |-> "None",
              enc_type_cur |-> "HEVC", format |-> NoFormat, payload_type |-> NoCodec,
              sw_frame |-> NoFormat, lent |-> FALSE, other |-> FALSE, pushed |-> {}]
    /\ enc_type_user \in EncoderType /\ use_hw_flag \in BOOLEAN /\ hwd_type_user \in HWDType
    /\ _queue \in BOOLEAN /\ careful \in BOOLEAN
    /\ sent = NotSent /\ stopped = (~_queue \/ enc_type_user = "None")

(***************************************************************************)
(* Closing and opening contexts                                            *)
(***************************************************************************)
\* what receive_packet writes on a packet, and what the packet really is
Label(e) == [payload_type |-> e.payload_type, format |-> e.format,
             codec |-> e.ctx.codec, of |-> e.ctx.format]

\* encode(nullptr): the codec returns what it keeps
Flush(e) ==
    IF e.ctx.open /\ ~e.ctx.drained
    THEN [e EXCEPT !.ctx = [@ EXCEPT !.drained = TRUE, !.held = FALSE],
                   !.pushed = IF e.ctx.held THEN @ \cup {Label(e)} ELSE @]
    ELSE e

\* close_encoder
CloseEncoder(e) == [Flush(e) EXCEPT !.ctx = NoCtx]

CloseCtx_FormatFirst(e) ==
    [CloseEncoder([e EXCEPT !.format = NoFormat])
        EXCEPT !.hwdevice = "null", !.hwd_type_cur = "None", !.enc_type_cur = "None",
               !.sw_frame = NoFormat, !.lent = FALSE, !.other = FALSE]

CloseCtx_KeepsDevice(e) ==
    [CloseEncoder(e) EXCEPT !.hwdevice = "null", !.enc_type_cur = "None",
                            !.format = NoFormat, !.sw_frame = NoFormat,
                            !.lent = FALSE, !.other = FALSE]

\* _close_ctx
CloseCtx(e) ==
    [CloseEncoder(e) EXCEPT !.hwdevice = "null", !.hwd_type_cur = "None",
                            !.enc_type_cur = "None", !.format = NoFormat,
                            !.sw_frame = NoFormat, !.lent = FALSE, !.other = FALSE]

Context(codec, maker, format, open) ==
    [codec |-> codec, maker |-> maker, format |-> format, open |-> open,
     drained |-> FALSE, held |-> FALSE]

\* create_encoder with its parameters, and init_device: the device may fail,
\* and a build without the encoder changes nothing
Tried(e, codec, maker, format) ==
    IF <<codec, maker>> \notin Found THEN {e}
    ELSE {[CloseEncoder(e) EXCEPT
              !.ctx = Context(codec, maker, format, ok), !.enc_type_cur = codec,
              !.hwdevice = IF ok THEN "ready" ELSE "raw",
              !.payload_type = IF ok THEN codec ELSE @] : ok \in BOOLEAN}

\* _init_hwdevice: for Auto, H264 where HEVC fails
InitHwdevice(e, maker, format) ==
    CASE enc_type_user = "Auto" ->
            LET first == Tried(e, "HEVC", maker, format)
            IN {x \in first : x.ctx.open} \cup
               UNION {Tried(x, "H264", maker, format) : x \in {y \in first : ~y.ctx.open}}
      [] enc_type_user \in Codecs -> Tried(e, enc_type_user, maker, format)
      [] OTHER -> {e}

\* libx265 or libx264, and whether it opens
InitSoftware(e, codec, format) ==
    LET labelled == [CloseCtx(e) EXCEPT !.enc_type_cur = codec, !.payload_type = codec]
    IN IF <<codec, "software">> \notin Found THEN {labelled}
       ELSE {[labelled EXCEPT !.ctx = Context(codec, "software", format, ok), !.format = format]
                : ok \in BOOLEAN}

(***************************************************************************)
(* The encoding thread                                                     *)
(***************************************************************************)
\* get_thread_pause_condition
Pause == ~_queue \/ enc_type_user = "None"

\* AbstractThread's loop: on_thread_pause flushes, or on_thread_run tests _queue
Top ==
    /\ pc = "top"
    /\ \/ /\ Pause
          /\ enc' = Flush(enc) /\ pc' = "parked"
       \/ /\ ~Pause
          /\ pc' = "waiting" /\ UNCHANGED enc
    /\ UNCHANGED <<packet, settings, _queue, sent, stopped, careful>>

\* a setter has started the thread again
Wake ==
    /\ pc = "parked" /\ ~Pause
    /\ pc' = "waiting"
    /\ enc' = [enc EXCEPT !.pushed = {}]
    /\ UNCHANGED <<packet, settings, _queue, sent, stopped, careful>>

\* _queue->wait_for_resource_push, without the mutex: the pointer tested may be
\* null by now
WaitForResource ==
    /\ pc = "waiting"
    /\ pc' = IF _queue THEN "locking" ELSE "crashed"
    /\ UNCHANGED <<packet, enc, settings, _queue, sent, stopped, careful>>

\* _queue_mutex is taken, and _queue tested once more
LockQueue ==
    /\ pc = "locking"
    /\ pc' = IF _queue THEN "queue" ELSE "top"
    /\ UNCHANGED <<packet, enc, settings, _queue, sent, stopped, careful>>

\* the input queue has no more data; what was made of the last packet is out of sight
QueueEmpty ==
    /\ pc = "queue" /\ pc' = "top"
    /\ enc' = [enc EXCEPT !.pushed = {}] /\ sent' = NotSent
    /\ UNCHANGED <<packet, settings, _queue, stopped, careful>>

\* on_thread_run's loop, which tests the queue only; _select_encoder begins
TakePacket ==
    /\ pc = "queue"
    /\ \E f \in Formats, rate \in BOOLEAN : packet' = [format |-> f, rate |-> rate]
    /\ enc' = [enc EXCEPT !.pushed = {}] /\ sent' = NotSent
    /\ \/ enc_type_user = "None" /\ pc' = "failed"
       \/ enc_type_user # "None" /\ use_hw_flag /\ pc' = "hardware"
       \/ enc_type_user # "None" /\ ~use_hw_flag /\ pc' = "software"
    /\ UNCHANGED <<settings, _queue, stopped, careful>>

\* _set_hw_encoder_ctx begins: the application wants no hardware
TestHardware ==
    /\ pc = "hardware"
    /\ pc' = IF hwd_type_user = "None" THEN "software" ELSE "same"
    /\ UNCHANGED <<packet, enc, settings, _queue, sent, stopped, careful>>

\* the current context suits settings and packet
Suits ==
    /\ enc_type_user \in {enc.enc_type_cur, "Auto"} /\ enc.enc_type_cur # "None"
    /\ enc.format = packet.format

TestSame ==
    /\ pc = "same"
    /\ \/ enc.hwd_type_cur = hwd_type_user /\ Suits /\ pc' = "frame"
       \/ enc.hwd_type_cur = hwd_type_user /\ ~Suits /\ pc' = IF packet.rate THEN "device" ELSE "software"
       \/ enc.hwd_type_cur # hwd_type_user /\ pc' = "auto"
    /\ UNCHANGED <<packet, enc, settings, _queue, sent, stopped, careful>>

\* Auto takes whatever hardware is in use, without looking at the packet
TestAuto ==
    /\ pc = "auto"
    /\ \/ /\ hwd_type_user = "Auto" /\ enc.hwd_type_cur # "None"
          /\ enc' = [enc EXCEPT !.other = @ \/ enc.format # packet.format]
          /\ pc' = "frame"
       \/ /\ hwd_type_user # "Auto" \/ enc.hwd_type_cur = "None"
          /\ pc' = IF packet.rate THEN "device" ELSE "software"
          /\ UNCHANGED enc
    /\ UNCHANGED <<packet, settings, _queue, sent, stopped, careful>>

\* the type and format of the hardware that was opened
Choose(x, type) == [x EXCEPT !.hwd_type_cur = type, !.format = packet.format]

Raw == [CloseCtx(enc) EXCEPT !.hwdevice = "raw"]

\* the old context is closed, and the type chosen from
OpenDevice ==
    /\ pc = "device"
    /\ \/ /\ hwd_type_user = "None" /\ enc' = CloseCtx(enc) /\ use_hw_flag' = FALSE
          /\ pc' = "software" /\ UNCHANGED <<hwd_type_user, stopped>>
       \/ /\ hwd_type_user = "DXVA" /\ enc' = CloseCtx(enc) /\ hwd_type_user' = "None"
          /\ pc' = "software" /\ UNCHANGED <<use_hw_flag, stopped>>
       \/ /\ hwd_type_user \in {"QSV", "NVIDIA"} /\ enc' = Raw
          /\ pc' = "init" /\ UNCHANGED <<use_hw_flag, hwd_type_user, stopped>>
       \/ /\ hwd_type_user = "Auto"
          /\ \E x \in InitHwdevice(Raw, "NVIDIA", packet.format) :
                \/ x.ctx.open /\ enc' = Choose(x, "NVIDIA") /\ pc' = "frame" /\ stopped' = FALSE
                \/ ~x.ctx.open /\ enc' = x /\ pc' = "software" /\ UNCHANGED stopped
          /\ UNCHANGED <<use_hw_flag, hwd_type_user>>
    /\ UNCHANGED <<packet, enc_type_user, _queue, sent, careful>>

\* _init_hwdevice with the type as it is now
InitDevice ==
    /\ pc = "init"
    /\ \/ /\ hwd_type_user \in {"QSV", "NVIDIA"}
          /\ \E x \in InitHwdevice(enc, hwd_type_user, packet.format) :
                \/ x.ctx.open /\ enc' = x /\ pc' = "chosen" /\ stopped' = FALSE
                \/ ~x.ctx.open /\ enc' = x /\ pc' = "software" /\ UNCHANGED stopped
          /\ UNCHANGED hwd_type_user
       \/ /\ hwd_type_user \notin {"QSV", "NVIDIA"}
          /\ hwd_type_user' = IF enc_type_user = "None" THEN hwd_type_user ELSE "None"
          /\ pc' = "software" /\ UNCHANGED <<enc, stopped>>
    /\ UNCHANGED <<packet, enc_type_user, use_hw_flag, _queue, sent, careful>>

\* the type is read once more, to be the current one
ChooseDevice ==
    /\ pc = "chosen"
    /\ enc' = Choose(enc, hwd_type_user) /\ pc' = "frame"
    /\ UNCHANGED <<packet, settings, _queue, sent, stopped, careful>>

\* _set_hw_encoder_ctx
SetHwEncoderCtx ==
    TestHardware \/ TestSame \/ TestAuto \/ OpenDevice \/ InitDevice \/ ChooseDevice

NoHardware_Keeps == enc

\* the hardware is given up: what it had is closed
NoHardware == IF enc.hwd_type_cur # "None" THEN CloseCtx(enc) ELSE enc

SoftwareCodec == IF enc_type_user \in Codecs THEN enc_type_user ELSE "HEVC"

\* the rest of _select_encoder, and _set_sw_encoder_ctx
SetSwEncoderCtx ==
    /\ pc = "software"
    /\ use_hw_flag' = FALSE /\ hwd_type_user' = "None"
    /\ \/ /\ NoHardware.format = packet.format
          /\ enc' = NoHardware /\ pc' = "frame" /\ UNCHANGED stopped
       \/ /\ NoHardware.format # packet.format /\ ~packet.rate
          /\ enc' = NoHardware /\ pc' = "failed" /\ UNCHANGED stopped
       \/ /\ NoHardware.format # packet.format /\ packet.rate
          /\ enc_type_user = "None"
          /\ enc' = CloseCtx(NoHardware) /\ pc' = "failed" /\ UNCHANGED stopped
       \/ /\ NoHardware.format # packet.format /\ packet.rate
          /\ enc_type_user # "None"
          /\ enc' \in InitSoftware(NoHardware, SoftwareCodec, packet.format)
          /\ pc' = IF enc'.ctx = NoCtx THEN "failed" ELSE "frame"
          /\ stopped' = FALSE
    /\ UNCHANGED <<packet, enc_type_user, _queue, sent, careful>>

Fail_KeepsContext ==
    /\ pc = "failed"
    /\ enc_type_user' = "None"
    /\ pc' = "queue" /\ packet' = NoPacket
    /\ UNCHANGED <<enc, use_hw_flag, hwd_type_user, _queue, sent, stopped, careful>>

\* encode() could not select: set_encoder_type(None) and _close_ctx
Fail ==
    /\ pc = "failed"
    /\ enc_type_user' = "None" /\ enc' = CloseCtx(enc)
    /\ pc' = "queue" /\ packet' = NoPacket
    /\ UNCHANGED <<use_hw_flag, hwd_type_user, _queue, sent, stopped, careful>>

\* _alloc_frame: the context's size, in the pixel format of the hardware or not
AllocFrame ==
    [size |-> enc.format.size,
     pix |-> IF use_hw_flag /\ enc.hwd_type_cur # "None" /\ enc.hwdevice # "null"
             THEN "NV12" ELSE "YUV420P"]

SwFrame == IF enc.sw_frame = NoFormat THEN AllocFrame ELSE enc.sw_frame

\* _set_frame_data: a packet of the frame's pixel format lends its planes, which
\* stay the frame's; any other is scaled to the planes the frame has
Lends == SwFrame.pix = packet.format.pix

Data == IF Lends THEN packet.format ELSE SwFrame

\* encode() up to the choice of what is sent; without a frame nothing is
FillFrame ==
    /\ pc = "frame"
    /\ \/ /\ ~enc.ctx.open \/ enc.sw_frame = NoFormat
          /\ pc' = "queue" /\ packet' = NoPacket /\ UNCHANGED <<enc, sent>>
       \/ /\ enc.ctx.open
          /\ enc' = [enc EXCEPT !.sw_frame = SwFrame, !.lent = @ \/ Lends]
          /\ sent' = [hw |-> FALSE, wants |-> FALSE, data |-> Data, frame |-> SwFrame,
                      stale |-> ~Lends /\ enc.lent]
          /\ pc' = "send" /\ UNCHANGED packet
    /\ UNCHANGED <<settings, _queue, stopped, careful>>

\* a frame for the hardware is not encoded without its device
Missing == use_hw_flag /\ (enc.hwdevice # "ready" \/ ~Hw(enc.ctx))

\* avcodec_send_frame and receive_packet: refused, kept, or packets returned
Encoded(e) ==
    \/ enc' = e
    \/ /\ ~e.ctx.drained /\ use_hw_flag = Hw(e.ctx)
       /\ \E keeps, returns \in BOOLEAN :
             enc' = [e EXCEPT !.ctx = [@ EXCEPT !.held = keeps],
                              !.pushed = IF returns THEN @ \cup {Label(e)} ELSE @]

\* the rest of encode()
EncodeFrame ==
    /\ pc = "send"
    /\ \/ Missing /\ UNCHANGED <<enc, sent>>
       \/ /\ ~Missing
          /\ Encoded(enc)
          /\ sent' = [sent EXCEPT !.hw = use_hw_flag, !.wants = Hw(enc.ctx)]
    /\ pc' = "queue" /\ packet' = NoPacket
    /\ UNCHANGED <<settings, _queue, stopped, careful>>

(***************************************************************************)
(* The application                                                         *)
(***************************************************************************)
Encoding == pc \in Stages

MaySet == careful => ~Encoding

\* the value set_encoder_type leaves
SetEncoderType ==
    /\ MaySet
    /\ enc_type_user' \in EncoderType
    /\ stopped' = (stopped \/ enc_type_user' = "None")
    /\ UNCHANGED <<pc, packet, enc, use_hw_flag, hwd_type_user, _queue, sent, careful>>

SetHardwareAcceleration ==
    /\ MaySet
    /\ use_hw_flag' \in BOOLEAN /\ hwd_type_user' \in HWDType
    /\ UNCHANGED <<pc, packet, enc, enc_type_user, _queue, sent, stopped, careful>>

\* set_input_queue, which waits for the mutex of on_thread_run's loop
SetInputQueue ==
    /\ ~Encoding /\ pc # "queue"
    /\ _queue' \in BOOLEAN
    /\ stopped' = (stopped \/ ~_queue')
    /\ UNCHANGED <<pc, packet, enc, settings, sent, careful>>

EncodingThread ==
    Top \/ Wake \/ WaitForResource \/ LockQueue \/ QueueEmpty \/ TakePacket
        \/ SetHwEncoderCtx \/ SetSwEncoderCtx \/ Fail \/ FillFrame \/ EncodeFrame

Next == EncodingThread \/ SetEncoderType \/ SetHardwareAcceleration \/ SetInputQueue

Spec == Init /\ [][Next]_vars

(***************************************************************************)
(* Properties                                                              *)
(***************************************************************************)
\* A packet carries the payload type of the codec that made it and the format
\* of its context, the packets an old context returns while another codec is
\* being opened included: their labels are written from payload_type and format
\* as these are when the old context is flushed (videoencoder.cpp:194-196).
LabelsAreTrue ==
    \A l \in enc.pushed : l.payload_type = l.codec /\ l.format = l.of

\* A frame filled for the codec has the context's size, what a packet lends to it
\* has the frame's format, and nothing is scaled into planes that an earlier packet
\* lent and took along; the exception is a context that hardware chosen by Auto has
\* kept for a packet of another format, whose format is not looked at
\* (videoencoder.cpp:325, 521).  If the settings change between frames only, the
\* frame is of the kind the codec takes.
FramesSuitTheCodec ==
    /\ sent # NotSent /\ enc.ctx.open => sent.frame.size = enc.ctx.format.size
    /\ careful => (sent.data # sent.frame \/ sent.stale => enc.other)
    /\ careful => sent.hw = sent.wants

InUse(e) == IF e.ctx.open /\ Hw(e.ctx) THEN e.ctx.maker ELSE "None"

\* The current codec and format, on which the choice to keep a context rests, are
\* the open context's, whatever is set at any stage.  If the settings change
\* between frames only, get_hwa_type (encoder.h:117) also tells the hardware in use;
\* a type that is set while hardware is being opened may be taken for it, as the
\* setting is read again after the opening (videoencoder.cpp:363, 365).
CurrentIsTrue ==
    /\ enc.ctx.open =>
          /\ enc.enc_type_cur = enc.ctx.codec
          /\ pc # "chosen" => enc.format = enc.ctx.format
    /\ careful /\ pc # "chosen" => enc.hwd_type_cur = InUse(enc)

\* A codec that has had its null frame takes nothing more.  A failure, which
\* parks the thread as well, never leaves such a context behind: only the type
\* None or the null queue that the application sets does (the drained context is
\* then kept, and a frame of the same format goes to it, encoder.cpp:184,
\* videoencoder.cpp:388).
DrainedOnlyWhenStopped == enc.ctx.drained => stopped
=============================================================================
