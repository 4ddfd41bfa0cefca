----------------------------- MODULE AudioPath ------------------------------
(***************************************************************************)
(* The way of a sound frame: AudioProcessingFactory::on_thread_run gives   *)
(* it to the AudioPlayer, if the application wants to hear the microphone, *)
(* and to the encoder (src/src/device_manager/audioprocessingfactory.cpp,  *)
(* src/src/player/audioplayer.cpp, src/src/codec/encoder.cpp and           *)
(* audioencoder.cpp).  The frame is shared: SDL's audio thread locks its   *)
(* recursive mutex in one callback and unlocks it in a later one, the      *)
(* encoder locks it while it encodes.                                      *)
(*                                                                         *)
(* A frame is its place in the capture's order; fmt[f] is its format.      *)
(* Each SDL device that is opened has a thread of its own, numbered in the *)
(* order of opening; closing the device waits for that thread to end, and  *)
(* what it has locked stays locked: the unlock that another thread makes   *)
(* in its place is refused.  The exchange of the encoder's input queue is  *)
(* in VideoEncoder.                                                        *)
(***************************************************************************)
EXTENDS Integers, Sequences, FiniteSets

CONSTANTS
    Formats,    \* sample formats of capture devices
    NoFormat,   \* a Format that was never set
    MaxQueue,   \* _max_size of both queues
    MaxParts,   \* callbacks that one frame may last
    MaxFrames,  \* bound: frames captured
    Fails       \* SDL_OpenAudio, create_encoder and avcodec_open2 may fail

ASSUME AudioAssumption ==
    /\ NoFormat \notin Formats
    /\ MaxQueue \in Nat \ {0} /\ MaxParts \in Nat \ {0} /\ MaxFrames \in Nat
    /\ Fails \in BOOLEAN

VARIABLES
    fmt,        \* the formats of the frames captured so far
    play_flag,
    fpc,        \* where the factory's thread is with the last frame
    ofmt,       \* AudioPlayer: ofmt
    device,     \* open (open_flag), the number of devices opened, the frame it was opened for
    heard,      \* audio_data_queue
    tmp,        \* the frame that is played, 0 for none
    audio_len,  \* callbacks until it has been played
    cpc,        \* where SDL's audio thread is
    coded,      \* the factory's own queue, the encoder's input
    epc, frame, \* where the encoder's thread is, and its frame
    enc,        \* encoder_ctx, ifmt and the input format of the resampler
    owner       \* the thread that has locked a frame

factory == <<fmt, fpc>>
player == <<ofmt, device, heard, tmp, audio_len, cpc>>
encoder == <<coded, epc, frame, enc>>
vars == <<factory, play_flag, player, encoder, owner>>

Frames == 1..MaxFrames
Nobody == 0
TheEncoder == -1
Current == Len(fmt)             \* the frame the factory's thread has

TypeOK ==
    /\ fmt \in Seq(Formats) /\ Len(fmt) <= MaxFrames
    /\ play_flag \in BOOLEAN
    /\ fpc \in {"idle", "play", "close", "open", "queue", "push"}
    /\ ofmt \in Formats \cup {NoFormat}
    /\ device \in [open : BOOLEAN, id : 0..MaxFrames, since : 0..MaxFrames]
    /\ heard \in Seq(Frames) /\ Len(heard) <= MaxQueue
    /\ tmp \in 0..MaxFrames /\ audio_len \in 0..MaxParts
    /\ cpc \in {"idle", "lock"}
    /\ coded \in Seq(Frames) /\ Len(coded) <= MaxQueue
    /\ epc \in {"take", "lock", "open", "send"} /\ frame \in 0..MaxFrames
    /\ enc \in [ctx : {"none", "unopened", "open"}, ifmt : Formats \cup {NoFormat},
                resample : Formats \cup {NoFormat}]
    /\ owner \in [Frames -> {Nobody, TheEncoder} \cup 1..device.id]

Init ==
    /\ fmt = <<>> /\ play_flag = FALSE /\ fpc = "idle"
    /\ ofmt = NoFormat /\ device = [open |-> FALSE, id |-> 0, since |-> 0]
    /\ heard = <<>> /\ tmp = 0 /\ audio_len = 0 /\ cpc = "idle"
    /\ coded = <<>> /\ epc = "take" /\ frame = 0
    /\ enc = [ctx |-> "none", ifmt |-> NoFormat, resample |-> NoFormat]
    /\ owner = [f \in Frames |-> Nobody]

\* push_one
Pushed(queue, f) == Append(IF Len(queue) = MaxQueue THEN Tail(queue) ELSE queue, f)

Outcomes == IF Fails THEN BOOLEAN ELSE {TRUE}

(***************************************************************************)
(* The application                                                         *)
(***************************************************************************)
PlayMicrophoneAudio ==
    /\ play_flag' = ~play_flag
    /\ UNCHANGED <<factory, player, encoder, owner>>

(***************************************************************************)
(* The factory's thread                                                    *)
(***************************************************************************)
OnThreadRun ==
    /\ fpc = "idle" /\ Len(fmt) < MaxFrames
    /\ \E f \in Formats : fmt' = Append(fmt, f)
    /\ fpc' = IF play_flag THEN "play" ELSE "push"
    /\ UNCHANGED <<play_flag, player, encoder, owner>>

\* mutant: the frame is queued, then the device is opened for it
Play_QueuesFirst ==
    /\ fpc = "play"
    /\ heard' = Pushed(heard, Current)
    /\ fpc' = IF ofmt = fmt[Current] THEN "push" ELSE "close"
    /\ UNCHANGED <<fmt, play_flag, ofmt, device, tmp, audio_len, cpc, encoder, owner>>

Play ==
    /\ fpc = "play"
    /\ fpc' = IF ofmt = fmt[Current] THEN "queue" ELSE "close"
    /\ UNCHANGED <<fmt, play_flag, player, encoder, owner>>

\* close_device waits for a callback that is in progress; audio_len and tmp stay
CloseDevice ==
    /\ fpc = "close"
    /\ device.open => cpc = "idle"
    /\ device' = [device EXCEPT !.open = FALSE]
    /\ fpc' = "open"
    /\ UNCHANGED <<fmt, play_flag, ofmt, heard, tmp, audio_len, cpc, encoder, owner>>

OpenDevice ==
    /\ fpc = "open"
    /\ \E opened \in Outcomes :
          IF opened
          THEN /\ device' = [open |-> TRUE, id |-> device.id + 1, since |-> Current]
               /\ ofmt' = fmt[Current]
               /\ fpc' = "queue"
          ELSE UNCHANGED <<device, ofmt>> /\ fpc' = "push"
    /\ UNCHANGED <<fmt, play_flag, heard, tmp, audio_len, cpc, encoder, owner>>

PushHeard ==
    /\ fpc = "queue"
    /\ heard' = Pushed(heard, Current)
    /\ fpc' = "push"
    /\ UNCHANGED <<fmt, play_flag, ofmt, device, tmp, audio_len, cpc, encoder, owner>>

PushCoded ==
    /\ fpc = "push"
    /\ coded' = Pushed(coded, Current)
    /\ fpc' = "idle"
    /\ UNCHANGED <<fmt, play_flag, player, epc, frame, enc, owner>>

(***************************************************************************)
(* SDL's audio thread                                                      *)
(***************************************************************************)
\* unlock of a recursive mutex by the present audio thread
Unlocked(f) == IF f # 0 /\ owner[f] = device.id THEN [owner EXCEPT ![f] = Nobody] ELSE owner

Callback == device.open /\ cpc = "idle"

\* fill_audio with something left to play
PlayOn ==
    /\ Callback /\ audio_len > 0
    /\ audio_len' = audio_len - 1
    /\ UNCHANGED <<factory, play_flag, ofmt, device, heard, tmp, cpc, encoder, owner>>

\* mutant: without a next frame the last one is kept
NextFrame_KeepsLast ==
    /\ Callback /\ audio_len = 0
    /\ heard # <<>>
    /\ owner' = Unlocked(tmp)
    /\ tmp' = Head(heard) /\ heard' = Tail(heard)
    /\ cpc' = "lock"
    /\ UNCHANGED <<factory, play_flag, ofmt, device, audio_len, encoder>>

\* mutant: the frame that has been played stays locked
NextFrame_NoUnlock ==
    /\ Callback /\ audio_len = 0
    /\ IF heard = <<>>
       THEN tmp # 0 /\ tmp' = 0 /\ UNCHANGED <<heard, cpc>>
       ELSE tmp' = Head(heard) /\ heard' = Tail(heard) /\ cpc' = "lock"
    /\ UNCHANGED <<factory, play_flag, ofmt, device, audio_len, encoder, owner>>

\* fill_audio at the end of a frame
NextFrame ==
    /\ Callback /\ audio_len = 0
    /\ owner' = Unlocked(tmp)
    /\ IF heard = <<>>
       THEN tmp # 0 /\ tmp' = 0 /\ UNCHANGED <<heard, cpc>>
       ELSE tmp' = Head(heard) /\ heard' = Tail(heard) /\ cpc' = "lock"
    /\ UNCHANGED <<factory, play_flag, ofmt, device, audio_len, encoder>>

\* the callback goes on once it has the frame, and plays the first part
LockTmp ==
    /\ cpc = "lock"
    /\ owner[tmp] \in {Nobody, device.id}
    /\ owner' = [owner EXCEPT ![tmp] = device.id]
    /\ audio_len' \in 0..(MaxParts - 1)
    /\ cpc' = "idle"
    /\ UNCHANGED <<factory, play_flag, ofmt, device, heard, tmp, encoder>>

(***************************************************************************)
(* The encoder's thread                                                    *)
(***************************************************************************)
GetNext ==
    /\ epc = "take" /\ coded # <<>>
    /\ frame' = Head(coded) /\ coded' = Tail(coded)
    /\ epc' = "lock"
    /\ UNCHANGED <<factory, play_flag, player, enc, owner>>

LockFrame ==
    /\ epc = "lock"
    /\ owner[frame] = Nobody
    /\ owner' = [owner EXCEPT ![frame] = TheEncoder]
    /\ epc' = "open"
    /\ UNCHANGED <<factory, play_flag, player, coded, frame, enc>>

\* create_encoder, which closes what there was
CreateEncoder == {[enc EXCEPT !.ctx = "none"], [enc EXCEPT !.ctx = "unopened"]}

\* mutant: the format is noted before the codec is opened
OpenCtx_FormatFirst(f) ==
    IF enc.ctx # "none" /\ enc.ifmt = f THEN {[to |-> "send", enc |-> enc]}
    ELSE LET kept == [enc EXCEPT !.ifmt = f]
         IN  {[to |-> "done", enc |-> [kept EXCEPT !.ctx = c]] :
                 c \in IF Fails THEN {"none", "unopened"} ELSE {}}
             \cup {[to |-> "send", enc |-> [ctx |-> "open", ifmt |-> f, resample |-> f]]}

\* _open_ctx(f): the encoder after it and whether encode goes on.  With an equal
\* format any context will do, also one that could not be opened.
OpenCtx(f) ==
    IF enc.ctx # "none" /\ enc.ifmt = f THEN {[to |-> "send", enc |-> enc]}
    ELSE {[to |-> "done", enc |-> e] : e \in IF Fails THEN CreateEncoder ELSE {}}
         \cup {[to |-> "send", enc |-> [ctx |-> "open", ifmt |-> f, resample |-> f]]}

Open ==
    /\ epc = "open"
    /\ \E r \in OpenCtx(fmt[frame]) :
          /\ enc' = r.enc
          /\ IF r.to = "send"
             THEN epc' = "send" /\ UNCHANGED owner
             ELSE epc' = "take" /\ owner' = [owner EXCEPT ![frame] = Nobody]
    /\ UNCHANGED <<factory, play_flag, player, coded, frame>>

\* resample, send_frame and receive_packet, whatever their results; the guards end
Send ==
    /\ epc = "send"
    /\ epc' = "take"
    /\ owner' = [owner EXCEPT ![frame] = Nobody]
    /\ UNCHANGED <<factory, play_flag, player, coded, frame, enc>>

-----------------------------------------------------------------------------
FactoryStep == Play \/ CloseDevice \/ OpenDevice \/ PushHeard \/ PushCoded
CallbackStep == PlayOn \/ NextFrame \/ LockTmp
EncoderStep == GetNext \/ LockFrame \/ Open \/ Send

Next == PlayMicrophoneAudio \/ OnThreadRun \/ FactoryStep \/ CallbackStep \/ EncoderStep

Spec == Init /\ [][Next]_vars

\* The threads of the library run, and SDL calls back as long as the device is open;
\* nothing makes the capture deliver another frame or the application act.
FairSpec == Spec /\ WF_vars(FactoryStep) /\ WF_vars(CallbackStep) /\ WF_vars(EncoderStep)

-----------------------------------------------------------------------------
(* Properties *)

\* Frames that are locked by an audio thread which has ended
Orphaned(f) == owner[f] \in 1..device.id /\ ~(device.open /\ owner[f] = device.id)

\* A device's thread never has two frames locked, whatever is queued, dropped or
\* closed, and the thread of the open device has only the frame it plays: a change
\* of format costs the encoder one frame at most.
OneFrameLocked ==
    /\ \A f, g \in Frames : owner[f] \in 1..device.id /\ owner[g] = owner[f] => f = g
    /\ \A f \in Frames : device.open /\ owner[f] = device.id => f = tmp

\* The encoder that waits for a frame gets it, also when no other frame follows and
\* when the application stops listening, unless the device whose thread plays it is
\* closed: then it waits for ever (audioplayer.cpp:148).
EncoderGoesOn == epc = "lock" ~> (epc # "lock" \/ Orphaned(frame))

\* A frame is played by a device of its format, unless it was queued before that
\* device was opened: the queue outlives the device.
HeardInItsFormat == device.open /\ tmp # 0 => fmt[tmp] = ofmt \/ tmp < device.since

\* What is given to the codec is resampled from the format it has, through changes
\* of format of which each may fail to open a codec.
EncodedAsItIs == epc = "send" => enc.ifmt = fmt[frame] /\ enc.resample = fmt[frame]
=============================================================================
