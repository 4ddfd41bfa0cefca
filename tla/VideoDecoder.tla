---------------------------- MODULE VideoDecoder ----------------------------
(***************************************************************************)
(* codec::VideoDecoder (src/src/codec/videodecoder.cpp): the decoding      *)
(* thread takes (payload type, packet) pairs from its queue, opens a       *)
(* hardware or a software codec for the type, decodes and hands what came  *)
(* out to the player.  Meanwhile RTPUserManager, on other threads, writes  *)
(* hwd_type_user, which the decoding thread reads where it compares,       *)
(* chooses and opens: these are separate steps here.                       *)
(*                                                                         *)
(* External: FFmpeg.  A codec may be missing from the build (Accelerated   *)
(* and Installed have those that are not), and one that is there may fail  *)
(* to be allocated or to open, in hardware and in software alike.  A codec *)
(* may reject a packet, keep it, or return a picture, and one that is not  *)
(* open rejects everything; avcodec_receive_frame empties the frame it is  *)
(* given before anything else, whatever it then returns.                   *)
(***************************************************************************)
EXTENDS Naturals

CONSTANTS
    PayloadTypes,   \* payload types of the packets
    Accelerated,    \* those for which the build has a QSV decoder
    Installed,      \* those for which it has a software decoder
    NoType

ASSUME DecoderAssumption ==
    /\ Accelerated \subseteq PayloadTypes /\ Installed \subseteq PayloadTypes
    /\ NoType \notin PayloadTypes

HWDType == {"None", "Auto", "QSV", "NVIDIA", "DXVA"}

VARIABLES
    pc,             \* where the decoding thread is in deal_with_pack
    pack,           \* payload type of the packet it deals with
    chosen,         \* hwd_type_user as the switch of check_pt has read it
    cur_pt, hwd_type_user, hwd_type_cur, use_hw_flag,
    hwdevice,       \* "null", or get_init_result(): "raw", "ready"
    decoder_ctx,    \* the codec context
    parser_ctx,     \* the parser, by its payload type
    refused,        \* the last attempt at a software codec gave none that is open
    frame,          \* the frame given to avcodec_receive_frame
    sw_frame,       \* the frame given to av_hwframe_transfer_data
    output          \* what this packet's decoding returned and what was played

setting == <<cur_pt, hwd_type_user, hwd_type_cur, use_hw_flag>>
codec == <<hwdevice, decoder_ctx, parser_ctx, refused>>
pictures == <<frame, sw_frame, output>>
vars == <<pc, pack, chosen, setting, codec, pictures>>

NoCtx == [pt |-> NoType, hw |-> FALSE, open |-> FALSE, held |-> FALSE]
Nothing == [returned |-> FALSE, failed |-> FALSE, played |-> "nothing"]

TypeOK ==
    /\ pc \in {"idle", "choose", "open", "software", "decode", "crashed"}
    /\ pack \in PayloadTypes \cup {NoType}
    /\ chosen \in HWDType /\ hwd_type_user \in HWDType
    /\ hwd_type_cur \in {"None", "QSV", "NVIDIA"}
    /\ cur_pt \in PayloadTypes \cup {NoType}
    /\ use_hw_flag \in BOOLEAN /\ refused \in BOOLEAN
    /\ hwdevice \in {"null", "raw", "ready"}
    /\ decoder_ctx \in [pt : PayloadTypes \cup {NoType}, hw : BOOLEAN,
                        open : BOOLEAN, held : BOOLEAN]
    /\ parser_ctx \in PayloadTypes \cup {NoType}
    /\ frame \in [kind : {"empty", "hw", "sw"}, new : BOOLEAN]
    /\ sw_frame \in {"nothing", "old", "new"}
    /\ output \in [returned : BOOLEAN, failed : BOOLEAN,
                   played : {"nothing", "old", "new"}]
    /\ (pc # "idle") => pack # NoType

Init ==
    /\ pc = "idle" /\ pack = NoType /\ chosen = "None"
    /\ cur_pt = NoType /\ hwd_type_user \in HWDType /\ hwd_type_cur = "None"
    /\ use_hw_flag = TRUE
    /\ hwdevice = "null" /\ decoder_ctx = NoCtx /\ parser_ctx = NoType /\ refused = FALSE
    /\ frame = [kind |-> "empty", new |-> FALSE] /\ sw_frame = "nothing"
    /\ output = Nothing

(***************************************************************************)
(* Contexts                                                                *)
(***************************************************************************)
Allocated(pt, hw, open) == [pt |-> pt, hw |-> hw, open |-> open, held |-> FALSE]

Empty == [kind |-> "empty", new |-> FALSE]
Aged(f) == [f EXCEPT !.new = FALSE]
AgedCopy(s) == IF s = "new" THEN "old" ELSE s

\* close_codec_ctx: the flush leaves the first picture the codec kept in the
\* frames when the hardware is used, and empties the frame otherwise
CloseCodecCtx ==
    IF ~decoder_ctx.open THEN UNCHANGED <<frame, sw_frame>>
    ELSE IF use_hw_flag /\ decoder_ctx.held
         THEN /\ frame' = [kind |-> IF decoder_ctx.hw THEN "hw" ELSE "sw", new |-> FALSE]
              /\ sw_frame' \in {sw_frame, "old"}
         ELSE frame' = Empty /\ UNCHANGED sw_frame

SameSetting_IgnoresType(pt) ==
    \/ hwd_type_user = "Auto" /\ hwd_type_cur # "None"
    \/ hwd_type_user = hwd_type_cur

SameSetting_IgnoresUser(pt) == pt = cur_pt /\ hwd_type_cur # "None"

\* the comparison at the head of check_pt
SameSetting(pt) ==
    /\ pt = cur_pt
    /\ \/ hwd_type_user = "Auto" /\ hwd_type_cur # "None"
       \/ hwd_type_user = hwd_type_cur

\* on_thread_run takes a packet, deal_with_pack calls check_pt
TakePacket ==
    /\ pc = "idle"
    /\ \E pt \in PayloadTypes :
          /\ pack' = pt
          /\ \/ /\ ~use_hw_flag
                /\ pc' = "software" /\ UNCHANGED cur_pt
             \/ /\ use_hw_flag /\ SameSetting(pt)
                /\ pc' = "decode" /\ UNCHANGED cur_pt
             \/ /\ use_hw_flag /\ ~SameSetting(pt)
                /\ pc' = "choose" /\ cur_pt' = pt
    /\ frame' = Aged(frame) /\ sw_frame' = AgedCopy(sw_frame) /\ output' = Nothing
    /\ UNCHANGED <<chosen, hwd_type_user, hwd_type_cur, use_hw_flag, codec>>

\* the hardware is given up, for good, and check_pt called again
Fallback ==
    /\ hwd_type_cur' = "None" /\ use_hw_flag' = FALSE /\ pc' = "software"

\* switch (hwd_type_user), and new HardwareDevice()
Choose ==
    /\ pc = "choose"
    /\ chosen' = hwd_type_user
    /\ \/ /\ hwd_type_user = "None"
          /\ Fallback /\ UNCHANGED hwdevice
       \/ /\ hwd_type_user # "None"
          /\ hwdevice' = IF hwdevice = "null" THEN "raw" ELSE hwdevice
          /\ pc' = "open" /\ UNCHANGED <<hwd_type_cur, use_hw_flag>>
    /\ UNCHANGED <<pack, cur_pt, hwd_type_user, decoder_ctx, parser_ctx, refused, pictures>>

OpenQSV_IgnoresResult ==
    /\ chosen \in {"Auto", "QSV"} /\ pack \in Accelerated
    /\ CloseCodecCtx
    /\ \E open \in BOOLEAN : decoder_ctx' = Allocated(pack, TRUE, open)
    /\ hwdevice' = "ready" /\ hwd_type_cur' = "QSV" /\ pc' = "decode"
    /\ UNCHANGED <<hwd_type_user, use_hw_flag>>

\* _init_hwdevice for QSV, which Auto stands for
OpenQSV ==
    /\ chosen \in {"Auto", "QSV"}
    /\ \/ /\ pack \notin Accelerated
          /\ Fallback /\ UNCHANGED <<hwdevice, decoder_ctx, frame, sw_frame>>
       \/ /\ pack \in Accelerated
          /\ CloseCodecCtx
          /\ \/ \* the context cannot be allocated
                /\ decoder_ctx' = NoCtx /\ Fallback /\ UNCHANGED hwdevice
             \/ /\ decoder_ctx' = Allocated(pack, TRUE, TRUE)
                /\ hwdevice' = "ready" /\ hwd_type_cur' = "QSV"
                /\ pc' = "decode" /\ UNCHANGED use_hw_flag
             \/ \* no device: init_device returns before it assigns _init_result
                /\ decoder_ctx' = Allocated(pack, TRUE, FALSE)
                /\ Fallback /\ UNCHANGED hwdevice
             \/ \* avcodec_open2 fails
                /\ decoder_ctx' = Allocated(pack, TRUE, FALSE)
                /\ Fallback /\ hwdevice' = "raw"
    /\ UNCHANGED hwd_type_user

\* _init_hwdevice has nothing to do for NVIDIA, and answers true
OpenNVIDIA ==
    /\ chosen = "NVIDIA"
    /\ hwd_type_cur' = "NVIDIA" /\ pc' = "decode"
    /\ UNCHANGED <<hwd_type_user, use_hw_flag, hwdevice, decoder_ctx, frame, sw_frame>>

\* _init_hwdevice does not know DXVA, and resets the application's choice
OpenDXVA ==
    /\ chosen = "DXVA"
    /\ hwd_type_user' = "None" /\ Fallback
    /\ UNCHANGED <<hwdevice, decoder_ctx, frame, sw_frame>>

OpenDevice ==
    /\ pc = "open"
    /\ OpenQSV \/ OpenNVIDIA \/ OpenDXVA
    /\ UNCHANGED <<pack, chosen, cur_pt, parser_ctx, refused, output>>

\* what is there is kept: a context as well that could not be opened
Kept == pack = cur_pt /\ parser_ctx # NoType /\ decoder_ctx # NoCtx

\* _init_sw_codec_ctx: what was there is closed, and a codec looked for, allocated
\* and opened, each of which may fail
InitSoftware ==
    /\ CloseCodecCtx
    /\ \/ /\ pack \notin Installed
          /\ parser_ctx' = NoType /\ decoder_ctx' = NoCtx
       \/ /\ pack \in Installed
          /\ parser_ctx' \in {pack, NoType}
          /\ \/ decoder_ctx' = NoCtx
             \/ \E open \in BOOLEAN : decoder_ctx' = Allocated(pack, FALSE, open)
    /\ refused' = ~decoder_ctx'.open

\* the else branch of check_pt
SetupSoftware ==
    /\ pc = "software"
    /\ pc' = "decode"
    /\ \/ Kept /\ UNCHANGED <<cur_pt, hwd_type_cur, parser_ctx, decoder_ctx, refused, frame, sw_frame>>
       \/ ~Kept /\ cur_pt' = pack /\ hwd_type_cur' = "None" /\ InitSoftware
    /\ UNCHANGED <<pack, chosen, hwd_type_user, use_hw_flag, hwdevice, output>>

(***************************************************************************)
(* Decoding and display                                                    *)
(***************************************************************************)
Direct == hwdevice = "ready"

Parseable == parser_ctx # NoType /\ decoder_ctx # NoCtx

Understood == decoder_ctx.open /\ decoder_ctx.pt = pack

Picture == [kind |-> IF decoder_ctx.hw THEN "hw" ELSE "sw", new |-> TRUE]

\* what the receiving loop leaves of the pictures it was given: the first one
\* where the hardware is used; else it goes on until the codec has no more,
\* and that last call empties the frame
Received(any) == IF any /\ use_hw_flag THEN Picture ELSE Empty

\* display(): what it hands to the player
Shown(f, s) == CASE f.kind = "empty" -> "nothing"
                 [] f.kind = "hw" -> s
                 [] OTHER -> IF f.new THEN "new" ELSE "old"

\* avcodec_send_packet fails, and display() runs all the same
Rejected ==
    /\ output' = [returned |-> FALSE, failed |-> TRUE, played |-> Shown(frame, sw_frame)]
    /\ UNCHANGED <<frame, sw_frame, decoder_ctx>>

\* decode(): the codec keeps the packet, or returns pictures
Accepted ==
    /\ Understood
    /\ \E any, keeps, copied \in BOOLEAN :
          /\ decoder_ctx' = [decoder_ctx EXCEPT !.held = keeps]
          /\ frame' = Received(any)
          /\ sw_frame' = IF any /\ use_hw_flag /\ copied THEN "new" ELSE sw_frame
          /\ output' = [returned |-> any, failed |-> any /\ use_hw_flag /\ ~copied,
                        played |-> Shown(frame', sw_frame')]

\* parse() without its contexts, or a packet that completes no picture
NotParsed ==
    /\ ~Direct
    /\ UNCHANGED <<frame, sw_frame, decoder_ctx>>
    /\ output' = Nothing

\* decode() without a context: avcodec_send_packet reads from a null pointer
NullContext == Direct /\ decoder_ctx = NoCtx

\* the rest of deal_with_pack
Decode ==
    /\ pc = "decode"
    /\ \/ /\ NullContext /\ pc' = "crashed"
          /\ UNCHANGED <<decoder_ctx, pictures>>
       \/ /\ ~NullContext /\ (Direct \/ Parseable)
          /\ (Rejected \/ Accepted) /\ pc' = "idle"
       \/ NotParsed /\ pc' = "idle"
    /\ UNCHANGED <<pack, chosen, setting, hwdevice, parser_ctx, refused>>

(***************************************************************************)
(* RTPUserManager sets the type                                            *)
(***************************************************************************)
SetHwdType ==
    /\ hwd_type_user' \in HWDType
    /\ UNCHANGED <<pc, pack, chosen, cur_pt, hwd_type_cur, use_hw_flag, codec, pictures>>

DecodingThread == TakePacket \/ Choose \/ OpenDevice \/ SetupSoftware \/ Decode

Next == DecodingThread \/ SetHwdType

Spec == Init /\ [][Next]_vars

FairSpec == Spec /\ WF_vars(DecodingThread)

(***************************************************************************)
(* Properties                                                              *)
(***************************************************************************)
\* The context a packet is decoded with is of the packet's own payload type, and it
\* is open unless the software codec itself was the last that could not be set up:
\* no setting during check_pt, no failure of the hardware, no context, flag or stale
\* result of init_device it leaves behind is the reason.  The exception is the type
\* NVIDIA, for which check_pt opens nothing: what an earlier choice left is used
\* (videodecoder.cpp:477).  A software codec that is refused is one that line 219
\* keeps although it is not open, or none, and then the stale result (line 399)
\* leads decode() to a null pointer: the state "crashed".
DecodesWithItsCodec ==
    (pc \in {"decode", "crashed"} /\ hwd_type_cur # "NVIDIA") =>
        /\ decoder_ctx # NoCtx => decoder_ctx.pt = pack
        /\ decoder_ctx.open \/ refused

\* Between packets get_hwd_type tells what is used: videodecoder.h:48 says it
\* returns the scheme in use, None when there is none (NVIDIA apart, as above).
ReportsTruth ==
    (pc = "idle" /\ hwd_type_cur # "NVIDIA") =>
        (hwd_type_cur = "QSV" <=> decoder_ctx.hw /\ decoder_ctx.open)

\* While packets come, a type that stays set comes into use, or the decoder has
\* fallen back to software, from which no setting brings it back
\* (videodecoder.cpp:145: use_hw_flag is never set again).
SettingTakesEffect ==
    \A t \in HWDType :
        <>[](hwd_type_user = t) =>
            <>[](\/ ~use_hw_flag
                 \/ pc \in {"choose", "open", "software"}
                 \/ hwd_type_cur = t
                 \/ t = "Auto" /\ hwd_type_cur # "None")

\* "rendered as soon as it is decoded" (videodecoder.cpp:366): a picture that
\* the software codec returned for a packet is handed to the player with it.
SoftwareIsShown ==
    (pc = "idle" /\ ~use_hw_flag /\ output.returned) => output.played = "new"
=============================================================================
