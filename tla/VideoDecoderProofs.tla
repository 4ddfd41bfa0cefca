------------------------- MODULE VideoDecoderProofs -------------------------
(***************************************************************************)
(* Theorems about VideoDecoder, for any payload types and whichever of     *)
(* them the build can decode in hardware and in software.                  *)
(*                                                                         *)
(* The argument: as long as the hardware is used there is no parser, so    *)
(* the first packet after the fallback looks for a software codec whatever *)
(* context the attempt left; from then on cur_pt is the type of the        *)
(* software context, if there is one, and before it the hardware's.        *)
(***************************************************************************)
EXTENDS VideoDecoder, TLAPS

Between == pc \in {"idle", "decode", "crashed"}

\* where check_pt is
Control ==
    /\ pc \in {"choose", "open"} => use_hw_flag /\ cur_pt = pack
    /\ pc = "software" => ~use_hw_flag
    /\ pc \in {"decode", "crashed"} => cur_pt = pack
    /\ use_hw_flag => parser_ctx = NoType
    /\ ~use_hw_flag => hwd_type_cur = "None"

\* the context of the hardware, or none before the first packet
Hardware ==
    (use_hw_flag /\ Between) =>
        \/ /\ hwd_type_cur = "QSV"
           /\ decoder_ctx.hw /\ decoder_ctx.open /\ decoder_ctx.pt = cur_pt
        \/ hwd_type_cur = "NVIDIA"
        \/ /\ hwd_type_cur = "None" /\ pc = "idle"
           /\ cur_pt = NoType /\ decoder_ctx = NoCtx

\* the context of the software, whose parser is never older than it
Software ==
    (~use_hw_flag /\ (Between \/ parser_ctx # NoType)) =>
        /\ decoder_ctx.open \/ refused
        /\ ~decoder_ctx.hw
        /\ decoder_ctx # NoCtx => decoder_ctx.pt = cur_pt

IInv == TypeOK /\ Control /\ Hardware /\ Software

LEMMA InitInv == Init => IInv
<1> SUFFICES ASSUME Init PROVE IInv
  OBVIOUS
<1>1. FALSE \in BOOLEAN /\ TRUE \in BOOLEAN
  OBVIOUS
<1>2. refused \in BOOLEAN /\ use_hw_flag \in BOOLEAN
  BY <1>1, Zenon DEF Init
<1> QED
  BY <1>2 DEF Init, IInv, TypeOK, Control, Hardware, Software, Between, NoCtx, Nothing, HWDType

\* what a flush leaves is of the frames' types
LEMMA Flushed ==
    ASSUME TypeOK, CloseCodecCtx
    PROVE  /\ frame' \in [kind : {"empty", "hw", "sw"}, new : BOOLEAN]
           /\ sw_frame' \in {"nothing", "old", "new"}
<1>1. CASE UNCHANGED <<frame, sw_frame>>
  BY <1>1 DEF TypeOK
<1>2. CASE frame' = Empty /\ UNCHANGED sw_frame
  BY <1>2 DEF TypeOK, Empty
<1>3. CASE /\ frame' = [kind |-> IF decoder_ctx.hw THEN "hw" ELSE "sw", new |-> FALSE]
           /\ sw_frame' \in {sw_frame, "old"}
  <2>1. (IF decoder_ctx.hw THEN "hw" ELSE "sw") \in {"empty", "hw", "sw"}
    OBVIOUS
  <2> QED BY <1>3, <2>1 DEF TypeOK
<1> QED BY <1>1, <1>2, <1>3 DEF CloseCodecCtx

\* the assignments of a fallback are of their types
LEMMA GivenUp ==
    ASSUME Fallback
    PROVE  use_hw_flag' \in BOOLEAN /\ hwd_type_cur' = "None" /\ pc' = "software"
<1>1. FALSE \in BOOLEAN
  OBVIOUS
<1> QED BY <1>1, Zenon DEF Fallback

LEMMA TakePacketInv == ASSUME IInv, TakePacket PROVE IInv'
<1>1. TypeOK'
  <2>1. /\ pack' \in PayloadTypes /\ pc' \in {"software", "decode", "choose"}
        /\ cur_pt' \in PayloadTypes \cup {NoType}
    BY DEF IInv, TypeOK, TakePacket
  <2>2. frame' \in [kind : {"empty", "hw", "sw"}, new : BOOLEAN]
    BY DEF IInv, TypeOK, TakePacket, Aged
  <2>3. /\ sw_frame' \in {"nothing", "old", "new"}
        /\ output' \in [returned : BOOLEAN, failed : BOOLEAN, played : {"nothing", "old", "new"}]
    BY DEF IInv, TypeOK, TakePacket, AgedCopy, Nothing
  <2>4. UNCHANGED <<chosen, hwd_type_user, hwd_type_cur, use_hw_flag, codec>>
    BY DEF TakePacket
  <2> QED BY <2>1, <2>2, <2>3, <2>4, DecoderAssumption DEF IInv, TypeOK, codec
<1>2. (Control /\ Hardware /\ Software)'
  BY DecoderAssumption
  DEF IInv, TypeOK, Control, Hardware, Software, Between, TakePacket, SameSetting, codec
<1> QED BY <1>1, <1>2 DEF IInv

LEMMA ChooseInv == ASSUME IInv, Choose PROVE IInv'
<1>1. TypeOK'
  <2>1. CASE hwd_type_user = "None" /\ Fallback /\ UNCHANGED hwdevice
    BY <2>1, GivenUp DEF IInv, TypeOK, Control, Choose, pictures
  <2>2. CASE UNCHANGED <<hwd_type_cur, use_hw_flag>>
             /\ hwdevice' \in {"raw", hwdevice} /\ pc' = "open"
    BY <2>2 DEF IInv, TypeOK, Choose, pictures, Control
  <2> QED BY <2>1, <2>2 DEF Choose
<1>2. (Control /\ Hardware /\ Software)'
  BY DEF IInv, TypeOK, Control, Hardware, Software, Between, Choose, Fallback, pictures
<1> QED BY <1>1, <1>2 DEF IInv

LEMMA OpenDeviceInv == ASSUME IInv, OpenDevice PROVE IInv'
<1>1. CASE OpenQSV
  <2>1. TypeOK'
    <3>1. CASE pack \notin Accelerated
      <4>1. Fallback /\ UNCHANGED <<hwd_type_user, hwdevice, decoder_ctx, frame, sw_frame>>
        BY <1>1, <3>1 DEF OpenQSV
      <4> QED BY <4>1, GivenUp DEF IInv, TypeOK, OpenDevice
    <3>2. CASE pack \in Accelerated
      <4>1. /\ frame' \in [kind : {"empty", "hw", "sw"}, new : BOOLEAN]
            /\ sw_frame' \in {"nothing", "old", "new"}
        BY <1>1, <3>2, Flushed DEF IInv, OpenQSV
      <4>2. /\ decoder_ctx' \in [pt : PayloadTypes \cup {NoType}, hw : BOOLEAN,
                                open : BOOLEAN, held : BOOLEAN]
            /\ hwdevice' \in {"null", "raw", "ready"} /\ use_hw_flag' \in BOOLEAN
            /\ hwd_type_cur' \in {"None", "QSV"} /\ pc' \in {"decode", "software"}
        <5>1. \A open \in BOOLEAN : Allocated(pack, TRUE, open) \in
                  [pt : PayloadTypes \cup {NoType}, hw : BOOLEAN, open : BOOLEAN, held : BOOLEAN]
          BY DEF IInv, TypeOK, Allocated
        <5>2. \/ decoder_ctx' = Allocated(pack, TRUE, TRUE) \/ decoder_ctx' = Allocated(pack, TRUE, FALSE)
              \/ decoder_ctx' = NoCtx
          BY <1>1, <3>2 DEF OpenQSV
        <5>none. NoCtx \in [pt : PayloadTypes \cup {NoType}, hw : BOOLEAN, open : BOOLEAN,
                            held : BOOLEAN]
          BY DEF NoCtx
        <5>3. hwdevice' \in {"null", "raw", "ready"}
          BY <1>1, <3>2 DEF IInv, TypeOK, OpenQSV
        <5>4. CASE pc' = "decode" /\ hwd_type_cur' = "QSV" /\ UNCHANGED use_hw_flag
          BY <5>1, <5>2, <5>none, <5>3, <5>4 DEF IInv, TypeOK
        <5>5. CASE Fallback
          BY <5>1, <5>2, <5>none, <5>3, <5>5, GivenUp
        <5> QED BY <1>1, <3>2, <5>4, <5>5 DEF OpenQSV
      <4> QED BY <1>1, <4>1, <4>2 DEF IInv, TypeOK, OpenDevice, OpenQSV
    <3> QED BY <3>1, <3>2
  <2>2. (Control /\ Hardware /\ Software)'
    <3>1. CASE pc' = "decode"
      BY <1>1, <3>1 DEF IInv, Control, Hardware, Software, Between, OpenDevice, OpenQSV,
                        Fallback, Allocated
    <3>2. CASE pc' = "software"
      BY <1>1, <3>2 DEF IInv, Control, Hardware, Software, Between, OpenDevice, OpenQSV,
                        Fallback
    <3> QED BY <1>1, <3>1, <3>2 DEF OpenQSV, Fallback
  <2> QED BY <2>1, <2>2 DEF IInv
<1>2. CASE OpenNVIDIA \/ OpenDXVA
  <2>1. TypeOK'
    <3>1. CASE OpenNVIDIA
      BY <1>2, <3>1 DEF IInv, TypeOK, OpenDevice, OpenNVIDIA
    <3>2. CASE OpenDXVA
      BY <1>2, <3>2, GivenUp DEF IInv, TypeOK, OpenDevice, OpenDXVA, HWDType
    <3> QED BY <1>2, <3>1, <3>2
  <2>2. (Control /\ Hardware /\ Software)'
    BY <1>2 DEF IInv, Control, Hardware, Software, Between, OpenDevice, OpenNVIDIA,
                OpenDXVA, Fallback
  <2> QED BY <2>1, <2>2 DEF IInv
<1> QED BY <1>1, <1>2 DEF OpenDevice

LEMMA SetupSoftwareInv == ASSUME IInv, SetupSoftware PROVE IInv'
<1>1. CASE Kept /\ UNCHANGED <<cur_pt, hwd_type_cur, parser_ctx, decoder_ctx, refused, frame, sw_frame>>
  BY <1>1 DEF IInv, TypeOK, Control, Hardware, Software, Between, SetupSoftware, Kept
<1>2. CASE cur_pt' = pack /\ hwd_type_cur' = "None" /\ InitSoftware
  <2>1. /\ decoder_ctx' = NoCtx \/ \E open \in BOOLEAN : decoder_ctx' = Allocated(pack, FALSE, open)
        /\ parser_ctx' \in {pack, NoType} /\ CloseCodecCtx
        /\ refused' = ~decoder_ctx'.open
    BY <1>2 DEF InitSoftware
  <2>2. decoder_ctx' \in [pt : PayloadTypes \cup {NoType}, hw : BOOLEAN, open : BOOLEAN,
                          held : BOOLEAN]
    <3> DEFINE T == [pt : PayloadTypes \cup {NoType}, hw : BOOLEAN, open : BOOLEAN, held : BOOLEAN]
    <3>1. \A open \in BOOLEAN : Allocated(pack, FALSE, open) \in T
      BY DEF IInv, TypeOK, Allocated
    <3>2. NoCtx \in T
      BY DEF NoCtx
    <3> HIDE DEF T
    <3>3. decoder_ctx' \in T
      BY <2>1, <3>1, <3>2
    <3> QED BY <3>3 DEF T
  <2>3. refused' \in BOOLEAN
    BY <2>1, <2>2
  <2>4. TypeOK'
    BY <1>2, <2>1, <2>2, <2>3, Flushed DEF IInv, TypeOK, SetupSoftware
  <2>5. ~decoder_ctx'.hw /\ (decoder_ctx' # NoCtx => decoder_ctx'.pt = pack)
    BY <2>1 DEF Allocated, NoCtx
  <2>6. (Control /\ Hardware /\ Software)'
    BY <1>2, <2>1, <2>5 DEF IInv, Control, Hardware, Software, Between, SetupSoftware, NoCtx
  <2> QED BY <2>4, <2>6 DEF IInv
<1> QED BY <1>1, <1>2 DEF SetupSoftware

LEMMA DecodeInv == ASSUME IInv, Decode PROVE IInv'
<1>0. CASE pc' = "crashed" /\ UNCHANGED <<decoder_ctx, pictures>>
  <2>1. TypeOK'
    BY <1>0 DEF IInv, TypeOK, Decode, setting, pictures
  <2>2. (Control /\ Hardware /\ Software)'
    BY <1>0 DEF IInv, Control, Hardware, Software, Between, Decode, setting
  <2> QED BY <2>1, <2>2 DEF IInv
<1>1. CASE (Rejected \/ NotParsed) /\ pc' = "idle"
  <2>1. Shown(frame, sw_frame) \in {"nothing", "old", "new"}
    BY DEF IInv, TypeOK, Shown
  <2>2. output' \in [returned : BOOLEAN, failed : BOOLEAN, played : {"nothing", "old", "new"}]
    <3>1. FALSE \in BOOLEAN /\ TRUE \in BOOLEAN
      OBVIOUS
    <3>2. CASE Rejected
      BY <2>1, <3>1, <3>2 DEF Rejected
    <3>3. CASE NotParsed
      BY <3>1, <3>3 DEF NotParsed, Nothing
    <3> QED BY <1>1, <3>2, <3>3
  <2>3. UNCHANGED <<frame, sw_frame, decoder_ctx>>
    BY <1>1 DEF Rejected, NotParsed
  <2>4. TypeOK'
    BY <1>1, <2>2, <2>3 DEF IInv, TypeOK, Decode, setting
  <2>5. (Control /\ Hardware /\ Software)'
    BY <1>1, <2>3 DEF IInv, Control, Hardware, Software, Between, Decode, setting
  <2> QED BY <2>4, <2>5 DEF IInv
<1>2. CASE Accepted /\ pc' = "idle"
  <2>1. PICK any, keeps, copied \in BOOLEAN :
           /\ decoder_ctx' = [decoder_ctx EXCEPT !.held = keeps]
           /\ frame' = Received(any)
           /\ sw_frame' = IF any /\ use_hw_flag /\ copied THEN "new" ELSE sw_frame
           /\ output' = [returned |-> any, failed |-> any /\ use_hw_flag /\ ~copied,
                         played |-> Shown(frame', sw_frame')]
    BY <1>2 DEF Accepted
  <2>2. decoder_ctx' \in [pt : PayloadTypes \cup {NoType}, hw : BOOLEAN,
                          open : BOOLEAN, held : BOOLEAN]
    BY <2>1 DEF IInv, TypeOK
  <2>3. frame' \in [kind : {"empty", "hw", "sw"}, new : BOOLEAN]
    BY <2>1 DEF Received, Picture, Empty
  <2>4. sw_frame' \in {"nothing", "old", "new"}
    BY <2>1 DEF IInv, TypeOK
  <2>5. output' \in [returned : BOOLEAN, failed : BOOLEAN, played : {"nothing", "old", "new"}]
    <3>1. Shown(frame', sw_frame') \in {"nothing", "old", "new"}
      BY <2>3, <2>4 DEF Shown
    <3>2. (any /\ use_hw_flag /\ ~copied) \in BOOLEAN
      OBVIOUS
    <3> QED BY <2>1, <3>1, <3>2
  <2>6. TypeOK'
    BY <1>2, <2>2, <2>3, <2>4, <2>5 DEF IInv, TypeOK, Decode, setting
  <2>7. (Control /\ Hardware /\ Software)'
    <3>1. decoder_ctx'.pt = decoder_ctx.pt /\ decoder_ctx'.hw = decoder_ctx.hw
          /\ decoder_ctx'.open = decoder_ctx.open
      BY <2>1 DEF IInv, TypeOK
    <3>2. decoder_ctx # NoCtx
      BY <1>2 DEF Accepted, Understood, NoCtx
    <3> QED BY <1>2, <3>1, <3>2 DEF IInv, Control, Hardware, Software, Between, Decode, setting
  <2> QED BY <2>6, <2>7 DEF IInv
<1> QED BY <1>0, <1>1, <1>2 DEF Decode

LEMMA SetHwdTypeInv == ASSUME IInv, SetHwdType PROVE IInv'
BY DEF IInv, TypeOK, Control, Hardware, Software, Between, SetHwdType, codec, pictures

THEOREM Invariant == Spec => []IInv
<1>1. ASSUME IInv, [Next]_vars PROVE IInv'
  <2>1. CASE UNCHANGED vars
    BY <1>1, <2>1 DEF IInv, TypeOK, Control, Hardware, Software, Between, vars, setting,
                      codec, pictures
  <2> QED
    BY <1>1, <2>1, TakePacketInv, ChooseInv, OpenDeviceInv, SetupSoftwareInv, DecodeInv,
       SetHwdTypeInv DEF Next, DecodingThread
<1> QED BY InitInv, <1>1, PTL DEF Spec

\* The decoder's variables keep their types.
THEOREM TypeCorrect == Spec => []TypeOK
<1>1. IInv => TypeOK
  BY DEF IInv
<1> QED BY <1>1, Invariant, PTL

\* The context a packet is decoded with is of its payload type, and open unless the
\* software codec was refused last: check_pt leaves no context of an earlier type,
\* whichever attempt failed before.
THEOREM RightCodec == Spec => []DecodesWithItsCodec
<1>1. IInv => DecodesWithItsCodec
  BY DEF IInv, TypeOK, Control, Hardware, Software, Between, DecodesWithItsCodec
<1> QED BY <1>1, Invariant, PTL

\* get_hwd_type tells between packets what decodes.
THEOREM TruthReported == Spec => []ReportsTruth
<1>1. IInv => ReportsTruth
  BY DEF IInv, TypeOK, Control, Hardware, Software, Between, ReportsTruth, NoCtx
<1> QED BY <1>1, Invariant, PTL
=============================================================================
