------------------------- MODULE VideoEncoderProofs -------------------------
(***************************************************************************)
(* Theorems about VideoEncoder, for any sizes of frames and any build of   *)
(* FFmpeg, and for setters called between any two stages of encode().      *)
(*                                                                         *)
(* The argument is one predicate on the encoder's record, Sound: the       *)
(* labels describe the open context.  Flushing uses them before they       *)
(* change, closing resets them with the context, and opening a codec sets  *)
(* them to what was opened or leaves the context closed; between the       *)
(* opening of hardware and the choice of its type and format (the stage    *)
(* "chosen") Opening takes its place.                                      *)
(***************************************************************************)
EXTENDS VideoEncoder, TLAPS

Labelled(e) == \A l \in e.pushed : l.payload_type = l.codec /\ l.format = l.of

\* the labels and the current codec are the open context's
Sound(e) ==
    /\ e \in Encoders
    /\ Labelled(e)
    /\ e.ctx.open => /\ e.payload_type = e.ctx.codec /\ e.enc_type_cur = e.ctx.codec
                     /\ e.format = e.ctx.format /\ e.format \in Formats
    /\ e.ctx.drained => e.ctx.open

\* the frames are those of a context that was just closed
Fresh(e) == e.sw_frame = NoFormat /\ ~e.lent /\ ~e.other

Closed(e) == Sound(e) /\ ~e.ctx.open /\ e.hwd_type_cur = "None" /\ Fresh(e)

\* an encoder while its hardware is being opened: closed, or opened for format
Opening(e, maker, format) ==
    /\ e \in Encoders /\ Labelled(e) /\ e.hwd_type_cur = "None" /\ Fresh(e)
    /\ ~e.ctx.drained
    /\ e.ctx.open => /\ e.ctx.maker = maker /\ e.ctx.format = format
                     /\ e.payload_type = e.ctx.codec /\ e.enc_type_cur = e.ctx.codec

Hardware == {"QSV", "NVIDIA"}

\* the encoder's record at each stage
Good ==
    /\ pc # "chosen" => Sound(enc)
    /\ pc = "init" => Closed(enc)
    /\ pc = "chosen" => /\ Opening(enc, enc.ctx.maker, packet.format) /\ enc.ctx.open
                        /\ enc.ctx.maker \in Hardware

\* with settings that hold still, the current type is the hardware's in use
Known ==
    careful => /\ pc # "chosen" => enc.hwd_type_cur = InUse(enc)
               /\ pc = "chosen" => hwd_type_user = enc.ctx.maker

\* a context that is open while the thread is to pause is one the application stopped
StoppedKnown == enc.ctx.open /\ Pause => stopped

\* the queue is not taken away while the thread has its mutex
QueueHeld == Encoding \/ pc = "queue" => _queue

\* what is sent is sent to an open context
SendsOpen == pc = "send" => enc.ctx.open

IInv == TypeOK /\ Good /\ Known /\ StoppedKnown /\ QueueHeld /\ DrainedOnlyWhenStopped

LEMMA NoCtxTyped ==
    NoCtx \in Contexts /\ ~NoCtx.open /\ ~NoCtx.drained /\ NoCtx.maker = "software"
BY DEF NoCtx, Contexts, Makers

LEMMA NotSentTyped == NotSent \in Frames
BY DEF NotSent, Frames

LEMMA InitInv == Init => IInv
<1> SUFFICES ASSUME Init PROVE IInv
  OBVIOUS
<1>1. enc \in Encoders /\ enc.ctx = NoCtx /\ enc.pushed = {} /\ enc.hwd_type_cur = "None"
  BY NoCtxTyped DEF Init, Encoders, HWDType
<1>2. Sound(enc)
  BY <1>1, NoCtxTyped DEF Sound, Labelled
<1>3. NoPacket \in [format : Formats \cup {NoFormat}, rate : BOOLEAN]
  BY DEF NoPacket
<1>5. (~_queue \/ enc_type_user = "None") \in BOOLEAN
  OBVIOUS
<1>6. stopped \in BOOLEAN
  BY <1>5, Zenon DEF Init
<1>7. TypeOK
  BY <1>1, <1>3, NotSentTyped, <1>6 DEF Init, TypeOK, Stages
<1>8. DrainedOnlyWhenStopped /\ StoppedKnown
  BY <1>1, NoCtxTyped DEF DrainedOnlyWhenStopped, StoppedKnown
<1>9. Good /\ Known
  BY <1>1, <1>2, NoCtxTyped DEF Init, Good, Known, InUse
<1>10. QueueHeld
  BY DEF Init, QueueHeld, Encoding, Stages
<1> QED BY <1>7, <1>8, <1>9, <1>10 DEF IInv

(***************************************************************************)
(* Contexts                                                                *)
(***************************************************************************)
\* what a step leaves when it changes no more than what a codec keeps and returns
Like(f, e) ==
    /\ f.hwd_type_cur = e.hwd_type_cur /\ f.sw_frame = e.sw_frame /\ f.lent = e.lent
    /\ f.other = e.other /\ f.format = e.format
    /\ f.ctx.open = e.ctx.open /\ f.ctx.maker = e.ctx.maker /\ f.ctx.format = e.ctx.format

LEMMA LikeInUse == ASSUME NEW e, NEW f, Like(f, e) PROVE InUse(f) = InUse(e)
BY DEF Like, InUse, Hw

\* emptying the list of packets pushed leaves the rest sound
LEMMA ForgetSound ==
    ASSUME NEW e, Sound(e)
    PROVE  /\ Sound([e EXCEPT !.pushed = {}]) /\ Like([e EXCEPT !.pushed = {}], e)
           /\ [e EXCEPT !.pushed = {}].ctx = e.ctx
BY DEF Sound, Encoders, Labelled, Like

\* a flush labels what the codec kept with its own type and format
LEMMA FlushSound ==
    ASSUME NEW e, Sound(e)
    PROVE  Sound(Flush(e)) /\ Like(Flush(e), e)
<1>1. CASE e.ctx.open /\ ~e.ctx.drained
  <2> DEFINE c == [e.ctx EXCEPT !.drained = TRUE, !.held = FALSE]
             p == IF e.ctx.held THEN e.pushed \cup {Label(e)} ELSE e.pushed
  <2>1. c \in Contexts /\ c.open /\ c.maker = e.ctx.maker /\ c.codec = e.ctx.codec
        /\ c.format = e.ctx.format
    BY <1>1 DEF Sound, Encoders, Contexts
  <2>2. /\ Label(e) \in Labels
        /\ Label(e).payload_type = Label(e).codec /\ Label(e).format = Label(e).of
    BY <1>1 DEF Sound, Encoders, Contexts, Labels, Label
  <2>3. p \in SUBSET Labels /\ \A l \in p : l.payload_type = l.codec /\ l.format = l.of
    BY <2>2 DEF Sound, Encoders, Labelled
  <2>4. Flush(e) = [e EXCEPT !.ctx = c, !.pushed = p]
    BY <1>1 DEF Flush, Sound, Encoders
  <2> HIDE DEF c, p
  <2>5. /\ Flush(e) \in Encoders /\ Flush(e).ctx = c /\ Flush(e).pushed = p
        /\ Flush(e).hwd_type_cur = e.hwd_type_cur /\ Flush(e).enc_type_cur = e.enc_type_cur
        /\ Flush(e).payload_type = e.payload_type /\ Flush(e).format = e.format
        /\ Flush(e).sw_frame = e.sw_frame /\ Flush(e).lent = e.lent /\ Flush(e).other = e.other
    BY <2>1, <2>3, <2>4 DEF Sound, Encoders
  <2> QED BY <1>1, <2>1, <2>3, <2>5 DEF Sound, Labelled, Like
<1>2. CASE ~(e.ctx.open /\ ~e.ctx.drained)
  BY <1>2 DEF Flush, Like
<1> QED BY <1>1, <1>2

\* closing leaves no context, and keeps of the rest what it does not reset
LEMMA CloseEncoderSound ==
    ASSUME NEW e, Sound(e)
    PROVE  /\ CloseEncoder(e) \in Encoders /\ Labelled(CloseEncoder(e))
           /\ CloseEncoder(e).ctx = NoCtx
           /\ CloseEncoder(e).hwd_type_cur = e.hwd_type_cur
           /\ Fresh(e) => Fresh(CloseEncoder(e))
<1>1. Sound(Flush(e)) /\ Like(Flush(e), e)
  BY FlushSound
<1> QED BY <1>1, NoCtxTyped DEF CloseEncoder, Sound, Encoders, Labelled, Like, Fresh

LEMMA CloseCtxSound ==
    ASSUME NEW e, Sound(e)
    PROVE  Closed(CloseCtx(e)) /\ CloseCtx(e).ctx = NoCtx
<1> DEFINE c == CloseEncoder(e)
<1>1. c \in Encoders /\ Labelled(c) /\ c.ctx = NoCtx
  BY CloseEncoderSound
<1>2. CloseCtx(e) = [c EXCEPT !.hwdevice = "null", !.hwd_type_cur = "None",
                              !.enc_type_cur = "None", !.format = NoFormat,
                              !.sw_frame = NoFormat, !.lent = FALSE, !.other = FALSE]
  BY DEF CloseCtx
<1> HIDE DEF c
<1>3. /\ CloseCtx(e) \in Encoders /\ CloseCtx(e).ctx = NoCtx
      /\ CloseCtx(e).hwd_type_cur = "None" /\ CloseCtx(e).pushed = c.pushed
      /\ Fresh(CloseCtx(e))
  BY <1>1, <1>2 DEF Encoders, HWDType, Fresh
<1> QED BY <1>1, <1>3, NoCtxTyped DEF Closed, Sound, Labelled

LEMMA RawClosed == ASSUME Sound(enc) PROVE Closed(Raw) /\ Raw.ctx = NoCtx
<1>1. Closed(CloseCtx(enc)) /\ CloseCtx(enc).ctx = NoCtx
  BY CloseCtxSound
<1> DEFINE c == CloseCtx(enc)
<1>2. Raw = [c EXCEPT !.hwdevice = "raw"]
  BY DEF Raw
<1>3. Closed(c) /\ c.ctx = NoCtx
  BY <1>1
<1> HIDE DEF c
<1> QED BY <1>2, <1>3 DEF Closed, Sound, Fresh, Labelled, Encoders

LEMMA ClosedInUse == ASSUME NEW e, Closed(e) PROVE e.hwd_type_cur = InUse(e)
BY DEF Closed, InUse

LEMMA ContextTyped ==
    ASSUME NEW codec \in Codecs, NEW maker \in Makers, NEW format \in Formats, NEW open \in BOOLEAN
    PROVE  Context(codec, maker, format, open) \in Contexts
BY DEF Context, Contexts

LEMMA TriedOpens ==
    ASSUME NEW e, Closed(e), NEW codec \in Codecs, NEW maker \in Hardware,
           NEW format \in Formats, NEW x \in Tried(e, codec, maker, format)
    PROVE  Opening(x, maker, format)
<1>1. CASE x = e
  BY <1>1 DEF Opening, Closed, Sound
<1>2. ASSUME NEW ok \in BOOLEAN,
             x = [CloseEncoder(e) EXCEPT
                    !.ctx = Context(codec, maker, format, ok), !.enc_type_cur = codec,
                    !.hwdevice = IF ok THEN "ready" ELSE "raw",
                    !.payload_type = IF ok THEN codec ELSE @]
      PROVE  Opening(x, maker, format)
  <2> DEFINE c == CloseEncoder(e)
  <2>1. c \in Encoders /\ Labelled(c) /\ c.hwd_type_cur = "None" /\ Fresh(c)
    BY CloseEncoderSound DEF Closed
  <2>2. Context(codec, maker, format, ok) \in Contexts
    BY <1>2, ContextTyped DEF Hardware, Makers
  <2> HIDE DEF c
  <2>3. x \in Encoders
    BY <1>2, <2>1, <2>2 DEF Encoders, Codecs, c
  <2>4. /\ x.ctx = Context(codec, maker, format, ok) /\ x.pushed = c.pushed
        /\ x.enc_type_cur = codec /\ x.hwd_type_cur = "None" /\ Fresh(x)
        /\ ok => x.payload_type = codec
    BY <1>2, <2>1 DEF Encoders, Fresh, c
  <2> QED BY <2>1, <2>3, <2>4 DEF Opening, Labelled, Context
<1> QED BY <1>1, <1>2 DEF Tried

\* what could not be opened is sound: its context is closed
LEMMA NotOpened ==
    ASSUME NEW e, NEW maker, NEW format, Opening(e, maker, format), ~e.ctx.open
    PROVE  Closed(e)
BY DEF Opening, Sound, Closed

LEMMA InitHwdeviceOpens ==
    ASSUME NEW e, Closed(e), NEW maker \in Hardware, NEW format \in Formats,
           NEW x \in InitHwdevice(e, maker, format)
    PROVE  Opening(x, maker, format)
<1>1. CASE enc_type_user = "Auto"
  <2> DEFINE first == Tried(e, "HEVC", maker, format)
  <2>1. \A y \in first : Opening(y, maker, format)
    BY TriedOpens DEF Codecs
  <2>2. CASE x \in first
    BY <2>1, <2>2
  <2>3. ASSUME NEW y \in first, ~y.ctx.open, x \in Tried(y, "H264", maker, format)
        PROVE  Opening(x, maker, format)
    <3>1. Closed(y)
      BY <2>1, <2>3, NotOpened
    <3> QED BY <2>3, <3>1, TriedOpens DEF Codecs
  <2>4. x \in {y \in first : y.ctx.open} \cup
             UNION {Tried(y, "H264", maker, format) : y \in {z \in first : ~z.ctx.open}}
    <3>1. "Auto" \notin Codecs
      BY DEF Codecs
    <3> QED BY <1>1, <3>1, Zenon DEF InitHwdevice
  <2> HIDE DEF first
  <2> QED BY <2>2, <2>3, <2>4
<1>2. CASE enc_type_user \in Codecs
  <2>1. x \in Tried(e, enc_type_user, maker, format)
    BY <1>2 DEF InitHwdevice, Codecs
  <2> QED BY <1>2, <2>1, TriedOpens
<1>3. CASE enc_type_user # "Auto" /\ enc_type_user \notin Codecs
  <2>1. x = e
    BY <1>3 DEF InitHwdevice
  <2> QED BY <2>1 DEF Opening, Closed, Sound
<1> QED BY <1>1, <1>2, <1>3

\* without an encoder type nothing is opened
LEMMA NoneOpensNothing ==
    ASSUME NEW e, ~e.ctx.open, enc_type_user = "None", NEW maker, NEW format,
           NEW x \in InitHwdevice(e, maker, format)
    PROVE  ~x.ctx.open
BY DEF InitHwdevice, Codecs

\* hardware that opened is sound once its type and format are written
LEMMA OpenedSound ==
    ASSUME NEW x, NEW maker \in Hardware, packet.format \in Formats,
           Opening(x, maker, packet.format), x.ctx.open, NEW type \in HWDType
    PROVE  /\ Sound(Choose(x, type)) /\ Choose(x, type).ctx = x.ctx /\ Fresh(Choose(x, type))
           /\ Choose(x, type).hwd_type_cur = type /\ Choose(x, type).format = packet.format
           /\ InUse(Choose(x, type)) = maker
<1> DEFINE y == Choose(x, type)
<1>1. y \in Encoders
  BY DEF Opening, Encoders, Choose
<1>2. /\ y.ctx = x.ctx /\ y.pushed = x.pushed /\ y.payload_type = x.payload_type
      /\ y.enc_type_cur = x.enc_type_cur /\ y.hwd_type_cur = type /\ y.format = packet.format
      /\ y.sw_frame = x.sw_frame /\ y.lent = x.lent /\ y.other = x.other
  BY DEF Opening, Encoders, Choose
<1> HIDE DEF y
<1>3. Sound(y) /\ Fresh(y)
  BY <1>1, <1>2 DEF Opening, Sound, Labelled, Fresh
<1>4. InUse(y) = maker
  BY <1>2 DEF Opening, InUse, Hw, Hardware
<1> QED BY <1>2, <1>3, <1>4 DEF y

LEMMA InitSoftwareSound ==
    ASSUME NEW e, Sound(e), NEW codec \in Codecs, NEW format \in Formats,
           NEW x \in InitSoftware(e, codec, format)
    PROVE  /\ Sound(x) /\ ~x.ctx.drained /\ Fresh(x)
           /\ x.hwd_type_cur = "None" /\ ~Hw(x.ctx)
           /\ x.ctx # NoCtx => x.format = format
<1> DEFINE c == CloseCtx(e)
           l == [c EXCEPT !.enc_type_cur = codec, !.payload_type = codec]
<1>1. Closed(c) /\ c.ctx = NoCtx
  BY CloseCtxSound
<1>lists. x = l \/ \E ok \in BOOLEAN :
             x = [l EXCEPT !.ctx = Context(codec, "software", format, ok), !.format = format]
  BY DEF InitSoftware
<1> HIDE DEF c
<1>2. /\ l \in Encoders /\ l.ctx = NoCtx /\ l.hwd_type_cur = "None" /\ Fresh(l)
      /\ l.pushed = c.pushed /\ l.enc_type_cur = codec /\ l.payload_type = codec
  BY <1>1 DEF Closed, Sound, Fresh, Encoders, Codecs
<1> HIDE DEF l
<1>3. CASE x = l
  BY <1>1, <1>2, <1>3, NoCtxTyped DEF Closed, Sound, Labelled, Hw
<1>4. ASSUME NEW ok \in BOOLEAN,
             x = [l EXCEPT !.ctx = Context(codec, "software", format, ok), !.format = format]
      PROVE  /\ Sound(x) /\ ~x.ctx.drained /\ Fresh(x)
             /\ x.hwd_type_cur = "None" /\ ~Hw(x.ctx) /\ x.format = format
  <2>1. Context(codec, "software", format, ok) \in Contexts
    BY <1>4, ContextTyped DEF Makers
  <2>2. x \in Encoders
    BY <1>2, <1>4, <2>1 DEF Encoders
  <2>3. /\ x.ctx = Context(codec, "software", format, ok) /\ x.format = format
        /\ x.pushed = l.pushed /\ x.hwd_type_cur = "None" /\ Fresh(x)
        /\ x.enc_type_cur = codec /\ x.payload_type = codec
    BY <1>2, <1>4 DEF Encoders, Fresh
  <2> QED BY <1>1, <1>2, <2>2, <2>3 DEF Closed, Sound, Labelled, Context, Hw
<1> QED BY <1>3, <1>4, <1>lists

(***************************************************************************)
(* Steps                                                                   *)
(***************************************************************************)
Rest ==
    /\ pc' \in {"top", "waiting", "locking", "queue", "parked", "crashed"} \cup Stages
    /\ packet' \in [format : Formats \cup {NoFormat}, rate : BOOLEAN]
    /\ enc_type_user' \in EncoderType /\ hwd_type_user' \in HWDType
    /\ use_hw_flag' \in BOOLEAN /\ _queue' \in BOOLEAN
    /\ stopped' \in BOOLEAN /\ careful' \in BOOLEAN
    /\ sent' \in Frames
    /\ pc' \in Stages \ {"failed"} => packet'.format \in Formats

\* what is left to show once the variables but enc are typed
LEMMA Together ==
    ASSUME Rest, Good', Known', QueueHeld', enc'.ctx.drained => stopped',
           enc'.ctx.open /\ Pause' => stopped'
    PROVE  IInv'
<1>1. enc' \in Encoders
  BY DEF Good, Sound, Opening
<1> QED BY <1>1 DEF Rest, IInv, TypeOK, StoppedKnown, DrainedOnlyWhenStopped

\* a record that is sound and knows its hardware is enough outside two stages
LEMMA Enough ==
    ASSUME Rest, Sound(enc'), careful => enc'.hwd_type_cur = InUse(enc)', UNCHANGED careful,
           pc' \notin {"init", "chosen"},
           QueueHeld', enc'.ctx.drained => stopped', enc'.ctx.open /\ Pause' => stopped'
    PROVE  IInv'
BY Together DEF Good, Known

LEMMA SoundNow == ASSUME IInv, pc # "chosen" PROVE Sound(enc)
BY DEF IInv, Good

\* steps that leave the record, and what is known of it, alone
LEMMA SameRecord ==
    ASSUME IInv, Rest, UNCHANGED <<enc, enc_type_user, _queue, stopped, careful>>,
           pc \notin {"init", "chosen"}, pc' \notin {"init", "chosen"}, QueueHeld'
    PROVE  IInv'
<1>1. enc'.ctx.drained => stopped'
  BY DEF IInv, DrainedOnlyWhenStopped
<1>2. enc'.ctx.open /\ Pause' => stopped'
  BY DEF IInv, StoppedKnown, Pause
<1>3. Sound(enc') /\ (careful => enc'.hwd_type_cur = InUse(enc)')
  BY DEF IInv, Good, Known, InUse
<1> QED BY <1>1, <1>2, <1>3, Enough

LEMMA TopInv == ASSUME IInv, Top PROVE IInv'
<1>1. Rest /\ QueueHeld'
  BY DEF IInv, TypeOK, Top, settings, Rest, QueueHeld, Encoding, Stages
<1>0. pc' \notin {"init", "chosen"} /\ Sound(enc) /\ UNCHANGED <<careful, stopped, settings, _queue>>
  BY SoundNow DEF Top
<1>2. CASE Pause /\ enc' = Flush(enc)
  <2>2. Sound(enc') /\ Like(enc', enc)
    BY <1>0, <1>2, FlushSound
  <2>3. enc'.ctx.open => stopped
    BY <1>2, <2>2 DEF IInv, StoppedKnown, Like
  <2>4. enc'.ctx.drained => stopped
    BY <2>2, <2>3 DEF Sound
  <2>5. careful => enc'.hwd_type_cur = InUse(enc)'
    BY <2>2, LikeInUse DEF IInv, Known, Top, Like
  <2> QED BY <1>0, <1>1, <2>2, <2>3, <2>4, <2>5, Enough
<1>3. CASE UNCHANGED enc
  BY <1>0, <1>1, <1>3, SameRecord DEF Top, settings
<1> QED BY <1>2, <1>3 DEF Top

LEMMA WaitInv == ASSUME IInv, WaitForResource \/ LockQueue PROVE IInv'
<1>1. Rest
  BY DEF IInv, TypeOK, WaitForResource, LockQueue, settings, Rest, Stages
<1>2. QueueHeld'
  BY DEF IInv, QueueHeld, Encoding, WaitForResource, LockQueue, Stages
<1>3. UNCHANGED <<enc, enc_type_user, _queue, stopped, careful>>
      /\ pc \notin {"init", "chosen"} /\ pc' \notin {"init", "chosen"}
  BY DEF WaitForResource, LockQueue, settings
<1> QED BY <1>1, <1>2, <1>3, SameRecord

\* steps that forget the packets of the last one
LEMMA ForgetInv ==
    ASSUME IInv, Rest, QueueHeld', enc' = [enc EXCEPT !.pushed = {}],
           UNCHANGED <<settings, _queue, stopped, careful>>,
           pc \notin {"init", "chosen"}, pc' \notin {"init", "chosen"}
    PROVE  IInv'
<1>1. Sound(enc') /\ Like(enc', enc) /\ enc'.ctx = enc.ctx
  BY SoundNow, ForgetSound
<1>2. careful => enc'.hwd_type_cur = InUse(enc)'
  BY <1>1, LikeInUse DEF IInv, Known, Like
<1>3. enc'.ctx.drained => stopped'
  BY <1>1 DEF IInv, DrainedOnlyWhenStopped
<1>4. enc'.ctx.open /\ Pause' => stopped'
  BY <1>1 DEF IInv, StoppedKnown, Pause, settings
<1> QED BY <1>1, <1>2, <1>3, <1>4, Enough

LEMMA QueueInv == ASSUME IInv, Wake \/ QueueEmpty \/ TakePacket PROVE IInv'
<1>1. CASE Wake
  <2>1. Rest /\ QueueHeld'
    BY <1>1 DEF IInv, TypeOK, Wake, settings, Rest, QueueHeld, Encoding, Stages
  <2> QED BY <1>1, <2>1, ForgetInv DEF Wake
<1>2. CASE QueueEmpty
  <2>1. Rest /\ QueueHeld'
    BY <1>2, NotSentTyped DEF IInv, TypeOK, QueueEmpty, settings, Rest, QueueHeld, Encoding, Stages
  <2> QED BY <1>2, <2>1, ForgetInv DEF QueueEmpty
<1>3. CASE TakePacket
  <2>1. packet' \in [format : Formats \cup {NoFormat}, rate : BOOLEAN]
        /\ packet'.format \in Formats
    BY <1>3 DEF TakePacket
  <2>2. Rest /\ QueueHeld'
    BY <1>3, <2>1, NotSentTyped
    DEF IInv, TypeOK, TakePacket, settings, Rest, QueueHeld, Encoding, Stages
  <2> QED BY <1>3, <2>2, ForgetInv DEF TakePacket
<1> QED BY <1>1, <1>2, <1>3

LEMMA TestInv == ASSUME IInv, TestHardware \/ TestSame PROVE IInv'
<1>1. Rest /\ QueueHeld'
  BY DEF IInv, TypeOK, TestHardware, TestSame, settings, Rest, QueueHeld, Encoding, Stages
<1>2. /\ UNCHANGED <<enc, enc_type_user, _queue, stopped, careful>>
      /\ pc \notin {"init", "chosen"} /\ pc' \notin {"init", "chosen"}
  BY DEF TestHardware, TestSame, settings
<1> QED BY <1>1, <1>2, SameRecord

LEMMA TestAutoInv == ASSUME IInv, TestAuto PROVE IInv'
<1>1. Rest /\ QueueHeld'
  BY DEF IInv, TypeOK, TestAuto, settings, Rest, QueueHeld, Encoding, Stages
<1>2. /\ UNCHANGED <<enc_type_user, _queue, stopped, careful>> /\ pc = "auto"
      /\ pc' \notin {"init", "chosen"} /\ Sound(enc)
  BY SoundNow DEF TestAuto, settings
<1>3. CASE UNCHANGED enc
  BY <1>1, <1>2, <1>3, SameRecord
<1>4. CASE enc' = [enc EXCEPT !.other = @ \/ enc.format # packet.format]
  <2>1. (enc.other \/ enc.format # packet.format) \in BOOLEAN
    OBVIOUS
  <2>2. /\ enc' \in Encoders /\ enc'.ctx = enc.ctx /\ enc'.pushed = enc.pushed
        /\ enc'.payload_type = enc.payload_type /\ enc'.enc_type_cur = enc.enc_type_cur
        /\ enc'.hwd_type_cur = enc.hwd_type_cur /\ enc'.format = enc.format
    BY <1>2, <1>4, <2>1 DEF Sound, Encoders
  <2>3. Sound(enc')
    BY <1>2, <2>2 DEF Sound, Labelled
  <2>4. careful => enc'.hwd_type_cur = InUse(enc)'
    BY <1>2, <2>2 DEF IInv, Known, InUse
  <2>5. enc'.ctx.drained => stopped'
    BY <1>2, <2>2 DEF IInv, DrainedOnlyWhenStopped
  <2>6. enc'.ctx.open /\ Pause' => stopped'
    BY <1>2, <2>2 DEF IInv, StoppedKnown, Pause
  <2> QED BY <1>1, <1>2, <2>3, <2>4, <2>5, <2>6, Enough
<1> QED BY <1>3, <1>4 DEF TestAuto

\* a record that is closed is enough everywhere but at the choice
LEMMA ClosedEnough ==
    ASSUME Rest, QueueHeld', Closed(enc'), pc' # "chosen"
    PROVE  IInv'
<1>1. ~enc'.ctx.open /\ ~enc'.ctx.drained
  BY DEF Closed, Sound
<1>2. Good' /\ Known'
  BY ClosedInUse DEF Good, Known, Closed
<1> QED BY <1>1, <1>2, Together

LEMMA OpenDeviceInv == ASSUME IInv, OpenDevice PROVE IInv'
<1>0. pc = "device" /\ Sound(enc) /\ packet.format \in Formats /\ UNCHANGED <<careful, packet>>
  BY SoundNow DEF IInv, TypeOK, OpenDevice, Stages
<1>1. FALSE \in BOOLEAN /\ "None" \in HWDType
  BY DEF HWDType
<1>2. use_hw_flag' \in BOOLEAN /\ stopped' \in BOOLEAN
  BY <1>1, Zenon DEF IInv, TypeOK, OpenDevice
<1>3. Rest /\ QueueHeld'
  BY <1>0, <1>1, <1>2 DEF IInv, TypeOK, OpenDevice, Rest, QueueHeld, Encoding, Stages
<1>4. CASE enc' = CloseCtx(enc) \/ enc' = Raw
  BY <1>0, <1>3, <1>4, CloseCtxSound, RawClosed, ClosedEnough DEF OpenDevice
<1>5. CASE hwd_type_user = "Auto"
  <2>1. PICK x \in InitHwdevice(Raw, "NVIDIA", packet.format) :
           \/ x.ctx.open /\ enc' = Choose(x, "NVIDIA") /\ pc' = "frame" /\ stopped' = FALSE
           \/ ~x.ctx.open /\ enc' = x /\ pc' = "software" /\ UNCHANGED stopped
    BY <1>5 DEF OpenDevice
  <2>2. Opening(x, "NVIDIA", packet.format)
    BY <1>0, RawClosed, InitHwdeviceOpens DEF Hardware
  <2>3. CASE ~x.ctx.open /\ enc' = x /\ pc' = "software"
    BY <1>3, <2>2, <2>3, NotOpened, ClosedEnough
  <2>4. CASE x.ctx.open /\ enc' = Choose(x, "NVIDIA") /\ pc' = "frame"
    <3>1. /\ Sound(enc') /\ enc'.ctx = x.ctx
          /\ enc'.hwd_type_cur = "NVIDIA" /\ InUse(enc') = "NVIDIA"
      BY <1>0, <2>2, <2>4, OpenedSound DEF Hardware, HWDType
    <3>2. ~enc'.ctx.drained
      BY <2>2, <3>1 DEF Opening
    <3>3. enc_type_user # "None"
      BY <1>0, <2>4, NoneOpensNothing, RawClosed, NoCtxTyped
    <3>4. enc_type_user' # "None" /\ _queue'
      BY <3>3 DEF OpenDevice, IInv, QueueHeld, Encoding, Stages
    <3> QED BY <1>0, <1>3, <2>4, <3>1, <3>2, <3>4, Enough DEF Pause
  <2> QED BY <2>1, <2>3, <2>4
<1> QED BY <1>4, <1>5 DEF OpenDevice

LEMMA InitDeviceInv == ASSUME IInv, InitDevice PROVE IInv'
<1>0. /\ pc = "init" /\ Closed(enc) /\ packet.format \in Formats
      /\ UNCHANGED <<careful, packet, enc_type_user>>
  BY DEF IInv, Good, TypeOK, InitDevice, Stages
<1>1. FALSE \in BOOLEAN /\ "None" \in HWDType
  BY DEF HWDType
<1>2. stopped' \in BOOLEAN
  BY <1>1, Zenon DEF IInv, TypeOK, InitDevice
<1>3. Rest /\ QueueHeld'
  BY <1>0, <1>1, <1>2 DEF IInv, TypeOK, InitDevice, Rest, QueueHeld, Encoding, Stages
<1>4. CASE UNCHANGED enc /\ pc' = "software"
  BY <1>0, <1>3, <1>4, ClosedEnough
<1>5. CASE hwd_type_user \in {"QSV", "NVIDIA"} /\ UNCHANGED hwd_type_user
  <2>1. PICK x \in InitHwdevice(enc, hwd_type_user, packet.format) :
           \/ x.ctx.open /\ enc' = x /\ pc' = "chosen" /\ stopped' = FALSE
           \/ ~x.ctx.open /\ enc' = x /\ pc' = "software" /\ UNCHANGED stopped
    BY <1>5 DEF InitDevice
  <2>2. Opening(x, hwd_type_user, packet.format)
    BY <1>0, <1>5, InitHwdeviceOpens DEF Hardware
  <2>3. CASE ~x.ctx.open /\ enc' = x /\ pc' = "software"
    BY <1>3, <2>2, <2>3, NotOpened, ClosedEnough
  <2>4. CASE x.ctx.open /\ enc' = x /\ pc' = "chosen"
    <3>1. x.ctx.maker = hwd_type_user
      BY <2>2, <2>4 DEF Opening
    <3>2. Good'
      BY <1>0, <1>5, <2>2, <2>4, <3>1 DEF Good, Hardware
    <3>3. Known'
      BY <1>5, <2>4, <3>1 DEF Known
    <3>4. ~enc'.ctx.drained
      BY <2>2, <2>4 DEF Opening
    <3>5. enc_type_user # "None"
      BY <1>0, <2>4, NoneOpensNothing DEF Closed
    <3>6. enc_type_user' # "None" /\ _queue'
      BY <1>0, <3>5 DEF InitDevice, IInv, QueueHeld, Encoding, Stages
    <3> QED BY <1>3, <3>2, <3>3, <3>4, <3>6, Together DEF Pause
  <2> QED BY <2>1, <2>3, <2>4
<1> QED BY <1>4, <1>5 DEF InitDevice

LEMMA ChooseDeviceInv == ASSUME IInv, ChooseDevice PROVE IInv'
<1>0. /\ pc = "chosen" /\ pc' = "frame" /\ packet.format \in Formats
      /\ Opening(enc, enc.ctx.maker, packet.format) /\ enc.ctx.open
      /\ enc.ctx.maker \in Hardware /\ hwd_type_user \in HWDType
      /\ enc' = Choose(enc, hwd_type_user)
      /\ UNCHANGED <<enc_type_user, hwd_type_user, _queue, stopped, careful>>
  BY DEF IInv, Good, TypeOK, ChooseDevice, Stages, settings
<1>1. Rest /\ QueueHeld'
  BY DEF IInv, TypeOK, ChooseDevice, settings, Rest, QueueHeld, Encoding, Stages
<1>2. /\ Sound(enc') /\ enc'.ctx = enc.ctx
      /\ enc'.hwd_type_cur = hwd_type_user /\ InUse(enc') = enc.ctx.maker
  BY <1>0, OpenedSound
<1>3. careful => enc'.hwd_type_cur = InUse(enc)'
  BY <1>0, <1>2 DEF IInv, Known
<1>4. enc'.ctx.drained => stopped'
  BY <1>0, <1>2 DEF Opening
<1>5. enc'.ctx.open /\ Pause' => stopped'
  BY <1>0, <1>2 DEF IInv, StoppedKnown, Pause
<1> QED BY <1>0, <1>1, <1>2, <1>3, <1>4, <1>5, Enough

\* what is left when the hardware is given up
LEMMA NoHardwareSound ==
    ASSUME Sound(enc)
    PROVE  /\ Sound(NoHardware) /\ NoHardware.hwd_type_cur = "None"
           /\ NoHardware = enc \/ (Closed(NoHardware) /\ NoHardware.ctx = NoCtx)
BY CloseCtxSound DEF NoHardware, Closed

LEMMA SetSwEncoderCtxInv == ASSUME IInv, SetSwEncoderCtx PROVE IInv'
<1>0. /\ pc = "software" /\ pc' \in {"frame", "failed"} /\ packet.format \in Formats
      /\ Sound(enc) /\ UNCHANGED <<packet, enc_type_user, _queue, careful>>
  BY SoundNow DEF IInv, TypeOK, SetSwEncoderCtx, Stages
<1>1. FALSE \in BOOLEAN /\ "None" \in HWDType
  BY DEF HWDType
<1>2. stopped' \in BOOLEAN /\ use_hw_flag' \in BOOLEAN
  BY <1>1, Zenon DEF IInv, TypeOK, SetSwEncoderCtx
<1>3. Rest /\ QueueHeld'
  BY <1>0, <1>1, <1>2 DEF IInv, TypeOK, SetSwEncoderCtx, Rest, QueueHeld, Encoding, Stages
<1>4. /\ Sound(NoHardware) /\ NoHardware.hwd_type_cur = "None"
      /\ NoHardware = enc \/ (Closed(NoHardware) /\ NoHardware.ctx = NoCtx)
  BY <1>0, NoHardwareSound
<1>7. CASE enc' = NoHardware /\ UNCHANGED stopped
  <2>1. CASE enc' = enc
    <3>1. careful => enc'.hwd_type_cur = InUse(enc)'
      BY <1>0, <2>1 DEF IInv, Known, InUse
    <3>2. enc'.ctx.drained => stopped'
      BY <1>7, <2>1 DEF IInv, DrainedOnlyWhenStopped
    <3>3. enc'.ctx.open /\ Pause' => stopped'
      BY <1>0, <1>7, <2>1 DEF IInv, StoppedKnown, Pause
    <3> QED BY <1>0, <1>3, <2>1, <3>1, <3>2, <3>3, Enough
  <2>2. CASE Closed(enc')
    BY <1>0, <1>3, <2>2, ClosedEnough
  <2> QED BY <1>4, <1>7, <2>1, <2>2
<1>8. CASE enc' = CloseCtx(NoHardware)
  BY <1>0, <1>3, <1>4, <1>8, CloseCtxSound, ClosedEnough
<1>9. CASE /\ enc_type_user # "None"
           /\ enc' \in InitSoftware(NoHardware, SoftwareCodec, packet.format)
  <2>1. SoftwareCodec \in Codecs
    BY DEF SoftwareCodec, Codecs
  <2>2. /\ Sound(enc') /\ ~enc'.ctx.drained
        /\ enc'.hwd_type_cur = "None" /\ ~Hw(enc'.ctx)
    BY <1>0, <1>4, <1>9, <2>1, InitSoftwareSound
  <2>3. enc'.hwd_type_cur = InUse(enc)'
    BY <2>2 DEF InUse
  <2>4. enc_type_user' # "None" /\ _queue'
    BY <1>0, <1>9 DEF IInv, QueueHeld, Encoding, Stages
  <2> QED BY <1>0, <1>3, <2>2, <2>3, <2>4, Enough DEF Pause
<1> QED BY <1>7, <1>8, <1>9 DEF SetSwEncoderCtx

LEMMA NoPacketTyped == NoPacket \in [format : Formats \cup {NoFormat}, rate : BOOLEAN]
BY DEF NoPacket

LEMMA FailInv == ASSUME IInv, Fail PROVE IInv'
<1>1. Rest /\ QueueHeld' /\ Sound(enc) /\ enc' = CloseCtx(enc) /\ pc' = "queue"
  BY NoPacketTyped, SoundNow
  DEF IInv, TypeOK, Fail, Rest, EncoderType, QueueHeld, Encoding, Stages
<1> QED BY <1>1, CloseCtxSound, ClosedEnough

\* the frame an open context is given is typed
LEMMA SwFrameTyped ==
    ASSUME Sound(enc), enc.ctx.open
    PROVE  SwFrame \in Formats /\ enc.format = enc.ctx.format /\ enc.format \in Formats
<1>1. enc.format = enc.ctx.format /\ enc.format \in Formats
  BY DEF Sound
<1>2. CASE enc.sw_frame = NoFormat
  BY <1>1, <1>2 DEF SwFrame, AllocFrame, Formats
<1>3. CASE enc.sw_frame # NoFormat
  BY <1>3 DEF SwFrame, Sound, Encoders
<1> QED BY <1>1, <1>2, <1>3

\* filling a frame changes nothing of the context or of its labels
LEMMA FilledSound ==
    ASSUME Sound(enc), enc.ctx.open, NEW lent \in BOOLEAN,
           enc' = [enc EXCEPT !.sw_frame = SwFrame, !.lent = lent]
    PROVE  /\ Sound(enc') /\ enc'.ctx = enc.ctx /\ enc'.hwd_type_cur = enc.hwd_type_cur
           /\ enc'.sw_frame = SwFrame /\ enc'.lent = lent
           /\ enc'.format = enc.format /\ enc'.other = enc.other
<1>1. /\ enc' \in Encoders /\ enc'.ctx = enc.ctx /\ enc'.hwd_type_cur = enc.hwd_type_cur
      /\ enc'.pushed = enc.pushed /\ enc'.payload_type = enc.payload_type
      /\ enc'.enc_type_cur = enc.enc_type_cur /\ enc'.format = enc.format
      /\ enc'.sw_frame = SwFrame /\ enc'.lent = lent /\ enc'.other = enc.other
  BY SwFrameTyped DEF Sound, Encoders
<1> QED BY <1>1 DEF Sound, Labelled

LEMMA FillFrameInv == ASSUME IInv, FillFrame PROVE IInv'
<1>1. /\ pc = "frame" /\ Sound(enc) /\ packet.format \in Formats
      /\ pc' \in {"queue", "send"} /\ UNCHANGED <<enc_type_user, _queue, stopped, careful>>
      /\ UNCHANGED settings
  BY SoundNow DEF IInv, TypeOK, FillFrame, settings, Stages
<1>2. QueueHeld'
  BY DEF IInv, QueueHeld, Encoding, FillFrame, Stages
<1>3. CASE UNCHANGED <<enc, sent>> /\ packet' = NoPacket /\ pc' = "queue"
  <2>1. Rest
    BY <1>1, <1>3, NoPacketTyped DEF IInv, TypeOK, FillFrame, settings, Rest, Stages
  <2> QED BY <1>1, <1>2, <1>3, <2>1, SameRecord
<1>4. CASE /\ enc.ctx.open
           /\ enc' = [enc EXCEPT !.sw_frame = SwFrame, !.lent = @ \/ Lends]
           /\ sent' = [hw |-> FALSE, wants |-> FALSE, data |-> Data, frame |-> SwFrame,
                       stale |-> ~Lends /\ enc.lent]
           /\ UNCHANGED packet
  <2>1. (enc.lent \/ Lends) \in BOOLEAN /\ (~Lends /\ enc.lent) \in BOOLEAN
    OBVIOUS
  <2>2. Data \in Formats \cup {NoFormat} /\ SwFrame \in Formats \cup {NoFormat}
    BY <1>1, <1>4, SwFrameTyped DEF Data
  <2>3. FALSE \in BOOLEAN
    OBVIOUS
  <2>4. sent' \in Frames
    BY <1>4, <2>1, <2>2, <2>3, Zenon DEF Frames
  <2>5. Rest
    BY <1>1, <1>4, <2>4 DEF IInv, TypeOK, FillFrame, settings, Rest, Stages
  <2>6. /\ Sound(enc') /\ enc'.ctx = enc.ctx /\ enc'.hwd_type_cur = enc.hwd_type_cur
    BY <1>1, <1>4, <2>1, FilledSound
  <2>7. careful => enc'.hwd_type_cur = InUse(enc)'
    BY <1>1, <2>6 DEF IInv, Known, InUse
  <2>8. enc'.ctx.drained => stopped'
    BY <1>1, <2>6 DEF IInv, DrainedOnlyWhenStopped
  <2>9. enc'.ctx.open /\ Pause' => stopped'
    BY <1>1, <2>6 DEF IInv, StoppedKnown, Pause
  <2> QED BY <1>1, <1>2, <2>5, <2>6, <2>7, <2>8, <2>9, Enough
<1> QED BY <1>3, <1>4 DEF FillFrame

\* what the codec returns is labelled with its own type and format
LEMMA EncodedSound ==
    ASSUME NEW e, Sound(e), e.ctx.open, Encoded(e)
    PROVE  Sound(enc') /\ Like(enc', e) /\ enc'.ctx.drained = e.ctx.drained
<1>1. CASE enc' = e
  BY <1>1 DEF Like
<1>2. ASSUME NEW keeps \in BOOLEAN, NEW returns \in BOOLEAN,
             enc' = [e EXCEPT !.ctx = [@ EXCEPT !.held = keeps],
                              !.pushed = IF returns THEN @ \cup {Label(e)} ELSE @]
      PROVE  Sound(enc') /\ Like(enc', e) /\ enc'.ctx.drained = e.ctx.drained
  <2> DEFINE c == [e.ctx EXCEPT !.held = keeps]
             p == IF returns THEN e.pushed \cup {Label(e)} ELSE e.pushed
  <2>1. keeps \in BOOLEAN
    BY <1>2
  <2>2. /\ c \in Contexts /\ c.open = e.ctx.open /\ c.maker = e.ctx.maker
        /\ c.codec = e.ctx.codec /\ c.format = e.ctx.format /\ c.drained = e.ctx.drained
    BY <2>1 DEF Sound, Encoders, Contexts
  <2>3. /\ Label(e) \in Labels
        /\ Label(e).payload_type = Label(e).codec /\ Label(e).format = Label(e).of
    BY DEF Sound, Encoders, Contexts, Labels, Label
  <2>4. p \in SUBSET Labels /\ \A l \in p : l.payload_type = l.codec /\ l.format = l.of
    BY <2>3 DEF Sound, Encoders, Labelled
  <2>5. enc' = [e EXCEPT !.ctx = c, !.pushed = p]
    BY <1>2 DEF Sound, Encoders
  <2> HIDE DEF c, p
  <2>6. /\ enc' \in Encoders /\ enc'.ctx = c /\ enc'.pushed = p
        /\ enc'.hwd_type_cur = e.hwd_type_cur /\ enc'.enc_type_cur = e.enc_type_cur
        /\ enc'.payload_type = e.payload_type /\ enc'.format = e.format
        /\ enc'.sw_frame = e.sw_frame /\ enc'.lent = e.lent /\ enc'.other = e.other
    BY <2>2, <2>4, <2>5 DEF Sound, Encoders
  <2> QED BY <2>2, <2>4, <2>6 DEF Sound, Labelled, Like
<1> QED BY <1>1, <1>2 DEF Encoded

LEMMA EncodeFrameInv ==
    ASSUME IInv, SendsOpen, EncodeFrame
    PROVE  IInv'
<1>1. /\ Sound(enc) /\ enc.ctx.open /\ pc = "send" /\ pc' = "queue" /\ packet' = NoPacket
      /\ UNCHANGED <<enc_type_user, _queue, stopped, careful>>
  BY SoundNow DEF EncodeFrame, settings, SendsOpen
<1>2. QueueHeld'
  BY DEF IInv, QueueHeld, Encoding, EncodeFrame, Stages
<1>3. CASE UNCHANGED <<enc, sent>>
  <2>1. Rest
    BY <1>1, <1>3, NoPacketTyped DEF IInv, TypeOK, EncodeFrame, settings, Rest, Stages
  <2> QED BY <1>1, <1>2, <1>3, <2>1, SameRecord
<1>4. CASE /\ Encoded(enc)
           /\ sent' = [sent EXCEPT !.hw = use_hw_flag, !.wants = Hw(enc.ctx)]
  <2>1. use_hw_flag \in BOOLEAN /\ Hw(enc.ctx) \in BOOLEAN /\ sent \in Frames
    BY DEF IInv, TypeOK, Hw
  <2>2. sent' \in Frames
    BY <1>4, <2>1 DEF Frames
  <2>3. Rest
    BY <1>1, <2>2, NoPacketTyped DEF IInv, TypeOK, EncodeFrame, settings, Rest, Stages
  <2>4. Sound(enc') /\ Like(enc', enc) /\ enc'.ctx.drained = enc.ctx.drained
    BY <1>1, <1>4, EncodedSound
  <2>5. careful => enc'.hwd_type_cur = InUse(enc)'
    BY <1>1, <2>4, LikeInUse DEF IInv, Known, Like
  <2>6. enc'.ctx.drained => stopped'
    BY <1>1, <2>4 DEF IInv, DrainedOnlyWhenStopped
  <2>7. enc'.ctx.open /\ Pause' => stopped'
    BY <1>1, <2>4 DEF IInv, StoppedKnown, Pause, Like
  <2> QED BY <1>1, <1>2, <2>3, <2>4, <2>5, <2>6, <2>7, Enough
<1> QED BY <1>3, <1>4 DEF EncodeFrame

\* the setters leave the record alone
LEMMA Setter ==
    ASSUME IInv, Rest, UNCHANGED <<pc, packet, enc, careful>>,
           Encoding => UNCHANGED _queue, pc = "queue" => UNCHANGED _queue,
           careful /\ pc = "chosen" => UNCHANGED hwd_type_user,
           stopped => stopped', Pause' => Pause \/ stopped'
    PROVE  IInv'
<1>1. Good'
  BY DEF IInv, Good, Sound, Closed, Opening, Labelled, Fresh
<1>2. Known'
  BY DEF IInv, Known, InUse, Hw
<1>3. QueueHeld'
  BY DEF IInv, QueueHeld, Encoding
<1>4. enc'.ctx.drained => stopped'
  BY DEF IInv, DrainedOnlyWhenStopped
<1>5. enc'.ctx.open /\ Pause' => stopped'
  BY DEF IInv, StoppedKnown
<1> QED BY <1>1, <1>2, <1>3, <1>4, <1>5, Together

LEMMA SettersInv ==
    ASSUME IInv, SetEncoderType \/ SetHardwareAcceleration \/ SetInputQueue
    PROVE  IInv'
<1>1. CASE SetEncoderType
  <2>1. (stopped \/ enc_type_user' = "None") \in BOOLEAN
    OBVIOUS
  <2>2. stopped' \in BOOLEAN
    BY <1>1, <2>1, Zenon DEF SetEncoderType
  <2>3. Rest
    BY <1>1, <2>2 DEF IInv, TypeOK, SetEncoderType, Rest
  <2> QED BY <1>1, <2>3, Setter DEF SetEncoderType, Pause
<1>2. CASE SetHardwareAcceleration
  <2>1. Rest
    BY <1>2 DEF IInv, TypeOK, SetHardwareAcceleration, Rest
  <2> QED BY <1>2, <2>1, Setter
          DEF SetHardwareAcceleration, Pause, MaySet, Encoding, Stages
<1>3. CASE SetInputQueue
  <2>1. (stopped \/ ~_queue') \in BOOLEAN
    OBVIOUS
  <2>2. stopped' \in BOOLEAN
    BY <1>3, <2>1, Zenon DEF SetInputQueue
  <2>3. Rest
    BY <1>3, <2>2 DEF IInv, TypeOK, SetInputQueue, settings, Rest
  <2> QED BY <1>3, <2>3, Setter DEF SetInputQueue, settings, Pause
<1> QED BY <1>1, <1>2, <1>3

LEMMA NextInv == ASSUME IInv, SendsOpen, [Next]_vars PROVE IInv' /\ SendsOpen'
<1>1. CASE UNCHANGED vars
  BY <1>1 DEF vars, settings, IInv, TypeOK, Good, Sound, Closed, Opening, Labelled, Fresh, Known,
              InUse, Hw, StoppedKnown, Pause, QueueHeld, Encoding, DrainedOnlyWhenStopped, SendsOpen
<1>2. CASE Next
  <2>1. IInv'
    BY <1>2, TopInv, WaitInv, QueueInv, TestInv, TestAutoInv, OpenDeviceInv, InitDeviceInv,
       ChooseDeviceInv, SetSwEncoderCtxInv, FailInv, FillFrameInv, EncodeFrameInv, SettersInv
    DEF Next, EncodingThread, SetHwEncoderCtx
  <2>2. SendsOpen'
    <3>1. CASE FillFrame
      <4>1. pc' = "send" => enc.ctx.open /\ Sound(enc)
            /\ enc' = [enc EXCEPT !.sw_frame = SwFrame, !.lent = @ \/ Lends]
        BY <3>1, SoundNow DEF FillFrame
      <4> QED BY <4>1 DEF SendsOpen, Sound, Encoders
    <3>2. CASE SetEncoderType \/ SetHardwareAcceleration \/ SetInputQueue
      BY <3>2 DEF SetEncoderType, SetHardwareAcceleration, SetInputQueue, SendsOpen
    <3>3. CASE Top \/ Wake \/ WaitForResource \/ LockQueue \/ QueueEmpty \/ TakePacket
      BY <3>3 DEF Top, Wake, WaitForResource, LockQueue, QueueEmpty, TakePacket, SendsOpen
    <3>4. CASE SetHwEncoderCtx
      BY <3>4 DEF SetHwEncoderCtx, TestHardware, TestSame, TestAuto, OpenDevice, InitDevice,
                  ChooseDevice, SendsOpen
    <3>5. CASE SetSwEncoderCtx \/ Fail \/ EncodeFrame
      BY <3>5 DEF SetSwEncoderCtx, Fail, EncodeFrame, SendsOpen
    <3> QED BY <1>2, <3>1, <3>2, <3>3, <3>4, <3>5 DEF Next, EncodingThread
  <2> QED BY <2>1, <2>2
<1> QED BY <1>1, <1>2

(***************************************************************************)
(* The frames that are given to the codec                                  *)
(***************************************************************************)
\* a frame that is kept for the next packets has the size of the open context
FrameKept == enc.sw_frame # NoFormat /\ enc.ctx.open => enc.sw_frame.size = enc.ctx.format.size

\* the planes a packet lends stay with packets of the same format
Lent ==
    careful /\ enc.ctx.open /\ enc.lent /\ ~enc.other =>
        enc.sw_frame # NoFormat /\ enc.sw_frame.pix = enc.format.pix

\* nothing has been sent while a packet is on its way to the codec
NotYetSent ==
    /\ pc \notin {"send", "queue"} => sent = NotSent
    /\ pc = "send" => sent.frame.size = enc.ctx.format.size

\* with settings that hold still, the context that was chosen suits the packet
Chosen ==
    careful =>
        /\ pc \in {"hardware", "same", "auto", "device", "init", "chosen"} => use_hw_flag
        /\ pc \in {"same", "auto", "device", "init", "chosen"} => hwd_type_user # "None"
        /\ pc \in {"frame", "send"} /\ enc.ctx.open =>
              /\ use_hw_flag = Hw(enc.ctx)
              /\ enc.format = packet.format \/ enc.other

FInv == /\ IInv /\ SendsOpen
        /\ FrameKept /\ Lent /\ NotYetSent /\ Chosen /\ FramesSuitTheCodec

LEMMA InitFrames == Init => FInv
<1> SUFFICES ASSUME Init PROVE FInv
  OBVIOUS
<1>1. ~enc.ctx.open /\ pc = "top" /\ sent = NotSent
  BY NoCtxTyped DEF Init
<1> QED BY <1>1, InitInv
        DEF FInv, SendsOpen, FrameKept, Lent, NotYetSent, Chosen, FramesSuitTheCodec, NotSent

\* a step before anything is sent, that leaves the frame alone or begins a new one
LEMMA FreshFrames ==
    ASSUME FInv, IInv', SendsOpen', sent = NotSent \/ pc' = "queue", UNCHANGED <<sent, careful>>,
           \/ Fresh(enc')
           \/ /\ enc'.ctx = enc.ctx /\ enc'.sw_frame = enc.sw_frame /\ enc'.lent = enc.lent
              /\ enc.other => enc'.other
              /\ enc'.format = enc.format,
           sent # NotSent => UNCHANGED enc,
           pc' # "send", pc' \notin {"send", "queue"} => sent = NotSent,
           Chosen'
    PROVE  FInv'
<1>1. FrameKept' /\ Lent'
  BY DEF FInv, FrameKept, Lent, Fresh
<1>2. NotYetSent'
  BY DEF NotYetSent
<1>3. FramesSuitTheCodec'
  BY DEF FInv, FramesSuitTheCodec, NotSent
<1> QED BY <1>1, <1>2, <1>3 DEF FInv

LEMMA HardwareFrames == ASSUME FInv, IInv', SendsOpen', SetHwEncoderCtx PROVE FInv'
<1>1. /\ sent = NotSent /\ UNCHANGED <<sent, careful, packet>> /\ pc' \notin {"send", "queue"}
      /\ packet.format \in Formats /\ hwd_type_user \in HWDType /\ use_hw_flag \in BOOLEAN
  BY DEF FInv, IInv, TypeOK, NotYetSent, SetHwEncoderCtx, TestHardware, TestSame, TestAuto,
         OpenDevice, InitDevice, ChooseDevice, Stages
<1>2. CASE TestHardware
  <2>1. Chosen'
    BY <1>2 DEF FInv, Chosen, TestHardware, settings
  <2> QED BY <1>1, <1>2, <2>1, FreshFrames DEF TestHardware
<1>3. careful /\ enc.hwd_type_cur # "None" /\ pc # "chosen" /\ use_hw_flag => use_hw_flag = Hw(enc.ctx)
  <2>1. careful /\ enc.hwd_type_cur # "None" /\ pc # "chosen" => Hw(enc.ctx)
    BY DEF FInv, IInv, Known, InUse
  <2> QED BY <1>1, <2>1 DEF Hw
<1>4. CASE TestSame
  <2>1. Chosen'
    BY <1>3, <1>4 DEF FInv, Chosen, TestSame, settings, Suits
  <2> QED BY <1>1, <1>4, <2>1, FreshFrames DEF TestSame
<1>5. CASE TestAuto
  <2>0. pc = "auto" /\ enc \in Encoders /\ UNCHANGED settings
    BY <1>5 DEF FInv, IInv, TypeOK, TestAuto
  <2>1. CASE /\ enc.hwd_type_cur # "None" /\ pc' = "frame"
             /\ enc' = [enc EXCEPT !.other = @ \/ enc.format # packet.format]
    <3>1. /\ enc'.ctx = enc.ctx /\ enc'.sw_frame = enc.sw_frame /\ enc'.lent = enc.lent
          /\ enc'.format = enc.format
          /\ enc'.other = (enc.other \/ enc.format # packet.format)
      BY <2>0, <2>1 DEF Encoders
    <3>2. (enc.other => enc'.other) /\ (enc'.format = packet.format \/ enc'.other)
      BY <3>1
    <3>3. Chosen'
      BY <1>1, <1>3, <2>0, <2>1, <3>1, <3>2 DEF FInv, Chosen, settings
    <3> QED BY <1>1, <3>1, <3>2, <3>3, FreshFrames
  <2>2. CASE UNCHANGED enc /\ pc' \in {"device", "software"}
    <3>1. Chosen'
      BY <1>1, <2>0, <2>2 DEF FInv, Chosen, settings
    <3> QED BY <1>1, <2>2, <3>1, FreshFrames
  <2> QED BY <1>5, <2>1, <2>2 DEF TestAuto
<1>6. CASE OpenDevice
  <2>0. pc = "device" /\ Sound(enc)
    BY <1>6, SoundNow DEF FInv, OpenDevice
  <2>1. CASE enc' = CloseCtx(enc) /\ pc' = "software"
    <3>1. Fresh(enc')
      BY <2>0, <2>1, CloseCtxSound DEF Closed
    <3>2. Chosen'
      BY <2>1 DEF Chosen
    <3> QED BY <1>1, <3>1, <3>2, FreshFrames
  <2>2. CASE enc' = Raw /\ pc' = "init" /\ UNCHANGED <<use_hw_flag, hwd_type_user>>
    <3>1. Fresh(enc')
      BY <2>0, <2>2, RawClosed DEF Closed
    <3>2. Chosen'
      BY <1>1, <2>0, <2>2 DEF FInv, Chosen
    <3> QED BY <1>1, <3>1, <3>2, FreshFrames
  <2>3. CASE hwd_type_user = "Auto"
    <3>1. PICK x \in InitHwdevice(Raw, "NVIDIA", packet.format) :
             \/ x.ctx.open /\ enc' = Choose(x, "NVIDIA") /\ pc' = "frame" /\ stopped' = FALSE
             \/ ~x.ctx.open /\ enc' = x /\ pc' = "software" /\ UNCHANGED stopped
      BY <1>6, <2>3 DEF OpenDevice
    <3>2. Opening(x, "NVIDIA", packet.format)
      BY <1>1, <2>0, RawClosed, InitHwdeviceOpens DEF Hardware
    <3>3. CASE ~x.ctx.open /\ enc' = x /\ pc' = "software"
      <4>1. Fresh(enc')
        BY <3>2, <3>3 DEF Opening
      <4>2. Chosen'
        BY <3>3 DEF Chosen
      <4> QED BY <1>1, <4>1, <4>2, FreshFrames
    <3>4. CASE x.ctx.open /\ enc' = Choose(x, "NVIDIA") /\ pc' = "frame"
      <4>1. /\ enc'.ctx = x.ctx /\ Fresh(enc') /\ enc'.format = packet.format
        BY <1>1, <3>2, <3>4, OpenedSound DEF Hardware, HWDType
      <4>2. Hw(enc'.ctx) = TRUE
        BY <3>2, <3>4, <4>1 DEF Opening, Hw
      <4>3. careful => use_hw_flag' = TRUE
        BY <1>1, <1>6, <2>0, <2>3 DEF FInv, Chosen, OpenDevice
      <4>4. Chosen'
        BY <1>1, <3>4, <4>1, <4>2, <4>3 DEF Chosen, Hw
      <4> QED BY <1>1, <3>4, <4>1, <4>4, FreshFrames
    <3> QED BY <3>1, <3>3, <3>4
  <2> QED BY <1>6, <2>1, <2>2, <2>3 DEF OpenDevice
<1>7. CASE InitDevice
  <2>0. pc = "init" /\ Closed(enc) /\ UNCHANGED use_hw_flag
    BY <1>7 DEF FInv, IInv, Good, InitDevice
  <2>1. CASE UNCHANGED enc /\ pc' = "software"
    <3>1. Chosen'
      BY <2>1 DEF Chosen
    <3> QED BY <1>1, <2>1, <3>1, FreshFrames
  <2>2. CASE hwd_type_user \in {"QSV", "NVIDIA"} /\ UNCHANGED hwd_type_user
    <3>1. PICK x \in InitHwdevice(enc, hwd_type_user, packet.format) :
             enc' = x /\ pc' \in {"chosen", "software"}
      BY <1>7, <2>2 DEF InitDevice
    <3>2. Opening(x, hwd_type_user, packet.format)
      BY <1>1, <2>0, <2>2, InitHwdeviceOpens DEF Hardware
    <3>3. Fresh(enc')
      BY <3>1, <3>2 DEF Opening
    <3>4. Chosen'
      BY <1>1, <2>0, <2>2, <3>1 DEF FInv, Chosen
    <3> QED BY <1>1, <3>1, <3>3, <3>4, FreshFrames
  <2> QED BY <1>7, <2>1, <2>2 DEF InitDevice
<1>8. CASE ChooseDevice
  <2>1. /\ pc = "chosen" /\ pc' = "frame" /\ enc' = Choose(enc, hwd_type_user)
        /\ Opening(enc, enc.ctx.maker, packet.format) /\ enc.ctx.open
        /\ enc.ctx.maker \in Hardware /\ UNCHANGED settings
    BY <1>8 DEF FInv, IInv, Good, ChooseDevice
  <2>2. enc'.ctx = enc.ctx /\ Fresh(enc') /\ enc'.format = packet.format
    BY <1>1, <2>1, OpenedSound
  <2>3. Hw(enc'.ctx) = TRUE
    BY <2>1, <2>2 DEF Hw, Hardware
  <2>4. careful => use_hw_flag' = TRUE
    BY <1>1, <2>1 DEF FInv, Chosen, settings
  <2>5. Chosen'
    BY <1>1, <2>1, <2>2, <2>3, <2>4 DEF Chosen, Hw
  <2> QED BY <1>1, <2>1, <2>2, <2>5, FreshFrames
<1> QED BY <1>2, <1>4, <1>5, <1>6, <1>7, <1>8 DEF SetHwEncoderCtx

LEMMA SoftwareFrames == ASSUME FInv, IInv', SendsOpen', SetSwEncoderCtx PROVE FInv'
<1>1. /\ pc = "software" /\ sent = NotSent /\ UNCHANGED <<sent, careful, packet>>
      /\ use_hw_flag' = FALSE /\ pc' \in {"frame", "failed"} /\ packet.format \in Formats
      /\ Sound(enc)
  BY SoundNow DEF FInv, IInv, TypeOK, NotYetSent, SetSwEncoderCtx, Stages
<1>2. /\ Sound(NoHardware) /\ NoHardware.hwd_type_cur = "None"
      /\ NoHardware = enc \/ (Closed(NoHardware) /\ NoHardware.ctx = NoCtx)
  BY <1>1, NoHardwareSound
<1>3. CASE enc' = NoHardware /\ (pc' = "frame" => NoHardware.format = packet.format)
  <2>0. enc'.ctx \in Contexts /\ (careful /\ enc' = enc => InUse(enc) = "None")
    BY <1>1, <1>2, <1>3 DEF FInv, IInv, Known, Sound, Encoders
  <2>1. careful /\ enc'.ctx.open => Hw(enc'.ctx) = FALSE
    BY <1>2, <1>3, <2>0, NoCtxTyped DEF InUse, Hw, Contexts, Makers
  <2>2. Chosen'
    BY <1>1, <1>3, <2>1 DEF Chosen, Hw
  <2>3. enc' = enc \/ Fresh(enc')
    BY <1>2, <1>3 DEF Closed
  <2> QED BY <1>1, <2>2, <2>3, FreshFrames
<1>4. CASE enc' = CloseCtx(NoHardware) /\ pc' = "failed"
  <2>1. Fresh(enc')
    BY <1>2, <1>4, CloseCtxSound DEF Closed
  <2>2. Chosen'
    BY <1>4 DEF Chosen
  <2> QED BY <1>1, <2>1, <2>2, FreshFrames
<1>5. CASE /\ enc' \in InitSoftware(NoHardware, SoftwareCodec, packet.format)
           /\ pc' = IF enc'.ctx = NoCtx THEN "failed" ELSE "frame"
  <2>1. SoftwareCodec \in Codecs
    BY DEF SoftwareCodec, Codecs
  <2>2. /\ Fresh(enc') /\ ~Hw(enc'.ctx)
        /\ enc'.ctx # NoCtx => enc'.format = packet.format
    BY <1>1, <1>2, <1>5, <2>1, InitSoftwareSound
  <2>3. Hw(enc'.ctx) = FALSE
    BY <2>2 DEF Hw
  <2>4. Chosen'
    BY <1>1, <1>5, <2>2, <2>3 DEF Chosen, Hw
  <2> QED BY <1>1, <2>2, <2>4, FreshFrames
<1> QED BY <1>3, <1>4, <1>5 DEF SetSwEncoderCtx

\* the frame has the size of the open context, and what is lent to it is its own
LEMMA FilledFrames == ASSUME FInv, IInv', SendsOpen', FillFrame PROVE FInv'
<1>1. /\ pc = "frame" /\ sent = NotSent /\ UNCHANGED <<settings, careful>> /\ Sound(enc)
      /\ packet.format \in Formats
  BY SoundNow DEF FInv, IInv, TypeOK, NotYetSent, FillFrame, Stages
<1>2. CASE UNCHANGED <<enc, sent>> /\ pc' = "queue"
  <2>1. Chosen'
    BY <1>2 DEF Chosen
  <2> QED BY <1>1, <1>2, <2>1, FreshFrames
<1>3. CASE /\ enc.ctx.open /\ pc' = "send" /\ UNCHANGED packet
           /\ enc' = [enc EXCEPT !.sw_frame = SwFrame, !.lent = @ \/ Lends]
           /\ sent' = [hw |-> FALSE, wants |-> FALSE, data |-> Data, frame |-> SwFrame,
                       stale |-> ~Lends /\ enc.lent]
  <2>1. SwFrame \in Formats /\ enc.format = enc.ctx.format /\ enc.format \in Formats
    BY <1>1, <1>3, SwFrameTyped
  <2>2. SwFrame.size = enc.ctx.format.size
    BY <1>3, <2>1 DEF SwFrame, AllocFrame, FInv, FrameKept
  <2>3. (enc.lent \/ Lends) \in BOOLEAN
    OBVIOUS
  <2>4. /\ enc'.ctx = enc.ctx /\ enc'.sw_frame = SwFrame /\ enc'.lent = (enc.lent \/ Lends)
        /\ enc'.format = enc.format /\ enc'.other = enc.other
    BY <1>1, <1>3, <2>3, FilledSound
  <2>5. FrameKept' /\ NotYetSent' /\ Chosen'
    BY <1>1, <1>3, <2>2, <2>4 DEF FInv, FrameKept, NotYetSent, Chosen, settings
  <2>6. careful /\ ~enc.other => enc.format = packet.format
    BY <1>1, <1>3 DEF FInv, Chosen
  <2>7. careful /\ ~enc.other /\ enc.lent => Lends
    BY <1>3, <2>6 DEF FInv, Lent, Lends, SwFrame
  <2>8. Lent'
    BY <1>1, <1>3, <2>1, <2>4, <2>6, <2>7, FormatAssumption DEF Lent, Lends
  <2>9. careful /\ ~enc.other => Data = SwFrame
    BY <1>1, <2>1, <2>2, <2>6 DEF Data, Lends, Formats
  <2>10. /\ sent'.frame = SwFrame /\ sent'.data = Data /\ sent'.hw = sent'.wants
         /\ sent'.stale => ~Lends /\ enc.lent
    BY <1>3
  <2>11. FramesSuitTheCodec'
    BY <1>1, <2>2, <2>4, <2>7, <2>9, <2>10 DEF FramesSuitTheCodec
  <2> QED BY <2>5, <2>8, <2>11 DEF FInv
<1> QED BY <1>2, <1>3 DEF FillFrame

LEMMA SendFrames == ASSUME FInv, IInv', SendsOpen', EncodeFrame PROVE FInv'
<1>1. pc = "send" /\ pc' = "queue" /\ UNCHANGED careful /\ Sound(enc) /\ enc.ctx.open
  BY SoundNow DEF FInv, SendsOpen, EncodeFrame
<1>2. Chosen' /\ NotYetSent'
  BY <1>1 DEF Chosen, NotYetSent
<1>3. CASE UNCHANGED <<enc, sent>>
  BY <1>1, <1>2, <1>3 DEF FInv, FrameKept, Lent, FramesSuitTheCodec
<1>4. CASE Encoded(enc) /\ sent' = [sent EXCEPT !.hw = use_hw_flag, !.wants = Hw(enc.ctx)]
  <2>1. Like(enc', enc)
    BY <1>1, <1>4, EncodedSound
  <2>2. FrameKept' /\ Lent'
    BY <1>1, <2>1 DEF FInv, FrameKept, Lent, Like
  <2>3. /\ sent'.frame = sent.frame /\ sent'.data = sent.data /\ sent'.stale = sent.stale
        /\ sent'.hw = use_hw_flag /\ sent'.wants = Hw(enc.ctx)
    BY <1>4 DEF FInv, IInv, TypeOK, Frames
  <2>4. careful => use_hw_flag = Hw(enc.ctx)
    BY <1>1 DEF FInv, Chosen
  <2>5. sent.frame.size = enc.ctx.format.size
    BY <1>1 DEF FInv, NotYetSent
  <2>6. FramesSuitTheCodec'
    BY <1>1, <2>1, <2>3, <2>4, <2>5 DEF FInv, FramesSuitTheCodec, Like
  <2> QED BY <1>2, <2>2, <2>6 DEF FInv
<1> QED BY <1>3, <1>4 DEF EncodeFrame

LEMMA OtherFrames ==
    ASSUME FInv, IInv', SendsOpen',
           \/ Top \/ Wake \/ WaitForResource \/ LockQueue \/ QueueEmpty \/ TakePacket \/ Fail
           \/ SetEncoderType \/ SetHardwareAcceleration \/ SetInputQueue \/ UNCHANGED vars
    PROVE  FInv'
<1>1. CASE Top
  <2>1. Sound(enc) /\ pc' \in {"parked", "waiting"} /\ UNCHANGED <<sent, careful>> /\ sent = NotSent
    BY <1>1, SoundNow DEF FInv, NotYetSent, Top
  <2>2. enc' = enc \/ enc' = Flush(enc)
    BY <1>1 DEF Top
  <2>3. Like(enc', enc)
    BY <2>1, <2>2, FlushSound DEF Like
  <2> QED BY <2>1, <2>3
          DEF FInv, FrameKept, Lent, NotYetSent, Chosen, FramesSuitTheCodec, Like, NotSent
<1>2. CASE WaitForResource \/ LockQueue
  <2>1. UNCHANGED <<enc, sent, careful>> /\ sent = NotSent /\ pc' \in {"locking", "crashed", "queue", "top"}
    BY <1>2 DEF FInv, NotYetSent, WaitForResource, LockQueue
  <2> QED BY <2>1 DEF FInv, FrameKept, Lent, NotYetSent, Chosen, FramesSuitTheCodec
<1>3. CASE Wake \/ QueueEmpty \/ TakePacket
  <2>1. /\ pc # "chosen" /\ UNCHANGED <<settings, careful>> /\ sent' = NotSent
        /\ enc' = [enc EXCEPT !.pushed = {}]
        /\ pc' \in {"top", "waiting", "failed", "hardware", "software"}
        /\ pc' = "hardware" => use_hw_flag
    BY <1>3 DEF FInv, NotYetSent, Wake, QueueEmpty, TakePacket
  <2>2. Like(enc', enc)
    BY <2>1, SoundNow, ForgetSound DEF FInv
  <2>3. FrameKept' /\ Lent'
    BY <2>1, <2>2 DEF FInv, FrameKept, Lent, Like
  <2>4. NotYetSent' /\ Chosen' /\ FramesSuitTheCodec'
    BY <2>1 DEF NotYetSent, Chosen, FramesSuitTheCodec, NotSent, settings
  <2> QED BY <2>3, <2>4 DEF FInv
<1>4. CASE Fail
  <2>1. Fresh(enc') /\ sent = NotSent /\ pc' = "queue" /\ UNCHANGED <<sent, careful>>
    BY <1>4, SoundNow, CloseCtxSound DEF FInv, NotYetSent, Fail, Closed
  <2>2. Chosen'
    BY <2>1 DEF Chosen
  <2> QED BY <2>1, <2>2, FreshFrames
<1>5. CASE SetEncoderType \/ SetHardwareAcceleration
  <2>1. UNCHANGED <<pc, packet, enc, sent, careful>> /\ (careful => ~Encoding)
    BY <1>5 DEF SetEncoderType, SetHardwareAcceleration, MaySet
  <2> QED BY <2>1
          DEF FInv, FrameKept, Lent, NotYetSent, Chosen, FramesSuitTheCodec, Encoding, Stages
<1>6. CASE SetInputQueue \/ UNCHANGED vars
  <2>1. UNCHANGED <<pc, packet, enc, sent, careful, use_hw_flag, hwd_type_user>>
    BY <1>6 DEF SetInputQueue, vars, settings
  <2> QED BY <2>1 DEF FInv, FrameKept, Lent, NotYetSent, Chosen, FramesSuitTheCodec
<1> QED BY <1>1, <1>2, <1>3, <1>4, <1>5, <1>6

LEMMA FramesInv == ASSUME FInv, [Next]_vars PROVE FInv'
<1>1. IInv' /\ SendsOpen'
  BY NextInv DEF FInv
<1> QED BY <1>1, HardwareFrames, SoftwareFrames, FilledFrames, SendFrames, OtherFrames
        DEF Next, EncodingThread

(***************************************************************************)
(* Theorems                                                                *)
(***************************************************************************)
\* Every reachable state is typed, its labels are the open context's, and a
\* drained context is one the application stopped.
THEOREM Invariant == Spec => [](IInv /\ SendsOpen)
<1>1. Init => IInv /\ SendsOpen
  BY InitInv DEF Init, SendsOpen
<1>2. IInv /\ SendsOpen /\ [Next]_vars => (IInv /\ SendsOpen)'
  BY NextInv
<1> QED BY <1>1, <1>2, PTL DEF Spec

\* Every variable stays in its type, whatever the codecs do and the setters set.
THEOREM TypeCorrect == Spec => []TypeOK
<1>1. IInv => TypeOK
  BY DEF IInv
<1> QED BY <1>1, Invariant, PTL

\* A packet leaves the encoder with the payload type and the format of the codec
\* that made it (VideoEncoder::receive_packet), when codecs are changed as well and
\* the setters are called at any stage.
THEOREM LabelsTrue == Spec => []LabelsAreTrue
<1>1. IInv => LabelsAreTrue
  BY DEF IInv, Good, Sound, Opening, Labelled, LabelsAreTrue
<1> QED BY <1>1, Invariant, PTL

\* The codec and format the encoder believes to use are those of the open context
\* (VideoEncoder::_set_hw_encoder_ctx), with setters called between any two reads of
\* the settings; where they are called between frames only, so is the hardware
\* (VideoEncoder::get_hwa_type).
THEOREM CurrentTrue == Spec => []CurrentIsTrue
<1>1. IInv => CurrentIsTrue
  BY DEF IInv, Good, Known, Sound, Opening, CurrentIsTrue
<1> QED BY <1>1, Invariant, PTL

\* No failure of the encoder leaves a drained context behind
\* (VideoEncoder::encode's _close_ctx, on_thread_pause's flush).
THEOREM Drained == Spec => []DrainedOnlyWhenStopped
<1>1. IInv => DrainedOnlyWhenStopped
  BY DEF IInv
<1> QED BY <1>1, Invariant, PTL

\* A frame given to the codec has the size of its context; if the settings are
\* changed between frames only it is of the codec's kind, and its planes are its
\* own unless Auto has kept the context for a packet of another format
\* (VideoEncoder::encode, _alloc_frame, _set_frame_data).
THEOREM FramesSuit == Spec => []FramesSuitTheCodec
<1>1. Init => FInv
  BY InitFrames
<1>2. FInv /\ [Next]_vars => FInv'
  BY FramesInv
<1>3. FInv => FramesSuitTheCodec
  BY DEF FInv
<1> QED BY <1>1, <1>2, <1>3, PTL DEF Spec
=============================================================================
