-------------------------- MODULE AudioPathProofs ---------------------------
(***************************************************************************)
(* Proofs about AudioPath for any formats, sizes of the queues, lengths of *)
(* frames and number of frames.                                            *)
(***************************************************************************)
EXTENDS AudioPath, TLAPS

\* Threads only have frames that were captured, and a player that still has to look
\* at the newest frame has only earlier ones.
Captured ==
    /\ fpc # "idle" => Len(fmt) >= 1
    /\ \A i \in 1..Len(coded) : coded[i] <= Len(fmt)
    /\ frame <= Len(fmt) /\ (epc # "take" => frame >= 1)
    /\ \A i \in 1..Len(heard) : heard[i] <= Len(fmt)
    /\ tmp <= Len(fmt) /\ (cpc = "lock" => tmp >= 1)
    /\ device.id <= Len(fmt)
    /\ fpc \in {"play", "close", "open", "queue"} =>
          tmp < Len(fmt) /\ \A i \in 1..Len(heard) : heard[i] < Len(fmt)
    /\ fpc \in {"play", "close", "open"} => device.id < Len(fmt)

\* Whatever the device's thread holds or will take suits the device.
Suits(f) == fmt[f] = ofmt \/ f < device.since

QueueSuits ==
    /\ device.open => (tmp # 0 => Suits(tmp)) /\ \A i \in 1..Len(heard) : Suits(heard[i])
    /\ fpc = "queue" => ofmt = fmt[Len(fmt)]

\* A callback that waits for a frame has no other, and belongs to an open device.
Locks ==
    /\ cpc = "lock" => device.open /\ \A f \in Frames : owner[f] # device.id
    /\ device.open => device.id >= 1
    /\ OneFrameLocked

\* The resampler follows ifmt, also where no codec was opened.
Resampler ==
    /\ enc.resample = enc.ifmt
    /\ EncodedAsItIs

IInv == TypeOK /\ Captured /\ QueueSuits /\ Locks /\ Resampler

-----------------------------------------------------------------------------
\* push_one keeps the bound of the queue and brings in one element
LEMMA PushedFacts ==
    ASSUME NEW q \in Seq(Frames), Len(q) <= MaxQueue, NEW f \in Frames
    PROVE  /\ Pushed(q, f) \in Seq(Frames) /\ Len(Pushed(q, f)) <= MaxQueue
           /\ \A i \in 1..Len(Pushed(q, f)) :
                 Pushed(q, f)[i] = f \/ \E j \in 1..Len(q) : Pushed(q, f)[i] = q[j]
<1>1. CASE Len(q) = MaxQueue
  <2>1. q # <<>> /\ Tail(q) \in Seq(Frames) /\ Len(Tail(q)) = Len(q) - 1
    BY <1>1, AudioAssumption
  <2>2. Pushed(q, f) = Append(Tail(q), f)
    BY <1>1 DEF Pushed
  <2>. QED
    BY <1>1, <2>1, <2>2
<1>2. CASE Len(q) # MaxQueue
  <2>1. Pushed(q, f) = Append(q, f)
    BY <1>2 DEF Pushed
  <2>. QED
    BY <1>2, <2>1, AudioAssumption
<1>. QED
  BY <1>1, <1>2

\* taking the head of a queue leaves its other elements
LEMMA TailFacts ==
    ASSUME NEW S, NEW q \in Seq(S), q # <<>>
    PROVE  /\ Head(q) \in S /\ Tail(q) \in Seq(S) /\ Len(Tail(q)) = Len(q) - 1
           /\ Len(q) \in Nat \ {0} /\ Head(q) = q[1]
           /\ \A i \in 1..Len(Tail(q)) : Tail(q)[i] = q[i + 1] /\ i + 1 \in 1..Len(q)
OBVIOUS

LEMMA AppendFacts ==
    ASSUME NEW S, NEW q \in Seq(S), NEW f \in S
    PROVE  /\ Append(q, f) \in Seq(S) /\ Len(Append(q, f)) = Len(q) + 1
           /\ Append(q, f)[Len(q) + 1] = f
           /\ \A i \in 1..Len(q) : Append(q, f)[i] = q[i]
OBVIOUS

LEMMA InitIInv == Init => IInv
<1>. SUFFICES ASSUME Init PROVE IInv
  OBVIOUS
<1>. USE AudioAssumption DEF Init
<1>1. TypeOK
  <2>1. <<>> \in Seq(Formats) /\ <<>> \in Seq(Frames) /\ Len(<<>>) = 0
    OBVIOUS
  <2>2. device \in [open : BOOLEAN, id : 0..MaxFrames, since : 0..MaxFrames]
    <3>1. FALSE \in BOOLEAN /\ 0 \in 0..MaxFrames
      OBVIOUS
    <3>. QED
      BY <3>1
  <2>3. owner \in [Frames -> {Nobody, TheEncoder} \cup 1..device.id]
    BY DEF Nobody, Frames
  <2>4. play_flag \in BOOLEAN
    BY Zenon
  <2>. QED
    BY <2>1, <2>2, <2>3, <2>4 DEF TypeOK
<1>2. Captured /\ QueueSuits
  BY DEF Captured, QueueSuits
<1>3. Locks
  BY DEF Locks, OneFrameLocked, Nobody, Frames
<1>4. Resampler
  BY DEF Resampler, EncodedAsItIs
<1>. QED
  BY <1>1, <1>2, <1>3, <1>4 DEF IInv

\* the results of opening the codec
LEMMA OpenFacts ==
    ASSUME IInv, epc = "open", NEW r \in OpenCtx(fmt[frame])
    PROVE  /\ fmt[frame] \in Formats
           /\ r.enc \in [ctx : {"none", "unopened", "open"}, ifmt : Formats \cup {NoFormat},
                         resample : Formats \cup {NoFormat}]
           /\ r.enc.resample = r.enc.ifmt
           /\ r.to = "send" => r.enc.ifmt = fmt[frame]
           /\ r.to \in {"send", "done"}
<1>1. frame \in 1..Len(fmt) /\ fmt[frame] \in Formats
  BY DEF IInv, TypeOK, Captured
<1>2. enc \in [ctx : {"none", "unopened", "open"}, ifmt : Formats \cup {NoFormat},
               resample : Formats \cup {NoFormat}] /\ enc.resample = enc.ifmt
  BY DEF IInv, TypeOK, Resampler
<1>3. \A e \in CreateEncoder :
         /\ e \in [ctx : {"none", "unopened", "open"}, ifmt : Formats \cup {NoFormat},
                   resample : Formats \cup {NoFormat}]
         /\ e.resample = e.ifmt
  BY <1>2 DEF CreateEncoder
<1>4. \/ r = [to |-> "send", enc |-> enc] /\ enc.ifmt = fmt[frame]
      \/ \E e \in CreateEncoder : r = [to |-> "done", enc |-> e]
      \/ r = [to |-> "send",
              enc |-> [ctx |-> "open", ifmt |-> fmt[frame], resample |-> fmt[frame]]]
  BY DEF OpenCtx
<1>. QED
  BY <1>1, <1>2, <1>3, <1>4
-----------------------------------------------------------------------------
LEMMA TypeStep == IInv /\ [Next]_vars => TypeOK'
<1>. SUFFICES ASSUME IInv, [Next]_vars PROVE TypeOK'
  OBVIOUS
<1>. USE AudioAssumption
<1>t. TypeOK /\ Captured
  BY DEF IInv
<1>1. CASE PlayMicrophoneAudio
  <2>1. play_flag' \in BOOLEAN
    BY <1>1, Zenon DEF PlayMicrophoneAudio
  <2>. QED
    BY <1>t, <1>1, <2>1 DEF PlayMicrophoneAudio, TypeOK, factory, player, encoder
<1>2. CASE OnThreadRun
  <2>1. fmt' \in Seq(Formats) /\ Len(fmt') <= MaxFrames
    BY <1>t, <1>2, AppendFacts DEF OnThreadRun, TypeOK
  <2>2. fpc' \in {"play", "push"}
    BY <1>2 DEF OnThreadRun
  <2>. QED
    BY <1>t, <1>2, <2>1, <2>2 DEF OnThreadRun, TypeOK, player, encoder
<1>3. CASE Play
  BY <1>t, <1>3 DEF Play, TypeOK, player, encoder
<1>4. CASE CloseDevice
  <2>1. device' \in [open : BOOLEAN, id : 0..MaxFrames, since : 0..MaxFrames] /\ device'.id = device.id
    BY <1>t, <1>4 DEF CloseDevice, TypeOK
  <2>. QED
    BY <1>t, <1>4, <2>1 DEF CloseDevice, TypeOK, encoder
<1>5. CASE OpenDevice
  <2>1. CASE fpc' = "push" /\ UNCHANGED <<device, ofmt>>
    BY <1>t, <1>5, <2>1 DEF OpenDevice, TypeOK, encoder
  <2>2. CASE /\ fpc' = "queue" /\ ofmt' = fmt[Current]
             /\ device' = [open |-> TRUE, id |-> device.id + 1, since |-> Current]
    <3>1. Current \in 1..MaxFrames /\ device.id + 1 \in 1..MaxFrames /\ fmt[Current] \in Formats
      BY <1>t, <1>5 DEF OpenDevice, TypeOK, Captured, Current
    <3>2. device' \in [open : BOOLEAN, id : 0..MaxFrames, since : 0..MaxFrames] /\ device'.id = device.id + 1
      <4>1. TRUE \in BOOLEAN
        OBVIOUS
      <4>. QED
        BY <2>2, <3>1, <4>1
    <3>3. owner' \in [Frames -> {Nobody, TheEncoder} \cup 1..device'.id]
      BY <1>t, <1>5, <3>2 DEF OpenDevice, TypeOK
    <3>. QED
      BY <1>t, <1>5, <2>2, <3>1, <3>2, <3>3 DEF OpenDevice, TypeOK, encoder
  <2>. QED
    BY <1>5, <2>1, <2>2 DEF OpenDevice
<1>6. CASE PushHeard
  <2>1. Current \in Frames
    BY <1>t, <1>6 DEF PushHeard, TypeOK, Captured, Current, Frames
  <2>2. heard' \in Seq(Frames) /\ Len(heard') <= MaxQueue
    BY <1>t, <1>6, <2>1, PushedFacts DEF PushHeard, TypeOK
  <2>. QED
    BY <1>t, <1>6, <2>2 DEF PushHeard, TypeOK, encoder
<1>7. CASE PushCoded
  <2>1. Current \in Frames
    BY <1>t, <1>7 DEF PushCoded, TypeOK, Captured, Current, Frames
  <2>2. coded' \in Seq(Frames) /\ Len(coded') <= MaxQueue
    BY <1>t, <1>7, <2>1, PushedFacts DEF PushCoded, TypeOK
  <2>. QED
    BY <1>t, <1>7, <2>2 DEF PushCoded, TypeOK, player
<1>8. CASE PlayOn
  BY <1>t, <1>8 DEF PlayOn, Callback, TypeOK, factory, encoder
<1>9. CASE NextFrame
  <2>1. owner' \in [Frames -> {Nobody, TheEncoder} \cup 1..device.id]
    BY <1>t, <1>9 DEF NextFrame, Unlocked, TypeOK
  <2>2. heard' \in Seq(Frames) /\ Len(heard') <= MaxQueue /\ tmp' \in 0..MaxFrames
    <3>1. CASE heard = <<>>
      BY <1>t, <1>9, <3>1 DEF NextFrame, TypeOK
    <3>2. CASE heard # <<>>
      <4>1. tmp' = Head(heard) /\ heard' = Tail(heard)
        BY <1>9, <3>2 DEF NextFrame
      <4>2. heard \in Seq(Frames) /\ Len(heard) <= MaxQueue
        BY <1>t DEF TypeOK
      <4>. QED
        BY <3>2, <4>1, <4>2, TailFacts DEF Frames
    <3>. QED
      BY <3>1, <3>2
  <2>. QED
    BY <1>t, <1>9, <2>1, <2>2 DEF NextFrame, TypeOK, factory, encoder
<1>10. CASE LockTmp
  <2>1. tmp \in Frames /\ device.id \in 1..device.id
    BY <1>t, <1>10 DEF LockTmp, TypeOK, Captured, Frames, IInv, Locks
  <2>2. owner' \in [Frames -> {Nobody, TheEncoder} \cup 1..device.id]
    BY <1>t, <1>10, <2>1 DEF LockTmp, TypeOK
  <2>. QED
    BY <1>t, <1>10, <2>2 DEF LockTmp, TypeOK, factory, encoder
<1>11. CASE GetNext
  <2>1. coded' \in Seq(Frames) /\ Len(coded') <= MaxQueue /\ frame' \in 0..MaxFrames
    BY <1>t, <1>11, TailFacts DEF GetNext, TypeOK, Frames
  <2>. QED
    BY <1>t, <1>11, <2>1 DEF GetNext, TypeOK, factory, player
<1>12. CASE LockFrame
  <2>1. owner' \in [Frames -> {Nobody, TheEncoder} \cup 1..device.id]
    BY <1>t, <1>12 DEF LockFrame, TypeOK
  <2>. QED
    BY <1>t, <1>12, <2>1 DEF LockFrame, TypeOK, factory, player
<1>13. CASE Open
  <2>1. PICK r \in OpenCtx(fmt[frame]) :
           /\ enc' = r.enc
           /\ IF r.to = "send"
              THEN epc' = "send" /\ UNCHANGED owner
              ELSE epc' = "take" /\ owner' = [owner EXCEPT ![frame] = Nobody]
    BY <1>13 DEF Open
  <2>2. enc' \in [ctx : {"none", "unopened", "open"}, ifmt : Formats \cup {NoFormat},
                  resample : Formats \cup {NoFormat}]
    BY <1>13, <2>1, OpenFacts DEF Open
  <2>3. owner' \in [Frames -> {Nobody, TheEncoder} \cup 1..device.id] /\ epc' \in {"take", "send"}
    BY <1>t, <2>1 DEF TypeOK
  <2>. QED
    BY <1>t, <1>13, <2>2, <2>3 DEF Open, TypeOK, factory, player
<1>14. CASE Send
  <2>1. owner' \in [Frames -> {Nobody, TheEncoder} \cup 1..device.id]
    BY <1>t, <1>14 DEF Send, TypeOK
  <2>. QED
    BY <1>t, <1>14, <2>1 DEF Send, TypeOK, factory, player
<1>15. CASE UNCHANGED vars
  BY <1>t, <1>15 DEF vars, TypeOK, factory, player, encoder
<1>. QED
  BY <1>1, <1>2, <1>3, <1>4, <1>5, <1>6, <1>7, <1>8, <1>9, <1>10, <1>11, <1>12, <1>13, <1>14, <1>15
  DEF Next, FactoryStep, CallbackStep, EncoderStep
-----------------------------------------------------------------------------
LEMMA CapturedStep == IInv /\ [Next]_vars => Captured'
<1>. SUFFICES ASSUME IInv, [Next]_vars PROVE Captured'
  OBVIOUS
<1>. USE AudioAssumption
<1>t. TypeOK /\ Captured
  BY DEF IInv
<1>n. Len(fmt) \in Nat /\ device.id \in Nat
  BY <1>t DEF TypeOK
<1>1. CASE OnThreadRun
  <2>1. Len(fmt') = Len(fmt) + 1
    BY <1>t, <1>1, AppendFacts DEF OnThreadRun, TypeOK
  <2>2. /\ \A i \in 1..Len(heard) : heard[i] \in Nat
        /\ \A i \in 1..Len(coded) : coded[i] \in Nat
        /\ tmp \in Nat /\ frame \in Nat
    BY <1>t DEF TypeOK, Frames
  <2>. QED
    BY <1>t, <1>n, <1>1, <2>1, <2>2 DEF OnThreadRun, Captured, player, encoder
<1>2. CASE OpenDevice
  <2>1. device'.id = device.id \/ (device'.id = device.id + 1 /\ device.id < Len(fmt))
    BY <1>t, <1>2 DEF OpenDevice, Captured
  <2>2. fpc' \in {"queue", "push"}
    BY <1>2 DEF OpenDevice
  <2>. QED
    BY <1>t, <1>n, <1>2, <2>1, <2>2 DEF OpenDevice, Captured, encoder
<1>3. CASE PushHeard
  <2>1. Current \in Frames /\ heard \in Seq(Frames) /\ Len(heard) <= MaxQueue
    BY <1>t, <1>3 DEF PushHeard, TypeOK, Captured, Current, Frames
  <2>2. \A i \in 1..Len(heard') : heard'[i] <= Len(fmt)
    <3>0. heard' = Pushed(heard, Current)
      BY <1>3 DEF PushHeard
    <3>1. \A i \in 1..Len(heard') : heard'[i] = Current \/ \E j \in 1..Len(heard) : heard'[i] = heard[j]
      <4>1. \A i \in 1..Len(Pushed(heard, Current)) :
               \/ Pushed(heard, Current)[i] = Current
               \/ \E j \in 1..Len(heard) : Pushed(heard, Current)[i] = heard[j]
        BY <2>1, PushedFacts
      <4>. QED
        BY <3>0, <4>1
    <3>. QED
      BY <1>t, <1>n, <3>1 DEF Captured, Current
  <2>. QED
    BY <1>t, <1>3, <2>2 DEF PushHeard, Captured, encoder
<1>4. CASE PushCoded
  <2>1. Current \in Frames /\ coded \in Seq(Frames) /\ Len(coded) <= MaxQueue
    BY <1>t, <1>4 DEF PushCoded, TypeOK, Captured, Current, Frames
  <2>2. \A i \in 1..Len(coded') : coded'[i] <= Len(fmt)
    <3>0. coded' = Pushed(coded, Current)
      BY <1>4 DEF PushCoded
    <3>1. \A i \in 1..Len(coded') : coded'[i] = Current \/ \E j \in 1..Len(coded) : coded'[i] = coded[j]
      <4>1. \A i \in 1..Len(Pushed(coded, Current)) :
               \/ Pushed(coded, Current)[i] = Current
               \/ \E j \in 1..Len(coded) : Pushed(coded, Current)[i] = coded[j]
        BY <2>1, PushedFacts
      <4>. QED
        BY <3>0, <4>1
    <3>. QED
      BY <1>t, <1>n, <3>1 DEF Captured, Current
  <2>. QED
    BY <1>t, <1>4, <2>2 DEF PushCoded, Captured, player
<1>5. CASE NextFrame
  <2>1. CASE heard = <<>>
    BY <1>t, <1>n, <1>5, <2>1 DEF NextFrame, Captured, factory, encoder, Callback
  <2>2. CASE heard # <<>>
    <3>1. /\ tmp' = heard[1] /\ tmp' \in Frames /\ 1 \in 1..Len(heard)
          /\ \A i \in 1..Len(heard') : heard'[i] = heard[i + 1] /\ i + 1 \in 1..Len(heard)
      <4>1. tmp' = Head(heard) /\ heard' = Tail(heard)
        BY <1>5, <2>2 DEF NextFrame
      <4>2. heard \in Seq(Frames)
        BY <1>t DEF TypeOK
      <4>. QED
        BY <2>2, <4>1, <4>2, TailFacts
    <3>2. tmp' >= 1
      BY <3>1 DEF Frames
    <3>3. UNCHANGED <<fmt, fpc, coded, epc, frame, device>>
      BY <1>5 DEF NextFrame, factory, encoder
    <3>. QED
      BY <1>t, <3>1, <3>2, <3>3 DEF Captured
  <2>. QED
    BY <2>1, <2>2
<1>6. CASE GetNext
  <2>1. /\ frame' = coded[1] /\ frame' \in Frames /\ 1 \in 1..Len(coded)
        /\ \A i \in 1..Len(coded') : coded'[i] = coded[i + 1] /\ i + 1 \in 1..Len(coded)
    BY <1>t, <1>6, TailFacts DEF GetNext, TypeOK
  <2>2. frame' >= 1
    BY <2>1 DEF Frames
  <2>3. UNCHANGED <<fmt, fpc, heard, tmp, cpc, device>>
    BY <1>6 DEF GetNext, factory, player
  <2>. QED
    BY <1>t, <2>1, <2>2, <2>3 DEF Captured
<1>7. CASE PlayMicrophoneAudio \/ LockTmp \/ PlayOn
  BY <1>t, <1>7 DEF PlayMicrophoneAudio, LockTmp, PlayOn, Captured, factory, player, encoder
<1>8. CASE Play \/ CloseDevice
  <2>1. device'.id = device.id
    BY <1>t, <1>8 DEF Play, CloseDevice, TypeOK, player
  <2>. QED
    BY <1>t, <1>8, <2>1 DEF Play, CloseDevice, Captured, player, encoder
<1>9. CASE LockFrame \/ Open \/ Send
  <2>1. UNCHANGED <<fmt, fpc, heard, tmp, cpc, device, coded, frame>>
    BY <1>9 DEF LockFrame, Open, Send, factory, player
  <2>2. epc # "take"
    BY <1>9 DEF LockFrame, Open, Send
  <2>. QED
    BY <1>t, <2>1, <2>2 DEF Captured
<1>10. CASE UNCHANGED vars
  BY <1>t, <1>10 DEF vars, Captured, factory, player, encoder
<1>. QED
  BY <1>1, <1>2, <1>3, <1>4, <1>5, <1>6, <1>7, <1>8, <1>9, <1>10
  DEF Next, FactoryStep, CallbackStep, EncoderStep

-----------------------------------------------------------------------------
LEMMA QueueSuitsStep == IInv /\ [Next]_vars => QueueSuits'
<1>. SUFFICES ASSUME IInv, [Next]_vars PROVE QueueSuits'
  OBVIOUS
<1>t. TypeOK /\ Captured /\ QueueSuits
  BY DEF IInv
<1>1. CASE OnThreadRun
  <2>1. \A f \in 1..Len(fmt) : fmt'[f] = fmt[f]
    BY <1>t, <1>1, AppendFacts DEF OnThreadRun, TypeOK
  <2>2. \A i \in 1..Len(heard) : heard[i] \in 1..Len(fmt)
    <3>1. \A i \in 1..Len(heard) : heard[i] \in Frames /\ heard[i] <= Len(fmt)
      BY <1>t DEF TypeOK, Captured
    <3>. QED
      BY <1>t, <3>1 DEF TypeOK, Frames
  <2>3. tmp # 0 => tmp \in 1..Len(fmt)
    BY <1>t DEF TypeOK, Captured
  <2>4. fpc' # "queue"
    BY <1>1 DEF OnThreadRun
  <2>. QED
    BY <1>t, <1>1, <2>1, <2>2, <2>3, <2>4 DEF OnThreadRun, QueueSuits, Suits, player
<1>2. CASE CloseDevice
  <2>1. ~device'.open
    BY <1>t, <1>2 DEF CloseDevice, TypeOK
  <2>. QED
    BY <1>2, <2>1 DEF CloseDevice, QueueSuits
<1>3. CASE OpenDevice
  <2>1. CASE fpc' = "push" /\ UNCHANGED <<device, ofmt>>
    BY <1>t, <1>3, <2>1 DEF OpenDevice, QueueSuits, Suits
  <2>2. CASE /\ fpc' = "queue" /\ ofmt' = fmt[Current]
             /\ device' = [open |-> TRUE, id |-> device.id + 1, since |-> Current]
    <3>1. tmp < Current /\ \A i \in 1..Len(heard) : heard[i] < Current
      BY <1>t, <1>3 DEF OpenDevice, Captured, Current
    <3>. QED
      BY <1>3, <2>2, <3>1 DEF OpenDevice, QueueSuits, Suits, Current
  <2>. QED
    BY <1>3, <2>1, <2>2 DEF OpenDevice
<1>4. CASE PushHeard
  <2>1. Current \in Frames /\ heard \in Seq(Frames) /\ Len(heard) <= MaxQueue
    BY <1>t, <1>4 DEF PushHeard, TypeOK, Captured, Current, Frames
  <2>0. heard' = Pushed(heard, Current)
    BY <1>4 DEF PushHeard
  <2>2. \A i \in 1..Len(heard') : heard'[i] = Current \/ \E j \in 1..Len(heard) : heard'[i] = heard[j]
    <3>1. \A i \in 1..Len(Pushed(heard, Current)) :
             \/ Pushed(heard, Current)[i] = Current
             \/ \E j \in 1..Len(heard) : Pushed(heard, Current)[i] = heard[j]
      BY <2>1, PushedFacts, AudioAssumption
    <3>. QED
      BY <2>0, <3>1
  <2>3. Suits(Current)
    BY <1>t, <1>4 DEF PushHeard, QueueSuits, Suits, Current
  <2>. QED
    BY <1>t, <1>4, <2>2, <2>3 DEF PushHeard, QueueSuits, Suits
<1>5. CASE NextFrame
  <2>1. CASE heard = <<>>
    BY <1>t, <1>5, <2>1 DEF NextFrame, QueueSuits, Suits, factory
  <2>2. CASE heard # <<>>
    <3>1. /\ tmp' = heard[1] /\ 1 \in 1..Len(heard)
          /\ \A i \in 1..Len(heard') : heard'[i] = heard[i + 1] /\ i + 1 \in 1..Len(heard)
      <4>1. tmp' = Head(heard) /\ heard' = Tail(heard)
        BY <1>5, <2>2 DEF NextFrame
      <4>2. heard \in Seq(Frames)
        BY <1>t DEF TypeOK
      <4>. QED
        BY <2>2, <4>1, <4>2, TailFacts
    <3>2. UNCHANGED <<fmt, fpc, device, ofmt>>
      BY <1>5 DEF NextFrame, factory
    <3>. QED
      BY <1>t, <3>1, <3>2 DEF QueueSuits, Suits
  <2>. QED
    BY <2>1, <2>2
<1>6. CASE Play
  BY <1>t, <1>6 DEF Play, QueueSuits, Suits, player, Current
<1>7. CASE PlayMicrophoneAudio \/ LockTmp \/ PlayOn \/ EncoderStep \/ PushCoded \/ UNCHANGED vars
  <2>1. UNCHANGED <<fmt, device, ofmt, heard, tmp>> /\ fpc' \in {fpc, "idle"}
    BY <1>7 DEF PlayMicrophoneAudio, LockTmp, PlayOn, EncoderStep, PushCoded, GetNext, LockFrame,
                Open, Send, vars, factory, player
  <2>. QED
    BY <1>t, <2>1 DEF QueueSuits, Suits
<1>. QED
  BY <1>1, <1>2, <1>3, <1>4, <1>5, <1>6, <1>7 DEF Next, FactoryStep, CallbackStep
-----------------------------------------------------------------------------
LEMMA LocksStep == IInv /\ [Next]_vars => Locks'
<1>. SUFFICES ASSUME IInv, [Next]_vars PROVE Locks'
  OBVIOUS
<1>t. TypeOK /\ Captured /\ Locks
  BY DEF IInv
<1>n. device.id \in Nat /\ device.open \in BOOLEAN /\ Nobody \notin 1..device.id /\ TheEncoder \notin 1..device.id
  BY <1>t DEF TypeOK, Nobody, TheEncoder
\* an owner that is taken away, or given to the encoder, disturbs nothing
<1>o. ASSUME UNCHANGED <<device, tmp, cpc>>,
             \A f \in Frames : owner'[f] = owner[f] \/ owner'[f] = Nobody \/ owner'[f] = TheEncoder
      PROVE  Locks'
  <2>1. \A f \in Frames : owner'[f] \in 1..device.id => owner'[f] = owner[f]
    BY <1>n, <1>o
  <2>2. device.open => device.id \in 1..device.id
    BY <1>t, <1>n DEF Locks
  <2>3. cpc = "lock" => device.open
    BY <1>t DEF Locks
  <2>4. OneFrameLocked'
    BY <1>t, <1>o, <2>1, <2>2 DEF Locks, OneFrameLocked, Frames
  <2>. QED
    BY <1>t, <1>o, <2>1, <2>2, <2>3, <2>4 DEF Locks, Frames
<1>1. CASE CloseDevice
  <2>1. device'.open = FALSE /\ device'.id = device.id /\ UNCHANGED <<owner, tmp, cpc>>
    BY <1>t, <1>1 DEF CloseDevice, TypeOK, encoder
  <2>2. cpc # "lock"
    BY <1>t, <1>1 DEF CloseDevice, Locks
  <2>. QED
    BY <1>t, <2>1, <2>2 DEF Locks, OneFrameLocked, Frames
<1>2. CASE OpenDevice
  <2>1. CASE UNCHANGED device
    BY <1>2, <1>o, <2>1 DEF OpenDevice
  <2>2. CASE device' = [open |-> TRUE, id |-> device.id + 1, since |-> Current]
    <3>1. device'.open /\ device'.id = device.id + 1 /\ UNCHANGED <<owner, cpc, tmp>>
      BY <1>2, <2>2 DEF OpenDevice
    <3>2. \A f \in Frames : owner[f] # device.id + 1
      BY <1>t, <1>n DEF TypeOK, Nobody, TheEncoder
    <3>3. \A f \in Frames : owner[f] \in 1..(device.id + 1) => owner[f] \in 1..device.id
      BY <1>n, <3>2
    <3>. QED
      BY <1>t, <1>n, <3>1, <3>2, <3>3 DEF Locks, OneFrameLocked, Frames
  <2>. QED
    BY <1>2, <2>1, <2>2 DEF OpenDevice
<1>3. CASE NextFrame
  <2>1. UNCHANGED device /\ device.open /\ device.id \in 1..device.id
    BY <1>t, <1>n, <1>3 DEF NextFrame, Callback, Locks
  <2>2. \A f \in Frames : owner'[f] # device.id
    <3>1. CASE tmp # 0 /\ owner[tmp] = device.id
      <4>1. owner' = [owner EXCEPT ![tmp] = Nobody]
        BY <1>3, <3>1 DEF NextFrame, Unlocked
      <4>2. Nobody # device.id
        BY <1>n, <2>1
      <4>. QED
        BY <1>t, <2>1, <4>1, <4>2 DEF Locks, OneFrameLocked, TypeOK
    <3>2. CASE ~(tmp # 0 /\ owner[tmp] = device.id)
      <4>1. owner' = owner
        BY <1>3, <3>2 DEF NextFrame, Unlocked
      <4>. QED
        BY <1>t, <2>1, <3>2, <4>1 DEF Locks, OneFrameLocked, Frames
    <3>. QED
      BY <3>1, <3>2
  <2>3. \A f \in Frames : owner'[f] = owner[f] \/ owner'[f] = Nobody
    BY <1>t, <1>3 DEF NextFrame, Unlocked, TypeOK
  <2>4. \A f \in Frames : owner'[f] \in 1..device.id => owner'[f] = owner[f]
    BY <1>n, <2>3
  <2>. QED
    BY <1>t, <2>1, <2>2, <2>4 DEF Locks, OneFrameLocked, Frames
<1>4. CASE LockTmp
  <2>1. /\ cpc' = "idle" /\ UNCHANGED <<device, tmp>> /\ device.open /\ device.id >= 1
        /\ \A f \in Frames : owner[f] # device.id
    BY <1>t, <1>4 DEF LockTmp, Locks
  <2>2. \A f \in Frames : owner'[f] = IF f = tmp THEN device.id ELSE owner[f]
    BY <1>t, <1>4 DEF LockTmp, TypeOK
  <2>. QED
    BY <1>t, <2>1, <2>2 DEF Locks, OneFrameLocked, Frames
<1>5. CASE LockFrame \/ Open \/ Send
  <2>1. UNCHANGED <<device, tmp, cpc>>
    BY <1>5 DEF LockFrame, Open, Send, player
  <2>2. \/ owner' = owner
        \/ owner' = [owner EXCEPT ![frame] = Nobody]
        \/ owner' = [owner EXCEPT ![frame] = TheEncoder]
    BY <1>5 DEF LockFrame, Open, Send
  <2>3. \A f \in Frames : owner'[f] = owner[f] \/ owner'[f] = Nobody \/ owner'[f] = TheEncoder
    BY <1>t, <2>2 DEF TypeOK
  <2>. QED
    BY <2>1, <2>3, <1>o
<1>6. CASE \/ PlayMicrophoneAudio \/ OnThreadRun \/ Play \/ PushHeard \/ PushCoded
           \/ PlayOn \/ GetNext \/ UNCHANGED vars
  <2>1. UNCHANGED <<device, tmp, cpc, owner>>
    BY <1>6 DEF PlayMicrophoneAudio, OnThreadRun, Play, PushHeard, PushCoded, PlayOn, GetNext,
                vars, player
  <2>. QED
    BY <2>1, <1>o
<1>. QED
  BY <1>1, <1>2, <1>3, <1>4, <1>5, <1>6 DEF Next, FactoryStep, CallbackStep, EncoderStep

LEMMA ResamplerStep == IInv /\ [Next]_vars => Resampler'
<1>. SUFFICES ASSUME IInv, [Next]_vars PROVE Resampler'
  OBVIOUS
<1>t. TypeOK /\ Captured /\ Resampler
  BY DEF IInv
<1>1. CASE OnThreadRun
  <2>1. epc # "take" => fmt'[frame] = fmt[frame]
    <3>1. epc # "take" => frame \in 1..Len(fmt)
      BY <1>t DEF TypeOK, Captured
    <3>. QED
      BY <1>t, <1>1, <3>1, AppendFacts DEF OnThreadRun, TypeOK
  <2>. QED
    BY <1>t, <1>1, <2>1 DEF OnThreadRun, Resampler, EncodedAsItIs, encoder
<1>2. CASE Open
  BY <1>2, OpenFacts DEF Open, Resampler, EncodedAsItIs, factory
<1>3. CASE GetNext \/ LockFrame \/ Send
  BY <1>t, <1>3 DEF GetNext, LockFrame, Send, Resampler, EncodedAsItIs
<1>4. CASE PlayMicrophoneAudio \/ FactoryStep \/ CallbackStep \/ UNCHANGED vars
  <2>1. UNCHANGED <<fmt, epc, frame, enc>>
    BY <1>4 DEF PlayMicrophoneAudio, FactoryStep, CallbackStep, Play, CloseDevice, OpenDevice, PushHeard,
                PushCoded, PlayOn, NextFrame, LockTmp, vars, factory, encoder
  <2>. QED
    BY <1>t, <2>1 DEF Resampler, EncodedAsItIs
<1>. QED
  BY <1>1, <1>2, <1>3, <1>4 DEF Next, EncoderStep

-----------------------------------------------------------------------------
THEOREM Inductive == Spec => []IInv
<1>1. IInv /\ [Next]_vars => IInv'
  BY TypeStep, CapturedStep, QueueSuitsStep, LocksStep, ResamplerStep DEF IInv
<1>. QED
  BY InitIInv, <1>1, PTL DEF Spec

\* The type invariant, for any formats, queue sizes, frame lengths and number of frames.
THEOREM TypeCorrect == Spec => []TypeOK
<1>1. IInv => TypeOK
  BY DEF IInv
<1>. QED
  BY Inductive, <1>1, PTL

\* A device's thread never has two frames locked (fill_audio, close_device).
THEOREM OneLock == Spec => []OneFrameLocked
<1>1. IInv => OneFrameLocked
  BY DEF IInv, Locks
<1>. QED
  BY Inductive, <1>1, PTL

\* Only frames queued before the device was opened are played in another format (play).
THEOREM RightDevice == Spec => []HeardInItsFormat
<1>1. IInv => HeardInItsFormat
  BY DEF IInv, QueueSuits, Suits, HeardInItsFormat
<1>. QED
  BY Inductive, <1>1, PTL

\* The codec's frame was resampled from its own format (_open_ctx, encode).
THEOREM RightResampling == Spec => []EncodedAsItIs
<1>1. IInv => EncodedAsItIs
  BY DEF IInv, Resampler
<1>. QED
  BY Inductive, <1>1, PTL
=============================================================================
