# Verification of rtplivelib

TLA+ models of rtplivelib (capture, encoding, transport and display of live
video and audio over RTP), checked by TLC on small instances, with theorems
about them that the TLA+ proof system proves for every value of the constants.
Paths such as `core/abstractqueue.h` are below `src/src/`.

## 1. Inventory

The library is a pipeline of threads joined by queues.

    captures -> factories -> encoders -> RTPSendThread -> network
    network -> poll threads -> RTPRecvThread -> RTPUserManager/RTPUser
            -> FECDecoder -> decoders -> players

| Component | State | Operations | Hard behaviour | Correct when |
|---|---|---|---|---|
| `AbstractThread` (`core/abstractthread.*`), base of all of it | exit flag, thread pointer, mutex, condition variable; the subclass's pause condition | `start_thread`, `exit_thread`, `notify_thread`; the worker's loop | flags are written without the mutex of the wait | one worker; `on_thread_pause` before every pause and exit; exit and resume take effect |
| `AbstractQueue` (`core/abstractqueue.h`) | queue, maximum | `push_one`, `get_next`, `get_latest`, two waits, `set_max_size` | size and emptiness are read before the mutex is taken | a lossy FIFO of bounded length |
| `SingleIOQueue`, `MultiOutputQueue`, `Timer` (`core/`) | input and outputs, a callback | exchange of the input, start, stop | exchange against the forwarding thread | nothing is used after it was taken away |
| packetisation and FEC (`rtp_network/rtpsendthread.cpp`, `fec/`, `rtpuser.cpp`) | timestamp; decoder's maps from base timestamp to blocks | `send_packet`, `deal_with_packet`, `decode` | loss, reordering, duplication, wrap of timestamps | frames are whole, and delivered when enough arrives |
| `RTPUserManager` (`rtp_network/rtpusermanager.*`) | list of users with two sources each, active flag, decoder type | SDES, BYE, clear, decoder types | two poll threads and the application, tests outside the mutex | the list is what the application was told |
| rooms: `LiveEngine`, `RTPSendThread`, `RTPSession` | sessions, room and user name, push flag, remembered formats | names, push, join, exit, the sending loop | order of calls, partial failure, values remembered across sessions | sessions announce what was set; packets carry their payload type |
| `DeviceManager`, captures, factories (`device_manager/`) | enable flags, running flags, contexts, threads | enable, start, stop, change a device, destroy | devices stop themselves when they cannot be opened | what runs is enabled and processed by one thread |
| encoders (`codec/encoder.*`, `videoencoder.*`) | codec context, hardware device, current type, format and payload type; the application's settings; input queue | three setters; select, open, fall back, encode, flush | every opening can fail; a closing codec still returns packets; settings change at any stage | packets are labelled as they were encoded; frames suit the open codec |
| decoders (`codec/videodecoder.*`) | payload type, hardware types, codec and parser contexts, frames | `set_hwd_type`; check the type, open, fall back, decode, display | the type is set by another thread while it is acted on | a packet is decoded by its own codec; a setting takes effect |
| players (`player/`) | video: queue pointer, window, renderer, texture, display thread, event thread; audio: device, callback, the frame it plays, whose mutex it holds | giving and taking a window, display; `play`, the callback | the queue's pointer is tested and used in two steps, a wait has no timeout, SDL may fail; a mutex is locked in one callback and unlocked in a later one | a texture suits window and picture; a removal returns; a frame is heard in its format and the encoder gets it |
| frames (`core/format.*`) | buffers with a recursive mutex | copies | two mutexes | a reader's frame is not changed under it (`AudioPath` has the mutex) |

Not protocols, and not modelled: logging, time and string helpers, cropping,
scaling and resampling (functions of FFmpeg), the platform captures (`alsa`, `wasapi`,
`dxgi`), the global callback interface, the printed bandwidth. Section 6 gives the
reason for each part that is left out. The vendored SDK and the `remove` directory
of older FEC codes, which is not built, are outside. `PROJECT.json` lists every
component with its status, and the hazards at their lines.

## 2. Modules

| Module | Models | Runs |
|---|---|---|
| `WorkerThread`, `MCWorkerThread` | `AbstractThread` under each way its subclasses use it | `worker` |
| `LossyFifo` | what a queue promises (abstract) | |
| `PacketQueue`, `MCPacketQueue` | `AbstractQueue` in the ways the library wires it | `queue` |
| `CoreProofs` | seven theorems about `WorkerThread` and `PacketQueue`, one of them refinement | |
| `FecTransport`, `MCFecTransport` | a medium from sender to decoder queue | `fec` |
| `UserManager`, `MCUserManager` | `RTPUserManager` | `users` |
| `ReceiverProofs` | nine theorems about `UserManager` and `FecTransport` | |
| `RoomSession` | `LiveEngine`, `RTPSendThread`, `RTPSession` | `room`, `room_change` |
| `RoomSessionProofs` | five theorems | |
| `DeviceCapture`, `MCDeviceCapture` | `DeviceManager`, captures, factories | `device` |
| `DeviceCaptureProofs` | five theorems | |
| `VideoEncoder`, `MCVideoEncoder` | `Encoder`, `VideoEncoder` | `encoder` |
| `VideoEncoderProofs` | five theorems | |
| `VideoDecoder` | `VideoDecoder` | `decoder`, `decoder_software` |
| `VideoDecoderProofs` | three theorems | |
| `VideoPlayer` | the preview: `set_display_win_id`, `AbstractPlayer`, `VideoPlayer` | `player` |
| `VideoPlayerProofs` | three theorems | |
| `AudioPath` | a sound frame's way: `AudioProcessingFactory`, `AudioPlayer`, `AudioEncoder` | `audio` |
| `AudioPathProofs` | four theorems | |

Definitions whose name has an underscore, such as `TestFull_OffByOne`, are
mutants: a plausible bug of the definition that follows, which breaks the
property that `PROJECT.json` names with it. They are not part of the models.
Where one module of proofs extends two components, the definitions of one of them
have its name in theirs: `ThreadSpec` beside `Spec` of `PacketQueue`, `UsersSpec`
beside `Spec` of `FecTransport`.

### WorkerThread
`pc[w]` is the statement of `ThreadCallBackFunction` the worker `w` is at. The
mutex is held from the lock at line 36 to the sleep. Because neither the exit
flag nor the pause condition is written under it, the evaluation of the wait
predicate (`EvaluatePredicate`) and the sleep (`Sleep`) are two steps. The owner
(`cpc`) makes one call at a time: a setter that pauses, a setter that resumes and
notifies, `start_thread` and `exit_thread`, each with its steps in the order of
the code. Owners differ in two ways, so each behaviour has one of `Owners`: it calls
`start_thread` once in a constructor (or after `exit_thread`), when it has resumed the
object, or always (the video factory); and its `on_thread_run` may pause itself
(encoders, captures whose device fails, decoders). All that occur in the library are in
the run. `foundPausing` records that a `start_thread` found its thread and the pause
condition true, when it overwrites the pointer to a live worker, as section 5 tells.
`OneWorker` says that nothing but this ever gives an object two workers, and that only
the owners of `MayOverwrite` do it.

### PacketQueue
A packet is its number in the order of the pushes. `push_one` is `TestFull`
(outside the mutex), `EraseFirst`, `TestFull`, ..., `Push`; a reader waits
(`HasData`, `Block`, then `NotifyReader` of a push, `Timeout` or `WakeUp`) and
reads (`GetNext`, or `GetLatestTest` and `GetLatest`). A *wiring* says who pushes,
who reads and how; the wirings are the receive queue with two poll
threads (also, with one producer, the encoders' queues), the queue from a capture
to its factory, the same with the two threads the video factory has after a start
while it is paused (`videoprocessingfactory.h:173`), and the queue to the player,
whose wait has no timeout. `set_max_size` may change the maximum at any moment.
`front()` or `pop()` of an empty `std::queue` sets `broken`, after which the readers
stop. `seen` remembers what had been taken at the test a `get_latest` made, so that
`NoEmptyPop` can say whose doing an empty queue is: with one reader nobody's, with two
the other reader's, and then it does happen.

### FecTransport
`SendPacket` is one `send_packet` with what `FECEncoder::encode` decides: a frame
below a symbol is one packet, a frame of one symbol or a frame the fountain code
refuses is cut into raw packets, every other frame is encoded. `Receive` is one
packet through `deal_with_packet` and `FECDecoder::decode`; `PopFec`, `PopSingle`
and `PopRaw` are the three cases of `pop` with the erasing of earlier entries.
The network is the set of packets in flight; a link says if it reorders, how
many copies it may deliver and at which ends the code may fail, and any packet may never
arrive. The fountain code is
external: `N` blocks of a frame of `N` symbols may decode it, `N + Overhead` do, unless
it fails: a decoder that cannot be created, or a decode that fails, loses the
blocks it had (`PopFec`), and a frame that cannot be allocated or recovered becomes a
packet without data that goes to the decoder all the same (`Pushed`, `Lost`). `failed`
has the frames to which that happened. Each output says how many bytes were
`copied`. The last block of a raw frame of several packets is taken to have
`symbol_size - fill_size` bytes (`fec/fecdecoder.cpp:129`), which for two packets is 0
and for more is negative: `broken` stands for that copy, as for one from a null
position, and the model says no more of the receiver after it.
`FewPackets` is not part of the model: it is what the theorems about frames suppose
(section 4), and TLC evaluates it for the run's bounds.

### UserManager
A poll thread's `deal_with_sdes` or BYE begins with the tests that `insert` and
`remove` make before the mutex. Under it `insert` is three steps, because it reads
`_type`, which the setter writes without the mutex: it finds or adds the user (`Find`),
reads the type (`ReadType`), and gives the user that type and its source (`Insert`);
nobody else has the mutex meanwhile (`Unlocked`). The application's joining
and leaving is three or two steps (flag, list, sessions), and
`set_decoder_hwd_type(type)` iterates without the mutex, so it is two. `told` counts,
for each name, the calls of `on_new_user_join` less those of `on_user_exit`. `remove` is one
search from the front (`Reached`), which takes the source from the users it passes and
ends at the first that this leaves without a source (`Searched`), which it erases; the
others keep their order (`Kept`, `InOrder`). If the application iterates meanwhile,
the element it is at may be the one erased: `dangling`.

### RoomSession
The application's thread is between calls (`todo` empty) or has `set_room_name`
calls to make: `join_room` is an exit from an earlier room and a join. In each,
`set_active` comes before the mutex and writes `_active` (`SetActive`) before it clears
the list (`ClearAll`), so `stage` has three values. `EnterRoom`
creates both sessions, each of which may fail to get its port. `OnThreadRun` takes
one packet of each encoder queue and sends it through `check_format`. A session
is what it announces, its SSRC and its default payload type; `jrtplib` gives a new
one no payload type and refuses a packet without. A name or a room of more than 255
bytes (`TooLong`) is refused as an SDES item, which is then what it was: `Named` and
`Noted`, whose results `create` does not look at (`rtpsession.cpp:154-157`); that
`jrtplib` has no memory for an item is left out. A poll thread's `insert` tests
`_active` (`HearOf`) and adds the user (`LearnUser`) in two steps; leaving ends the
sessions, which waits for their poll threads.

### DeviceCapture
A call of the application is the list of the operations it makes (`todo`), each
of which the threads may overtake. A capture and a factory have numbered threads,
with what `WorkerThread` shows of the wait abstracted to "parked until it should
run". `video_open_flag` has no initial value, hence its two, and `asked` is which of
start and stop the application called last, which the documentation speaks of. `OpenDevice` may
fail, and then the capture stops itself from its own thread. `ctx` and the
two steps `TestContext` and `ReadFrame` are the null test before and the read
after the lock in `on_start`.

### VideoEncoder
`pc` is the stage of the encoding thread: `on_thread_run` (`waiting`, `locking`,
`queue`), `_select_encoder` (`hardware` to `chosen`, `software`), the rest of `encode`
(`frame`, `send`), its failure (`failed`) and the pause (`parked`). `_set_hw_encoder_ctx`
reads `hwd_type_user` up to five times without a lock, and each read that may find
another value than the one before begins a stage: the first test (`TestHardware`), the
comparisons (`TestSame`, `TestAuto`), the switch (`OpenDevice`), the argument of
`_init_hwdevice` (`InitDevice`) and the assignment to `hwd_type_cur` after it
(`ChooseDevice`). The record `enc` is
what this thread alone writes: contexts, device, current types, and `pushed`,
the labels of the packets pushed since the last frame was taken next to what the
packets are. `_close_ctx` is called at several stages and always as a whole, so
it is an operator on that record (`CloseCtx`), and it begins with the flush that
labels what the old codec returns. `WaitForResource` reads `_queue` without its
mutex; `crashed` is a null pointer there. `careful` tells whether the application
heeds the class's note that it is not thread safe: without it the setters act
between any two stages. `sw_frame` is the frame that is kept; `lent` says that its planes
are those of a packet it was filled from by `memcpy` (line 521), which are the packet's no
longer when another one is scaled into them (`stale`), and `other` that `Auto` kept the
context for a packet of another format (line 325). Only the equality of formats matters to the code, so a
format is a size and one of two pixel formats; the frame rate is positive or not.
`set_encoder_type`'s shortcut for `Auto` leaves the same value as the plain
assignment, and the starting of the thread is `Wake`.

### VideoDecoder
`check_pt` reads `hwd_type_user` when it compares, once more in its `switch`, and
`_init_hwdevice` may write it, so these are the steps `TakePacket`, `Choose` and
`OpenDevice`, with `SetHwdType` of the receiving side between them. `hwdevice` is
the pointer and its `get_init_result`: a device that cannot be created leaves the
result of the last success. A codec may be missing, not be allocated or not open, in
hardware (`OpenQSV`) and in software (`InitSoftware`): `refused` says that the
software codec was the last to do so, after which an unopened context is kept
(`Kept`, line 219), or there is none, and if the stale result sends the packet to
`decode()` that is a null pointer (`crashed`). `frame` and `sw_frame` are the two frames of the
object, and `new` tells a picture of this packet from what an earlier one left.

### VideoPlayer
The application's thread (`api`) is in `set_display_win_id` with the factory's
`player_mutex`, so no picture is pushed meanwhile: it exchanges the queue's pointer
under the display thread's `_object_mutex` (`SetPlayerObject`), wakes the old
queue's reader (`ExitWaitResource`), and gives the window (`SetWinId`) and starts the
thread, or ends it and deletes the player (`ExitThread`, `Join`). The display thread
(`pc`) tests `_play_object` and uses it in two steps, and its test for an empty
queue and its sleep are two as well; the wait has no timeout. `win` is the private
data of `VideoPlayer`: what `release_window`, `create_window` and `set_format`
leave of it, each with the SDL calls that may fail in between. A picture is its
format. `PlayerEvent`'s thread may clear or set `play_flag` at any moment.
`player_queue` outlives the player, `crashed` is the null pointer of line 153.

### AudioPath
A frame is its place in the capture's order and `fmt[f]` its format. The factory
(`fpc`) gives it to `AudioPlayer::play`, which for a new format closes the device and
opens another, and pushes it to the encoder. SDL's audio thread (`cpc`) is that of the
open device, numbered in the order of opening: it unlocks the frame it has played
(`NextFrame`) and locks the next (`LockTmp`), maybe callbacks later. Closing a device
waits for its callback to end, and what it has locked stays locked, since the next
device's thread is another. The encoder's thread (`epc`) locks the frame it takes until it has
encoded it; its context is none, one that could not be opened, or open.

## 3. Runs and what they show

| Run | Bounds | Shows |
|---|---|---|
| `worker` | two workers, four kinds of owner, any number of calls | `OneWorker`, `PauseCallbackRuns`; `exit_thread` returns unless the worker is between predicate and sleep or asleep when the flag is set (`ExitReturnsUnlessInGap`); repeated resumes make it run (`RepeatedResumeRuns`) |
| `queue` | four wirings, one with two readers, six packets, maxima 2 and 3 and the ignored 0 | `LengthBound`, `NoEmptyPop`, refinement of `LossyFifo`, `NothingStays` |
| `fec` | two frames of 1, 2, 3 or 5 bytes with a symbol of 2, four links, timestamps modulo 16 from just before the wrap; the code and allocations may fail at both ends, where packets are duplicated at the sender's | `WholeFrames`, `DeliveriesArePaid`, `EnoughIsDelivered` |
| `users` | two users, four sources, two poll threads, two decoder types | `UsersHaveSources`, `ApplicationKnowsUsers`, `ByeRemovesSource`, `TypeReachesAll` |
| `room` | two rooms, names and formats, two joins (four sessions), one packet per queue, one name and one room too long | `PayloadTypeMatches`, `SessionsTellTheTruth`, `UsersOfThisRoom`, `OwnIdsKnown` |
| `room_change` | the same | after a change of room the format that was remembered makes the new session refuse packets: `NoPacketRefused` is violated |
| `device` | two devices per medium, two threads per capture, three per factory, opening may fail | `GlobalSwitch`, `CaptureIsSafe`, `VideoIsProcessed`, `AudioHasOneReader` |
| `encoder` | two sizes, two pixel formats, two codecs of three makers of which two pairs are missing, setters between frames or at any stage | `LabelsAreTrue`, `FramesSuitTheCodec`, `CurrentIsTrue`, `DrainedOnlyWhenStopped` |
| `decoder` | three payload types, one without hardware, another without software, five hardware types, every opening may fail | `DecodesWithItsCodec`, `ReportsTruth`, `SettingTakesEffect` |
| `decoder_software` | the same | a picture the software codec returned is not played: `SoftwareIsShown` is violated |
| `player` | two windows, three formats of which two can be drawn, a queue of two, every SDL call may fail | `TextureSuits`, `KeepsShowing`; a removal that does not fall between two steps of the display thread returns (`RemovalReturns`); while pictures keep coming, pictures are taken from the queue (`PreviewGoesOn`) |
| `audio` | four frames of two formats, queues of two, two callbacks per frame, device and codec may fail to open | `OneFrameLocked`, `HeardInItsFormat`, `EncodedAsItIs`; the encoder gets its frame unless the device that plays it is closed (`EncoderGoesOn`) |

Why the bounds are enough. Two workers are the old one and the new one, which is
all a second start needs. Six packets fill a queue of two or three, overflow it by
two producers and drain it. A second reader is what a
second factory thread is. Two frames are a frame and the one whose completion
erases it; their sizes are less than a symbol, a symbol, and two and three symbols of
which the last is filled up; two symbols with one block of overhead and five packets give every
order of completion, repair and loss. A name with three sources has one more than
its two slots, and another user can be missed when the first is. Two joins are a room and a change of room. Two devices of a medium
are all it has; the third factory thread is one more than a start can need. Two sizes
and two pixel formats give a frame that differs from the context in either; the
missing encoders make `Auto` try both codecs and make software fail as well. Three
payload types are one in use, another that hardware decodes and one that it does
not. Two windows and two formats that can be drawn give every change of one with and
without the other, the third format leaves no texture; four frames are a frame that is
played, one that fills the queue after it, one of another format and one after
that. The two devices of a medium are symmetric, so `device` uses a symmetry set; it checks
no liveness. Deadlock is not checked where the system ends: after the last frame
in `fec` and `audio`, after the destructor in `device`, at the null pointer in `player`.
The type invariants are all proved; TLC is given those of `fec` and `users` as well.

**Fairness.** `worker` assumes that a thread that can run does (weak fairness of
each worker and of the controller inside a call); the owner need not call
anything, and no spurious wake-up is promised. `queue` assumes weak fairness of
each reader, whose thread runs and whose timed wait ends; no producer has to push.
`decoder` assumes it of the decoding thread, and that packets keep coming: a
setting is acted on when the next packet is. These are what the C++ scheduler
and a running stream give. `player` assumes it of the application inside a call and
of the display thread; nobody has to push, and no spurious wake-up is promised.
`audio` assumes it of the factory, of the callbacks while a device is open, and of the
encoder's thread; no further frame has to come. The other runs check safety.

## 4. Theorems

All for arbitrary values of the constants under the named assumptions of the
modules. Each rests on an inductive invariant, which the runs were given first.

- `CoreProofs`, the thread. `ThreadTypeCorrect` (the type invariant is inductive because
  it says that the mutex is held exactly in the critical section),
  `PauseCallback` (`PauseCallbackRuns`, strengthened by: a worker past
  `on_thread_pause` has flushed), and `OneThread` (`OneWorker` for any set of owners: a
  spawn follows a start that found no thread or that found it pausing, and an owner that
  is none of `MayOverwrite` makes no such start).
- `CoreProofs`, the queue. `IInv` says that the queue holds the last packets pushed
  without a gap and newer than what the readers have (`Numbered`), that each
  producer that has seen room has a place (`Room`), and that with readers of
  newest packets the last packet disappears only by another reader (`NotDrained`). From it
  `TypeCorrect`, `Bounded` for any number of producers, `NeverEmptyPop` for any number of
  readers, and `ImplementsFifo`: each step is a step of `LossyFifo` or a stutter.
- `ReceiverProofs`, the users. The invariant is the run's own properties and
  `OwnSources`: a user's sources are those that an SDES packet announces for its name,
  so two users never share one, and one search finds a source wherever it is.
  Only one poll thread is in `insert`, whose user is in the list (`OneInserts`), and
  a type it read and that is no longer `_type` misses that user alone (`StaleType`); so
  a call of the setter misses at most one. `InOrderEnumerates` (taking at most one place away leaves the others once and in
  order) is what the lemma about `remove` rests on. From it `UsersTypeCorrect`, `HaveSources`, `ApplicationKnows`,
  `ByeRemoves` and `TypeReaches`, for any announcements of any number of sources.
- `ReceiverProofs`, the frames. `TypeCorrect` needs only `FrameSent` (each frame has the
  mode and the number of packets that `encode` chose) and supposes nothing. The others
  are proved under `FewPackets`: the packets of a behaviour do not use up the 2^32
  timestamps, which may wrap. Two frames of one timestamp are one frame to the
  receiver, so without this they are false. The clock's distance from a frame's
  timestamp (`Dist`) grows with every later packet and stays below a cycle
  (`Spaced`), so no two video frames have one timestamp (`OwnTimestamp`), and
  `get_correct_timestamp` finds a video frame's from any of its packets
  (`VideoBase`). `FecEntries` and `RawEntries` say whose blocks an entry of the maps
  holds; for audio every position has an entry of its own. From these
  `WholeFramesHold`, which counts the bytes copied as well: `RawVideo` knows what the last
  block of a raw frame is taken to have, and that a frame of more than one never comes
  out whole (section 5). Frames in `failed` are excepted. `DeliveriesPaid` is strengthened by the blocks that wait
  (`Paid`): they and N times the deliveries are not more than the packets that came.
  `EnoughDelivered` is strengthened by the order of the network (`Enough`): a frame
  not yet delivered holds all its packets that came, or none of its packets is
  still to come, so what is erased with an earlier entry belongs to a frame that
  gets nothing more.
- `RoomSessionProofs`. `IInv` relates the calls still to be made to the state
  (`CallsInv`), the sessions to the room (`RoomInv`), the users of a room that was
  left to the poll threads that were adding them, one to each (`UsersInv`), the payload
  type to the remembered format (`FormatInv`), and announcements and SSRCs to what was set
  (`SdesInv`, `SsrcInv`). From it the safety properties of the `room` run.
- `VideoEncoderProofs`. The invariant is a predicate on the encoder's record for each
  stage of the thread (`Good`): `Sound` (the labels and the current codec are the open
  context's, the current hardware is the context's or none) wherever a step may end,
  `Closed` before a hardware is initialised, and `Opening` after that, when its context is
  open and its maker is not yet noted. It is shown for each operator on that record (a
  flush, a close, an attempt to open) and then for each stage, whatever the settings
  are. `Known` adds that with settings that hold still the current hardware is the one
  in use. `QueueHeld` and `StoppedKnown` (a context that is open while the thread is to
  pause is one the application stopped) make `DrainedOnlyWhenStopped` inductive.
  `FramesSuit` rests on four more: a frame that is kept has the size of the open context
  (`FrameKept`), planes that are lent stay with packets of one format (`Lent`), nothing
  is sent while a packet is on its way to the codec (`NotYetSent`), and the context that
  was chosen suits the packet (`Chosen`). From these `TypeCorrect`, `LabelsTrue`,
  `CurrentTrue`, `Drained` and `FramesSuit`, for any sizes and any build.
- `VideoDecoderProofs`. The invariant says where `check_pt` is (`Control`), and what
  the context is while the hardware is used (`Hardware`) and after the fallback
  (`Software`: the packet's type, if there is one, and open unless the software codec was
  the last to be refused). From it `TypeCorrect`, `RightCodec` and `TruthReported`,
  whatever is set and whatever fails while the thread works.
- `DeviceCaptureProofs`. The calls of the application are lists of operations, and
  most of what the invariant says is about the lists: operations on devices come before
  those on factories and these before destructors (`Ordered`); what runs against the
  settings is still to be stopped by an operation in the list (`Switched`); threads
  are ended only when nothing runs (`Ending`); a running device has a factory thread or
  an operation to come that starts one (`Served`); and of each guarded object only
  the thread it points to is alive while its devices are open, and a thread about to
  read has a device (`Alone`). `AskedInv` adds what start and stop left of the switch,
  for `Global`. From it `TypeCorrect`, `Global`, `Safe`, `OneReader` and
  `Processed`, for any devices and numbers of threads; `Safe` and `OneReader` until a
  device fails to open, which is where the code goes wrong (section 5).
- `VideoPlayerProofs`. A predicate on the window, `Good`: a renderer is the present
  window's and a texture the renderer's with the format that was set (`Chain`), and a
  window that has shown a picture without a failure has a renderer, and a texture for a
  format it can draw (`Showing`). It is shown for each function that changes the
  window; `AtWork` says that a window is created for an id and a format set for a
  picture. From it `TypeCorrect`, `Suiting` and `Keeping`.
- `AudioPathProofs`. What threads have was captured (`Captured`), and what the player
  looks at is newer than what it plays or has queued; so all that was queued
  before the device was opened is told by its place (`QueueSuits`). A callback that
  waits for a frame has no other locked (`Locks`), and the resampler follows the format
  (`Resampler`). From it `TypeCorrect`, `OneLock`, `RightDevice` and `RightResampling`.

Only model-checked: the liveness properties (`ExitReturnsUnlessInGap`,
`RepeatedResumeRuns`, `NothingStays`, `SettingTakesEffect`, `RemovalReturns`,
`PreviewGoesOn`, `EncoderGoesOn`), which are out of the prover's
reach. Every invariant and the refinement that a passing run checks is a theorem too.

## 5. Disagreements between code and documentation

`PROJECT.json` has two under "findings", each with the run that shows it: packets
refused after a change of room, and pictures of the software decoder that are never
played.

More that were met while modelling and that no run claims. Threads, queues, network:

- a single resume can be lost, because neither the pause condition nor its
  notification takes the mutex (`core/abstractthread.h:168`, against line 120);
- encoders and captures pause themselves and are resumed by a call that starts a thread: if
  they pause themselves in between, another thread is started and the first is
  forgotten (`core/abstractthread.cpp:79`, `MayOverwrite`), as when an encoder fails between
  `codec/encoder.cpp:60` and that test;
- with the two threads the video factory may have (below), the queue of a capture can be read
  when it is empty, although `has_data` was tested (`core/abstractqueue.h:114`);
- a user of the room that was left can be inserted and stay through the next room, one
  for each poll thread (`UsersOfThisRoom` is that bound): `_active` is tested at
  `rtp_network/rtpusermanager.cpp:232`, before the mutex is taken at 239;
- a decoder type set for all users can miss one, whom `insert` is adding: it reads `_type`
  at `rtp_network/rtpusermanager.cpp:243` under the mutex, the setter (153-159) writes it
  and iterates without, against `rtpusermanager.h:110` (`TypeReachesAll`: one at most);
- the local audio SSRC stays that of the room that was left (`rtp_network/rtpsendthread.cpp:461`
  clears only the video's), where `rtpusermanager.h:92` says 0 (`OwnIdsKnown`);
- a name of more than 255 bytes is never announced and nobody is told:
  `rtp_network/rtpsession.cpp:154-157` does not look at the result of `set_local_name`;
- a raw frame of several packets is never whole: the last block is taken to have
  `symbol_size - fill_size` bytes (`rtp_network/fec/fecdecoder.cpp:129`), which is 0 for two
  packets and negative for more (`PopRaw`, `WholeFrames`);
- `video_open_flag` has no initial value, so a device that is enabled may run before
  `start_video_capture` was ever called, against `device_manager/devicemanager.cpp:31-32` and
  49-50 (`GlobalSwitch`);
- a camera that is opened anew and fails has a null device when its thread reads it:
  the test is at `device_manager/cameracapture.cpp:208`, the read at 231 (`CaptureIsSafe` holds
  until a device fails);
- the length of a queue passes its maximum (`core/abstractqueue.h:128` says it
  does not; `LengthBound` is what holds);
- the push flag is announced but never tested when packets are sent;
- a frame of exactly one symbol (1024 bytes) is sent without the code, its last
  packet's length is size % symbol = 0 (`rtp_network/rtpsendthread.cpp:290`), and
  the receiver drops an empty payload (`PayloadLength`, `DealWithPacket`), though
  `rtpsendthread.cpp:269` means to send it directly;
- a microphone enabled while audio capture is on is processed by nobody when the
  audio factory has no thread yet, because its `notify_capture` only notifies
  (`device_manager/audioprocessingfactory.h:129`, `NotifyOps`), against
  `devicemanager.cpp:68`;
- the video factory's `notify_capture` is `start_thread`, which on a paused
  factory starts another thread and forgets the first
  (`core/abstractthread.cpp:79`, `StartThread` of `DeviceCapture`), so a thread
  outlives the object, against `core/abstractthread.h:20`;
- the increment of an audio timestamp is the integer 1u / sample_rate = 0
  (`rtp_network/rtpsendthread.cpp:119`), so the packets of an audio frame that needs
  several never have one base timestamp, and the frame is not delivered;
- the encoder's `hwd_type_cur` is not the hardware in use when the type is set between the
  opening and the assignment (`codec/videoencoder.cpp:363`, 365); `CurrentIsTrue` supposes an
  application that is careful, and says of any other what still holds;
- with `Auto` a hardware context is kept for a picture of another format
  (`codec/videoencoder.cpp:325`), and a picture is scaled into planes that were lent by an
  earlier packet (521), which may be gone;
- a software decoder that could not be opened is kept and given packets
  (`codec/videodecoder.cpp:219`), and where there is none the result of an earlier success of the
  hardware (399) sends the packet to `decode()` with a null pointer (237);
- an encoder resumed after a stop gives its frames to a codec that was flushed to
  its end, which refuses them until the format changes (`codec/encoder.cpp:184`);
- an audio context that could not be opened is kept, and refuses frames of that format
  until the format changes (`codec/audioencoder.cpp:309`);
- the number of samples divides a size by bits * 4 / channels
  (`codec/audioencoder.cpp:155`), which is not the bytes of a sample; for a short frame it is
  0, the resampler succeeds without a result, and line 162 copies from a null pointer;
- when `swr_init` fails the resampler stays, not initialised and not null
  (`audio_processing/resample.cpp:148`);
- the audio decoder is given no player, so what it decodes goes nowhere.

Pictures and sound:

- a new window shows nothing until the format changes: `show_format` is not
  forgotten with the texture (`player/videoplayer.cpp:98`, 228-237);
- `_play_object` is tested at `player/abstractplayer.cpp:146` and used at 153 without its
  mutex (`WaitResourcePush`); the wake-up of a removal can fall between the display
  thread's test and its sleep, and then the removal waits for the thread for ever, with
  the factory waiting for `player_mutex`;
- after a resize pictures are shown again only when another window event comes at least
  100 ms later (`player/abstractplayer.cpp:12-40`);
- `player_queue` outlives the player, so a new window begins with old pictures;
- `player/videoplayer.cpp:205` compares the window's sides where the frame's are meant;
- a change of format while a frame is played leaves the frame locked by a thread that has
  ended, and the encoder waits for it for ever (`player/audioplayer.cpp:148`, `Orphaned`);
- what was queued before a device is opened is played in the new device's format
  (`HeardInItsFormat` says how long);
- `Crop` tests its filter graph (`image_processing/crop.cpp:163`) and reads its rectangle (166,
  223) without its mutex, against `crop.h:70`: a rectangle set meanwhile releases the graph
  before its use at 192, or leaves the graph of the old rectangle in use, with pictures
  labelled with the new one until the next change;
- the last picture of a device is not forgotten when it stops: after a restart it is sent
  again until the device's first picture comes (`device_manager/videoprocessingfactory.cpp:93`);
- a frame rate of 0, which `device_manager/desktopcapture.cpp:327` allows, divides by zero in
  the factory (`videoprocessingfactory.cpp:305`, 350, 367);
- `DataBuffer`'s copy takes the size of its target and not of its source
  (`core/format.cpp:42-44`), and it locks two mutexes in the order of its operands (32-36).

## 6. Not modelled, and why

- `SingleIOQueue` and `MultiOutputQueue`: no thread of the library uses them, only a program
  of the tests does, so there is no owner from whose calls a model could be written.
  An owner would have to stop the forwarding thread before it exchanges the input, which is
  read there without the setter's mutex (`core/singleioqueue.h:110`, `multioutputqueue.h:46`).
- `Timer` and `RTPBandwidth`: a printed statistic that nothing depends on.
- Platform captures and `GPUDevice`: calls of operating system interfaces; their queues
  are a wiring of `PacketQueue`.
- Scaling, resampling, coding, drawing, the fountain code: computed by libraries. The
  models say when and with what they are called, and that they may fail.
- The audio decoder, whose output goes nowhere, the audio encoder's pause, and the
  number of samples it takes, which is arithmetic.
- The lifetime of a user's decoders and players (`rtp_network/rtpuser.h:91`), destructors of the
  rooms' objects, and `set_destination`, which gives addresses to a session.
- The crop rectangle and its cached graph: beyond the two races told above there is
  only a conversion.
- Merging a camera's and a desktop's picture: `_merge_frame` returns the camera's.
- Sizes of windows and black borders: arithmetic without state that others read.
- `GlobalCallBack`: the application's; what it is told of users is `told` in `UserManager`.
- Logging, errors, time, strings: no state.

Proof modules avoid `RECURSIVE`; the models have no recursion. The abstract
specification is `LossyFifo`.
