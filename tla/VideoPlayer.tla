---------------------------- MODULE VideoPlayer -----------------------------
(***************************************************************************)
(* The local preview: VideoProcessingFactory::set_display_win_id and its   *)
(* queue to the player (src/src/device_manager/videoprocessingfactory.cpp),*)
(* AbstractPlayer's exchange of the queue and its display thread           *)
(* (src/src/player/abstractplayer.cpp), and the window, renderer and       *)
(* texture of VideoPlayer (videoplayer.cpp).                               *)
(*                                                                         *)
(* The application's thread is inside set_display_win_id, with the         *)
(* factory's player_mutex, or between calls.  The display thread waits for *)
(* pictures without a timeout; its test for an empty queue and its sleep   *)
(* are two steps, as are its test of _play_object and its use.  A picture  *)
(* is its format: nothing else of it decides what the player does.         *)
(***************************************************************************)
EXTENDS Integers, Sequences

CONSTANTS
    Windows,    \* window ids of the application
    NoWindow,   \* nullptr
    Formats,    \* formats of pictures
    Drawable,   \* those for which set_format creates a texture
    NoFormat,   \* the initial show_format
    MaxQueue,   \* _max_size of player_queue
    SdlFails    \* SDL may fail to create a window, a renderer or a texture

ASSUME PlayerAssumption ==
    /\ NoWindow \notin Windows
    /\ Drawable \subseteq Formats /\ NoFormat \notin Formats
    /\ MaxQueue \in Nat \ {0}
    /\ SdlFails \in BOOLEAN

VARIABLES
    api,        \* where the application's thread is
    target,     \* the id set_display_win_id was called with
    player,     \* d_ptr->player is not nullptr
    object,     \* its _play_object is not nullptr
    exitFlag,   \* its _thread_exit_flag
    pc,         \* where the display thread is
    queue,      \* player_queue, which outlives the player
    pack,       \* the picture the display thread has taken
    win,        \* VideoPlayerPrivateData
    play_flag,  \* PlayerEvent: windows are not being resized
    crashed     \* _play_object was used while it was nullptr

thread == <<pc, pack>>
vars == <<api, target, player, object, exitFlag, thread, queue, win, play_flag, crashed>>

NoTexture == [window |-> NoWindow, format |-> NoFormat]

\* shown: a picture has been shown since the window was created; failed: SDL has
\* failed since then.  Neither is a field of the class.
NewWin == [id |-> NoWindow, screen |-> NoWindow, renderer |-> NoWindow,
           texture |-> NoTexture, format |-> NoFormat, shown |-> FALSE, failed |-> FALSE]

Wins == [id : Windows \cup {NoWindow}, screen : Windows \cup {NoWindow},
         renderer : Windows \cup {NoWindow},
         texture : [window : Windows, format : Formats] \cup {NoTexture},
         format : Formats \cup {NoFormat}, shown : BOOLEAN, failed : BOOLEAN]

InCall == {"object", "wake", "window", "start", "exit", "join"}
Draining == {"take", "play", "draw"}    \* _object_mutex is held

TypeOK ==
    /\ api \in InCall \cup {"idle"}
    /\ target \in Windows \cup {NoWindow}
    /\ player \in BOOLEAN /\ object \in BOOLEAN /\ exitFlag \in BOOLEAN
    /\ pc \in Draining \cup {"none", "loop", "test", "wait", "gap", "asleep", "lock", "done"}
    /\ queue \in Seq(Formats) /\ Len(queue) <= MaxQueue
    /\ pack \in Formats \cup {NoFormat}
    /\ win \in Wins
    /\ play_flag \in BOOLEAN /\ crashed \in BOOLEAN

Init ==
    /\ api = "idle" /\ target = NoWindow
    /\ player = FALSE /\ object = FALSE /\ exitFlag = TRUE
    /\ pc = "none" /\ pack = NoFormat
    /\ queue = <<>>
    /\ win = NewWin
    /\ play_flag = TRUE /\ crashed = FALSE

(***************************************************************************)
(* The window: what an operation may leave of it                           *)
(***************************************************************************)
\* the results of an SDL call that creates something
Created(it, null) == {it} \cup (IF SdlFails THEN {null} ELSE {})

\* mutant: the renderer and the texture of the old window stay
ReleaseWindow_KeepsTexture(w) == [w EXCEPT !.screen = NoWindow]

ReleaseWindow(w) ==
    [w EXCEPT !.texture = NoTexture, !.renderer = NoWindow, !.screen = NoWindow]

CreateRenderer(w) ==
    {[w EXCEPT !.renderer = r, !.failed = @ \/ r # w.screen] :
        r \in Created(w.screen, NoWindow)}

\* create_window(id) with an id that is not null
CreateWindow(w, id) ==
    UNION {CreateRenderer([w EXCEPT !.id = id, !.screen = s, !.shown = FALSE,
                                    !.failed = s # id]) : s \in Created(id, NoWindow)}

CreateTexture(w, f) ==
    IF w.renderer = NoWindow \/ f \notin Drawable THEN {w}
    ELSE {[w EXCEPT !.texture = t, !.failed = @ \/ t = NoTexture] :
             t \in Created([window |-> w.renderer, format |-> f], NoTexture)}

\* mutant: a format without a texture is not remembered
SetFormat_Remembers(w, f) ==
    IF w.format = f THEN {w}
    ELSE LET fresh == [w EXCEPT !.texture = NoTexture]
             ready == IF w.renderer = NoWindow THEN CreateRenderer(fresh) ELSE {fresh}
             made == UNION {CreateTexture(r, f) : r \in ready}
         IN  {IF t.texture = NoTexture THEN t ELSE [t EXCEPT !.format = f] : t \in made}

\* set_format(f): an equal format changes nothing, whether or not there is a texture
SetFormat(w, f) ==
    IF w.format = f THEN {w}
    ELSE LET fresh == [w EXCEPT !.texture = NoTexture]
             ready == IF w.renderer = NoWindow THEN CreateRenderer(fresh) ELSE {fresh}
         IN  {[t EXCEPT !.format = f] : t \in UNION {CreateTexture(r, f) : r \in ready}}

(***************************************************************************)
(* The application: set_display_win_id                                     *)
(***************************************************************************)
\* for an id there is a player from here on; without one there is nothing to do
SetDisplayWinId ==
    /\ api = "idle"
    /\ \E id \in Windows \cup {NoWindow} :
          /\ id = NoWindow => player
          /\ target' = id
          /\ player' = TRUE
    /\ api' = "object"
    /\ UNCHANGED <<object, exitFlag, thread, queue, win, play_flag, crashed>>

\* set_player_object after its first exchange and its last test
Onward == IF target = NoWindow THEN "exit" ELSE "window"

\* set_player_object: the pointer, under the mutex of the draining loop
SetPlayerObject ==
    /\ api = "object"
    /\ pc \notin Draining
    /\ object' = (target # NoWindow)
    /\ api' = IF object THEN "wake" ELSE Onward
    /\ UNCHANGED <<target, player, exitFlag, thread, queue, win, play_flag, crashed>>

Notified == IF pc = "asleep" THEN "lock" ELSE pc

\* mutant: the old queue is not told
ExitWaitResource_Silent ==
    /\ api = "wake"
    /\ api' = Onward
    /\ UNCHANGED <<target, player, object, exitFlag, thread, queue, win, play_flag, crashed>>

ExitWaitResource ==
    /\ api = "wake"
    /\ pc' = Notified
    /\ api' = Onward
    /\ UNCHANGED <<target, player, object, exitFlag, pack, queue, win, play_flag, crashed>>

SetWinId ==
    /\ api = "window"
    /\ \/ target = win.id /\ UNCHANGED win
       \/ target # win.id /\ \E w \in CreateWindow(ReleaseWindow(win), target) : win' = w
    /\ api' = "start"
    /\ UNCHANGED <<target, player, object, exitFlag, thread, queue, play_flag, crashed>>

\* start_thread: a display thread that exists is not asleep where it notifies
StartThread ==
    /\ api = "start"
    /\ IF pc = "none" THEN pc' = "loop" /\ exitFlag' = FALSE
       ELSE UNCHANGED <<pc, exitFlag>>
    /\ api' = "idle"
    /\ UNCHANGED <<target, player, object, pack, queue, win, play_flag, crashed>>

ExitThread ==
    /\ api = "exit"
    /\ exitFlag' = TRUE
    /\ api' = "join"
    /\ UNCHANGED <<target, player, object, thread, queue, win, play_flag, crashed>>

\* the thread has ended; ~VideoPlayer goes on to its end
Join ==
    /\ api = "join"
    /\ pc = "done"
    /\ pc' = "none" /\ pack' = NoFormat
    /\ win' = NewWin
    /\ player' = FALSE
    /\ api' = "idle"
    /\ UNCHANGED <<target, object, exitFlag, queue, play_flag, crashed>>

(***************************************************************************)
(* The factory's thread                                                    *)
(***************************************************************************)
PushOne(f) ==
    /\ api = "idle" /\ player       \* player_mutex is free
    /\ queue' = Append(IF Len(queue) = MaxQueue THEN Tail(queue) ELSE queue, f)

\* mutant: only the first picture of an empty queue wakes the reader
Push_FirstNotifies ==
    /\ \E f \in Formats : PushOne(f)
    /\ pc' = IF queue = <<>> THEN Notified ELSE pc
    /\ UNCHANGED <<api, target, player, object, exitFlag, pack, win, play_flag, crashed>>

Push ==
    /\ \E f \in Formats : PushOne(f)
    /\ pc' = Notified
    /\ UNCHANGED <<api, target, player, object, exitFlag, pack, win, play_flag, crashed>>

(***************************************************************************)
(* The display thread                                                      *)
(***************************************************************************)
Goto(from, to) == pc = from /\ pc' = to

Loop ==
    /\ Goto("loop", IF exitFlag THEN "done" ELSE "test")
    /\ UNCHANGED <<api, target, player, object, exitFlag, pack, queue, win, play_flag, crashed>>

TestObject ==
    /\ Goto("test", IF object THEN "wait" ELSE "loop")
    /\ UNCHANGED <<api, target, player, object, exitFlag, pack, queue, win, play_flag, crashed>>

\* wait_resource_push() up to its test of has_data, on a pointer that is read again
WaitResourcePush ==
    /\ Goto("wait", IF queue # <<>> THEN "lock" ELSE "gap")
    /\ crashed' = ~object
    /\ UNCHANGED <<api, target, player, object, exitFlag, pack, queue, win, play_flag>>

Sleep ==
    /\ Goto("gap", "asleep")
    /\ UNCHANGED <<api, target, player, object, exitFlag, pack, queue, win, play_flag, crashed>>

SpuriousWake ==
    /\ Goto("asleep", "lock")
    /\ UNCHANGED <<api, target, player, object, exitFlag, pack, queue, win, play_flag, crashed>>

LockObject ==
    /\ Goto("lock", "take")
    /\ UNCHANGED <<api, target, player, object, exitFlag, pack, queue, win, play_flag, crashed>>

\* the head of the draining loop
GetNext ==
    /\ IF object /\ queue # <<>>
       THEN Goto("take", "play") /\ pack' = Head(queue) /\ queue' = Tail(queue)
       ELSE Goto("take", "loop") /\ UNCHANGED <<pack, queue>>
    /\ UNCHANGED <<api, target, player, object, exitFlag, win, play_flag, crashed>>

\* play() before show_mutex
TestScreen ==
    /\ Goto("play", IF win.screen # NoWindow /\ play_flag THEN "draw" ELSE "take")
    /\ UNCHANGED <<api, target, player, object, exitFlag, pack, queue, win, play_flag, crashed>>

\* play() under show_mutex: SDL_RenderPresent unless there is nothing to draw with
\* or a window is being resized
Draw ==
    /\ Goto("draw", "take")
    /\ \E w \in SetFormat(win, pack) :
          win' = [w EXCEPT !.shown = @ \/ (w.texture # NoTexture /\ play_flag)]
    /\ UNCHANGED <<api, target, player, object, exitFlag, pack, queue, play_flag, crashed>>

(***************************************************************************)
(* PlayerEvent's thread: any event but a resize unlocks after a while      *)
(***************************************************************************)
DealEvent ==
    /\ play_flag' \in BOOLEAN
    /\ UNCHANGED <<api, target, player, object, exitFlag, thread, queue, win, crashed>>

-----------------------------------------------------------------------------
InCallStep == SetPlayerObject \/ ExitWaitResource \/ SetWinId \/ StartThread \/ ExitThread \/ Join

DisplayStep == Loop \/ TestObject \/ WaitResourcePush \/ Sleep \/ LockObject \/ GetNext
                   \/ TestScreen \/ Draw

Next ==
    /\ ~crashed
    /\ SetDisplayWinId \/ InCallStep \/ Push \/ DisplayStep \/ SpuriousWake \/ DealEvent

Spec == Init /\ [][Next]_vars

\* Threads that can run do; the application need not call, nobody has to push, and
\* no wake-up without a notification is promised.
FairSpec == Spec /\ WF_vars(~crashed /\ InCallStep) /\ WF_vars(~crashed /\ DisplayStep)

-----------------------------------------------------------------------------
(* Properties *)

\* A texture is drawn with the renderer of the present window and has the format
\* of the last picture, whichever of set_win_id and play comes first and whatever
\* SDL fails to create.
TextureSuits ==
    win.texture # NoTexture =>
        /\ win.texture = [window |-> win.renderer, format |-> win.format]
        /\ win.renderer = win.screen /\ win.screen = win.id

\* A window in which a picture was shown goes on showing pictures, through changes
\* of format and formats it cannot draw, as long as SDL does not fail.  (The first
\* picture of a new window is another matter: show_format is not forgotten when
\* its texture is released, videoplayer.cpp:98.)
KeepsShowing ==
    win.shown /\ ~win.failed /\ win.format \in Drawable => win.texture # NoTexture

\* "Pass nullptr and the thread is woken and ends" (abstractplayer.cpp:151): the
\* display thread is left and its player deleted, unless the thread was between
\* its test for an empty queue and its sleep, or before its use of the pointer.
RemovalReturns ==
    (api = "wake" /\ target = NoWindow /\ pc \notin {"gap", "wait"} /\ ~crashed)
        ~> (api = "idle" /\ ~player)

\* The notification of a push may fall before the sleep, and then the picture
\* waits; but the next one wakes the thread, so a preview does not stop.
PreviewGoesOn ==
    ([]<><<Push>>_vars /\ <>[](player /\ api = "idle")) => []<>(pc = "play" \/ crashed)
=============================================================================
