------------------------- MODULE VideoPlayerProofs --------------------------
(***************************************************************************)
(* Proofs about VideoPlayer for any windows, formats and size of the queue.*)
(***************************************************************************)
EXTENDS VideoPlayer, TLAPS

\* What create_renderer, create_texture and the release functions keep of a window:
\* a renderer is the present window's, a texture is the renderer's, and what has
\* shown a picture without a failure has a renderer.
Chain(w) ==
    /\ w.screen # NoWindow => w.screen = w.id
    /\ w.renderer # NoWindow => w.renderer = w.screen
    /\ w.texture # NoTexture =>
          w.renderer # NoWindow /\ w.texture = [window |-> w.renderer, format |-> w.format]

Showing(w) ==
    w.shown /\ ~w.failed =>
        w.renderer # NoWindow /\ (w.format \in Drawable => w.texture # NoTexture)

Good(w) == w \in Wins /\ Chain(w) /\ Showing(w)

\* A window is created for an id, a format set for a picture.
AtWork ==
    /\ api = "window" => target \in Windows
    /\ pc \in {"play", "draw"} => pack \in Formats

IInv == TypeOK /\ Good(win) /\ AtWork

-----------------------------------------------------------------------------
LEMMA CreatedFacts ==
    ASSUME NEW it, NEW null, NEW x \in Created(it, null)
    PROVE  x = it \/ x = null
BY DEF Created

\* A window, its parts given one by one
LEMMA WinFacts ==
    ASSUME NEW w \in Wins
    PROVE  /\ w.id \in Windows \cup {NoWindow} /\ w.screen \in Windows \cup {NoWindow}
           /\ w.renderer \in Windows \cup {NoWindow}
           /\ w.texture \in [window : Windows, format : Formats] \cup {NoTexture}
           /\ w.format \in Formats \cup {NoFormat}
           /\ w.shown \in BOOLEAN /\ w.failed \in BOOLEAN
           /\ w = [id |-> w.id, screen |-> w.screen, renderer |-> w.renderer,
                   texture |-> w.texture, format |-> w.format, shown |-> w.shown,
                   failed |-> w.failed]
BY DEF Wins

LEMMA RendererGood ==
    ASSUME NEW w \in Wins, Chain(w), w.texture = NoTexture, w.renderer = NoWindow,
           NEW t \in CreateRenderer(w)
    PROVE  /\ t \in Wins /\ Chain(t) /\ t.texture = NoTexture
           /\ t.shown = w.shown /\ t.format = w.format
           /\ t.failed = w.failed \/ t.failed
<1>1. PICK r \in Created(w.screen, NoWindow) :
         t = [w EXCEPT !.renderer = r, !.failed = @ \/ r # w.screen]
  BY DEF CreateRenderer
<1>2. r \in {w.screen, NoWindow} /\ r \in Windows \cup {NoWindow}
  BY <1>1, CreatedFacts, WinFacts
<1>. DEFINE b == w.failed \/ r # w.screen
<1>3. b \in BOOLEAN /\ (b = w.failed \/ b)
  BY WinFacts, Zenon
<1>4. t = [w EXCEPT !.renderer = r, !.failed = b]
  BY <1>1 DEF Wins
<1>. HIDE DEF b
<1>5. t \in Wins
  BY <1>2, <1>3, <1>4 DEF Wins
<1>6. /\ t.id = w.id /\ t.screen = w.screen /\ t.texture = w.texture /\ t.renderer = r
      /\ t.shown = w.shown /\ t.format = w.format /\ t.failed = b
  BY <1>4 DEF Wins
<1>. QED
  BY <1>2, <1>3, <1>5, <1>6 DEF Chain

LEMMA ReleasedGood ==
    ASSUME NEW w \in Wins
    PROVE  /\ ReleaseWindow(w) \in Wins
           /\ ReleaseWindow(w).texture = NoTexture /\ ReleaseWindow(w).renderer = NoWindow
BY DEF ReleaseWindow, Wins

LEMMA WindowGood ==
    ASSUME NEW w \in Wins, w.texture = NoTexture, w.renderer = NoWindow, NEW id \in Windows,
           NEW t \in CreateWindow(w, id)
    PROVE  Good(t)
<1>1. PICK s \in Created(id, NoWindow) :
         t \in CreateRenderer([w EXCEPT !.id = id, !.screen = s, !.shown = FALSE, !.failed = s # id])
  BY DEF CreateWindow
<1>. DEFINE v == [w EXCEPT !.id = id, !.screen = s, !.shown = FALSE, !.failed = s # id]
<1>2. s \in {id, NoWindow}
  BY <1>1, CreatedFacts
<1>3. (s # id) \in BOOLEAN /\ FALSE \in BOOLEAN
  BY Zenon
<1>4. v \in Wins
  BY <1>2, <1>3 DEF Wins
<1>5. v.id = id /\ v.screen = s /\ v.texture = NoTexture /\ v.renderer = NoWindow /\ v.shown = FALSE
  BY DEF Wins
<1>. HIDE DEF v
<1>6. Chain(v)
  BY <1>2, <1>5 DEF Chain
<1>7. t \in CreateRenderer(v)
  BY <1>1 DEF v
<1>8. t \in Wins /\ Chain(t) /\ t.shown = FALSE
  BY <1>4, <1>5, <1>6, <1>7, RendererGood
<1>. QED
  BY <1>8 DEF Good, Showing

LEMMA TextureGood ==
    ASSUME NEW w \in Wins, Chain(w), w.texture = NoTexture, NEW f \in Formats,
           w.shown /\ ~w.failed => w.renderer # NoWindow,
           NEW c \in CreateTexture(w, f), NEW t, t = [c EXCEPT !.format = f]
    PROVE  Good(t) /\ t.format = f
<1>1. CASE c = w
  <2>1. /\ t \in Wins /\ t.format = f /\ t.texture = NoTexture /\ t.renderer = w.renderer
        /\ t.screen = w.screen /\ t.id = w.id /\ t.shown = w.shown /\ t.failed = w.failed
    BY <1>1 DEF Wins
  <2>2. CASE w.renderer = NoWindow \/ f \notin Drawable
    BY <2>1, <2>2 DEF Good, Chain, Showing
  <2>3. CASE ~(w.renderer = NoWindow \/ f \notin Drawable)
    <3>1. PICK x \in Created([window |-> w.renderer, format |-> f], NoTexture) :
             c = [w EXCEPT !.texture = x, !.failed = @ \/ x = NoTexture]
      BY <2>3 DEF CreateTexture
    <3>2. c.texture = x /\ c.failed = (w.failed \/ x = NoTexture)
      BY <3>1 DEF Wins
    <3>3. w.failed
      BY <1>1, <3>2, WinFacts
    <3>. QED
      BY <2>1, <3>3 DEF Good, Chain, Showing
  <2>. QED
    BY <2>2, <2>3
<1>2. CASE c # w
  <2>1. w.renderer # NoWindow /\ f \in Drawable
    BY <1>2 DEF CreateTexture
  <2>2. PICK x \in Created([window |-> w.renderer, format |-> f], NoTexture) :
           c = [w EXCEPT !.texture = x, !.failed = @ \/ x = NoTexture]
    BY <2>1 DEF CreateTexture
  <2>3. w.renderer \in Windows
    BY <2>1, WinFacts
  <2>4. /\ x \in {[window |-> w.renderer, format |-> f], NoTexture}
        /\ x \in [window : Windows, format : Formats] \cup {NoTexture}
    BY <2>2, <2>3, CreatedFacts
  <2>. DEFINE b == w.failed \/ x = NoTexture
  <2>5. b \in BOOLEAN /\ (x = NoTexture => b)
    BY WinFacts, Zenon
  <2>6. c = [w EXCEPT !.texture = x, !.failed = b]
    BY <2>2 DEF Wins
  <2>. HIDE DEF b
  <2>7. /\ t \in Wins /\ t.format = f /\ t.texture = x /\ t.renderer = w.renderer
        /\ t.screen = w.screen /\ t.id = w.id /\ t.shown = w.shown /\ t.failed = b
    BY <2>4, <2>5, <2>6 DEF Wins
  <2>. QED
    BY <2>1, <2>4, <2>5, <2>7 DEF Good, Chain, Showing
<1>. QED
  BY <1>1, <1>2

LEMMA FormatGood ==
    ASSUME NEW w \in Wins, Good(w), NEW f \in Formats, NEW t \in SetFormat(w, f)
    PROVE  Good(t) /\ t.format = f
<1>1. CASE w.format = f
  BY <1>1 DEF SetFormat
<1>2. CASE w.format # f
  <2>. DEFINE fresh == [w EXCEPT !.texture = NoTexture]
  <2>. DEFINE ready == IF w.renderer = NoWindow THEN CreateRenderer(fresh) ELSE {fresh}
  <2>1. /\ fresh \in Wins /\ fresh.texture = NoTexture /\ fresh.renderer = w.renderer
        /\ fresh.screen = w.screen /\ fresh.id = w.id /\ fresh.shown = w.shown
        /\ fresh.failed = w.failed
    BY DEF Wins
  <2>2. PICK r \in ready : \E c \in CreateTexture(r, f) : t = [c EXCEPT !.format = f]
    BY <1>2 DEF SetFormat
  <2>. HIDE DEF fresh
  <2>3. Chain(fresh) /\ (fresh.shown /\ ~fresh.failed => fresh.renderer # NoWindow)
    BY <2>1 DEF Good, Chain, Showing
  <2>4. /\ r \in Wins /\ Chain(r) /\ r.texture = NoTexture
        /\ r.shown /\ ~r.failed => r.renderer # NoWindow
    <3>1. CASE w.renderer = NoWindow
      <4>1. r \in CreateRenderer(fresh)
        BY <3>1
      <4>2. ~(fresh.shown /\ ~fresh.failed)
        BY <2>1, <2>3, <3>1
      <4>. QED
        BY <2>1, <2>3, <3>1, <4>1, <4>2, RendererGood
    <3>2. CASE w.renderer # NoWindow
      BY <2>1, <2>3, <3>2
    <3>. QED
      BY <3>1, <3>2
  <2>. QED
    BY <2>2, <2>4, TextureGood
<1>. QED
  BY <1>1, <1>2

-----------------------------------------------------------------------------
LEMMA InitIInv == Init => IInv
<1>. SUFFICES ASSUME Init PROVE IInv
  OBVIOUS
<1>. USE PlayerAssumption DEF Init
<1>1. NewWin \in Wins /\ Chain(NewWin) /\ Showing(NewWin)
  <2>1. FALSE \in BOOLEAN
    OBVIOUS
  <2>. QED
    BY <2>1 DEF NewWin, Wins, Chain, Showing
<1>2. queue \in Seq(Formats) /\ Len(queue) <= MaxQueue
  BY <1>1
<1>3. /\ player \in BOOLEAN /\ object \in BOOLEAN /\ exitFlag \in BOOLEAN
      /\ play_flag \in BOOLEAN /\ crashed \in BOOLEAN
  BY Zenon
<1>4. TypeOK
  BY <1>1, <1>2, <1>3 DEF TypeOK, InCall, Draining
<1>. QED
  BY <1>1, <1>4 DEF IInv, Good, AtWork

\* The window is only made anew or given a format.
LEMMA WinStep == IInv /\ [Next]_vars => Good(win)'
<1>. SUFFICES ASSUME IInv, [Next]_vars PROVE Good(win')
  BY DEF Good, Chain, Showing
<1>t. TypeOK /\ Good(win) /\ AtWork
  BY DEF IInv
<1>1. CASE SetWinId
  <2>1. CASE win' = win
    BY <1>t, <2>1
  <2>2. CASE \E w \in CreateWindow(ReleaseWindow(win), target) : win' = w
    <3>1. target \in Windows /\ win \in Wins
      BY <1>t, <1>1 DEF SetWinId, AtWork, TypeOK
    <3>. QED
      BY <2>2, <3>1, ReleasedGood, WindowGood
  <2>. QED
    BY <1>1, <2>1, <2>2 DEF SetWinId
<1>2. CASE Draw
  <2>1. pack \in Formats
    BY <1>t, <1>2 DEF Draw, Goto, AtWork
  <2>2. PICK w \in SetFormat(win, pack) :
           win' = [w EXCEPT !.shown = @ \/ (w.texture # NoTexture /\ play_flag)]
    BY <1>2 DEF Draw
  <2>3. Good(w)
    BY <1>t, <2>1, <2>2, FormatGood DEF Good
  <2>. DEFINE b == w.shown \/ (w.texture # NoTexture /\ play_flag)
  <2>4. b \in BOOLEAN /\ (b => w.shown \/ w.texture # NoTexture)
    BY <1>t, <2>3, WinFacts, Zenon DEF Good, TypeOK
  <2>5. win' = [w EXCEPT !.shown = b]
    BY <2>2, <2>3 DEF Good, Wins
  <2>. HIDE DEF b
  <2>6. /\ win' \in Wins /\ win'.shown = b /\ win'.id = w.id /\ win'.screen = w.screen
        /\ win'.renderer = w.renderer /\ win'.texture = w.texture /\ win'.format = w.format
        /\ win'.failed = w.failed
    BY <2>3, <2>4, <2>5 DEF Good, Wins
  <2>. QED
    BY <2>3, <2>4, <2>6 DEF Good, Chain, Showing
<1>3. CASE Join
  <2>1. NewWin \in Wins /\ Chain(NewWin) /\ Showing(NewWin)
    <3>1. FALSE \in BOOLEAN
      OBVIOUS
    <3>. QED
      BY <3>1 DEF NewWin, Wins, Chain, Showing
  <2>. QED
    BY <1>3, <2>1 DEF Join, Good
<1>4. ASSUME win' = win PROVE Good(win')
  BY <1>t, <1>4
<1>. QED
  BY <1>1, <1>2, <1>3, <1>4
  DEF Next, InCallStep, DisplayStep, SetDisplayWinId, SetPlayerObject, ExitWaitResource, StartThread,
      ExitThread, Push, Loop, TestObject, WaitResourcePush, Sleep, LockObject, GetNext, TestScreen,
      SpuriousWake, DealEvent, vars

LEMMA AtWorkStep == IInv /\ [Next]_vars => AtWork'
<1>. SUFFICES ASSUME IInv, [Next]_vars PROVE AtWork'
  OBVIOUS
<1>t. TypeOK /\ AtWork
  BY DEF IInv
<1>1. CASE SetDisplayWinId
  BY <1>t, <1>1 DEF SetDisplayWinId, AtWork, thread
<1>2. CASE SetPlayerObject \/ ExitWaitResource
  <2>1. api' = "window" => target' \in Windows
    BY <1>t, <1>2 DEF SetPlayerObject, ExitWaitResource, Onward, TypeOK
  <2>2. pack' = pack /\ (pc' \in {"play", "draw"} => pc' = pc)
    BY <1>2 DEF SetPlayerObject, ExitWaitResource, Notified, thread
  <2>. QED
    BY <1>t, <2>1, <2>2 DEF AtWork
<1>3. CASE SetWinId \/ StartThread \/ ExitThread \/ Join
  <2>1. api' # "window" /\ (pc' \in {"play", "draw"} => pc' = pc /\ pack' = pack)
    BY <1>3 DEF SetWinId, StartThread, ExitThread, Join, thread
  <2>. QED
    BY <1>t, <2>1 DEF AtWork
<1>4. CASE GetNext
  <2>1. pc' = "play" => pack' = Head(queue) /\ queue # <<>>
    BY <1>4 DEF GetNext, Goto
  <2>2. queue \in Seq(Formats) /\ (queue # <<>> => Head(queue) \in Formats)
    BY <1>t DEF TypeOK
  <2>3. pc' # "draw" /\ UNCHANGED <<api, target>>
    BY <1>4 DEF GetNext, Goto
  <2>. QED
    BY <1>t, <2>1, <2>2, <2>3 DEF AtWork
<1>5. CASE TestScreen
  BY <1>t, <1>5 DEF TestScreen, Goto, AtWork
<1>6. CASE \/ Push \/ Loop \/ TestObject \/ WaitResourcePush \/ Sleep \/ LockObject \/ Draw
           \/ SpuriousWake \/ DealEvent \/ UNCHANGED vars
  <2>1. UNCHANGED <<api, target, pack>> /\ (pc' \in {"play", "draw"} => pc' = pc)
    BY <1>6 DEF Push, Notified, Loop, TestObject, WaitResourcePush, Sleep, LockObject, Draw,
                SpuriousWake, DealEvent, Goto, thread, vars
  <2>. QED
    BY <1>t, <2>1 DEF AtWork
<1>. QED
  BY <1>1, <1>2, <1>3, <1>4, <1>5, <1>6 DEF Next, InCallStep, DisplayStep

LEMMA FlagStep ==
    TypeOK /\ [Next]_vars =>
        /\ player' \in BOOLEAN /\ object' \in BOOLEAN /\ exitFlag' \in BOOLEAN
        /\ play_flag' \in BOOLEAN /\ crashed' \in BOOLEAN
<1>. SUFFICES ASSUME TypeOK, [Next]_vars
              PROVE  /\ player' \in BOOLEAN /\ object' \in BOOLEAN /\ exitFlag' \in BOOLEAN
                     /\ play_flag' \in BOOLEAN /\ crashed' \in BOOLEAN
  OBVIOUS
<1>t. /\ player \in BOOLEAN /\ object \in BOOLEAN /\ exitFlag \in BOOLEAN
      /\ play_flag \in BOOLEAN /\ crashed \in BOOLEAN
  BY DEF TypeOK
<1>. HIDE DEF TypeOK
<1>1. player' \in {player, TRUE, FALSE}
  BY DEF Next, InCallStep, DisplayStep, SetDisplayWinId, SetPlayerObject, ExitWaitResource, SetWinId,
         StartThread, ExitThread, Join, Push, Loop, TestObject, WaitResourcePush, Sleep, LockObject,
         GetNext, TestScreen, Draw, SpuriousWake, DealEvent, vars
<1>2. object' \in {object, (target # NoWindow)}
  BY DEF Next, InCallStep, DisplayStep, SetDisplayWinId, SetPlayerObject, ExitWaitResource, SetWinId,
         StartThread, ExitThread, Join, Push, Loop, TestObject, WaitResourcePush, Sleep, LockObject,
         GetNext, TestScreen, Draw, SpuriousWake, DealEvent, vars
<1>3. exitFlag' \in {exitFlag, TRUE, FALSE}
  BY DEF Next, InCallStep, DisplayStep, SetDisplayWinId, SetPlayerObject, ExitWaitResource, SetWinId,
         StartThread, ExitThread, Join, Push, Loop, TestObject, WaitResourcePush, Sleep, LockObject,
         GetNext, TestScreen, Draw, SpuriousWake, DealEvent, vars
<1>4. play_flag' = play_flag \/ play_flag' \in BOOLEAN
  BY DEF Next, InCallStep, DisplayStep, SetDisplayWinId, SetPlayerObject, ExitWaitResource, SetWinId,
         StartThread, ExitThread, Join, Push, Loop, TestObject, WaitResourcePush, Sleep, LockObject,
         GetNext, TestScreen, Draw, SpuriousWake, DealEvent, vars
<1>5. crashed' \in {crashed, ~object}
  BY DEF Next, InCallStep, DisplayStep, SetDisplayWinId, SetPlayerObject, ExitWaitResource, SetWinId,
         StartThread, ExitThread, Join, Push, Loop, TestObject, WaitResourcePush, Sleep, LockObject,
         GetNext, TestScreen, Draw, SpuriousWake, DealEvent, vars
<1>. QED
  BY <1>t, <1>1, <1>2, <1>3, <1>4, <1>5, Zenon

LEMMA QueueStep ==
    TypeOK /\ [Next]_vars =>
        queue' \in Seq(Formats) /\ Len(queue') <= MaxQueue /\ pack' \in Formats \cup {NoFormat}
<1>. SUFFICES ASSUME TypeOK, [Next]_vars
              PROVE  /\ queue' \in Seq(Formats) /\ Len(queue') <= MaxQueue
                     /\ pack' \in Formats \cup {NoFormat}
  OBVIOUS
<1>t. queue \in Seq(Formats) /\ Len(queue) <= MaxQueue /\ pack \in Formats \cup {NoFormat}
  BY DEF TypeOK
<1>1. CASE Push
  <2>1. PICK f \in Formats :
           queue' = Append(IF Len(queue) = MaxQueue THEN Tail(queue) ELSE queue, f)
    BY <1>1 DEF Push, PushOne
  <2>2. CASE Len(queue) = MaxQueue
    <3>1. queue # <<>> /\ Tail(queue) \in Seq(Formats) /\ Len(Tail(queue)) = Len(queue) - 1
      BY <1>t, <2>2, PlayerAssumption
    <3>2. queue' = Append(Tail(queue), f)
      BY <2>1, <2>2
    <3>. QED
      BY <1>t, <1>1, <2>2, <3>1, <3>2 DEF Push
  <2>3. CASE Len(queue) # MaxQueue
    <3>1. queue' = Append(queue, f)
      BY <2>1, <2>3
    <3>. QED
      BY <1>t, <1>1, <2>3, <3>1, PlayerAssumption DEF Push
  <2>. QED
    BY <2>2, <2>3
<1>2. CASE GetNext
  <2>1. CASE queue' = Tail(queue) /\ pack' = Head(queue) /\ queue # <<>>
    BY <1>t, <2>1, PlayerAssumption
  <2>2. CASE UNCHANGED <<pack, queue>>
    BY <1>t, <2>2
  <2>. QED
    BY <1>2, <2>1, <2>2 DEF GetNext
<1>3. ASSUME queue' = queue, pack' = pack \/ pack' = NoFormat
      PROVE  /\ queue' \in Seq(Formats) /\ Len(queue') <= MaxQueue
             /\ pack' \in Formats \cup {NoFormat}
  BY <1>t, <1>3
<1>4. CASE ~Push /\ ~GetNext
  <2>1. queue' = queue /\ (pack' = pack \/ pack' = NoFormat)
    BY <1>4 DEF Next, InCallStep, DisplayStep, SetDisplayWinId, SetPlayerObject, ExitWaitResource,
         SetWinId, StartThread, ExitThread, Join, Loop, TestObject, WaitResourcePush, Sleep, LockObject,
         TestScreen, Draw, SpuriousWake, DealEvent, thread, vars
  <2>. QED
    BY <1>3, <2>1
<1>. QED
  BY <1>1, <1>2, <1>4

LEMMA PlaceStep ==
    TypeOK /\ [Next]_vars =>
        /\ api' \in InCall \cup {"idle"} /\ target' \in Windows \cup {NoWindow}
        /\ pc' \in Draining \cup {"none", "loop", "test", "wait", "gap", "asleep", "lock", "done"}
<1>. SUFFICES ASSUME TypeOK, [Next]_vars
              PROVE  /\ api' \in InCall \cup {"idle"} /\ target' \in Windows \cup {NoWindow}
                     /\ pc' \in Draining \cup {"none", "loop", "test", "wait", "gap", "asleep",
                                              "lock", "done"}
  OBVIOUS
<1>. USE DEF InCall, Draining, thread
<1>1. CASE InCallStep
  BY <1>1 DEF TypeOK, InCallStep, SetPlayerObject, ExitWaitResource, SetWinId, StartThread, ExitThread,
              Join, Onward, Notified
<1>2. CASE DisplayStep
  BY <1>2 DEF TypeOK, DisplayStep, Loop, TestObject, WaitResourcePush, Sleep, LockObject, GetNext,
              TestScreen, Draw, Goto
<1>3. CASE SetDisplayWinId \/ Push \/ SpuriousWake \/ DealEvent \/ UNCHANGED vars
  BY <1>3 DEF TypeOK, SetDisplayWinId, Push, SpuriousWake, DealEvent, vars, Notified, Goto
<1>. QED
  BY <1>1, <1>2, <1>3 DEF Next

-----------------------------------------------------------------------------
THEOREM Inductive == Spec => []IInv
<1>1. IInv /\ [Next]_vars => IInv'
  <2>. SUFFICES ASSUME IInv, [Next]_vars PROVE IInv'
    OBVIOUS
  <2>1. TypeOK
    BY DEF IInv
  <2>2. Good(win)' /\ AtWork'
    BY WinStep, AtWorkStep
  <2>3. TypeOK'
    BY <2>1, <2>2, FlagStep, QueueStep, PlaceStep DEF TypeOK, Good
  <2>. QED
    BY <2>2, <2>3 DEF IInv
<1>. QED
  BY InitIInv, <1>1, PTL DEF Spec

\* The type invariant, for any windows, formats and size of the queue.
THEOREM TypeCorrect == Spec => []TypeOK
<1>1. IInv => TypeOK
  BY DEF IInv
<1>. QED
  BY Inductive, <1>1, PTL

\* A texture suits the present window and the last format, whatever SDL fails to
\* create (create_window, set_format, release_window).
THEOREM Suiting == Spec => []TextureSuits
<1>1. IInv => TextureSuits
  BY DEF IInv, Good, Chain, TextureSuits, TypeOK, Wins
<1>. QED
  BY Inductive, <1>1, PTL

\* A window that has shown a picture has a texture for every format it can draw.
THEOREM Keeping == Spec => []KeepsShowing
<1>1. IInv => KeepsShowing
  BY DEF IInv, Good, Showing, KeepsShowing
<1>. QED
  BY Inductive, <1>1, PTL
=============================================================================
