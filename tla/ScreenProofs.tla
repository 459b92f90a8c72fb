---------------------------- MODULE ScreenProofs ----------------------------
(* Theorems about Screen, for every number of requests, all slider levels and *)
(* every length of the window's message queue.                                *)
EXTENDS Screen, TLAPS

OverlayStates ==
    [pc : {"none", "create", "store", "init", "pump", "restore", "clear"},
     alpha : Alphas, through : BOOLEAN, alive : BOOLEAN, queue : Seq(Alphas)]

\* What the proofs about threads need to know of the types.
ThreadTypeOK ==
    /\ overlay \in [Threads -> OverlayStates]
    /\ overlayHwnd \in Threads \cup {NoWindow}

\* The opacity of a dark slider position fits in a byte.
LEMMA AlphaInByte ==
  ASSUME NEW level \in Positions, level < 5000
  PROVE  AlphaOf(level) \in Alphas
  BY DEF AlphaOf, Alphas, Positions

LEMMA BacklightInPercent ==
  ASSUME NEW level \in Positions
  PROVE  BacklightOf(level) \in 0 .. 100
<1>1. CASE level < 5000
  BY <1>1 DEF BacklightOf, Positions
<1>2. CASE ~(level < 5000)
  BY <1>2 DEF BacklightOf, Positions
<1> QED
  BY <1>1, <1>2

NoMessage == <<>>

LEMMA EmptyQueue == NoMessage \in Seq(Alphas)
  BY DEF NoMessage

LEMMA QueueTail ==
  ASSUME NEW q \in Seq(Alphas), q # <<>>
  PROVE  Head(q) \in Alphas /\ Tail(q) \in Seq(Alphas)
  OBVIOUS

LEMMA PutThread ==
  ASSUME overlay \in [Threads -> OverlayStates], NEW t \in Threads, NEW s \in OverlayStates
  PROVE  [overlay EXCEPT ![t] = s] \in [Threads -> OverlayStates]
  OBVIOUS

LEMMA NoThreadType == NoThread \in OverlayStates
  BY DEF NoThread, OverlayStates, Alphas

LEMMA GotoType ==
  ASSUME ThreadTypeOK, NEW t \in Threads,
         NEW pc \in {"none", "create", "store", "init", "pump", "restore", "clear"}
  PROVE  [overlay EXCEPT ![t].pc = pc] \in [Threads -> OverlayStates]
<1>1. [overlay[t] EXCEPT !.pc = pc] \in OverlayStates
  BY DEF ThreadTypeOK, OverlayStates
<1> QED
  BY <1>1 DEF ThreadTypeOK

\* A message changes the queue of one window only.
LEMMA PostKeeps ==
  ASSUME ThreadTypeOK, NEW msg \in Alphas, Post(msg)
  PROVE  /\ overlay' \in [Threads -> OverlayStates]
         /\ \A t \in Threads : overlay'[t].pc = overlay[t].pc
<1> DEFINE w == overlayHwnd
<1>1. w \in Threads
  BY DEF ThreadTypeOK, Post
<1>2. CASE overlay[w].alive
  <2>1. overlay' = [overlay EXCEPT ![w].queue = Append(@, msg)]
    BY <1>2 DEF Post
  <2>2. overlay[w].queue \in Seq(Alphas) /\ overlay[w] \in OverlayStates
    BY <1>1 DEF ThreadTypeOK, OverlayStates
  <2>3. Append(overlay[w].queue, msg) \in Seq(Alphas)
    BY <2>2
  <2>4. [overlay[w] EXCEPT !.queue = Append(@, msg)] \in OverlayStates
    BY <2>2, <2>3 DEF OverlayStates
  <2>5. overlay' = [overlay EXCEPT ![w] = [overlay[w] EXCEPT !.queue = Append(@, msg)]]
    BY <2>1
  <2>6. overlay' \in [Threads -> OverlayStates]
    BY <1>1, <2>4, <2>5 DEF ThreadTypeOK
  <2>7. [overlay[w] EXCEPT !.queue = Append(@, msg)].pc = overlay[w].pc
    BY <2>2 DEF OverlayStates
  <2>8. \A t \in Threads : overlay'[t].pc = overlay[t].pc
    BY <1>1, <2>5, <2>7 DEF ThreadTypeOK
  <2> QED
    BY <2>6, <2>8
<1>3. CASE ~overlay[w].alive
  BY <1>3 DEF Post, ThreadTypeOK
<1> QED
  BY <1>2, <1>3

LEMMA DestroyKeeps ==
  ASSUME ThreadTypeOK, NEW t \in Threads, Destroy(t)
  PROVE  /\ overlay' \in [Threads -> OverlayStates]
         /\ overlay'[t].pc = "restore"
         /\ \A s \in Threads \ {t} : overlay'[s] = overlay[s]
<1>1. [overlay[t] EXCEPT !.alive = FALSE, !.queue = <<>>, !.pc = "restore"] \in OverlayStates
  BY EmptyQueue DEF ThreadTypeOK, OverlayStates, NoMessage
<1>2. [overlay[t] EXCEPT !.alive = FALSE, !.queue = <<>>, !.pc = "restore"].pc = "restore"
  BY DEF ThreadTypeOK, OverlayStates
<1>3. overlay' = [overlay EXCEPT ![t] =
                    [overlay[t] EXCEPT !.alive = FALSE, !.queue = <<>>, !.pc = "restore"]]
  BY DEF Destroy
<1> QED
  BY <1>1, <1>2, <1>3 DEF ThreadTypeOK

LEMMA HandleKeeps ==
  ASSUME ThreadTypeOK, isClickThrough \in BOOLEAN, NEW t \in Threads, Handle(t)
  PROVE  /\ overlay' \in [Threads -> OverlayStates]
         /\ overlay'[t].pc \in {"pump", "restore"}
         /\ \A s \in Threads \ {t} : overlay'[s] = overlay[s]
<1> DEFINE q == overlay[t].queue
           new == [overlay[t] EXCEPT !.queue = Tail(q), !.alpha = Head(q),
                                     !.through = isClickThrough]
<1>1. overlay[t] \in OverlayStates /\ q \in Seq(Alphas) /\ q # <<>>
  BY DEF ThreadTypeOK, OverlayStates, Handle
<1>2. CASE Head(q) = Close
  BY <1>2, DestroyKeeps DEF Handle
<1>3. CASE Head(q) # Close
  <2>1. overlay' = [overlay EXCEPT ![t] = new]
    BY <1>3 DEF Handle
  <2>2. Head(q) \in Alphas /\ Tail(q) \in Seq(Alphas)
    BY <1>1, QueueTail
  <2>3. new \in OverlayStates /\ new.pc = "pump"
    <3> HIDE DEF q
    <3>1. overlay[t].pc = "pump"
      BY DEF Handle, At
    <3> QED
      BY <1>1, <2>2, <3>1 DEF OverlayStates
  <2> QED
    BY <2>1, <2>3 DEF ThreadTypeOK
<1> QED
  BY <1>2, <1>3

\* A new thread is made out of a free one.
LEMMA SpawnKeeps ==
  ASSUME ThreadTypeOK, NEW alpha \in Alphas, NEW through \in BOOLEAN,
         SpawnOverlay(alpha, through)
  PROVE  /\ overlay' \in [Threads -> OverlayStates]
         /\ \E t \in Threads : /\ overlay'[t].pc = "create"
                               /\ \A s \in Threads \ {t} : overlay'[s] = overlay[s]
<1> DEFINE new == [NoThread EXCEPT !.pc = "create", !.alpha = alpha, !.through = through]
<1>1. new \in OverlayStates
  BY NoThreadType DEF OverlayStates
<1>2. new.pc = "create"
  BY NoThreadType DEF OverlayStates
<1>3. PICK t \in Threads : overlay' = [overlay EXCEPT ![t] = new]
  BY DEF SpawnOverlay
<1> HIDE DEF new
<1> QED
  BY <1>1, <1>2, <1>3 DEF ThreadTypeOK

RequestStates == [pc : {"idle", "close", "backlight", "dark", "dim", "read"},
                  level : Levels \cup {NoLevel}]

\* A request that changes the screen knows its slider position, and takes the
\* branch for its half of the slider.
Chosen ==
    \A r \in Requests :
        /\ request[r].pc \in {"close", "backlight", "dark", "dim"} => request[r].level \in Levels
        /\ request[r].pc \in {"dark", "dim"} => request[r].level < 5000

RequestInv == request \in [Requests -> RequestStates] /\ Chosen

ValueTypeOK ==
    /\ isOverlayRunning \in BOOLEAN /\ isClickThrough \in BOOLEAN /\ hidden \in BOOLEAN
    /\ currentAlpha \in Alphas /\ hw \in 0 .. 100
    /\ cachedSliderVal \in Positions \cup {NoLevel}
    /\ wish \in [alpha : Alphas, through : BOOLEAN]
    /\ missed \in BOOLEAN /\ failed \in BOOLEAN

\* SingleThread forbids what CursorsBack could fail by: another thread that
\* takes over while the one that hid the cursors is still to restore them.
ScreenInv == ThreadTypeOK /\ RequestInv /\ ValueTypeOK /\ SingleThread /\ CursorsBack

LEMMA TypeFromParts == ScreenInv => ScreenTypeOK
  BY DEF ScreenInv, ThreadTypeOK, RequestInv, ValueTypeOK, ScreenTypeOK, OverlayStates,
         RequestStates

LEMMA ScreenInitInv == ScreenInit => ScreenInv
<1> SUFFICES ASSUME ScreenInit PROVE ScreenInv
  OBVIOUS
<1>1. ThreadTypeOK
  BY NoThreadType DEF ScreenInit, ThreadTypeOK
<1>2. \A t \in Threads : overlay[t].pc = "none"
  BY DEF ScreenInit, NoThread
<1>3. SingleThread /\ CursorsBack
  BY <1>2 DEF SingleThread, CursorsBack, At, ScreenInit
<1>4. RequestInv
  BY DEF ScreenInit, RequestInv, RequestStates, Chosen, NoRequest
<1>5. wish \in [alpha : Alphas, through : BOOLEAN]
  BY DEF ScreenInit, Alphas
<1>6. ValueTypeOK
  <2>1. currentAlpha \in Alphas /\ hw \in 0 .. 100
    BY DEF ScreenInit, Alphas
  <2>2. isOverlayRunning \in BOOLEAN /\ isClickThrough \in BOOLEAN /\ hidden \in BOOLEAN
    BY DEF ScreenInit
  <2>3. cachedSliderVal \in Positions \cup {NoLevel}
    BY DEF ScreenInit
  <2>4. missed \in BOOLEAN /\ failed \in BOOLEAN
    BY DEF ScreenInit
  <2> QED
    BY <1>5, <2>1, <2>2, <2>3, <2>4 DEF ValueTypeOK
<1> QED
  BY <1>1, <1>3, <1>4, <1>6 DEF ScreenInv

LEMMA RequestMoves ==
  ASSUME RequestInv, NEW r \in Requests, NEW s \in RequestStates,
         s.pc \in {"close", "backlight", "dark", "dim"} => s.level \in Levels,
         s.pc \in {"dark", "dim"} => s.level < 5000,
         request' = [request EXCEPT ![r] = s]
  PROVE  RequestInv'
  BY DEF RequestInv, Chosen

LEMMA RequestGoes ==
  ASSUME RequestInv, NEW r \in Requests, NEW pc \in {"backlight", "dim", "read"},
         pc = "backlight" => request[r].pc = "close",
         pc = "dim" => request[r].pc = "dark",
         RequestTo(r, pc)
  PROVE  RequestInv'
<1> DEFINE s == [request[r] EXCEPT !.pc = pc]
<1>1. request[r] \in RequestStates
  BY DEF RequestInv
<1>2. s \in RequestStates /\ s.pc = pc /\ s.level = request[r].level
  BY <1>1 DEF RequestStates
<1>3. request' = [request EXCEPT ![r] = s]
  BY DEF RequestTo
<1>4. /\ pc \in {"close", "backlight", "dark", "dim"} => request[r].level \in Levels
      /\ pc \in {"dark", "dim"} => request[r].level < 5000
  BY DEF RequestInv, Chosen
<1> HIDE DEF s
<1> QED
  BY <1>2, <1>3, <1>4 DEF RequestInv, Chosen

LEMMA RequestEnds ==
  ASSUME RequestInv, NEW r \in Requests, Return(r)
  PROVE  RequestInv'
<1>1. NoRequest \in RequestStates /\ NoRequest.pc = "idle"
  BY DEF NoRequest, RequestStates
<1> QED
  BY <1>1 DEF Return, RequestInv, Chosen

\* When every thread keeps its place, so does what is said of the threads.
LEMMA SamePlaces ==
  ASSUME SingleThread, CursorsBack, NEW f, overlay' = f,
         \A t \in Threads : f[t].pc = overlay[t].pc,
         isOverlayRunning' = isOverlayRunning, hidden' = hidden
  PROVE  SingleThread' /\ CursorsBack'
  BY DEF SingleThread, CursorsBack, At

LEMMA ShowKeeps ==
  ASSUME ThreadTypeOK, SingleThread, CursorsBack, isOverlayRunning \in BOOLEAN,
         NEW alpha \in Alphas, NEW through \in BOOLEAN, Show(alpha, through),
         UNCHANGED <<overlayHwnd, hidden>>
  PROVE  ThreadTypeOK' /\ SingleThread' /\ CursorsBack' /\ isOverlayRunning' \in BOOLEAN
<1>1. CASE overlayHwnd # NoWindow
  <2>1. Post(alpha) /\ isOverlayRunning' = isOverlayRunning
    BY <1>1 DEF Show
  <2>2. /\ overlay' \in [Threads -> OverlayStates]
        /\ \A t \in Threads : overlay'[t].pc = overlay[t].pc
    BY <2>1, PostKeeps
  <2> QED
    BY <2>1, <2>2 DEF ThreadTypeOK, SingleThread, CursorsBack, At
<1>2. CASE overlayHwnd = NoWindow /\ isOverlayRunning
  BY <1>2 DEF Show, ThreadTypeOK, SingleThread, CursorsBack, At
<1>3. CASE overlayHwnd = NoWindow /\ ~isOverlayRunning
  <2>1. isOverlayRunning' = TRUE /\ SpawnOverlay(alpha, through)
    BY <1>3 DEF Show
  <2>2. \A t \in Threads : overlay[t].pc = "none"
    BY <1>3 DEF SingleThread, At
  <2>3. ~hidden
    BY <2>2 DEF CursorsBack
  <2>4. /\ overlay' \in [Threads -> OverlayStates]
        /\ \E t \in Threads : /\ overlay'[t].pc = "create"
                              /\ \A s \in Threads \ {t} : overlay'[s] = overlay[s]
    BY <2>1, SpawnKeeps
  <2> QED
    BY <2>1, <2>2, <2>3, <2>4 DEF ThreadTypeOK, SingleThread, CursorsBack, At
<1> QED
  BY <1>1, <1>2, <1>3

LEMMA HideKeeps ==
  ASSUME ThreadTypeOK, SingleThread, CursorsBack, Hide,
         UNCHANGED <<overlayHwnd, isOverlayRunning, hidden>>
  PROVE  ThreadTypeOK' /\ SingleThread' /\ CursorsBack'
<1>1. /\ overlay' \in [Threads -> OverlayStates]
      /\ \A t \in Threads : overlay'[t].pc = overlay[t].pc
  <2>1. Close \in Alphas
    BY DEF Close, Alphas
  <2>2. CASE Post(Close)
    BY <2>1, <2>2, PostKeeps
  <2>3. CASE overlay' = overlay
    BY <2>3 DEF ThreadTypeOK
  <2> QED
    BY <2>2, <2>3 DEF Hide
<1> QED
  BY <1>1 DEF ThreadTypeOK, SingleThread, CursorsBack, At

LEMMA CommandedType ==
  ASSUME NEW alpha \in Alphas, NEW through \in BOOLEAN, Commanded(alpha, through),
         isOverlayRunning \in BOOLEAN
  PROVE  wish' \in [alpha : Alphas, through : BOOLEAN] /\ missed' \in BOOLEAN
<1>1. wish' \in [alpha : Alphas, through : BOOLEAN]
  BY DEF Commanded
<1>2. missed' \in BOOLEAN
  BY DEF Commanded, Listening
<1> QED
  BY <1>1, <1>2

LEMMA OpacityKeeps ==
  ASSUME ScreenInv, NEW alpha \in Alphas, NEW through \in BOOLEAN,
         SetOverlayOpacity(alpha, through), RequestInv',
         UNCHANGED <<cachedSliderVal, hw, failed>>
  PROVE  ScreenInv'
<1>1. ThreadTypeOK' /\ SingleThread' /\ CursorsBack' /\ isOverlayRunning' \in BOOLEAN
  <2>1. CASE alpha = 0
    BY <2>1, HideKeeps DEF SetOverlayOpacity, ScreenInv, ValueTypeOK
  <2>2. CASE alpha # 0
    BY <2>2, ShowKeeps DEF SetOverlayOpacity, ScreenInv, ValueTypeOK
  <2> QED
    BY <2>1, <2>2
<1>2. wish' \in [alpha : Alphas, through : BOOLEAN] /\ missed' \in BOOLEAN
  BY CommandedType DEF SetOverlayOpacity, ScreenInv, ValueTypeOK
<1>3. ValueTypeOK'
  BY <1>1, <1>2 DEF SetOverlayOpacity, ScreenInv, ValueTypeOK
<1> QED
  BY <1>1, <1>3 DEF ScreenInv

LEMMA LiftedTypes ==
  ASSUME ScreenInv, overlay' \in [Threads -> OverlayStates], overlayHwnd' \in Threads \cup {NoWindow},
         isOverlayRunning' \in BOOLEAN, hidden' \in BOOLEAN, SingleThread', CursorsBack',
         UNCHANGED <<currentAlpha, isClickThrough, request, cachedSliderVal, hw, wish, missed,
                     failed>>
  PROVE  ScreenInv'
<1>1. ThreadTypeOK'
  BY DEF ThreadTypeOK
<1>2. RequestInv'
  BY DEF ScreenInv, RequestInv, Chosen
<1>3. ValueTypeOK'
  BY DEF ScreenInv, ValueTypeOK
<1> QED
  BY <1>1, <1>2, <1>3 DEF ScreenInv

\* Every step of the overlay thread keeps the invariant.
LEMMA ThreadStep ==
  ASSUME ScreenInv, NEW t \in Threads, OverlayStep(t) \/ UserClicks(t)
  PROVE  ScreenInv'
<1> USE DEF ScreenInv
<1>0. /\ overlayHwnd \in Threads \cup {NoWindow} /\ overlay \in [Threads -> OverlayStates]
      /\ isOverlayRunning \in BOOLEAN /\ hidden \in BOOLEAN /\ isClickThrough \in BOOLEAN
  BY DEF ThreadTypeOK, ValueTypeOK
<1>1. ASSUME CreateWindow(t) PROVE ScreenInv'
  <2>1. CASE overlay' = [overlay EXCEPT ![t].pc = "store", ![t].alive = TRUE]
             /\ isOverlayRunning' = isOverlayRunning
    <3> DEFINE s == [overlay[t] EXCEPT !.pc = "store", !.alive = TRUE]
    <3>1. s \in OverlayStates /\ s.pc = "store"
      BY <1>0 DEF OverlayStates
    <3>2. overlay' = [overlay EXCEPT ![t] = s]
      BY <2>1
    <3> HIDE DEF s
    <3>3. overlay' \in [Threads -> OverlayStates]
      BY <1>0, <3>1, <3>2
    <3>4. SingleThread' /\ CursorsBack'
      BY <1>0, <1>1, <2>1, <3>1, <3>2 DEF CreateWindow, SingleThread, CursorsBack, At
    <3> QED
      BY <1>0, <1>1, <2>1, <3>3, <3>4, LiftedTypes DEF CreateWindow
  <2>2. CASE overlay' = [overlay EXCEPT ![t] = NoThread] /\ isOverlayRunning' = FALSE
    <3>1. NoThread \in OverlayStates /\ NoThread.pc = "none"
      BY NoThreadType DEF NoThread
    <3>2. overlay' \in [Threads -> OverlayStates]
      BY <1>0, <2>2, <3>1
    <3>3. SingleThread' /\ CursorsBack'
      BY <1>0, <1>1, <2>2, <3>1 DEF CreateWindow, SingleThread, CursorsBack, At
    <3> QED
      BY <1>0, <1>1, <2>2, <3>2, <3>3, LiftedTypes DEF CreateWindow
  <2> QED
    BY <1>1, <2>1, <2>2 DEF CreateWindow
<1>2. ASSUME NEW from, NEW pc \in {"init", "pump", "clear"}, At(t, from), from # "none",
             Goto(t, pc)
      PROVE  /\ overlay' \in [Threads -> OverlayStates]
             /\ overlay'[t].pc = pc
             /\ \A s \in Threads \ {t} : overlay'[s].pc = "none"
  <2> DEFINE n == [overlay[t] EXCEPT !.pc = pc]
  <2>1. n \in OverlayStates /\ n.pc = pc
    BY <1>0 DEF OverlayStates
  <2>2. overlay' = [overlay EXCEPT ![t] = n]
    BY <1>2 DEF Goto
  <2>3. \A s \in Threads \ {t} : overlay[s].pc = "none"
    BY <1>2 DEF SingleThread, At
  <2> HIDE DEF n
  <2> QED
    BY <1>0, <2>1, <2>2, <2>3
<1>3. ASSUME StoreWindow(t) PROVE ScreenInv'
  <2>1. /\ overlay' \in [Threads -> OverlayStates] /\ overlay'[t].pc = "init"
        /\ \A s \in Threads \ {t} : overlay'[s].pc = "none"
    BY <1>2, <1>3 DEF StoreWindow
  <2>2. isOverlayRunning /\ ~hidden
    BY <1>3 DEF StoreWindow, SingleThread, CursorsBack, At
  <2>3. SingleThread' /\ CursorsBack'
    BY <1>3, <2>1, <2>2 DEF StoreWindow, SingleThread, CursorsBack, At
  <2> QED
    BY <1>0, <1>3, <2>1, <2>3, LiftedTypes DEF StoreWindow
<1>4. ASSUME InitWindow(t) PROVE ScreenInv'
  <2>1. /\ overlay' \in [Threads -> OverlayStates] /\ overlay'[t].pc = "pump"
        /\ \A s \in Threads \ {t} : overlay'[s].pc = "none"
    BY <1>2, <1>4 DEF InitWindow
  <2>2. isOverlayRunning
    BY <1>4 DEF InitWindow, SingleThread, At
  <2>3. SingleThread' /\ CursorsBack'
    BY <1>4, <2>1, <2>2 DEF InitWindow, SingleThread, CursorsBack, At, globals
  <2>4. hidden' \in BOOLEAN
    BY <1>0, <1>4 DEF InitWindow, OverlayStates
  <2> QED
    BY <1>0, <1>4, <2>1, <2>3, <2>4, LiftedTypes DEF InitWindow, globals
<1>5. ASSUME Handle(t) PROVE ScreenInv'
  <2>1. /\ overlay' \in [Threads -> OverlayStates]
        /\ overlay'[t].pc \in {"pump", "restore"}
        /\ \A s \in Threads \ {t} : overlay'[s] = overlay[s]
    BY <1>0, <1>5, HandleKeeps
  <2>2. At(t, "pump")
    BY <1>5 DEF Handle
  <2>3. SingleThread' /\ CursorsBack'
    BY <1>5, <2>1, <2>2 DEF Handle, SingleThread, CursorsBack, At, globals
  <2> QED
    BY <1>0, <1>5, <2>1, <2>3, LiftedTypes DEF Handle, globals
<1>6. ASSUME UserClicks(t) PROVE ScreenInv'
  <2>1. /\ overlay' \in [Threads -> OverlayStates] /\ overlay'[t].pc = "restore"
        /\ \A s \in Threads \ {t} : overlay'[s] = overlay[s]
    BY <1>6, DestroyKeeps DEF UserClicks
  <2>2. At(t, "pump")
    BY <1>6 DEF UserClicks
  <2>3. SingleThread' /\ CursorsBack'
    BY <1>6, <2>1, <2>2 DEF UserClicks, SingleThread, CursorsBack, At, globals
  <2> QED
    BY <1>0, <1>6, <2>1, <2>3, LiftedTypes DEF UserClicks, globals
<1>7. ASSUME Restore(t) PROVE ScreenInv'
  <2>1. /\ overlay' \in [Threads -> OverlayStates] /\ overlay'[t].pc = "clear"
        /\ \A s \in Threads \ {t} : overlay'[s].pc = "none"
    BY <1>2, <1>7 DEF Restore
  <2>2. isOverlayRunning
    BY <1>7 DEF Restore, SingleThread, At
  <2>3. SingleThread' /\ CursorsBack'
    BY <1>7, <2>1, <2>2 DEF Restore, SingleThread, CursorsBack, At, globals
  <2> QED
    BY <1>0, <1>7, <2>1, <2>3, LiftedTypes DEF Restore, globals
<1>8. ASSUME Clear(t) PROVE ScreenInv'
  <2>1. NoThread \in OverlayStates /\ NoThread.pc = "none"
    BY NoThreadType DEF NoThread
  <2>2. overlay' \in [Threads -> OverlayStates] /\ \A s \in Threads : overlay'[s].pc = "none"
    BY <1>0, <1>8, <2>1 DEF Clear, SingleThread, At
  <2>3. ~hidden
    BY <1>8 DEF Clear, SingleThread, CursorsBack, At
  <2>4. SingleThread' /\ CursorsBack'
    BY <1>8, <2>2, <2>3 DEF Clear, SingleThread, CursorsBack, At
  <2> QED
    BY <1>0, <1>8, <2>2, <2>4, LiftedTypes DEF Clear
<1> QED
  BY <1>1, <1>3, <1>4, <1>5, <1>6, <1>7, <1>8 DEF OverlayStep

\* A step of a request that leaves the overlay alone.
LEMMA OverlayAlone ==
  ASSUME ScreenInv, RequestInv', hw' \in 0 .. 100,
         cachedSliderVal' \in Positions \cup {NoLevel}, failed' \in BOOLEAN,
         UNCHANGED <<globals, overlay, hidden, wish, missed>>
  PROVE  ScreenInv'
<1>1. ThreadTypeOK' /\ SingleThread' /\ CursorsBack'
  BY DEF ScreenInv, ThreadTypeOK, SingleThread, CursorsBack, At, globals
<1>2. ValueTypeOK'
  BY DEF ScreenInv, ValueTypeOK, globals
<1> QED
  BY <1>1, <1>2 DEF ScreenInv

LEMMA LevelRange == \A level \in Levels : level \in Positions
  BY ScreenAssumption DEF ScreenAssumption

LEMMA RequestStep ==
  ASSUME ScreenInv, NEW r \in Requests
  PROVE  (\/ SliderPost(r) \/ CloseOverlay(r) \/ SetBacklight(r) \/ Darken(r) \/ Dim(r)
          \/ SliderGet(r) \/ ReadBacklight(r)) => ScreenInv'
<1>0. /\ RequestInv /\ hw \in 0 .. 100 /\ cachedSliderVal \in Positions \cup {NoLevel}
      /\ failed \in BOOLEAN
  BY DEF ScreenInv, ValueTypeOK
<1>1. ASSUME SliderPost(r) PROVE ScreenInv'
  <2>1. PICK level \in Levels :
          /\ cachedSliderVal' = level
          /\ request' = [request EXCEPT ![r] =
                [pc |-> IF level >= 5000 THEN "close" ELSE "dark", level |-> level]]
    BY <1>1 DEF SliderPost
  <2>2. level \in Positions
    BY LevelRange
  <2>3. RequestInv'
    <3> DEFINE s == [pc |-> IF level >= 5000 THEN "close" ELSE "dark", level |-> level]
    <3>1. /\ s \in RequestStates /\ s.level = level /\ s.pc \in {"close", "dark"}
          /\ s.pc = "dark" => level < 5000
      <4>1. level >= 5000 \/ level < 5000
        BY <2>2 DEF Positions
      <4>2. CASE level >= 5000
        BY <2>2, <4>2 DEF RequestStates, Positions
      <4>3. CASE ~(level >= 5000)
        BY <4>1, <4>3 DEF RequestStates
      <4> QED
        BY <4>2, <4>3
    <3>2. request' = [request EXCEPT ![r] = s]
      BY <2>1
    <3> HIDE DEF s
    <3> QED
      BY <1>0, <3>1, <3>2 DEF RequestInv, Chosen
  <2> QED
    BY <1>0, <1>1, <2>1, <2>2, <2>3, OverlayAlone DEF SliderPost
<1>2. ASSUME CloseOverlay(r) PROVE ScreenInv'
  <2>1. RequestInv'
    BY <1>0, <1>2, RequestGoes DEF CloseOverlay
  <2>2. ThreadTypeOK' /\ SingleThread' /\ CursorsBack'
    BY <1>2, HideKeeps DEF CloseOverlay, ScreenInv, globals
  <2>3. wish' \in [alpha : Alphas, through : BOOLEAN] /\ missed' \in BOOLEAN
    <3>1. Close \in Alphas
      BY DEF Close, Alphas
    <3>2. Commanded(Close, FALSE) /\ isOverlayRunning \in BOOLEAN
      BY <1>2 DEF CloseOverlay, ScreenInv, ValueTypeOK
    <3> QED
      BY <3>1, <3>2, CommandedType
  <2>4. ValueTypeOK'
    BY <1>2, <2>3 DEF CloseOverlay, ScreenInv, ValueTypeOK, globals
  <2> QED
    BY <2>1, <2>2, <2>4 DEF ScreenInv
<1>3. ASSUME SetBacklight(r) PROVE ScreenInv'
  <2> DEFINE level == request[r].level
  <2>1. level \in Levels
    BY <1>0, <1>3 DEF SetBacklight, RequestInv, Chosen
  <2>2. BacklightOf(level) \in 0 .. 100
    <3> HIDE DEF level
    <3> QED
      BY <2>1, LevelRange, BacklightInPercent
  <2>3. RequestInv'
    BY <1>0, <1>3, RequestEnds DEF SetBacklight
  <2>4. hw' \in 0 .. 100
    <3> HIDE DEF level
    <3>1. hw' = BacklightOf(level) \/ hw' = hw
      BY <1>3 DEF SetBacklight, level
    <3> QED
      BY <1>0, <2>2, <3>1
  <2>5. failed' \in BOOLEAN /\ cachedSliderVal' = cachedSliderVal
    BY <1>0, <1>3 DEF SetBacklight
  <2> QED
    BY <1>0, <1>3, <2>3, <2>4, <2>5, OverlayAlone DEF SetBacklight
<1>4. ASSUME Darken(r) PROVE ScreenInv'
  <2>1. RequestInv'
    BY <1>0, <1>4, RequestGoes DEF Darken
  <2>2. hw' \in 0 .. 100
    BY <1>0, <1>4 DEF Darken
  <2>3. failed' \in BOOLEAN /\ cachedSliderVal' = cachedSliderVal
    BY <1>0, <1>4 DEF Darken
  <2> QED
    BY <1>0, <1>4, <2>1, <2>2, <2>3, OverlayAlone DEF Darken
<1>5. ASSUME Dim(r) PROVE ScreenInv'
  <2> DEFINE level == request[r].level
  <2>1. level \in Levels /\ level < 5000
    BY <1>0, <1>5 DEF Dim, RequestInv, Chosen
  <2>2. AlphaOf(level) \in Alphas /\ (level > 0) \in BOOLEAN
    <3> HIDE DEF level
    <3> QED
      BY <2>1, LevelRange, AlphaInByte
  <2>3. RequestInv'
    BY <1>0, <1>5, RequestEnds DEF Dim
  <2> QED
    BY <1>5, <2>2, <2>3, OpacityKeeps DEF Dim
<1>6. ASSUME SliderGet(r) PROVE ScreenInv'
  <2>1. RequestInv'
    BY <1>0, <1>6, RequestGoes DEF SliderGet
  <2> QED
    BY <1>0, <1>6, <2>1, OverlayAlone DEF SliderGet
<1>7. ASSUME ReadBacklight(r) PROVE ScreenInv'
  <2>1. RequestInv'
    BY <1>0, <1>7, RequestEnds DEF ReadBacklight
  <2>2. cachedSliderVal' \in Positions \cup {NoLevel}
    <3>1. 5000 + hw * 50 \in Positions
      BY <1>0 DEF Positions
    <3> QED
      BY <1>0, <1>7, <3>1 DEF ReadBacklight
  <2>3. failed' \in BOOLEAN
    <3> DEFINE position == 5000 + hw * 50
    <3>1. (cachedSliderVal' = position /\ failed' = FALSE)
             \/ UNCHANGED <<cachedSliderVal, failed>>
      BY <1>7 DEF ReadBacklight
    <3> HIDE DEF position
    <3> QED
      BY <1>0, <3>1
  <2>4. hw' = hw
    BY <1>7 DEF ReadBacklight
  <2> QED
    BY <1>0, <1>7, <2>1, <2>2, <2>3, <2>4, OverlayAlone DEF ReadBacklight
<1> QED
  BY <1>1, <1>2, <1>3, <1>4, <1>5, <1>6, <1>7

LEMMA ScreenStep == ScreenInv /\ [ScreenNext]_screenVars => ScreenInv'
<1> SUFFICES ASSUME ScreenInv, [ScreenNext]_screenVars PROVE ScreenInv'
  OBVIOUS
<1>1. ASSUME TurnOffDisplay PROVE ScreenInv'
  <2>1. RequestInv'
    BY <1>1 DEF TurnOffDisplay, ScreenInv, RequestInv, Chosen
  <2>2. 255 \in Alphas
    BY DEF Alphas
  <2> QED
    BY <1>1, <2>1, <2>2, OpacityKeeps DEF TurnOffDisplay
<1>2. CASE UNCHANGED screenVars
  BY <1>2 DEF screenVars, ScreenInv, ThreadTypeOK, RequestInv, Chosen, ValueTypeOK,
              SingleThread, CursorsBack, At
<1> QED
  BY <1>1, <1>2, RequestStep, ThreadStep DEF ScreenNext

LEMMA ScreenInvariant == ScreenSpec => []ScreenInv
  BY ScreenInitInv, ScreenStep, PTL DEF ScreenSpec

\* The variables of the screen keep their types; in particular every opacity
\* the slider asks for fits in the byte that Windows takes.
THEOREM ScreenTypes == ScreenSpec => []ScreenTypeOK
  BY ScreenInvariant, TypeFromParts, PTL

\* There is never a second overlay thread, nor one the globals do not know of,
\* for any number of requests that cross with the making and the end of the
\* window (overlay.go SetOverlayOpacity, showOverlayThread).
THEOREM ScreenSingleThread == ScreenSpec => []SingleThread
<1>1. ScreenInv => SingleThread
  BY DEF ScreenInv
<1> QED
  BY <1>1, ScreenInvariant, PTL

\* While the cursors are blank there is an overlay thread that will restore
\* them (overlay.go showOverlayThread).
THEOREM ScreenCursorsBack == ScreenSpec => []CursorsBack
<1>1. ScreenInv => CursorsBack
  BY DEF ScreenInv
<1> QED
  BY <1>1, ScreenInvariant, PTL

-----------------------------------------------------------------------------
(* What the window shows.  A command that reached the window is either still   *)
(* the last message of its queue, with the click-through that it will be       *)
(* handled with in the globals, or is what the window shows; unless the window *)
(* has been told to close, for then it shows nothing for long.                 *)

\* The window exists from store to pump, and overlayHwnd names it from init on
\* until its thread is gone.
Windows ==
    \A t \in Threads :
        /\ overlay[t].alive <=> overlay[t].pc \in {"store", "init", "pump"}
        /\ overlayHwnd = t <=> overlay[t].pc \in {"init", "pump", "restore", "clear"}
        /\ overlay[t].pc \notin {"init", "pump"} => overlay[t].queue = <<>>

Closing(t) == \E i \in DOMAIN overlay[t].queue : overlay[t].queue[i] = Close

Follows(t) ==
    \/ Closing(t)
    \/ /\ overlay[t].queue = <<>>
       /\ overlay[t].alpha = wish.alpha /\ overlay[t].through = wish.through
    \/ /\ overlay[t].queue # <<>>
       /\ overlay[t].queue[Len(overlay[t].queue)] = wish.alpha
       /\ isClickThrough = wish.through

Following ==
    ~missed => \A t \in Threads :
        overlay[t].pc \in {"create", "store", "init", "pump"} => Follows(t)

ShownInv == Windows /\ Following

LEMMA ShownInit == ScreenInit => ShownInv
  BY DEF ScreenInit, ShownInv, Windows, Following, NoThread, Threads, NoWindow

LEMMA HandleOf ==
  ASSUME ThreadTypeOK, SingleThread, Windows, NEW t \in Threads, overlay[t].pc # "none"
  PROVE  /\ overlayHwnd = t \/ overlayHwnd = NoWindow
         /\ \A u \in Threads \ {t} : overlay[u].pc = "none"
  BY DEF ThreadTypeOK, SingleThread, Windows, At

\* A step that changes thread t only, of which nothing else is there.
LEMMA ThreadMoves ==
  ASSUME ThreadTypeOK, Windows, NEW t \in Threads, NEW s \in OverlayStates,
         \A u \in Threads \ {t} : overlay[u].pc = "none",
         overlay' = [overlay EXCEPT ![t] = s],
         s.alive <=> s.pc \in {"store", "init", "pump"},
         s.pc \notin {"init", "pump"} => s.queue = <<>>,
         overlayHwnd' = IF s.pc \in {"init", "pump", "restore", "clear"} THEN t ELSE NoWindow,
         ~missed' /\ s.pc \in {"create", "store", "init", "pump"} => Follows(t)'
  PROVE  ShownInv'
<1>1. /\ overlay'[t] = s
      /\ \A u \in Threads \ {t} : overlay'[u] = overlay[u]
  BY DEF ThreadTypeOK
<1>2. t # NoWindow /\ NoWindow \notin Threads
  BY DEF Threads, NoWindow
<1>3. Windows'
  BY <1>1, <1>2 DEF Windows
<1>4. Following'
  BY <1>1 DEF Following
<1> QED
  BY <1>3, <1>4 DEF ShownInv

LEMMA AppendLast ==
  ASSUME NEW q \in Seq(Alphas), NEW msg \in Alphas
  PROVE  /\ Append(q, msg) \in Seq(Alphas) /\ Append(q, msg) # <<>>
         /\ Len(Append(q, msg)) \in DOMAIN Append(q, msg)
         /\ Append(q, msg)[Len(Append(q, msg))] = msg
  OBVIOUS

\* A command posted to the window is the last message of its queue.
LEMMA PostFollows ==
  ASSUME ThreadTypeOK, SingleThread, ShownInv, NEW msg \in Alphas, Post(msg),
         overlayHwnd' = overlayHwnd, wish'.alpha = msg,
         msg # Close => isClickThrough' = wish'.through,
         missed' <=> (msg # Close /\ ~Listening(overlayHwnd))
  PROVE  ShownInv'
<1> DEFINE w == overlayHwnd
           q == overlay[w].queue
           s == [overlay[w] EXCEPT !.queue = Append(@, msg)]
<1>1. w \in Threads /\ overlay[w].pc \in {"init", "pump", "restore", "clear"}
  BY DEF ThreadTypeOK, Post, ShownInv, Windows
<1>2. \A u \in Threads \ {w} : overlay[u].pc = "none"
  BY <1>1 DEF SingleThread, At
<1>3. overlay[w] \in OverlayStates /\ q \in Seq(Alphas)
  BY <1>1 DEF ThreadTypeOK, OverlayStates
<1>4. CASE overlay[w].alive
  <2>1. overlay[w].pc \in {"init", "pump"}
    BY <1>1, <1>4 DEF ShownInv, Windows
  <2>2. overlay' = [overlay EXCEPT ![w] = s]
    BY <1>4 DEF Post
  <2>3. /\ s \in OverlayStates /\ s.pc = overlay[w].pc /\ s.alive = overlay[w].alive
        /\ s.queue = Append(q, msg)
    <3>1. Append(q, msg) \in Seq(Alphas)
      BY <1>3
    <3> QED
      BY <1>3, <3>1 DEF OverlayStates
  <2>4. /\ s.queue # <<>> /\ s.queue[Len(s.queue)] = msg /\ Len(s.queue) \in DOMAIN s.queue
    <3> HIDE DEF q, s
    <3> QED
      BY <1>3, <2>3, AppendLast
  <2>5. overlay'[w] = s
    BY <1>1, <2>2 DEF ThreadTypeOK
  <2>6. Follows(w)'
    <3> HIDE DEF s, q
    <3>1. CASE msg = Close
      BY <2>4, <2>5, <3>1 DEF Follows, Closing
    <3>2. CASE msg # Close
      BY <2>4, <2>5, <3>2 DEF Follows
    <3> QED
      BY <3>1, <3>2
  <2> HIDE DEF s
  <2> QED
    BY <1>1, <1>2, <1>4, <2>1, <2>2, <2>3, <2>6, ThreadMoves DEF ShownInv
<1>5. CASE ~overlay[w].alive
  <2>1. overlay[w].pc \in {"restore", "clear"} /\ overlay' = overlay
    BY <1>1, <1>5 DEF ShownInv, Windows, Post
  <2> QED
    BY <1>1, <1>2, <2>1 DEF ShownInv, Windows, Following
<1> QED
  BY <1>4, <1>5

\* A new thread is started with what was asked for.
LEMMA SpawnFollows ==
  ASSUME ThreadTypeOK, ShownInv, \A t \in Threads : overlay[t].pc = "none",
         NEW alpha \in Alphas, NEW through \in BOOLEAN, SpawnOverlay(alpha, through),
         overlayHwnd = NoWindow, overlayHwnd' = NoWindow,
         wish'.alpha = alpha, wish'.through = through
  PROVE  ShownInv'
<1> DEFINE s == [NoThread EXCEPT !.pc = "create", !.alpha = alpha, !.through = through]
<1>1. PICK t \in Threads : overlay' = [overlay EXCEPT ![t] = s]
  BY DEF SpawnOverlay
<1>2. /\ s \in OverlayStates /\ s.pc = "create" /\ s.alpha = alpha /\ s.through = through
      /\ s.alive = FALSE /\ s.queue = <<>>
  BY NoThreadType DEF OverlayStates, NoThread
<1> HIDE DEF s
<1>3. overlay'[t] = s
  BY <1>1 DEF ThreadTypeOK
<1>4. Follows(t)'
  BY <1>2, <1>3 DEF Follows
<1> QED
  BY <1>1, <1>2, <1>4, ThreadMoves DEF ShownInv

\* A command to nobody: there is no window, or the command is missed.
LEMMA NobodyFollows ==
  ASSUME ShownInv, UNCHANGED <<overlay, overlayHwnd>>,
         missed' \/ \A t \in Threads : overlay[t].pc = "none"
  PROVE  ShownInv'
  BY DEF ShownInv, Windows, Following

LEMMA OpacityFollows ==
  ASSUME ScreenInv, ShownInv, NEW alpha \in Alphas, NEW through \in BOOLEAN,
         SetOverlayOpacity(alpha, through)
  PROVE  ShownInv'
<1>1. ThreadTypeOK /\ SingleThread
  BY DEF ScreenInv
<1>2. /\ overlayHwnd' = overlayHwnd /\ isClickThrough' = through
      /\ wish'.alpha = alpha /\ wish'.through = through
      /\ missed' = IF overlayHwnd = NoWindow THEN isOverlayRunning
                   ELSE alpha # Close /\ ~Listening(overlayHwnd)
  BY DEF SetOverlayOpacity, Commanded
<1>3. ~isOverlayRunning => \A t \in Threads : overlay[t].pc = "none"
  BY <1>1 DEF SingleThread, At
<1>4. CASE overlayHwnd # NoWindow
  <2>1. Post(alpha)
    BY <1>4 DEF SetOverlayOpacity, Hide, Show, Close
  <2>2. missed' <=> (alpha # Close /\ ~Listening(overlayHwnd))
    BY <1>2, <1>4
  <2> QED
    BY <1>1, <1>2, <2>1, <2>2, PostFollows
<1>5. CASE overlayHwnd = NoWindow /\ (alpha = 0 \/ isOverlayRunning)
  <2>1. overlay' = overlay
    BY <1>5 DEF SetOverlayOpacity, Hide, Show
  <2>2. missed' = isOverlayRunning
    BY <1>2, <1>5
  <2> QED
    BY <1>2, <1>3, <2>1, <2>2, NobodyFollows
<1>6. CASE overlayHwnd = NoWindow /\ alpha # 0 /\ ~isOverlayRunning
  <2>1. SpawnOverlay(alpha, through)
    BY <1>6 DEF SetOverlayOpacity, Show
  <2> QED
    BY <1>1, <1>2, <1>3, <1>6, <2>1, SpawnFollows
<1> QED
  BY <1>4, <1>5, <1>6

LEMMA CloseFollows ==
  ASSUME ScreenInv, ShownInv, NEW r \in Requests, CloseOverlay(r)
  PROVE  ShownInv'
<1>1. ThreadTypeOK /\ SingleThread
  BY DEF ScreenInv
<1>2. /\ overlayHwnd' = overlayHwnd /\ wish'.alpha = Close
      /\ missed' = IF overlayHwnd = NoWindow THEN isOverlayRunning ELSE FALSE
  BY DEF CloseOverlay, Commanded, globals
<1>3. ~isOverlayRunning => \A t \in Threads : overlay[t].pc = "none"
  BY <1>1 DEF SingleThread, At
<1>4. CASE overlayHwnd # NoWindow
  <2>1. Post(Close) /\ Close \in Alphas
    BY <1>4 DEF CloseOverlay, Hide, Close, Alphas
  <2> QED
    BY <1>1, <1>2, <1>4, <2>1, PostFollows
<1>5. CASE overlayHwnd = NoWindow
  BY <1>2, <1>3, <1>5, NobodyFollows DEF CloseOverlay, Hide
<1> QED
  BY <1>4, <1>5

LEMMA DestroyFollows ==
  ASSUME ThreadTypeOK, SingleThread, ShownInv, NEW t \in Threads, At(t, "pump"), Destroy(t),
         overlayHwnd' = overlayHwnd
  PROVE  ShownInv'
<1> DEFINE s == [overlay[t] EXCEPT !.alive = FALSE, !.queue = <<>>, !.pc = "restore"]
<1>1. overlay[t] \in OverlayStates /\ overlay[t].pc = "pump"
  BY DEF ThreadTypeOK, At
<1>2. s \in OverlayStates /\ s.pc = "restore" /\ s.alive = FALSE /\ s.queue = <<>>
  BY <1>1, EmptyQueue DEF OverlayStates, NoMessage
<1>3. overlay' = [overlay EXCEPT ![t] = s]
  BY DEF Destroy
<1>4. overlayHwnd = t /\ \A u \in Threads \ {t} : overlay[u].pc = "none"
  BY <1>1, HandleOf DEF ShownInv, Windows
<1> HIDE DEF s
<1> QED
  BY <1>2, <1>3, <1>4, ThreadMoves DEF ShownInv

LEMMA TailKeeps ==
  ASSUME NEW q \in Seq(Alphas), q # <<>>, Tail(q) # <<>>
  PROVE  Tail(q)[Len(Tail(q))] = q[Len(q)]
  OBVIOUS

LEMMA NoLength == Len(<<>>) = 0
  OBVIOUS

LEMMA TailLength ==
  ASSUME NEW q \in Seq(Alphas), q # <<>>
  PROVE  Head(q) = q[1] /\ Len(q) \in Nat /\ Len(Tail(q)) = Len(q) - 1
  OBVIOUS

LEMMA TailEmpty ==
  ASSUME NEW q \in Seq(Alphas), q # <<>>, Tail(q) = <<>>
  PROVE  q[Len(q)] = Head(q)
<1>1. Len(Tail(q)) = 0
  BY NoLength
<1> QED
  BY <1>1, TailLength

LEMMA TailCloses ==
  ASSUME NEW q \in Seq(Alphas), q # <<>>, Head(q) # Close,
         NEW i \in DOMAIN q, q[i] = Close
  PROVE  \E j \in DOMAIN Tail(q) : Tail(q)[j] = Close
<1>1. i - 1 \in DOMAIN Tail(q) /\ Tail(q)[i - 1] = Close
  OBVIOUS
<1> QED
  BY <1>1

\* A message handled is the opacity shown; the click-through is the one now in
\* the globals.
LEMMA HandleFollows ==
  ASSUME ThreadTypeOK, SingleThread, ShownInv, isClickThrough \in BOOLEAN,
         NEW t \in Threads, Handle(t)
  PROVE  ShownInv'
<1> DEFINE q == overlay[t].queue
           s == [overlay[t] EXCEPT !.queue = Tail(@), !.alpha = Head(q),
                                   !.through = isClickThrough]
<1>1. overlay[t] \in OverlayStates /\ q \in Seq(Alphas) /\ q # <<>> /\ overlay[t].pc = "pump"
  BY DEF ThreadTypeOK, OverlayStates, Handle, At
<1>2. /\ overlayHwnd' = overlayHwnd /\ wish' = wish /\ missed' = missed
      /\ isClickThrough' = isClickThrough
  BY DEF Handle, globals
<1>3. CASE Head(q) = Close
  BY <1>1, <1>2, <1>3, DestroyFollows DEF Handle
<1>4. CASE Head(q) # Close
  <2>1. overlay' = [overlay EXCEPT ![t] = s]
    BY <1>4 DEF Handle
  <2>2. /\ s \in OverlayStates /\ s.pc = "pump" /\ s.alive = overlay[t].alive
        /\ s.queue = Tail(q) /\ s.alpha = Head(q) /\ s.through = isClickThrough
    <3>1. Head(q) \in Alphas /\ Tail(q) \in Seq(Alphas)
      BY <1>1, QueueTail
    <3> QED
      BY <1>1, <3>1 DEF OverlayStates
  <2>3. overlayHwnd = t /\ \A u \in Threads \ {t} : overlay[u].pc = "none"
    BY <1>1, HandleOf DEF ShownInv, Windows
  <2>4. overlay'[t] = s
    BY <2>1 DEF ThreadTypeOK
  <2>5. ~missed => Follows(t)'
    <3> SUFFICES ASSUME ~missed PROVE Follows(t)'
      OBVIOUS
    <3>1. Follows(t)
      BY <1>1 DEF ShownInv, Following
    <3> HIDE DEF s, q
    <3>2. CASE Closing(t)
      <4>1. PICK i \in DOMAIN q : q[i] = Close
        BY <3>2 DEF Closing, q
      <4>2. \E j \in DOMAIN Tail(q) : Tail(q)[j] = Close
        BY <1>1, <1>4, <4>1, TailCloses
      <4> QED
        BY <2>2, <2>4, <4>2 DEF Follows, Closing
    <3>3. CASE ~Closing(t)
      <4>1. q[Len(q)] = wish.alpha /\ isClickThrough = wish.through
        BY <1>1, <3>1, <3>3 DEF Follows, q
      <4>2. CASE Tail(q) = <<>>
        BY <1>1, <1>2, <2>2, <2>4, <4>1, <4>2, TailEmpty DEF Follows
      <4>3. CASE Tail(q) # <<>>
        BY <1>1, <1>2, <2>2, <2>4, <4>1, <4>3, TailKeeps DEF Follows
      <4> QED
        BY <4>2, <4>3
    <3> QED
      BY <3>2, <3>3
  <2>6. s.alive
    BY <1>1, <2>2 DEF ShownInv, Windows
  <2> HIDE DEF s, q
  <2> QED
    BY <1>2, <2>1, <2>2, <2>3, <2>5, <2>6, ThreadMoves DEF ShownInv
<1> QED
  BY <1>3, <1>4

\* A step of the thread itself that touches neither messages nor opacity.
LEMMA PlaceFollows ==
  ASSUME ThreadTypeOK, SingleThread, ShownInv, NEW t \in Threads,
         NEW from \in {"store", "init", "restore"},
         NEW pc \in {"init", "pump", "clear"}, At(t, from), Goto(t, pc),
         (from = "store" /\ pc = "init") \/ (from = "init" /\ pc = "pump")
            \/ (from = "restore" /\ pc = "clear"),
         overlayHwnd' = t, UNCHANGED <<isClickThrough, wish, missed>>
  PROVE  ShownInv'
<1> DEFINE s == [overlay[t] EXCEPT !.pc = pc]
<1>1. overlay[t] \in OverlayStates /\ overlay[t].pc = from
  BY DEF ThreadTypeOK, At
<1>2. /\ s \in OverlayStates /\ s.pc = pc /\ s.alive = overlay[t].alive
      /\ s.queue = overlay[t].queue /\ s.alpha = overlay[t].alpha
      /\ s.through = overlay[t].through
  BY <1>1 DEF OverlayStates
<1>3. overlay' = [overlay EXCEPT ![t] = s]
  BY DEF Goto
<1>4. \A u \in Threads \ {t} : overlay[u].pc = "none"
  BY <1>1, HandleOf DEF ShownInv
<1> HIDE DEF s
<1>5. overlay'[t] = s
  BY <1>3 DEF ThreadTypeOK
<1>6. ~missed /\ pc # "clear" => Follows(t)'
  BY <1>1, <1>2, <1>5 DEF ShownInv, Following, Follows, Closing
<1>7. /\ s.alive <=> pc # "clear"
      /\ pc = "clear" => s.queue = <<>>
  BY <1>1, <1>2 DEF ShownInv, Windows
<1> QED
  BY <1>2, <1>3, <1>4, <1>6, <1>7, ThreadMoves DEF ShownInv

LEMMA ThreadFollows ==
  ASSUME ScreenInv, ShownInv, NEW t \in Threads, OverlayStep(t) \/ UserClicks(t)
  PROVE  ShownInv'
<1>1. ThreadTypeOK /\ SingleThread /\ isClickThrough \in BOOLEAN
  BY DEF ScreenInv, ValueTypeOK
<1>2. NoThread \in OverlayStates /\ NoThread.pc = "none" /\ NoThread.alive = FALSE
      /\ NoThread.queue = <<>>
  BY NoThreadType DEF NoThread
<1>3. ASSUME CreateWindow(t) PROVE ShownInv'
  <2>1. overlay[t] \in OverlayStates /\ overlay[t].pc = "create" /\ overlay[t].queue = <<>>
    BY <1>1, <1>3 DEF CreateWindow, At, ThreadTypeOK, ShownInv, Windows
  <2>2. /\ overlayHwnd = NoWindow /\ overlayHwnd' = NoWindow
        /\ \A u \in Threads \ {t} : overlay[u].pc = "none"
        /\ UNCHANGED <<isClickThrough, wish, missed>>
    BY <1>1, <1>3, <2>1, HandleOf DEF CreateWindow, ShownInv, Windows
  <2>3. CASE overlay' = [overlay EXCEPT ![t].pc = "store", ![t].alive = TRUE]
    <3> DEFINE s == [overlay[t] EXCEPT !.pc = "store", !.alive = TRUE]
    <3>1. /\ s \in OverlayStates /\ s.pc = "store" /\ s.alive = TRUE
          /\ s.queue = overlay[t].queue /\ s.alpha = overlay[t].alpha
          /\ s.through = overlay[t].through
      BY <2>1 DEF OverlayStates
    <3>2. overlay' = [overlay EXCEPT ![t] = s]
      BY <2>3
    <3> HIDE DEF s
    <3>3. overlay'[t] = s
      BY <1>1, <3>2 DEF ThreadTypeOK
    <3>4. ~missed => Follows(t)'
      BY <2>1, <2>2, <3>1, <3>3 DEF ShownInv, Following, Follows, Closing
    <3> QED
      BY <1>1, <2>1, <2>2, <3>1, <3>2, <3>4, ThreadMoves DEF ShownInv
  <2>4. CASE overlay' = [overlay EXCEPT ![t] = NoThread]
    BY <1>1, <1>2, <2>2, <2>4, ThreadMoves DEF ShownInv
  <2> QED
    BY <1>3, <2>3, <2>4 DEF CreateWindow
<1>4. ASSUME StoreWindow(t) PROVE ShownInv'
  BY <1>1, <1>4, PlaceFollows DEF StoreWindow
<1>5. ASSUME InitWindow(t) PROVE ShownInv'
  <2>1. overlayHwnd' = t
    BY <1>5 DEF InitWindow, At, globals, ShownInv, Windows
  <2> QED
    BY <1>1, <1>5, <2>1, PlaceFollows DEF InitWindow, globals
<1>6. ASSUME Handle(t) PROVE ShownInv'
  BY <1>1, <1>6, HandleFollows
<1>7. ASSUME UserClicks(t) PROVE ShownInv'
  BY <1>1, <1>7, DestroyFollows DEF UserClicks, globals
<1>8. ASSUME Restore(t) PROVE ShownInv'
  <2>1. overlayHwnd' = t
    BY <1>8 DEF Restore, At, globals, ShownInv, Windows
  <2> QED
    BY <1>1, <1>8, <2>1, PlaceFollows DEF Restore, globals
<1>9. ASSUME Clear(t) PROVE ShownInv'
  <2>1. /\ overlay' = [overlay EXCEPT ![t] = NoThread] /\ overlayHwnd' = NoWindow
        /\ overlay[t].pc = "clear"
    BY <1>9 DEF Clear, At
  <2>2. \A u \in Threads \ {t} : overlay[u].pc = "none"
    BY <1>1, <2>1, HandleOf DEF ShownInv
  <2> QED
    BY <1>1, <1>2, <2>1, <2>2, ThreadMoves DEF ShownInv
<1> QED
  BY <1>3, <1>4, <1>5, <1>6, <1>7, <1>8, <1>9 DEF OverlayStep

-----------------------------------------------------------------------------
(* The backlight.  A position that was read from the backlight leads back to   *)
(* it, and brightnessMutex keeps other positions out until the backlight of    *)
(* the cached one has been set.                                                *)

LEMMA BacklightOfRead ==
  ASSUME NEW percent \in 0 .. 100
  PROVE  BacklightOf(5000 + percent * 50) = percent
<1>1. ~(5000 + percent * 50 < 5000) /\ 5000 + percent * 50 - 5000 = percent * 50
  OBVIOUS
<1>2. (percent * 50) * 2 + 50 = percent * 100 + 50
  OBVIOUS
<1>3. (percent * 100 + 50) \div 100 = percent
  OBVIOUS
<1> QED
  BY <1>1, <1>2, <1>3 DEF BacklightOf

LEMMA BacklightOfDark == \A level \in Positions : level < 5000 => BacklightOf(level) = 0
  BY DEF BacklightOf

OneRequest ==
    \A r, s \in Requests : request[r].pc # "idle" /\ request[s].pc # "idle" => r = s

Backlit ==
    /\ \A r \in Requests :
         /\ request[r].pc \in {"close", "backlight", "dark", "dim"} =>
               cachedSliderVal = request[r].level
         /\ request[r].pc = "dim" => failed \/ hw = 0
    /\ (\A r \in Requests : request[r].pc \in {"idle", "read"})
          /\ cachedSliderVal # NoLevel /\ ~failed => hw = BacklightOf(cachedSliderVal)

BacklightInv == OneRequest /\ Backlit

LEMMA BacklightInit == ScreenInit => BacklightInv
  BY DEF ScreenInit, BacklightInv, OneRequest, Backlit, NoRequest

\* A request begins under the lock.
LEMMA BacklightBegins ==
  ASSUME ScreenInv, BacklightInv, ~Busy, NEW r \in Requests, NEW s \in RequestStates,
         request' = [request EXCEPT ![r] = s],
         UNCHANGED <<hw, failed>>,
         \/ s.pc = "read" /\ cachedSliderVal' = cachedSliderVal
         \/ s.pc \in {"close", "dark"} /\ cachedSliderVal' = s.level
  PROVE  BacklightInv'
<1>1. \A q \in Requests : request[q].pc = "idle"
  BY DEF Busy
<1>2. request'[r] = s /\ \A q \in Requests \ {r} : request'[q] = request[q]
  BY DEF ScreenInv, RequestInv
<1>3. OneRequest'
  BY <1>1, <1>2 DEF OneRequest
<1>4. Backlit'
  BY <1>1, <1>2 DEF BacklightInv, Backlit
<1> QED
  BY <1>3, <1>4 DEF BacklightInv

\* A request goes on, the others being idle.
LEMMA BacklightGoes ==
  ASSUME ScreenInv, BacklightInv, NEW r \in Requests, NEW pc \in {"backlight", "dim"},
         pc = "backlight" => request[r].pc = "close" /\ UNCHANGED <<hw, failed>>,
         pc = "dim" => request[r].pc = "dark" /\ (failed' \/ hw' = 0),
         RequestTo(r, pc), cachedSliderVal' = cachedSliderVal
  PROVE  BacklightInv'
<1> DEFINE s == [request[r] EXCEPT !.pc = pc]
<1>1. request[r] \in RequestStates
  BY DEF ScreenInv, RequestInv
<1>2. s \in RequestStates /\ s.pc = pc /\ s.level = request[r].level
  BY <1>1 DEF RequestStates
<1>3. request' = [request EXCEPT ![r] = s]
  BY DEF RequestTo
<1> HIDE DEF s
<1>4. request'[r] = s /\ \A q \in Requests \ {r} : request'[q] = request[q]
  BY <1>3 DEF ScreenInv, RequestInv
<1>5. \A q \in Requests \ {r} : request[q].pc = "idle"
  BY DEF BacklightInv, OneRequest
<1>6. cachedSliderVal = s.level
  BY <1>2 DEF BacklightInv, Backlit
<1>7. OneRequest'
  BY <1>2, <1>4, <1>5 DEF OneRequest
<1>8. Backlit'
  BY <1>2, <1>4, <1>5, <1>6 DEF Backlit
<1> QED
  BY <1>7, <1>8 DEF BacklightInv

\* A request returns, and the backlight is the one of the cached position.
LEMMA BacklightEnds ==
  ASSUME ScreenInv, BacklightInv, NEW r \in Requests, request[r].pc # "idle", Return(r),
         cachedSliderVal' # NoLevel /\ ~failed' => hw' = BacklightOf(cachedSliderVal')
  PROVE  BacklightInv'
<1>1. /\ request'[r].pc = "idle"
      /\ \A q \in Requests \ {r} : request'[q] = request[q]
  BY DEF ScreenInv, RequestInv, Return, NoRequest
<1>2. \A q \in Requests \ {r} : request[q].pc = "idle"
  BY DEF BacklightInv, OneRequest
<1> QED
  BY <1>1, <1>2 DEF BacklightInv, OneRequest, Backlit

LEMMA RequestBacklit ==
  ASSUME ScreenInv, BacklightInv, NEW r \in Requests
  PROVE  (\/ SliderPost(r) \/ CloseOverlay(r) \/ SetBacklight(r) \/ Darken(r) \/ Dim(r)
          \/ SliderGet(r) \/ ReadBacklight(r)) => BacklightInv'
<1>0. /\ request[r] \in RequestStates /\ hw \in 0 .. 100
      /\ request[r].pc \in {"close", "backlight", "dark", "dim"} =>
            request[r].level \in Levels /\ cachedSliderVal = request[r].level
      /\ request[r].pc \in {"dark", "dim"} => request[r].level < 5000
  BY DEF ScreenInv, RequestInv, ValueTypeOK, Chosen, BacklightInv, Backlit
<1>1. ASSUME SliderPost(r) PROVE BacklightInv'
  <2>1. PICK level \in Levels :
          /\ cachedSliderVal' = level
          /\ request' = [request EXCEPT ![r] =
                [pc |-> IF level >= 5000 THEN "close" ELSE "dark", level |-> level]]
    BY <1>1 DEF SliderPost
  <2> DEFINE s == [pc |-> IF level >= 5000 THEN "close" ELSE "dark", level |-> level]
  <2>2. s \in RequestStates /\ s.level = level /\ s.pc \in {"close", "dark"}
    BY DEF RequestStates
  <2>3. request' = [request EXCEPT ![r] = s] /\ ~Busy /\ UNCHANGED <<hw, failed>>
    BY <1>1, <2>1 DEF SliderPost
  <2>4. cachedSliderVal' = s.level
    BY <2>1, <2>2
  <2> HIDE DEF s
  <2> QED
    BY <2>2, <2>3, <2>4, BacklightBegins
<1>2. ASSUME CloseOverlay(r) PROVE BacklightInv'
  BY <1>2, BacklightGoes DEF CloseOverlay
<1>3. ASSUME SetBacklight(r) PROVE BacklightInv'
  <2>1. /\ hw' = BacklightOf(request[r].level) \/ failed'
        /\ cachedSliderVal' = request[r].level /\ Return(r) /\ request[r].pc # "idle"
    BY <1>0, <1>3 DEF SetBacklight
  <2> QED
    BY <2>1, BacklightEnds
<1>4. ASSUME Darken(r) PROVE BacklightInv'
  BY <1>4, BacklightGoes DEF Darken
<1>5. ASSUME Dim(r) PROVE BacklightInv'
  <2>1. /\ cachedSliderVal' = request[r].level /\ UNCHANGED <<hw, failed>>
        /\ Return(r) /\ request[r].pc = "dim"
    BY <1>0, <1>5 DEF Dim
  <2>2. failed \/ hw = 0
    BY <2>1 DEF BacklightInv, Backlit
  <2>3. BacklightOf(cachedSliderVal') = 0
    BY <1>0, <2>1, LevelRange, BacklightOfDark
  <2> QED
    BY <2>1, <2>2, <2>3, BacklightEnds
<1>6. ASSUME SliderGet(r) PROVE BacklightInv'
  <2> DEFINE s == [request[r] EXCEPT !.pc = "read"]
  <2>1. s \in RequestStates /\ s.pc = "read"
    BY <1>0 DEF RequestStates
  <2>2. request' = [request EXCEPT ![r] = s] /\ ~Busy
        /\ UNCHANGED <<hw, failed, cachedSliderVal>>
    BY <1>6 DEF SliderGet, RequestTo
  <2> HIDE DEF s
  <2> QED
    BY <2>1, <2>2, BacklightBegins
<1>7. ASSUME ReadBacklight(r) PROVE BacklightInv'
  <2>1. request[r].pc = "read" /\ Return(r) /\ hw' = hw
    BY <1>7 DEF ReadBacklight
  <2>2. \A q \in Requests : request[q].pc \in {"idle", "read"}
    BY <2>1 DEF BacklightInv, OneRequest
  <2>3. CASE cachedSliderVal' = 5000 + hw * 50
    BY <1>0, <2>1, <2>3, BacklightOfRead, BacklightEnds
  <2>4. CASE UNCHANGED <<cachedSliderVal, failed>>
    BY <2>1, <2>2, <2>4, BacklightEnds DEF BacklightInv, Backlit
  <2> QED
    BY <1>7, <2>3, <2>4 DEF ReadBacklight
<1> QED
  BY <1>1, <1>2, <1>3, <1>4, <1>5, <1>6, <1>7

LEMMA SettingStep ==
  ASSUME ScreenInv, ScreenInv', ShownInv, BacklightInv, [ScreenNext]_screenVars
  PROVE  ShownInv' /\ BacklightInv'
<1>1. ASSUME UNCHANGED <<overlay, overlayHwnd, isClickThrough, wish, missed>> PROVE ShownInv'
  BY <1>1 DEF ShownInv, Windows, Following, Follows, Closing
<1>2. ASSUME UNCHANGED <<request, cachedSliderVal, hw, failed>> PROVE BacklightInv'
  BY <1>2 DEF BacklightInv, OneRequest, Backlit
<1>3. CASE TurnOffDisplay
  <2>1. 255 \in Alphas
    BY DEF Alphas
  <2> QED
    BY <1>2, <1>3, <2>1, OpacityFollows DEF TurnOffDisplay
<1>4. ASSUME NEW r \in Requests,
             \/ SliderPost(r) \/ SetBacklight(r) \/ Darken(r) \/ SliderGet(r)
             \/ ReadBacklight(r)
      PROVE  ShownInv' /\ BacklightInv'
  <2>1. UNCHANGED <<overlay, overlayHwnd, isClickThrough, wish, missed>>
    BY <1>4 DEF SliderPost, SetBacklight, Darken, SliderGet, ReadBacklight, globals
  <2> QED
    BY <1>1, <1>4, <2>1, RequestBacklit
<1>5. ASSUME NEW r \in Requests, CloseOverlay(r) PROVE ShownInv' /\ BacklightInv'
  BY <1>5, CloseFollows, RequestBacklit
<1>6. ASSUME NEW r \in Requests, Dim(r) PROVE ShownInv' /\ BacklightInv'
  <2> DEFINE level == request[r].level
  <2>1. level \in Positions /\ level < 5000
    BY <1>6, LevelRange DEF Dim, ScreenInv, RequestInv, Chosen
  <2>2. AlphaOf(level) \in Alphas /\ (level > 0) \in BOOLEAN
    <3> HIDE DEF level
    <3> QED
      BY <2>1, AlphaInByte
  <2>3. SetOverlayOpacity(AlphaOf(level), level > 0)
    BY <1>6 DEF Dim
  <2> HIDE DEF level
  <2> QED
    BY <1>6, <2>2, <2>3, OpacityFollows, RequestBacklit
<1>7. ASSUME NEW t \in Threads, OverlayStep(t) \/ UserClicks(t)
      PROVE  ShownInv' /\ BacklightInv'
  <2>1. UNCHANGED <<request, cachedSliderVal, hw, failed>>
    BY <1>7 DEF OverlayStep, CreateWindow, StoreWindow, InitWindow, Handle, Restore, Clear,
       UserClicks
  <2> QED
    BY <1>2, <1>7, <2>1, ThreadFollows
<1>8. CASE UNCHANGED screenVars
  BY <1>1, <1>2, <1>8 DEF screenVars
<1> QED
  BY <1>3, <1>4, <1>5, <1>6, <1>7, <1>8 DEF ScreenNext

SettingInv == ShownInv /\ BacklightInv

LEMMA SettingFromInv == SettingInv => SettingShown
<1> SUFFICES ASSUME ShownInv, BacklightInv, ~Busy PROVE
        /\ \A t \in Threads : At(t, "pump") /\ overlay[t].queue = <<>> /\ ~missed =>
              overlay[t].alpha = wish.alpha /\ overlay[t].through = wish.through
        /\ cachedSliderVal # NoLevel /\ ~failed => hw = BacklightOf(cachedSliderVal)
  BY DEF SettingInv, SettingShown
<1>1. ASSUME NEW t \in Threads, At(t, "pump"), overlay[t].queue = <<>>, ~missed
      PROVE  overlay[t].alpha = wish.alpha /\ overlay[t].through = wish.through
  BY <1>1 DEF ShownInv, Following, Follows, Closing, At
<1>2. cachedSliderVal # NoLevel /\ ~failed => hw = BacklightOf(cachedSliderVal)
  BY DEF Busy, BacklightInv, Backlit
<1> QED
  BY <1>1, <1>2

LEMMA SettingInvariant == ScreenSpec => [](ScreenInv /\ SettingInv)
<1>1. ScreenInit => ScreenInv /\ SettingInv
  BY ScreenInitInv, ShownInit, BacklightInit DEF SettingInv
<1>2. ScreenInv /\ SettingInv /\ [ScreenNext]_screenVars => ScreenInv' /\ SettingInv'
  BY ScreenStep, SettingStep DEF SettingInv
<1> QED
  BY <1>1, <1>2, PTL DEF ScreenSpec

\* However the slider requests, the blackout and the window's own thread cross:
\* once the window has handled its messages it shows the last command that did
\* not fall into its making or closing, and the backlight is the one of the
\* cached position unless its last call failed (overlay.go SetOverlayOpacity,
\* overlayWndProc; brightness.go SetBrightness, GetBrightness).
THEOREM ScreenSettingShown == ScreenSpec => []SettingShown
  BY SettingInvariant, SettingFromInv, PTL

=============================================================================
