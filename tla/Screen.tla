------------------------------- MODULE Screen ------------------------------
(***************************************************************************)
(* Brightness and the black overlay of the PC's screen                     *)
(* (server/windows/overlay.go, brightness.go, TurnOffDisplay in system.go, *)
(* and the handlers in server/handlers/system.go).  The upper half of the  *)
(* slider is the backlight; the lower half is a black window over the      *)
(* whole screen, the more opaque the lower the slider.                     *)
(*                                                                         *)
(* The window belongs to a thread of its own with a message queue.         *)
(* Requests post to the queue once overlayHwnd is known; overlayMutex      *)
(* covers the four globals only, so a request may fall anywhere in the     *)
(* making and the end of the window.  brightnessMutex is held throughout a *)
(* slider request, slow backlight calls included.                          *)
(*                                                                         *)
(* Slider positions are hundredths of a percent: the app sends fractions.  *)
(***************************************************************************)
EXTENDS Integers, Sequences

CONSTANTS
    Requests,       \* goroutines that serve GET and POST /system/brightness
    Levels,         \* slider positions that are asked for
    MaxQueue        \* bound: messages waiting for the window

Positions == 0 .. 10000

ASSUME ScreenAssumption == Levels \subseteq Positions /\ MaxQueue \in Nat \ {0}

VARIABLES
    overlayHwnd,        \* thread whose window it names, or NoWindow
    isOverlayRunning, currentAlpha, isClickThrough,
    overlay,            \* overlay threads and their windows
    hidden,             \* the system cursors are blank
    request,            \* the slider requests
    cachedSliderVal,
    hw,                 \* backlight, in percent
    \* History; no step depends on it.
    wish,               \* opacity and click-through of the last overlay command
    missed,             \* it found a window that was being made or closed
    failed              \* the last backlight call failed

screenVars == <<overlayHwnd, isOverlayRunning, currentAlpha, isClickThrough, overlay,
                hidden, request, cachedSliderVal, hw, wish, missed, failed>>
globals == <<overlayHwnd, isOverlayRunning, currentAlpha, isClickThrough>>

Threads  == {1, 2}
NoWindow == 0
NoLevel  == -1
Alphas   == 0 .. 255
Close    == 0           \* the wmUserClose message; wmUserSetAlpha carries an alpha > 0

\* A plausible bug, the wrong form of AlphaOf: 256 steps instead of 255.
BugAlphaOf(level) == ((5000 - level) * 256) \div 5000

\* alphaVal and hwInt of SetBrightness, rounded half up.
AlphaOf(level)   == ((5000 - level) * 51 + 500) \div 1000
BacklightOf(level) == IF level < 5000 THEN 0 ELSE ((level - 5000) * 2 + 50) \div 100

NoThread == [pc |-> "none", alpha |-> 0, through |-> FALSE, alive |-> FALSE, queue |-> <<>>]
NoRequest == [pc |-> "idle", level |-> NoLevel]

ScreenTypeOK ==
    /\ overlayHwnd \in Threads \cup {NoWindow}
    /\ isOverlayRunning \in BOOLEAN /\ isClickThrough \in BOOLEAN /\ hidden \in BOOLEAN
    /\ currentAlpha \in Alphas /\ hw \in 0 .. 100
    /\ overlay \in [Threads -> [pc : {"none", "create", "store", "init", "pump", "restore", "clear"},
                                alpha : Alphas, through : BOOLEAN, alive : BOOLEAN,
                                queue : Seq(Alphas)]]
    /\ request \in [Requests -> [pc : {"idle", "close", "backlight", "dark", "dim", "read"},
                                 level : Levels \cup {NoLevel}]]
    /\ cachedSliderVal \in Positions \cup {NoLevel}
    /\ wish \in [alpha : Alphas, through : BOOLEAN]
    /\ missed \in BOOLEAN /\ failed \in BOOLEAN

ScreenInit ==
    /\ overlayHwnd = NoWindow /\ isOverlayRunning = FALSE
    /\ currentAlpha = 255 /\ isClickThrough = FALSE
    /\ overlay = [t \in Threads |-> NoThread]
    /\ hidden = FALSE
    /\ request = [r \in Requests |-> NoRequest]
    /\ cachedSliderVal = NoLevel
    /\ hw = 100
    /\ wish = [alpha |-> 0, through |-> FALSE] /\ missed = FALSE /\ failed = FALSE

At(t, pc) == overlay[t].pc = pc
Goto(t, pc) == overlay' = [overlay EXCEPT ![t].pc = pc]
RequestTo(r, pc) == request' = [request EXCEPT ![r].pc = pc]
Return(r)   == request' = [request EXCEPT ![r] = NoRequest]

\* A window that will handle what is posted now.
Listening(t) ==
    overlay[t].alive /\ \A i \in DOMAIN overlay[t].queue : overlay[t].queue[i] # Close

\* PostMessage fails for a window that has been destroyed.
Post(msg) ==
    /\ overlayHwnd # NoWindow
    /\ Len(overlay[overlayHwnd].queue) < MaxQueue
    /\ overlay' = IF overlay[overlayHwnd].alive
                  THEN [overlay EXCEPT ![overlayHwnd].queue = Append(@, msg)]
                  ELSE overlay

\* DestroyWindow drops the window's messages; the quit message ends the pump.
Destroy(t) ==
    overlay' = [overlay EXCEPT ![t].alive = FALSE, ![t].queue = <<>>, ![t].pc = "restore"]

Commanded(alpha, through) ==
    /\ wish' = [alpha |-> alpha, through |-> through]
    /\ missed' = IF overlayHwnd = NoWindow THEN isOverlayRunning
                 ELSE alpha # Close /\ ~Listening(overlayHwnd)

SpawnOverlay(alpha, through) ==
    \E t \in Threads :
        /\ At(t, "none") /\ \A s \in Threads : At(s, "none") => t <= s
        /\ overlay' = [overlay EXCEPT ![t] = [NoThread EXCEPT !.pc = "create", !.alpha = alpha,
                                                              !.through = through]]

\* A plausible bug, the wrong form of Busy: no lock.
BugBusy == FALSE

\* brightnessMutex is held.
Busy == \E r \in Requests : request[r].pc # "idle"

-----------------------------------------------------------------------------
(* Plausible bugs, each the wrong form of the definition it is named for; no *)
(* action uses them.                                                         *)

BugShow(alpha, through) ==
    IF overlayHwnd # NoWindow THEN Post(alpha) /\ UNCHANGED isOverlayRunning
    ELSE isOverlayRunning' = TRUE /\ SpawnOverlay(alpha, through)

BugRestore(t) ==
    /\ At(t, "restore")
    /\ Goto(t, "clear")
    /\ hidden' = (hidden /\ overlay[t].alpha # 255)
    /\ UNCHANGED <<globals, request, cachedSliderVal, hw, wish, missed, failed>>

BugHandle(t) ==
    /\ At(t, "pump") /\ overlay[t].queue # <<>>
    /\ LET msg == Head(overlay[t].queue)
       IN  IF msg = Close /\ ~overlay[t].through THEN Destroy(t)
           ELSE overlay' = [overlay EXCEPT ![t].queue = Tail(@)]
    /\ UNCHANGED <<globals, hidden, request, cachedSliderVal, hw, wish, missed, failed>>

-----------------------------------------------------------------------------
\* SetOverlayOpacity with an alpha > 0: to the window, or a new overlay thread,
\* or, while a thread has no window yet, to nobody.
Show(alpha, through) ==
    IF overlayHwnd # NoWindow THEN Post(alpha) /\ UNCHANGED isOverlayRunning
    ELSE IF isOverlayRunning THEN UNCHANGED <<overlay, isOverlayRunning>>
    ELSE isOverlayRunning' = TRUE /\ SpawnOverlay(alpha, through)

Hide == IF overlayHwnd # NoWindow THEN Post(Close) ELSE UNCHANGED overlay

SetOverlayOpacity(alpha, through) ==
    /\ currentAlpha' = alpha /\ isClickThrough' = through
    /\ IF alpha = 0 THEN Hide /\ UNCHANGED isOverlayRunning ELSE Show(alpha, through)
    /\ Commanded(alpha, through)
    /\ UNCHANGED <<overlayHwnd, hidden>>

\* POST /system/brightness takes brightnessMutex and caches the position.
SliderPost(r) ==
    /\ ~Busy
    /\ \E level \in Levels :
          /\ cachedSliderVal' = level
          /\ request' = [request EXCEPT ![r] =
                [pc |-> IF level >= 5000 THEN "close" ELSE "dark", level |-> level]]
    /\ UNCHANGED <<globals, overlay, hidden, hw, wish, missed, failed>>

\* Bright half: CloseOverlay, which leaves the opacity alone, ...
CloseOverlay(r) ==
    /\ request[r].pc = "close"
    /\ Hide
    /\ Commanded(Close, FALSE)
    /\ RequestTo(r, "backlight")
    /\ UNCHANGED <<globals, hidden, cachedSliderVal, hw, failed>>

\* ... and the backlight, whose error is the request's.
SetBacklight(r) ==
    /\ request[r].pc = "backlight"
    /\ \/ hw' = BacklightOf(request[r].level) /\ failed' = FALSE
       \/ failed' = TRUE /\ UNCHANGED hw
    /\ Return(r)
    /\ UNCHANGED <<globals, overlay, hidden, cachedSliderVal, wish, missed>>

\* Dark half: the backlight off, whose error is dropped, ...
Darken(r) ==
    /\ request[r].pc = "dark"
    /\ \/ hw' = 0 /\ failed' = FALSE
       \/ failed' = TRUE /\ UNCHANGED hw
    /\ RequestTo(r, "dim")
    /\ UNCHANGED <<globals, overlay, hidden, cachedSliderVal, wish, missed>>

\* ... and the overlay, which takes clicks at position 0 only.
Dim(r) ==
    /\ request[r].pc = "dim"
    /\ SetOverlayOpacity(AlphaOf(request[r].level), request[r].level > 0)
    /\ Return(r)
    /\ UNCHANGED <<cachedSliderVal, hw, failed>>

\* GET /system/brightness answers from the cache or the opacity while an overlay
\* dims, and otherwise asks the backlight.
SliderGet(r) ==
    /\ ~Busy
    /\ ~(isOverlayRunning /\ currentAlpha > 0)
    /\ RequestTo(r, "read")
    /\ UNCHANGED <<globals, overlay, hidden, cachedSliderVal, hw, wish, missed, failed>>

ReadBacklight(r) ==
    /\ request[r].pc = "read"
    /\ \/ cachedSliderVal' = 5000 + hw * 50 /\ failed' = FALSE
       \/ UNCHANGED <<cachedSliderVal, failed>>
    /\ Return(r)
    /\ UNCHANGED <<globals, overlay, hidden, hw, wish, missed>>

\* POST /system/display/off; its monitor goroutine is not modelled.
TurnOffDisplay ==
    /\ SetOverlayOpacity(255, FALSE)
    /\ UNCHANGED <<request, cachedSliderVal, hw, failed>>

-----------------------------------------------------------------------------
(* showOverlayThread                                                          *)

CreateWindow(t) ==
    /\ At(t, "create")
    /\ \/ overlay' = [overlay EXCEPT ![t].pc = "store", ![t].alive = TRUE]
          /\ UNCHANGED isOverlayRunning
       \/ overlay' = [overlay EXCEPT ![t] = NoThread] /\ isOverlayRunning' = FALSE
    /\ UNCHANGED <<overlayHwnd, currentAlpha, isClickThrough, hidden, request,
                   cachedSliderVal, hw, wish, missed, failed>>

StoreWindow(t) ==
    /\ At(t, "store")
    /\ overlayHwnd' = t
    /\ Goto(t, "init")
    /\ UNCHANGED <<isOverlayRunning, currentAlpha, isClickThrough, hidden, request,
                   cachedSliderVal, hw, wish, missed, failed>>

\* The first opacity is the one the thread was started with.
InitWindow(t) ==
    /\ At(t, "init")
    /\ hidden' = (hidden \/ (overlay[t].alpha = 255 /\ ~overlay[t].through))
    /\ Goto(t, "pump")
    /\ UNCHANGED <<globals, request, cachedSliderVal, hw, wish, missed, failed>>

\* overlayWndProc: a message carries the opacity; click-through is read now.
Handle(t) ==
    /\ At(t, "pump") /\ overlay[t].queue # <<>>
    /\ LET msg == Head(overlay[t].queue)
       IN  IF msg = Close THEN Destroy(t)
           ELSE overlay' = [overlay EXCEPT ![t].queue = Tail(@), ![t].alpha = msg,
                                           ![t].through = isClickThrough]
    /\ UNCHANGED <<globals, hidden, request, cachedSliderVal, hw, wish, missed, failed>>

\* A key or a click reaches a window that is not click-through and closes it
\* when the globals say full black.
UserClicks(t) ==
    /\ At(t, "pump") /\ overlay[t].queue = <<>> /\ ~overlay[t].through
    /\ ~isClickThrough /\ currentAlpha = 255
    /\ Destroy(t)
    /\ UNCHANGED <<globals, hidden, request, cachedSliderVal, hw, wish, missed, failed>>

Restore(t) ==
    /\ At(t, "restore")
    /\ Goto(t, "clear")
    /\ hidden' = FALSE
    /\ UNCHANGED <<globals, request, cachedSliderVal, hw, wish, missed, failed>>

Clear(t) ==
    /\ At(t, "clear")
    /\ isOverlayRunning' = FALSE /\ overlayHwnd' = NoWindow
    /\ overlay' = [overlay EXCEPT ![t] = NoThread]
    /\ UNCHANGED <<currentAlpha, isClickThrough, hidden, request, cachedSliderVal, hw,
                   wish, missed, failed>>

OverlayStep(t) ==
    \/ CreateWindow(t) \/ StoreWindow(t) \/ InitWindow(t) \/ Handle(t)
    \/ Restore(t) \/ Clear(t)

ScreenNext ==
    \/ TurnOffDisplay
    \/ \E r \in Requests :
          \/ SliderPost(r) \/ CloseOverlay(r) \/ SetBacklight(r) \/ Darken(r) \/ Dim(r)
          \/ SliderGet(r) \/ ReadBacklight(r)
    \/ \E t \in Threads : OverlayStep(t) \/ UserClicks(t)

ScreenSpec == ScreenInit /\ [][ScreenNext]_screenVars

-----------------------------------------------------------------------------
(* Correctness                                                                *)

\* There is at most one overlay thread, and none that the globals do not know
\* of: a second black window would answer to no request (overlay.go
\* isOverlayRunning, set by requests and cleared by the thread).
SingleThread ==
    \A t \in Threads : ~At(t, "none") =>
        /\ isOverlayRunning
        /\ \A s \in Threads \ {t} : At(s, "none")

\* The cursors are blank only while an overlay thread is there that will
\* restore them, whatever opacities the window has gone through since it hid
\* them (overlay.go showOverlayThread).
CursorsBack == hidden => \E t \in Threads : overlay[t].pc \in {"pump", "restore"}

\* When the window has handled its messages and no request is under way, it
\* shows the opacity of the last command, and the backlight is the one of the
\* cached position: requests that cross leave overlay and backlight of one of
\* them, not a mixture.  Excepted is a command that fell while the window was
\* being made or closed, which is lost (overlay.go SetOverlayOpacity,
\* brightness.go SetBrightness).
SettingShown ==
    ~Busy =>
        /\ \A t \in Threads : At(t, "pump") /\ overlay[t].queue = <<>> /\ ~missed =>
              overlay[t].alpha = wish.alpha /\ overlay[t].through = wish.through
        /\ cachedSliderVal # NoLevel /\ ~failed => hw = BacklightOf(cachedSliderVal)

\* Once the slider is in its bright half the overlay goes, unless the command
\* was missed or another one follows (brightness.go SetBrightness, overlay.go
\* CloseOverlay).
BrightPrevails ==
    (wish.alpha = Close /\ ~missed)
        ~> (wish.alpha # Close \/ missed \/ \A t \in Threads : ~overlay[t].alive)

=============================================================================
