# PC-Remote in TLA+

PC-Remote lets a phone control a Windows PC: a Go server (`src/server`) runs on
the PC and serves an HTTPS API, a Flutter app (`src/app`) pairs with it by a QR
code or a PIN and sends it commands over the LAN or through a Cloudflare tunnel.
This directory holds TLA+ models of the server and of its dialogue with the app,
the TLC configurations that check them, and the theorems about them that TLAPS
proves. Paths below are relative to the repository; `server/` is `src/server/`
and `app/` is `src/app/lib/`.

Parse a module with SANY, check a run with `tlc -config X.cfg M`, check the
proofs with `tlapm M.tla`. `PROJECT.json` lists the parts of the system, the
runs, the source lines every definition stands for, the hazards and the
theorems.

## 1. Inventory

| Part | State | Operations | Interacts with | What makes it correct |
|---|---|---|---|---|
| Session manager (`server/auth/session.go`) | `current` under `sm.mu`; `session.json` and its `.tmp` on disk | CreateSession, ValidateToken, RevokeAll, GetActiveSession, cleanupLoop, load and save | login, pair, logout, unpair handlers; `WithAuth`; tray, dashboard | one device; a revoked session is never honoured again; memory and disk agree; expired sessions go |
| QR pairing (`server/auth/qr.go`, `server/tray/qr_page.go`, `pairWithQR` in the app) | the one-time token with its deadline; the public URL, here and in the tunnel manager; pages; the phone's attempt | GetQRPayload, ValidateAndConsume, UpdatePublicURL; render and poll; scan, LAN then tunnel | session manager, tunnel | a token is used once and in time; rendering does not invalidate a code; a page comes to show whether a device is paired |
| Rate limiter (`server/middleware/ratelimit.go`) | a map of visitors under `rl.mu`; visitors reached by pointer | Allow, IsLocked, RecordAuthFailure, ResetAuthFailures, cleanupLoop | in front of all handlers; `WithAuth`, LoginHandler | rate bound; a lockout holds; enough failures lock |
| PIN (`server/config/config.go`, `HandleChangePIN` in `server/handlers/system.go`) | `config.App.PIN`, no lock; `.env` and `.env.tmp` | load, hash at the start, change | login, `WithAuth` | the PIN is never lost; memory and disk agree; a 200 means stored |
| Tunnel manager (`server/tunnel/tunnel.go`) | status, URL and enabled flag under `tm.mu`; the process; one keep-alive goroutine per log line with a URL | Start, Stop, runLoop, keep-alive | pairing manager, by a callback outside the lock; `main`; cloudflared | the QR code shows the URL of the process that runs; keep-alives of former URLs end |
| Overlay, brightness, display off (`server/windows/overlay.go`, `brightness.go`, `system.go`) | window handle, running flag, opacity under `overlayMutex`; slider cache and backlight; system cursors; keep-awake | SetOverlayOpacity, CloseOverlay, the window's thread; SetBrightness, GetBrightness; TurnOffDisplay and its monitor | each other, through a window's message queue | one window at a time; the last setting is shown; the screen and the cursors come back |
| Audio control (`server/windows/audio.go`, `api.go`, `server/handlers/audio.go`) | COM references within a request; volume and mute of the devices | master, channel and device volume and mute; listings | Windows | every reference is released once, whatever fails; only the named device changes |
| Media status and keys (`server/windows/media.go`) | half-second cache; scripts, scheduled tasks and result files | GetMediaStatus, SendMediaKey | PowerShell, the task scheduler | a status is not older than its request; a task is deleted, or its delete was tried |
| Start and shutdown (`server/main.go`), tray (`server/tray/tray.go`), TLS files (`server/tls/certs.go`) | shutdown channel, quit flag, two PEM files | start, signal, Quit, shutdown; EnsureCertificates | all | the program can be ended; the key fits the certificate |
| App requests (`app/services/api_service.dart`, `models/app_state.dart`), login and dashboard screens | saved token, `_preferRemote`, connection indicator, ping timer | `_get`, `_post` with failover, `_check401`, login, automatic login, logout, ping | server over two routes | a request comes through while a route is up, and the indicator tells the truth: with an exception, see section 5 |
| App media state (`app/models/media_state.dart`) | the card, polling timer, delayed refresh | polling, optimistic play/pause with rollback | app requests | the card comes to show what the player does |
| Stateless parts | none | browser, health and power commands, CORS, headers, QR encryption | Windows, libraries | |
| Widgets, test programs, installer, web pages | user interface | | | |

What is hard here: locks that cover single assignments while the requests around
them take several; files rewritten after the lock is released, under one
temporary name, with errors dropped; pointers kept across a lock release;
requests repeated over a second route after a timeout that does not cancel the
first; crashes between system calls; tickers that must eventually clean up.
`PROJECT.json` lists each such place under `hazards`, with the property that
would catch it, or with the reason why none speaks of it.

## 2. Plan

1. `Session`, with the abstract `SessionRegister` it implements: done.
2. `Pairing`, the token between server, pages and phones: done.
3. `RateLimiter`: done.
4. `PinChange`: done.
5. `TunnelManager` and `Lifecycle`, which starts and stops it: done.
6. `Screen`: done.
7. `Phone`: done.
8. `Audio` and `MediaStatus`: done.
9. Composition of `Pairing` with `SessionRegister` in place of its own session
   variable, and of `Pairing` with `TunnelManager` in place of a URL that is
   stored and then announced: open. Both modules now keep the weakest
   assumption about the other (any session may go, any URL may come and go), so
   what they show holds of the composition.
10. `AudioState` of the app, and the keep-awake state with its monitor
   goroutine: open, see section 7.

Proofs are modules of their own; no module uses a RECURSIVE operator.

## 3. Modules

| Module | Models |
|---|---|
| `Session` | the session manager with the handlers and `WithAuth` that call it |
| `SessionRegister` | what it promises, without memory, disk or steps |
| `Pairing` | PairingManager, dashboard pages, POST /auth/pair, `pairWithQR` |
| `RateLimiter` | one rate limiter with the handlers that call it |
| `PinChange` | loading, hashing and changing the PIN |
| `TunnelManager` | cloudflared, the loop that reads its log, keep-alives |
| `Lifecycle` | `main`, the certificate files, signals, tray; extends `TunnelManager` |
| `Screen` | the overlay's thread and queue, the brightness slider, display off |
| `Audio` | audio requests as sequences of COM calls |
| `MediaStatus` | scripts, tasks, result files and cache of media requests |
| `Phone` | requests over two routes, media card, indicator, login and logout |
| `MCSession`, `MCRateLimiter` | instances for TLC: the symmetry sets |
| `MCHost` | the last four parts of the server side by side |
| `SessionProofs`, `PairingProofs`, `RateLimiterProofs`, `PinChangeProofs`, `LifecycleProofs`, `ScreenProofs`, `PhoneProofs` | theorems and proofs of the part they are named for |
| `HostProofs` | theorems and proofs of `Audio`, `MediaStatus` and the composition `MCHost` |

Every module has, between its helpers and its actions, operators named `Bug...`:
the wrong form of the definition after which they are named, as a plausible
mistake would leave it. No action uses them; replacing a definition by its `Bug`
form makes TLC find the property violated that the mistake would break, which
shows that the property can fail.

### Session

A goroutine `h` serves one request at a time; `pc[h]` is its next step, `tok[h]`
the session in its hands. A step is one critical section of `sm.mu` or one
system call on a file: `Mint`, `Install`, `WriteTmp`, `Unlink`, `Rename` for
CreateSession; `Clear`, `RemoveFile`, `RemoveTmp` for RevokeAll; `Read`, `Judge`
for ValidateToken, which finds a session expired on a pointer it read before;
`Peek` and `PeekAgain` for the two looks of the X-PIN branch. `Cleanup` is a
round of cleanupLoop, `Crash` and `Restart` a death of the process and
NewSessionManager with its load from disk. Tokens are numbered in the order of
their creation: they are random and do not repeat, and since all live equally
long they also expire in that order, which makes time a single number `expired`.
`issued`, `displaced`, `dead` and `stale` are history: what clients were told.
LastSeenAt and the online flag are left out.

`SessionRegister` is a set `honoured` of sessions that may still be used, which
a session enters once and never re-enters; between requests it has at most one
element. `Session` implements it with `honoured` as the live sessions in memory,
on disk or on their way there.

### Pairing

`pm` is the PairingManager, `page[g]` a dashboard tab with what it was rendered
with, `phone[p]` the app's attempt, and `req[q]` a request to /auth/pair as the
server sees it; `phone[p].req` is the one whose answer the phone awaits. A
request the phone gave up on is still carried out by the server, in whatever
order with later ones: `GiveUp` and `Scan` leave it alone and take another `q`,
and an answer nobody awaits is dropped (`Dropped`). CreateSession gives the
session a token of its own, a number that has nothing to do with the pairing
token; of the session manager only the active session is kept. There are two
public URLs: `tunnel` is the tunnel manager's, `url` the pairing manager's copy,
which it is told after the lock is released (`TunnelChanges`,
`UpdatePublicURL`). ServeQRPage reads the session, then the payload with `url`,
then `tunnel`, in three steps (`PageStart`, `PagePayload`, `PageFinish`); the
page's timer looks at the status in one request and reloads the page in another
(`PagePoll`, `PageStart`). The deadline is compared with a clock `now`. Host,
fingerprint and alternate hosts are payload; the encryption of the code is the
identity on what is modelled here, since every phone that scans it decrypts it.
The tokens are bounded; the last one is not scanned, and once it exists the
clock and the process stand still (`Room`), so that no behaviour ends in a page
without a token.

### RateLimiter

Visitors live in cells and a pointer is the number of a cell: getVisitor hands
one out and releases the lock, `cleanupLoop` may delete its entry, and the
handler goes on with a visitor that is in nobody's map. `Collect` frees a cell
when no entry and no handler refers to it, which is all that Go's memory
management does for this code. Time is relative, so it needs no bound: a visitor
has its idle ticks, saturated just above the idle limit, and its remaining
lockout. A tick refills one credit, a request costs `Period` of them; `Period`,
`Cap`, `Limit` and `Lockout` stand for 12 s, 60 s, 10 and 15 min in the
authentication limiter and 1 s, 10 s, 10 and 15 min in the general one.
LoginHandler uses `RemoteAddr`, an IP and a port, as its key where everything
else uses ExtractIP: both kinds of keys are in the model. Rounding of floats is
left out.

### PinChange

`boot` is the progress of config.Init, `pc[h]` that of HandleChangePIN. Each
system call is a step that may fail (`Fault`, bounded by `MaxFaults`), the
fallback of Remove and Rename is there call by call, and the process may die
between any two. `env` and `tmp` have one file per directory, beside the
executable and in the working directory. main changes to the executable's
directory first (`main.go:28`) and goes on when that fails, so the file is in
the one or the other: `Path` is the one that is rewritten, `Loaded` the one that
decides at a start. Of a file's content only the PIN counts, plain or hashed. A
file is written in one step: only an overlapping change could read half of it. A
PIN in the environment of the operating system, which would take the place of a
missing file, is left out. `expected` is history: the PINs that the answers so
far and the changes under way allow to be in force.

### TunnelManager and Lifecycle

`loop` is the next step of runLoop, one step per critical section of `tm.mu`,
callback or call; `proc` is cloudflared, its URL and the log lines it has
printed and the loop has not read; `keep` the keep-alive goroutines, each with
its URL and whether the context it watches is still the one that Stop cancels.
`pmUrl` is what the pairing manager was told last. A URL is used again only when
nothing in the program holds it: the names of quick tunnels are random. A named
tunnel announces its URL if one is configured (`AnnounceToken`). Finding or
downloading the binary is one step that may fail.

`mainPc` is `main`, with every step of EnsureCertificates that touches a file:
each may fail, which is fatal, and the process may die at any of them. A file
holds the number of the pair it belongs to, or `Torn` between truncation and
write. `listener`, `signal` and `quit` are the other goroutines, the tray's loop
and its callback; the look at shutdownCh and its closing are two steps, and
closing it twice is a panic. `Build` stands for the sections that create
objects. Stop has one caller, the deferred call of main, and nothing in the
program starts a tunnel again. `torn` is history.

### Screen

`overlay[t]` is an overlay thread: the step of showOverlayThread it is at, its
window's opacity, and the queue of messages posted to it; `request[r]` is a
slider request inside brightnessMutex. A message to a window that has been
destroyed is lost, as PostMessage's error is. Positions are hundredths of a
percent; opacity and backlight are computed as the code does, with its rounding,
in integers. A message carries the opacity; zero stands for wmUserClose. `wish`,
`missed` and `failed` are history: the last command, whether it fell on a window
that was being made or destroyed, and whether the last backlight call failed.

### Audio

A request is a walk through COM calls, each of which may fail; `refs` counts the
references the program holds to each object, `deferred` those its deferred calls
will release, and `found` and `known` the devices listed and those that could be
read. Master, channel, device and listing requests share the steps; `FlowFails`
has their different ways out of a failed enumeration. Requests share nothing
but the devices, which they set with single calls, so one at a time is modelled.
A channel stands for the device whose name contains it. A listing takes and
releases the property store of a device within the step that reads its name; the
PROPVARIANT it reads there has no reference and is left out.

### MediaStatus

A request names its script by UnixNano, writes it and runs it: as a child, or,
in session 0, by a scheduled task whose script leaves a result file that is
polled for until the request gives up. The task is named by the process and
UnixMilli. A tick of the model's clock is a millisecond, `nano` what UnixNano
tells apart within one: two requests of one kind may have two scripts and one
task, which `/create /f` overwrites. Every schtasks call may fail; the error of
`/delete` is dropped (`Delete`), and the goroutine that is to delete a task dies
with the process (`Die`). `abandoned` is history: the tasks whose delete was
tried and failed since their creation, or whose process died. Whether `/run`
starts a second instance of a task is the Task Scheduler's affair (`Starts`). A
script reports the tick at which it asked the player. Result files may be cut
short, which fails the request.

### Phone

`call[c]` is a request of the app with its route, the route it may fall back to,
the token it was sent with and its answer. An action is what Dart runs between
two awaits. A route is up, slow (a request may be carried out and still time
out) or down; the tunnel may also be dead behind Cloudflare's edge, which then
answers for it (`edge`). `_get` and `_post` turn any answer but a 200 and a 401
into null or false and try no other route: in the model that is the answer
`error`. It comes from the edge, and, while the server is not `well`, instead of
what the handler would say: a 429 of the limiter, or a 500. `publicUrl` says
whether the app knows the tunnel's address, without which it has one route. A
play/pause that the phone gave up on may reach the player later (`late`).
`closing` has the awaits of `_check401` and `_logout` that will open the login
screen; `mounted` is the dashboard's state, which outlives its place on top. The
server is its set of valid tokens, its player and `well`.

### MCHost

The host's parts share no state, so a behaviour of `HostSpec` moves one of them,
chosen at the start. The tunnel runs beside a `main` that starts with good
certificates.

## 4. Runs

| Run | Instance | Shows |
|---|---|---|
| `session_serial` | 1 handler, 3 sessions, 2 crashes, disk works | memory and disk agree between requests (`DurableWhenIdle`, `ForgottenWhenIdle`), acknowledged revocations are final through crashes, a live session goes only on purpose, an expired one goes, `Session` implements `SessionRegister` |
| `session_concurrent` | 2 handlers, 2 sessions, no crash, disk may fail | within a process life a revoked token is not served and not current again, however requests interleave |
| `session_overlap` | 2 handlers, 2 sessions, 1 crash | violation of `AckedIsFinal`, see below |
| `pairing` | 2 phones, 1 page, 2 requests about at a time, 2 tokens, 1 tick, 1 restart | a token is accepted once and in time, rendering keeps a usable token, an open page comes to show whether a device is paired |
| `limiter` | 2 handlers, 1 IP, 1 address, 2 cells, burst 2, limit 2, lockout 3 | the rate bound and the lockout hold against cleanup and concurrent requests |
| `limiter_failures` | 1 handler, limit 3 | violation of `FailuresLock` |
| `pin` | 1 handler, 3 PINs, 4 faults, 2 crashes, one `.env` in either place | the PIN is not lost, memory and disk agree, a 200 means stored, no plain PIN remains |
| `pin_overlap` | 2 handlers, no fault, no crash | violation of `NeverLost` |
| `host` | 2 URLs, 2 lines a process, 2 certificates, 3 starts; 2 requests, 4 slider positions, queue of 2; 2 render devices and 1 capture device; 2 media goroutines, 2 requests, 1 tick, 1 death | the QR code shows the URL of the running process and keep-alives of former ones end; a key fits its certificate after any crash but one; Quit ends the program; one overlay, cursors restored, the last setting shown, a bright slider removes the overlay; audio references balance and only the named device changes; a status is as young as its request, and a task that stays is one whose delete failed or whose process died |
| `lifecycle_signal` | as in `host` | violation of `SignalEnds` |
| `phone` | 1 ping and 2 fetches in flight, 1 press of play/pause or logout, 1 token, 1 trouble: a change of the network, a time of errors, a revocation or a restart of the app | card and indicator come to show the truth, a logged out phone stops polling |
| `phone_edge` | 1 ping and 1 fetch, no press, 3 troubles | violation of `FailsOver` |

Why the bounds are enough. Two handlers are the smallest number with an
interleaving; every race found in reading the code is between two requests.
Three sessions let one be replaced, revoked and restored around a crash; two
crashes let the process die again during what a restart left behind. Two tokens
are one that is used and one that follows it; two phones contend for one, or one
phone gives up and has two requests about. A burst of 2 and an idle limit of 2
let a visitor be spent, refilled, forgotten and remade; two cells hold a visitor
that was deleted under a handler and the one that replaced it, and a lockout of
3 outlasts the idle limit. Four faults let every call of the PIN's fallback fail
in a row (rename, remove, rename, rename), three PINs let a change follow a
change. Two URLs are a tunnel and the one after it, two lines a URL that is
announced twice; two certificates let one replace another, three starts let the
second die in the middle of it and the third find what it left. The slider's
positions are the two halves, the end at which the overlay takes clicks, and one
just below the middle, where the rounding is delicate; two threads and a queue
of two let a window be destroyed with messages in it while the next command
arrives. One capture and two render devices have a preferred one, another, and a
channel on either side. Two requests over one tick let the second follow the
first, which has given up, in the same tick or in the next; one death lets the
process start again beside the tasks of the last. On the phone, one press and
one piece of trouble still let a fetch, a ping, a fallback, a late command and a
logout overlap, with a LAN that is up at the start and a tunnel that is up, down
or dead behind the edge; with two of either TLC does not finish in minutes. The
end of a time of errors is no trouble, so that what follows it is seen. The
three troubles of `phone_edge` are the LAN going, the LAN coming back and the
tunnel dying. The theorems below do not depend on these bounds.

`MCPinChange*.cfg` turns deadlock checking off: once a PIN is lost or the
faults and crashes are used up, a server without a PIN has nothing left to do.
So do `MCHost.cfg`, `MCLifecycle_signal.cfg` and `MCPhone*.cfg`: the program
has exited and its starts are used up, or the requests of media, or a logged
out phone waits for a user. Nowhere else does the system stop. Symmetry is
over handlers, and only in runs without liveness.

Fairness. `Session!FairSpec` lets every handler's request go on (the Go
scheduler runs runnable goroutines), the cleanup ticker fire, and a dead process
be started again (it is installed to start with Windows); not requests, crashes
or the clock. `Pairing!FairSpec` has the page's timer, every three seconds, the
reload it has asked for, the end of a handler that renders a page, and the
tunnel manager's callback; nothing of the phone, the user or the network.
`LifecycleFairness` and `HostFairness` let the goroutines of main, the tray, the
signal handler, the tunnel's loop and its keep-alives (tickers) run, and the
overlay's threads handle their messages; not cloudflared, the signal, the menu,
the listener, the requests or the user's clicks. `PhoneFairness` has every
request end, by its timeout at the latest, the timers of ping, polling and
refresh fire, and awaits and screen transitions end; nobody has to log in, press
a button or repair the network.

## 5. What the runs found

Each of these is a run whose property is violated, with the counterexample in
TLC's output.

* `session_overlap`: CreateSession and RevokeAll change memory under the lock
  and the file after it. Two overlapping requests may reach the file in the
  opposite order, and the next restart restores a session that was replaced or
  revoked, against `session.go:46`.
* `limiter_failures`: `authFailureLimit` consecutive failures do not always lock
  (`ratelimit.go:115`): LoginHandler counts under IP and port, WithAuth under
  the IP, and cleanup forgets the count of a visitor that is idle for ten
  minutes.
* `pin_overlap`: two overlapping changes share `.env.tmp`; the rename of the
  second finds no file, and its fallback removes the `.env` the first has
  committed. The endpoint is documented as atomic (`README.md:197`).
* `lifecycle_signal`: Ctrl+C closes shutdownCh, but on a desktop main waits in
  the tray's loop (`main.go:229`) and comes to `<-shutdownCh` only after the
  tray's own Quit: the server logs that it shuts down and goes on, against
  `main.go:218` and `main.go:241`.
* `phone_edge`: the LAN goes, the tunnel becomes the preferred route, the LAN
  comes back and the server's tunnel dies. Cloudflare's edge answers every
  request with a 502 or 530, which neither throws nor fails over
  (`api_service.dart:224`): the app stays offline on a dead tunnel beside a good
  LAN, against the "Auto-Failover" of `DOCUMENTATION.md:22`.

The same models show more with other configurations, which are not kept as
runs: with two handlers `DurableWhenIdle` and `ForgottenWhenIdle` fail as well
(a paired device that the next restart drops, a revoked one that it restores);
`RevokedOnlyOnPurpose` fails when ValidateToken finds an old session expired
and RevokeAll clears a new one (`session.go:129`); with one handler and
`DiskMayFail`, `ForgottenWhenIdle` fails since the error of os.Remove is
dropped (`session.go:282`). README.md:184 says that tokens live in volatile
memory only and for 24 hours; the code keeps them in `session.json` and for
365 days. A change whose file cannot be written is answered with a 500
although the new PIN is in force until the restart (`system.go:104`); that is
why `AgreeWhenIdle` and `NeverLost` speak of behaviours without failing calls.
With failing calls `NeverLost` is false: the fallback removes `.env` before it
renames.

Steps of the models of which no property speaks, since nothing in the
repository says what should happen then, or only in passing:

* A LAN request to pair that is late rather than lost spends the code, so that
  the tunnel's is refused, and leaves a session whose token no phone has; it may
  also displace the session that a second scan has made
  (`api_service.dart:354`).
* CreateSession may fail after the token was consumed (`handlers.go:138`), and
  the code may expire or the server restart under an open page: a page of an
  unpaired server reloads only when a device is paired or the URL changes
  (`qr_page.go:922`), so its code stays dead until somebody reloads it.
* A page that is rendered after the tunnel manager has stored its URL and before
  the pairing manager was told has a code without the tunnel, while its timer
  knows the URL and sees no reason to reload (`qr_page.go:105`). Likewise, a
  named tunnel's URL goes to the pairing manager only, and GetStatus never has
  it (`tunnel.go:134`).
* Two media requests of one kind within a millisecond share a task
  (`media.go:52`), although its name is meant to be unique (`media.go:51`): one
  overwrites the other's script, and may delete the task before the other has
  run it.

The properties of the limiter, the host and the phone name what they leave out,
since the code does not give it:

* `RateBound` counts what the visitor in the map has granted: a handler that got
  its pointer before cleanup deleted the visitor is served by the old one
  (`ratelimit.go:87`), one request per handler under way.
* `ServesUnlessTorn` excepts a start that died while it replaced a key: the next
  start accepts the new certificate with the old key, ListenAndServeTLS fails,
  and every later start does the same until somebody deletes the files
  (`certs.go:28`).
* `SettingShown` and `BrightPrevails` except a command that found a window being
  made or destroyed (`missed`): it is lost (`overlay.go:127`, `overlay.go:144`).
* `TasksOwned` excepts a task whose `/delete` failed, since the error is
  dropped, and one whose process died in the second before: nothing deletes them
  later, for every request has a name of its own (`media.go:77`, `media.go:86`).
* `CursorsBack` is about threads of a process that lives: when the process dies
  or exits with the black screen on, the cursors stay blank. They also stay
  blank while a black overlay is dimmed to another opacity.
* `CardConverges` and the online half of `IndicatorConverges` say what holds in
  the end if requests come through (`Reachable`) and the server is `well`. A
  preferred route that the edge answers for is not reachable, whatever the other
  one is; and as a service the media status fails for good, so the card never
  follows (see below). On the way a play/pause that timed out may be executed
  twice, and two requests that fail over at once flip `_preferRemote` twice
  (`api_service.dart:284`), so that later requests begin with the dead route.

Read in the code, without a run: a 401 for an old token removes the token of a
login made since (`api_service.dart:168`); the QR page takes payload and expiry
under two locks (`qr_page.go:87`); LastSeenAt and `config.App.PIN` are read
without a lock; setKeepAwake acts on the OS thread its goroutine runs on, so the
monitor goroutine need not release what the request set, and a request that
falls between its release and `isMonitoring = false` gets no monitor
(`system.go:204`); `os.Exit(1)` after a failed listener skips the deferred Stop,
and cloudflared goes on (`main.go:207`); Windows PowerShell writes the result
file with a byte order mark, which the JSON decoder refuses, so media status
works in an interactive session only (`media.go:358`, `media.go:531`); the media
cache is written without a lock (`media.go:535`); a listing reports volume 0
where the call failed (`audio.go:205`); the optimistic updates of audio devices
restore an index of a list that may have been replaced during the await
(`audio_state.dart:91`).

## 6. Proofs

| Theorem | Assumes | States |
|---|---|---|
| `SessionProofs!TypeCorrect` | | `[]TypeOK` |
| `SessionProofs!OneLifeAckedIsFinal`, `OneLifeNeverServed` | `MaxCrashes = 0` | `[]AckedIsFinal`, `[]NeverServedOnceRevoked`, any handlers, any failing disk |
| `SessionProofs!SerialAckedIsFinal`, `SerialNeverServed`, `SerialDurable`, `SerialForgotten` | one handler, working disk | `[]AckedIsFinal`, `[]NeverServedOnceRevoked`, `[]DurableWhenIdle`, `[]ForgottenWhenIdle`, any crashes |
| `SessionProofs!SerialOnPurpose` | one handler | `RevokedOnlyOnPurpose`, any disk, any crashes |
| `SessionProofs!SessionIsRegister`, `SerialOneDevice` | one handler, working disk | `ImplementsRegister`, and hence `[]OneDevice` of the register |
| `PairingProofs!TypeCorrect`, `PairingSingleUse`, `PairingInTime`, `PairingTokenKept` | | `[]TypeOK`, `[]SingleUse`, `AcceptedInTime`, `UsableTokenKept` |
| `RateLimiterProofs!TypeCorrect`, `LimiterRate`, `LimiterLockout` | a refill is no longer than the idle limit (`LimiterAssumption`) | `[]TypeOK`, `[]RateBound`, `LockoutKept` |
| `PinChangeProofs!TypeCorrect` | | `[]TypeOK` |
| `PinChangeProofs!SerialNeverLost`, `SerialAgree`, `SerialStored` | one handler, one `.env` | `[]NeverLost`, `[]AgreeWhenIdle`, `[]AckedMeansStored`, any faults and crashes |
| `PinChangeProofs!NoPlainTextStored` | one `.env` | `[]NoPlainText`, any handlers, faults and crashes |
| `LifecycleProofs!TunnelTypes`, `LifecycleTypes`, `TunnelUrl`, `CertificatesServe` | | `[]TunnelTypeOK`, `[]LifecycleTypeOK`, `[]UrlOfThisTunnel`, `[]ServesUnlessTorn` of `LifecycleSpec` |
| `ScreenProofs!ScreenTypes`, `ScreenSingleThread`, `ScreenCursorsBack`, `ScreenSettingShown` | | `[]ScreenTypeOK`, `[]SingleThread`, `[]CursorsBack`, `[]SettingShown` of `ScreenSpec` |
| `HostProofs!AudioTypesHold`, `AudioRefs`, `AudioNamed` | devices are not called like the other objects, the preferred one renders (`AudioAssumption`) | `[]AudioTypeOK`, `[]RefsBalanced`, `OnlyNamedDevice` of `AudioSpec` |
| `HostProofs!MediaTypes`, `MediaFresh`, `MediaTasks` | | `[]MediaTypeOK`, `[]FreshStatus`, `[]TasksOwned` of `MediaSpec` |
| `HostProofs!HostParts` | as for audio | `HostSpec => ScreenSpec /\ AudioSpec /\ MediaSpec` |
| `HostProofs!HostTypes`, `HostKeepsPromises` | as for audio | `[]TypeOK`, and all safety properties of the run `host`, of `HostSpec` |
| `PhoneProofs!PhoneTypes`, `PhoneTokens` | | `[]PhoneTypeOK`, `[]Issued`, of `PhoneSpec` |

The assumptions "one handler" and "no crash" are not a convenience: without them
the runs of section 5 refute the properties. Where a property survives
concurrency (`SingleUse`, `NoPlainText`, the limiter's, everything of the host
and the phone) the theorem is about any number of requests. Besides these, the
constants are only assumed to be what they stand for: bounds are natural
numbers, positive where a first start, token or certificate is among them.

The arguments:

* One life of a process (`LifeInv`). AckedIsFinal alone is not inductive: a
  session about to be installed might be a dead one. `Fresh` says that what is
  between Mint and Install is new, and in nobody else's hands; `Displaced` that
  what a handler has taken out of memory is not back; `Accepted` that a token
  that has passed ValidateToken was not yet revoked when its request arrived.
* Serial requests (`SerialInv`). `Settled` says that memory and disk agree
  outside the steps that rewrite the file, `Carrying` what a request inside them
  is about to commit, `Gone` where a displaced session may still be found, step
  by step until its request is acknowledged, `Ordered` that sessions are new
  when created. Refinement follows: every step keeps the set of honourable
  sessions, shrinks it, or adds the newest; `OneLeft` shows that one remains
  when the request ends. That a session goes on purpose only needs neither the
  disk nor `SerialInv`: `PurposeInv` says that a request that revokes without
  having been asked to found its session expired, and that no other has taken
  its place since.
* Pairing (`PairInv`). `Unspent` says that the token in force is unused and
  `Future` that no token beyond the last was used. Only a page's payload and
  ValidateAndConsume touch the tokens (`OthersKeepTokens`), so the sessions that
  requests get in exchange need not be followed.
* Limiter (`LimitInv`). A pointer that a request holds leads to its own IP's
  visitor or to one no longer in the map (`OwnIp`, `Own`); what a visitor may
  still grant and what it has granted add up to the burst at most (`Budget`),
  and forgetting an idle visitor gives nothing away because it was full
  (`RemovableFull`, where the assumption is used); a visitor in the map is
  locked for at least as long as the history says (`Locks`), also for requests
  that hold it (`Bars`).
* PIN (`PinInv`). There is one directory with a file; `Bound` says what the
  temporary file and memory hold at each step, failures or not, which gives
  `AckedMeansStored`; `Sound` adds that without failures the fallback is not
  reached and the file always has an expected PIN. `NoPlainText` needs no such
  bookkeeping: `Migrated` says that every file written after the start is hashed
  and that the one the server was installed with is rewritten before the first
  request, so concurrent changes may write over each other as they like.
* Tunnel and certificates. The URL needs `ProcInv`: what the pairing manager
  holds came from the process the loop reads, and both go before the loop
  sleeps; Stop, which clears it in between, can only fall once
  (`StartedOnce`). The files need `FilesInv`: which of them is torn is told by
  the step of EnsureCertificates (`Writing`), a key differs from a complete
  certificate only when `torn` says so (`Fits`), and both are there once main
  has passed the set-up (`Present`).
* Screen. One thread follows from what each step of a thread says of
  isOverlayRunning and the handle; cursors are blank only from the first opaque
  window on, and every way out of the pump goes through their restoration. That
  the last setting is shown needs the messages under way (`Following`): each
  window has the last commanded opacity as the last message of its queue, or
  shows it, or has been told to close; the click-through it will be given with
  that message is the one in the globals. `Windows` ties the handle in
  overlayHwnd to the step of the thread it belongs to. For the backlight,
  `Backlit` says what each step of a request has already written.
* Audio. `Held` gives, step by step, the objects the program has a reference to,
  `Owed` those the deferred calls will release; `refs` is 1 on the first and 0
  elsewhere, and at every return what is released by hand and what is deferred
  divide what is held. `Targets` says whose volume interface is asked for, from
  which `OnlyNamedDevice` follows.
* Media. What carries a tick was made then or later, for requests, scripts and
  result files alike (`MediaInv`). A task is created by a request that goes on
  to run it, and leaves that step with a goroutine that will delete it or with
  its delete tried: that is `TasksOwned` itself, step by step.
* Host. A step of the composition is a step or a stutter of every part
  (`HostIsParts`), hence the parts' theorems hold side by side; the server,
  which the composition starts from a second initial state for the tunnel, is
  taken through its invariant (`ServerTyped`), which both states satisfy. For
  the types of the server, `Aged` says that only a certificate that was written
  comes near its end.
* Phone. `CallsSound` says that a health check carries no token and is not
  denied; `Issued`, that all tokens about come from the server.

Only model-checked: the liveness properties (`ExpiredSessionGoes`,
`PagesFollowSession`, `QuitEnds`, `KeepAlivesEnd`, `BrightPrevails`,
`CardConverges`, `IndicatorConverges`, `LoggedOutStopsPolling`), since
fairness and ENABLED are out of the prover's reach. Every invariant and every
action property of a passing run is a theorem, under the assumptions above. No
induction over data is needed anywhere, and no operator is RECURSIVE.

## 7. Not modelled

* Keep-awake and the monitor goroutine of TurnOffDisplay: the state belongs to
  operating system threads that the Go code does not choose, so a model could
  say no more than section 5 does. Lock, sleep, restart, shutdown, the browser
  and health are one call each and keep no state.
* `AudioState` of the app, whose updates have the form of the modelled
  `MediaState`, one field each, and the commands of `MediaState` other than
  play/pause, which the card's state does not tell.
* CORS and security headers, QR encryption (a pure function and its inverse),
  key generation, the choice of network interfaces, the tray's icon and status
  line, the dashboard launcher, widgets and layout, the test programs, the
  installer and the web pages.
* In what is modelled: LastSeenAt, device names, wording of errors, HTTP methods
  and bodies that a handler rejects before it changes anything, bcrypt, and the
  general limiter's place in front of every request (it is another instance of
  the same module).
