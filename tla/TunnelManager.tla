--------------------------- MODULE TunnelManager ---------------------------
(***************************************************************************)
(* The Cloudflare tunnel (server/tunnel/tunnel.go).  runLoop starts        *)
(* cloudflared, reads its log for the public URL, hands the URL to the     *)
(* pairing manager, whose QR code carries it, and starts over when the     *)
(* process ends.  Every line with the URL also starts a keep-alive         *)
(* goroutine that pings it.                                                *)
(*                                                                         *)
(* Start is called once, when the program starts, and Stop once, when it   *)
(* ends (see module Lifecycle).  tm.mu covers single assignments, so       *)
(* Stop, the loop, the keep-alives and cloudflared interleave.             *)
(*                                                                         *)
(* A process has one URL, and a URL is used again only when nothing in the *)
(* program holds it any more: the URLs of quick tunnels are random.        *)
(***************************************************************************)
EXTENDS Naturals

CONSTANTS
    Urls,           \* URLs a quick tunnel may be given
    TokenUrl,       \* config.App.TunnelURL, the URL of a named tunnel; may be empty
    NoUrl,          \* the empty string
    MaxLines        \* bound: log lines with a URL that one process prints

ASSUME TunnelAssumption ==
    /\ MaxLines \in Nat \ {0}
    /\ NoUrl \notin Urls /\ TokenUrl \notin Urls

VARIABLES
    named,      \* config.App.TunnelToken is set; constant
    tm,         \* enabled, status and publicURL of the TunnelManager
    context,    \* the context tm.cancel belongs to: none, live or cancelled
    pmUrl,      \* PairingManager.publicURL
    loop,       \* next step of runLoop
    proc,       \* cloudflared: running, its URL, lines printed, lines unread
    keep        \* keep-alive goroutines

tunnelVars == <<named, tm, context, pmUrl, loop, proc, keep>>

Statuses  == {"disabled", "starting", "active", "error"}
LoopSteps == {"none", "check", "find", "context", "token", "start", "store",
              "scan", "announce", "lost", "sleep", "ended"}
\* One goroutine per line that held the URL; fresh while its context is the
\* one tm.cancel belongs to.
KeepAlive == [url : Urls, line : 1 .. MaxLines, fresh : BOOLEAN]

TunnelTypeOK ==
    /\ named \in BOOLEAN
    /\ tm \in [enabled : BOOLEAN, status : Statuses, url : Urls \cup {NoUrl}]
    /\ context \in {"none", "live", "cancelled"}
    /\ pmUrl \in Urls \cup {NoUrl, TokenUrl}
    /\ loop \in LoopSteps
    /\ proc \in [alive : BOOLEAN, url : Urls \cup {NoUrl},
                 printed : 0 .. MaxLines, unread : 0 .. MaxLines]
    /\ keep \subseteq KeepAlive

NoProc == [alive |-> FALSE, url |-> NoUrl, printed |-> 0, unread |-> 0]
NewTm  == [enabled |-> TRUE, status |-> "disabled", url |-> NoUrl]

\* tunnel.New, before Start.
TunnelInit ==
    /\ named \in BOOLEAN
    /\ tm = NewTm
    /\ context = "none"
    /\ pmUrl = NoUrl
    /\ loop = "none"
    /\ proc = NoProc
    /\ keep = {}

\* The process of the program is gone, and its goroutines with it.
TunnelGone ==
    /\ tm' = NewTm /\ context' = "none" /\ pmUrl' = NoUrl
    /\ loop' = "none" /\ proc' = NoProc /\ keep' = {}
    /\ UNCHANGED named

InUse    == {k.url : k \in keep} \cup {tm.url, pmUrl, proc.url}
LoopTo(step) == loop' = step
Pings(k) == k.fresh => context # "cancelled"

-----------------------------------------------------------------------------
(* Plausible bugs, each the wrong form of the action it is named for; no action *)
(* uses them.                                                                   *)

BugLost == /\ loop = "lost" /\ LoopTo("sleep") /\ proc' = NoProc
           /\ UNCHANGED <<named, tm, context, pmUrl, keep>>

BugKeepAliveTick(k) == UNCHANGED tunnelVars

-----------------------------------------------------------------------------
\* Start leaves a tunnel alone that is active or starting.
Start ==
    /\ IF tm.status \in {"active", "starting"}
       THEN UNCHANGED <<tm, loop>>
       ELSE tm' = [tm EXCEPT !.status = "starting"] /\ LoopTo("check")
    /\ UNCHANGED <<named, context, pmUrl, proc, keep>>

\* Stop holds the lock throughout, its announcement included.  It kills the
\* process only when the loop has stored it; cancelling the context kills
\* it too, a little later (ProcDies).
Stop ==
    /\ tm' = [enabled |-> FALSE, status |-> "disabled", url |-> NoUrl]
    /\ context' = IF context = "none" THEN "none" ELSE "cancelled"
    /\ proc' = IF loop \in {"scan", "announce"} THEN [proc EXCEPT !.alive = FALSE]
               ELSE proc
    /\ pmUrl' = NoUrl
    /\ UNCHANGED <<named, loop, keep>>

LoopCheck ==
    /\ loop = "check"
    /\ LoopTo(IF tm.enabled THEN "find" ELSE "ended")
    /\ UNCHANGED <<named, tm, context, pmUrl, proc, keep>>

\* findOrDownloadBinary finds the binary, or downloads it, or fails.
Find ==
    /\ loop = "find"
    /\ \/ LoopTo("context") /\ UNCHANGED tm
       \/ LoopTo("sleep") /\ tm' = [tm EXCEPT !.status = "error"]
    /\ UNCHANGED <<named, context, pmUrl, proc, keep>>

\* The context of the last round is never cancelled, only forgotten.
NewContext ==
    /\ loop = "context"
    /\ context' = "live"
    /\ keep' = {[k EXCEPT !.fresh = FALSE] : k \in {j \in keep : Pings(j)}}
    /\ LoopTo(IF named THEN "token" ELSE "start")
    /\ UNCHANGED <<named, tm, pmUrl, proc>>

\* A named tunnel's URL, if it is configured, is announced before there is a
\* process.
AnnounceToken ==
    /\ loop = "token"
    /\ pmUrl' = IF TokenUrl # NoUrl THEN TokenUrl ELSE pmUrl
    /\ LoopTo("start")
    /\ UNCHANGED <<named, tm, context, proc, keep>>

\* cmd.StderrPipe, cmd.StdoutPipe and cmd.Start, which refuses a context that
\* has been cancelled.  A failed pipe leaves the status alone.
StartProcess ==
    /\ loop = "start" /\ context = "live"
    /\ \E u \in Urls \ InUse :
          proc' = [alive |-> TRUE, url |-> u, printed |-> 0, unread |-> 0]
    /\ LoopTo("store")
    /\ UNCHANGED <<named, tm, context, pmUrl, keep>>

StartFails ==
    /\ loop = "start"
    /\ LoopTo("sleep")
    /\ \/ tm' = [tm EXCEPT !.status = "error"]
       \/ UNCHANGED tm
    /\ UNCHANGED <<named, context, pmUrl, proc, keep>>

StoreCmd ==
    /\ loop = "store"
    /\ LoopTo("scan")
    /\ UNCHANGED <<named, tm, context, pmUrl, proc, keep>>

\* A line with a URL: stored under the lock, ...
ReadLine ==
    /\ loop = "scan" /\ proc.unread > 0
    /\ proc' = [proc EXCEPT !.unread = @ - 1]
    /\ tm' = [tm EXCEPT !.url = proc.url, !.status = "active"]
    /\ LoopTo("announce")
    /\ UNCHANGED <<named, context, pmUrl, keep>>

\* ... and announced after it; then go tm.startKeepAlive(ctx, match).
Announce ==
    /\ loop = "announce"
    /\ pmUrl' = proc.url
    /\ keep' = keep \cup {[url |-> proc.url, line |-> proc.printed - proc.unread,
                           fresh |-> TRUE]}
    /\ LoopTo("scan")
    /\ UNCHANGED <<named, tm, context, proc>>

\* End of the log, and cmd.Wait.
Disconnect ==
    /\ loop = "scan" /\ proc.unread = 0 /\ ~proc.alive
    /\ tm' = [tm EXCEPT !.url = NoUrl,
                        !.status = IF @ = "active" THEN "starting" ELSE @]
    /\ LoopTo("lost")
    /\ UNCHANGED <<named, context, pmUrl, proc, keep>>

Lost ==
    /\ loop = "lost"
    /\ pmUrl' = NoUrl /\ proc' = NoProc
    /\ LoopTo("sleep")
    /\ UNCHANGED <<named, tm, context, keep>>

Wake ==
    /\ loop = "sleep"
    /\ LoopTo("check")
    /\ UNCHANGED <<named, tm, context, pmUrl, proc, keep>>

\* cloudflared prints the line of its URL (a named tunnel has none) ...
ProcPrints ==
    /\ proc.alive /\ ~named /\ proc.printed < MaxLines
    /\ proc' = [proc EXCEPT !.printed = @ + 1, !.unread = @ + 1]
    /\ UNCHANGED <<named, tm, context, pmUrl, loop, keep>>

\* ... and ends, by itself or because its context was cancelled.
ProcDies ==
    /\ proc.alive
    /\ proc' = [proc EXCEPT !.alive = FALSE]
    /\ UNCHANGED <<named, tm, context, pmUrl, loop, keep>>

\* A tick of a keep-alive whose URL is still the tunnel's pings and changes
\* nothing.
KeepAliveTick(k) ==
    /\ tm.url # k.url
    /\ keep' = keep \ {k}
    /\ UNCHANGED <<named, tm, context, pmUrl, loop, proc>>

KeepAliveDone(k) ==
    /\ ~Pings(k)
    /\ keep' = keep \ {k}
    /\ UNCHANGED <<named, tm, context, pmUrl, loop, proc>>

LoopNext ==
    \/ LoopCheck \/ Find \/ NewContext \/ AnnounceToken \/ StartProcess \/ StartFails
    \/ StoreCmd \/ ReadLine \/ Announce \/ Disconnect \/ Lost \/ Wake

TunnelNext ==
    \/ LoopNext
    \/ ProcPrints \/ ProcDies
    \/ \E k \in keep : KeepAliveTick(k) \/ KeepAliveDone(k)

-----------------------------------------------------------------------------
(* Correctness                                                                *)

\* The URL the QR code carries is the one of the process that the loop reads
\* from: when that process has gone, its URL goes before the loop sleeps and
\* starts the next one (tunnel.go runLoop: the callback is called outside tm.mu,
\* and Stop's call may fall between the two).
UrlOfThisTunnel ==
    pmUrl \in Urls => loop \in {"scan", "announce", "lost"} /\ proc.url = pmUrl

\* A keep-alive whose URL is no longer the tunnel's ends: neither the death of
\* cloudflared nor the next round cancels its context, so only its own
\* comparison of the URLs stops it (tunnel.go startKeepAlive).
KeepAlivesEnd ==
    \A u \in Urls : (\E k \in keep : k.url = u /\ tm.url # u)
                        ~> (\A k \in keep : k.url = u => tm.url = u)

=============================================================================
