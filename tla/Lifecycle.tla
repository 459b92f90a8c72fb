----------------------------- MODULE Lifecycle -----------------------------
(***************************************************************************)
(* Start and shutdown of the server: main (server/main.go), the            *)
(* certificate files (server/tls/certs.go), the tray's Run and Quit        *)
(* (server/tray/tray.go), and the tunnel that main starts and stops.       *)
(*                                                                         *)
(* main runs on one goroutine and blocks in the tray; a second goroutine   *)
(* listens, a third waits for a signal, and the tray's event loop and      *)
(* callback make a fourth.  They meet in the channel shutdownCh.  The      *)
(* process may die at any step; the next start reads the two files back.   *)
(*                                                                         *)
(* The content of a certificate or key file is the number of the pair it   *)
(* belongs to, or Torn between the truncation and the write.               *)
(***************************************************************************)
EXTENDS TunnelManager

CONSTANTS
    MaxPairs,       \* bound: certificates generated in a behaviour
    MaxStarts       \* bound: starts of the program in a behaviour

ASSUME LifecycleAssumption ==
    MaxPairs \in Nat \ {0} /\ MaxStarts \in Nat \ {0}

VARIABLES
    mainPc,     \* next step of main; "dead" once the process is gone
    certFile,   \* content of cert.pem
    keyFile,    \* content of key.pem
    pairs,      \* how many certificates have been written
    old,        \* certificates 1..old are within 30 days of their end
    listener,   \* the goroutine that calls ListenAndServeTLS
    closed,     \* shutdownCh is closed
    signal,     \* the goroutine that waits for a signal
    quit,       \* the tray's part: explicitQuit, and its callback's next step
    starts,     \* how often the program has been started
    \* History; no step depends on it.
    torn        \* a start died with the new certificate on disk and an old or
                \* half a key beside it

lifecycleVars ==
    <<mainPc, certFile, keyFile, pairs, old, listener, closed, signal, quit, starts, torn>>
serverVars == <<lifecycleVars, tunnelVars>>
files   == <<certFile, keyFile, pairs, old, torn>>
threads == <<listener, signal, quit>>

Absent == 0
Torn   == MaxPairs + 1
Pair   == 1 .. MaxPairs

Generating == {"openCert", "writeCert", "openKey", "writeKey"}
Running    == {"tray", "wait", "shutdown", "stopTunnel"}

LifecycleTypeOK ==
    /\ mainPc \in {"certs", "build"} \cup Generating \cup Running \cup {"exited", "dead"}
    /\ certFile \in Pair \cup {Absent, Torn} /\ keyFile \in Pair \cup {Absent, Torn}
    /\ pairs \in 0 .. MaxPairs /\ old \in 0 .. pairs
    /\ listener \in {"none", "starting", "serving", "closed"}
    /\ closed \in BOOLEAN
    /\ signal \in {"none", "waiting", "check", "close", "done"}
    /\ quit \in {"none", "asked", "check", "close", "done", "gone"}
    /\ starts \in 1 .. MaxStarts
    /\ torn \in BOOLEAN

LifecycleInit ==
    /\ mainPc = "certs"
    /\ certFile = Absent /\ keyFile = Absent
    /\ pairs = 0 /\ old = 0
    /\ listener = "none" /\ signal = "none" /\ quit = "none"
    /\ closed = FALSE
    /\ starts = 1
    /\ torn = FALSE

MainTo(step) == mainPc' = step
Up == mainPc \notin {"exited", "dead"}

\* log.Fatal, os.Exit, a panic or a crash: no deferred call runs.
Dies ==
    /\ MainTo("dead")
    /\ torn' = (torn \/ mainPc = "writeKey" \/ (mainPc = "openKey" /\ keyFile # Absent))
    /\ UNCHANGED <<certFile, keyFile, pairs, old, starts>>
    /\ listener' = "none" /\ signal' = "none" /\ quit' = "none"
    /\ closed' = FALSE
    /\ TunnelGone

\* A step of main that only moves on.
MainStep(from, to) ==
    /\ mainPc = from /\ MainTo(to)
    /\ UNCHANGED <<files, starts>>

\* A step of the certificate set-up, or its error, which is fatal.
CertStep(from, to, effect) ==
    /\ mainPc = from
    /\ \/ MainTo(to) /\ effect /\ UNCHANGED <<old, closed, threads, starts, tunnelVars>>
       \/ Dies

-----------------------------------------------------------------------------
(* Plausible bugs, each the wrong form of the definition it is named for; no *)
(* action uses them.                                                         *)

BugUsable == certFile \in Pair /\ certFile > old

BugTrayExit ==
    /\ quit = "asked" /\ mainPc = "tray"
    /\ quit' = "gone" /\ MainTo("wait")
    /\ UNCHANGED <<files, listener, closed, signal, starts, tunnelVars>>

-----------------------------------------------------------------------------
\* EnsureCertificates: both files exist and the certificate parses and is not
\* near its end.  The key is not looked at.
Usable == certFile \in Pair /\ keyFile # Absent /\ certFile > old

Certs ==
    /\ mainPc = "certs"
    /\ \/ Usable /\ MainStep("certs", "build")
          /\ UNCHANGED <<closed, threads, tunnelVars>>
       \/ /\ ~Usable /\ pairs < MaxPairs
          /\ CertStep("certs", "openCert", UNCHANGED <<certFile, keyFile, pairs, torn>>)

OpenCert  == CertStep("openCert", "writeCert",
                certFile' = Torn /\ UNCHANGED <<keyFile, pairs, torn>>)
WriteCert == CertStep("writeCert", "openKey",
                certFile' = pairs + 1 /\ pairs' = pairs + 1 /\ UNCHANGED <<keyFile, torn>>)
OpenKey   == CertStep("openKey", "writeKey",
                keyFile' = Torn /\ UNCHANGED <<certFile, pairs, torn>>)
WriteKey  == CertStep("writeKey", "build",
                keyFile' = pairs /\ torn' = FALSE /\ UNCHANGED <<certFile, pairs>>)

\* Sections 4 to 16 of main: the tunnel starts, then the goroutines.
Build ==
    /\ MainStep("build", "tray")
    /\ Start
    /\ listener' = "starting" /\ signal' = "waiting"
    /\ UNCHANGED <<closed, quit>>

\* ListenAndServeTLS loads the pair and binds the port, or the process ends;
\* after Shutdown it returns ErrServerClosed.
Listen ==
    /\ listener = "starting"
    /\ \/ /\ mainPc \in {"tray", "wait", "shutdown"} /\ certFile = keyFile
          /\ listener' = "serving"
       \/ mainPc \in {"stopTunnel"} /\ listener' = "closed"
    /\ UNCHANGED <<mainPc, files, closed, signal, quit, starts, tunnelVars>>

ListenFails ==
    /\ listener = "starting" /\ mainPc \in {"tray", "wait", "shutdown"}
    /\ Dies

\* The menu's Quit: explicitQuit is set, and systray.Quit ends the tray's loop.
TrayQuit ==
    /\ mainPc = "tray" /\ quit = "none"
    /\ quit' = "asked"
    /\ UNCHANGED <<mainPc, files, listener, closed, signal, starts, tunnelVars>>

\* The callback of systray.Run: with explicitQuit it looks at shutdownCh ...
TrayExit ==
    /\ quit = "asked" /\ mainPc = "tray"
    /\ IF closed THEN quit' = "done" ELSE quit' = "close"
    /\ UNCHANGED <<mainPc, files, listener, closed, signal, starts, tunnelVars>>

\* ... and closes it.  Closing a closed channel panics.
TrayCloses ==
    /\ quit = "close"
    /\ IF closed
       THEN Dies
       ELSE /\ closed' = TRUE /\ quit' = "done"
            /\ UNCHANGED <<mainPc, files, listener, signal, starts, tunnelVars>>

\* Run returns: after its callback, or because there is no desktop.
TrayReturns ==
    /\ quit \in {"none", "done"}
    /\ MainStep("tray", "wait")
    /\ quit' = "gone"
    /\ UNCHANGED <<listener, closed, signal, tunnelVars>>

\* The first SIGINT or SIGTERM; signal.Notify swallows the later ones.
SignalArrives ==
    /\ signal = "waiting" /\ signal' = "check"
    /\ UNCHANGED <<mainPc, files, listener, closed, quit, starts, tunnelVars>>

SignalCheck ==
    /\ signal = "check"
    /\ signal' = IF closed THEN "done" ELSE "close"
    /\ UNCHANGED <<mainPc, files, listener, closed, quit, starts, tunnelVars>>

SignalCloses ==
    /\ signal = "close"
    /\ IF closed
       THEN Dies
       ELSE /\ closed' = TRUE /\ signal' = "done"
            /\ UNCHANGED <<mainPc, files, listener, quit, starts, tunnelVars>>

\* <-shutdownCh
Wait ==
    /\ closed /\ MainStep("wait", "shutdown")
    /\ UNCHANGED <<closed, threads, tunnelVars>>

\* server.Shutdown, at most five seconds
Shutdown ==
    /\ MainStep("shutdown", "stopTunnel")
    /\ listener' = IF listener = "serving" THEN "closed" ELSE listener
    /\ UNCHANGED <<closed, signal, quit, tunnelVars>>

\* The deferred calls: tunnelMgr.Stop, then sessions.Stop and the return.
StopTunnel ==
    /\ MainStep("stopTunnel", "exited")
    /\ Stop
    /\ UNCHANGED <<closed, threads>>

\* The return of main ends every goroutine.
Exit ==
    /\ mainPc = "exited" /\ MainTo("dead")
    /\ listener' = "none" /\ signal' = "none" /\ quit' = "none" /\ closed' = FALSE
    /\ TunnelGone
    /\ UNCHANGED <<files, starts>>

Crash == Up /\ Dies

Restart ==
    /\ mainPc = "dead" /\ starts < MaxStarts
    /\ starts' = starts + 1
    /\ MainTo("certs")
    /\ UNCHANGED <<files, closed, threads, tunnelVars>>

\* The certificate on disk comes within 30 days of its end.
CertAges ==
    /\ certFile \in Pair /\ old < certFile
    /\ old' = certFile
    /\ UNCHANGED <<mainPc, certFile, keyFile, pairs, listener, closed, signal, quit,
                   starts, torn, tunnelVars>>

MainNext ==
    \/ Certs \/ OpenCert \/ WriteCert \/ OpenKey \/ WriteKey \/ Build
    \/ Wait \/ Shutdown \/ StopTunnel \/ Exit
TrayNext   == TrayExit \/ TrayCloses \/ (quit = "done" /\ TrayReturns)
SignalNext == SignalCheck \/ SignalCloses

ServerNext ==
    \/ MainNext \/ TrayNext \/ SignalNext
    \/ Listen \/ ListenFails \/ TrayQuit \/ TrayReturns \/ SignalArrives
    \/ Crash \/ Restart \/ CertAges

\* The goroutines of the tunnel run as long as the process.
TunnelStep == mainPc # "dead" /\ TunnelNext /\ UNCHANGED lifecycleVars

LifecycleNext == ServerNext \/ TunnelStep

KeepAliveEnds(u) ==
    /\ UNCHANGED lifecycleVars
    /\ \E k \in keep : k.url = u /\ (KeepAliveTick(k) \/ KeepAliveDone(k))

LifecycleFairness ==
    /\ WF_serverVars(MainNext) /\ WF_serverVars(TrayNext) /\ WF_serverVars(SignalNext)
    /\ WF_serverVars(LoopNext /\ UNCHANGED lifecycleVars)
    /\ \A u \in Urls : WF_serverVars(KeepAliveEnds(u))

LifecycleSpec ==
    TunnelInit /\ LifecycleInit /\ [][LifecycleNext]_serverVars /\ LifecycleFairness

-----------------------------------------------------------------------------
(* Correctness                                                                *)

\* A server that has got past its certificates has a key that fits its
\* certificate, unless an earlier start died while it replaced an existing key
\* or with the key half written: every other death heals itself at the next
\* start (certs.go EnsureCertificates looks at the certificate only).
ServesUnlessTorn ==
    mainPc \in Running /\ ~torn => certFile \in Pair /\ keyFile = certFile

\* The tray's Quit ends the program, however a signal, a failing listener or
\* a crash falls in between (main.go sections 15 to 17, tray.go Run).
QuitEnds == quit = "asked" ~> mainPc \in {"exited", "dead"}

\* A signal ends the program: "Wait indefinitely for explicit shutdown signal
\* (Ctrl+C, taskkill, or Tray Quit)" (main.go:241).
SignalEnds == signal = "check" ~> mainPc \in {"exited", "dead"}

=============================================================================
