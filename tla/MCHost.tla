------------------------------ MODULE MCHost -------------------------------
(***************************************************************************)
(* The parts of the server that touch the host, instantiated for TLC: its  *)
(* start, shutdown and tunnel (Lifecycle, TunnelManager), the screen       *)
(* (Screen), the audio devices (Audio) and the media player (MediaStatus). *)
(*                                                                         *)
(* The parts share no state, so a behaviour moves one of them, chosen at   *)
(* the start, and leaves the others as they are initially.  The tunnel     *)
(* runs beside a main that starts with good certificates, for the start    *)
(* that generates them does not meet it.                                   *)
(***************************************************************************)
EXTENDS Lifecycle, Screen, Audio, MediaStatus

VARIABLE part       \* the part that moves

hostVars == <<part, serverVars, screenVars, audioVars, mediaVars>>

HostInit ==
    /\ part \in {"lifecycle", "tunnel", "screen", "audio", "media"}
    /\ TunnelInit /\ ScreenInit /\ AudioInit /\ MediaInit
    /\ part # "tunnel" => ~named
    /\ part # "media"  => ~session0
    /\ IF part = "tunnel"
       THEN /\ mainPc = "build" /\ starts = MaxStarts
            /\ certFile = 1 /\ keyFile = 1 /\ pairs = 1 /\ old = 0 /\ torn = FALSE
            /\ listener = "none" /\ signal = "none" /\ quit = "none" /\ closed = FALSE
       ELSE LifecycleInit

TunnelPart == MainNext \/ TrayQuit \/ TrayNext \/ TunnelStep

HostNext ==
    /\ UNCHANGED part
    /\ \/ part = "lifecycle" /\ ServerNext /\ UNCHANGED <<screenVars, audioVars, mediaVars>>
       \/ part = "tunnel"    /\ TunnelPart /\ UNCHANGED <<screenVars, audioVars, mediaVars>>
       \/ part = "screen"    /\ ScreenNext /\ UNCHANGED <<serverVars, audioVars, mediaVars>>
       \/ part = "audio"     /\ AudioNext  /\ UNCHANGED <<serverVars, screenVars, mediaVars>>
       \/ part = "media"     /\ MediaNext  /\ UNCHANGED <<serverVars, screenVars, audioVars>>

ServerStep(A) == A /\ UNCHANGED <<part, screenVars, audioVars, mediaVars>>

HostFairness ==
    /\ WF_hostVars(part \in {"lifecycle", "tunnel"} /\ ServerStep(MainNext))
    /\ WF_hostVars(part \in {"lifecycle", "tunnel"} /\ ServerStep(TrayNext))
    /\ WF_hostVars(part = "lifecycle" /\ ServerStep(SignalNext))
    /\ WF_hostVars(part = "tunnel" /\ ServerStep(LoopNext /\ UNCHANGED lifecycleVars))
    /\ \A u \in Urls : WF_hostVars(part = "tunnel" /\ ServerStep(KeepAliveEnds(u)))
    /\ \A t \in Threads :
          WF_hostVars(/\ part = "screen" /\ OverlayStep(t)
                      /\ UNCHANGED <<part, serverVars, audioVars, mediaVars>>)

HostSpec == HostInit /\ [][HostNext]_hostVars /\ HostFairness

\* Every variable of the parts has its type.
TypeOK == TunnelTypeOK /\ LifecycleTypeOK /\ ScreenTypeOK /\ AudioTypeOK /\ MediaTypeOK

=============================================================================
