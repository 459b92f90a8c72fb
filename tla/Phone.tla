------------------------------- MODULE Phone -------------------------------
(***************************************************************************)
(* The phone: requests over two routes (services/api_service.dart), the    *)
(* media card (models/media_state.dart), the connection indicator of the   *)
(* dashboard (screens/dashboard_screen.dart) and login.                    *)
(*                                                                         *)
(* A request goes to the preferred route; when it throws or times out the  *)
(* other route is tried, if one is known, and a success there flips the    *)
(* preference.  A time out does not cancel what was sent: the server may   *)
(* still execute it.  An answer that is neither a 200 nor a 401 is nothing *)
(* to the app, and no reason to try the other route: a 429 or a 500 of the *)
(* server, a 502 or 530 of Cloudflare's edge when the tunnel behind it is  *)
(* dead.  Dart runs one callback at a time, so an action is what runs      *)
(* between two awaits.  The server is reduced to its sessions, its media   *)
(* player and what keeps it from answering.                                *)
(***************************************************************************)
EXTENDS Naturals

CONSTANTS
    Pings,          \* health checks that may be in flight
    Fetches,        \* GET /media/status calls that may be in flight, numbered
    Toggle,         \* POST /media/play-pause: one, its button waits for it
    Logout,         \* POST /auth/logout
    MaxTokens,      \* bound: tokens the server issues
    MaxCommands,    \* bound: uses of the play/pause and logout buttons
    MaxTrouble      \* bound: changes of the network or the server, revocations, restarts

ASSUME PhoneAssumption ==
    /\ Fetches \subseteq Nat
    /\ MaxTokens \in Nat \ {0} /\ MaxCommands \in Nat /\ MaxTrouble \in Nat

VARIABLES
    net,            \* the routes: "up", "slow" (may answer too late) or "down";
                    \* "edge": the tunnel is dead and Cloudflare answers for it
    well,           \* FALSE: a request may be refused by the limiter or fail (429, 500)
    valid,          \* tokens the server accepts
    player,         \* the player on the PC is playing
    late,           \* a play/pause the phone has given up, still on its way
    prefer,         \* _preferRemote
    publicUrl,      \* public_url is known
    token,          \* auth_token in the preferences, NoToken when it is empty
    screen,         \* the screen on top
    mounted,        \* a _DashboardScreenState is mounted: its ping timer runs
    closing,        \* awaits of _check401 and _logout that will open LoginScreen
    connected,      \* AppState._isConnected
    failCount,      \* _failCount, up to the 3 at which it matters
    polling,        \* _pollingTimer is set
    refresh,        \* a delayed fetchMediaStatus is due
    card,           \* _currentStatus.isPlaying
    call,           \* the requests
    issued, commands, trouble   \* counters of the bounds

phoneVars == <<net, well, valid, player, late, prefer, publicUrl, token, screen, mounted,
               closing, connected, failCount, polling, refresh, card, call, issued, commands,
               trouble>>
world   == <<net, well, valid, player, late, publicUrl>>
session == <<token, screen, mounted, closing>>
shown   == <<connected, failCount, polling, refresh, card>>
bounds  == <<issued, commands, trouble>>

Routes  == {"lan", "tunnel"}
States  == {"up", "slow", "down"}
Nets    == {n \in [Routes -> States \cup {"edge"}] : n["lan"] # "edge"}
NoRoute == "none"
NoToken == 0
Tokens  == 1 .. MaxTokens
Calls   == Pings \cup Fetches \cup {Toggle, Logout}

\* next: the route to fall back to, NoRoute once that has been used; it is the
\* route itself when no other is known.  before: the card's originalStatus.
Idle == [pc |-> "idle", route |-> "lan", next |-> NoRoute, token |-> NoToken,
         answer |-> "none", before |-> FALSE]

PhoneTypeOK ==
    /\ net \in Nets /\ well \in BOOLEAN
    /\ valid \subseteq Tokens /\ token \in Tokens \cup {NoToken}
    /\ {player, late, prefer, publicUrl, mounted, connected, polling, refresh, card} \subseteq BOOLEAN
    /\ screen \in {"login", "dashboard"} /\ closing \subseteq {"denied", "logout"}
    /\ failCount \in 0 .. 3
    /\ call \in [Calls -> [pc : {"idle", "sent", "answered"}, route : Routes,
                           next : Routes \cup {NoRoute}, token : Tokens \cup {NoToken},
                           answer : {"none", "ok", "denied", "error", "playing", "paused"},
                           before : BOOLEAN]]
    /\ issued \in 0 .. MaxTokens /\ commands \in 0 .. MaxCommands /\ trouble \in 0 .. MaxTrouble

\* The app is started at home: paired, with the token and the public URL of the
\* pairing, or new.  The tunnel may be disabled or dead.
PhoneInit ==
    /\ net \in Nets /\ net["lan"] = "up" /\ net["tunnel"] # "slow"
    /\ well = TRUE
    /\ token \in {NoToken, 1} /\ issued = token /\ valid = Tokens \cap {token}
    /\ publicUrl = (token # NoToken)
    /\ player = TRUE /\ late = FALSE
    /\ prefer = FALSE
    /\ screen = "login" /\ mounted = FALSE /\ closing = {}
    /\ connected = FALSE /\ failCount = 0
    /\ polling = FALSE /\ refresh = FALSE /\ card = FALSE
    /\ call = [c \in Calls |-> Idle]
    /\ commands = 0 /\ trouble = 0

-----------------------------------------------------------------------------
(* Requests *)

\* The fallback of the preferred LAN is the LAN.
BugFallback == "lan"

\* _activeBaseUrl and _fallbackBaseUrl
Active   == IF prefer /\ publicUrl THEN "tunnel" ELSE "lan"
Fallback == IF ~prefer /\ publicUrl THEN "tunnel" ELSE "lan"

\* _get and _post read the routes and the token and send.
Send(c) ==
    call' = [call EXCEPT ![c] = [Idle EXCEPT !.pc = "sent", !.route = Active, !.next = Fallback,
                                             !.token = IF c \in Pings THEN NoToken ELSE token,
                                             !.before = c = Toggle /\ card]]

-----------------------------------------------------------------------------
(* Plausible bugs, like BugFallback each the wrong form of the definition it *)
(* is named for; no action uses them.                                        *)

\* The request does not look whether there is a fallback left.
BugCanRetry(c) == TRUE

\* A good ping sets the indicator and leaves the polling as it is.
BugPinged(ok) ==
    /\ UNCHANGED <<card, refresh>>
    /\ IF ~mounted THEN UNCHANGED <<failCount, connected, polling>>
       ELSE IF ok THEN failCount' = 0 /\ connected' = TRUE /\ UNCHANGED polling
       ELSE /\ failCount' = IF failCount < 3 THEN failCount + 1 ELSE 3
            /\ IF failCount' = 3 THEN connected' = FALSE /\ polling' = FALSE
               ELSE UNCHANGED <<connected, polling>>

\* fetchMediaStatus without a token returns and leaves the timer.
BugPoll(c) ==
    /\ polling /\ call[c].pc = "idle"
    /\ IF token = NoToken THEN UNCHANGED call ELSE Send(c)
    /\ UNCHANGED <<world, prefer, session, shown, bounds>>

-----------------------------------------------------------------------------
\* /health asks for no token.
Accepted(c) == c \in Pings \/ call[c].token \in valid

\* What a handler answers that is reached; "paused" is any status of the player
\* but Playing, so one with success = false too.
Handled(c) ==
    IF ~Accepted(c) THEN "denied"
    ELSE IF c \notin Fetches THEN "ok"
    ELSE IF player THEN "playing" ELSE "paused"

\* A request is let through to its handler, and answered, or not.
Answers(c) ==
    IF net[call[c].route] = "edge" THEN {"error"}
    ELSE IF well THEN {Handled(c)} ELSE {Handled(c), "error"}

\* What the server does and answers.  A media key is sent with no look at what
\* it does.
Served(c) ==
    /\ call[c].pc = "sent" /\ net[call[c].route] # "down"
    /\ \E answer \in Answers(c) :
          /\ call' = [call EXCEPT ![c].pc = "answered", ![c].answer = answer]
          /\ player' \in IF c = Toggle /\ answer = "ok" THEN BOOLEAN ELSE {player}
          /\ valid' = IF c = Logout /\ answer = "ok" THEN valid \ {call[c].token} ELSE valid
    /\ UNCHANGED <<net, well, late, publicUrl, prefer, session, shown, bounds>>

\* _doPing after its health check.
Pinged(ok) ==
    /\ UNCHANGED <<card, refresh>>
    /\ IF ~mounted THEN UNCHANGED <<failCount, connected, polling>>
       ELSE IF ok THEN failCount' = 0 /\ connected' = TRUE /\ polling' = TRUE
       ELSE /\ failCount' = IF failCount < 3 THEN failCount + 1 ELSE 3
            /\ IF failCount' = 3 THEN connected' = FALSE /\ polling' = FALSE
               ELSE UNCHANGED <<connected, polling>>

\* What the caller does with the result of a request.
Conclude(c, ok) ==
    /\ call' = [call EXCEPT ![c] = Idle]
    /\ \/ c \in Pings /\ Pinged(ok)
       \/ /\ c \in Fetches
          /\ card' = IF ok THEN call[c].answer = "playing" ELSE card
          /\ UNCHANGED <<connected, failCount, polling, refresh>>
       \/ /\ c = Toggle
          /\ card' = IF ok THEN card ELSE call[c].before
          /\ refresh' = TRUE
          /\ UNCHANGED <<connected, failCount, polling>>
       \/ c = Logout /\ UNCHANGED shown

\* An answer on its way through a tunnel that dies becomes one of the edge.
Answer(c) == IF net[call[c].route] = "edge" THEN "error" ELSE call[c].answer

\* A 200; a 401: _check401 forgets the token and awaits; or any other answer,
\* which counts as none.  logout forgets the token whatever the answer.
Received(c) ==
    /\ call[c].pc = "answered" /\ net[call[c].route] # "down"
    /\ LET denied == Answer(c) = "denied"
           ok     == Answer(c) \notin {"denied", "error"}
       IN  /\ prefer' = IF ok /\ call[c].next = NoRoute THEN ~prefer ELSE prefer
           /\ token' = IF denied \/ c = Logout THEN NoToken ELSE token
           /\ closing' = closing \cup (IF denied THEN {"denied"} ELSE {})
                                 \cup (IF c = Logout THEN {"logout"} ELSE {})
           /\ Conclude(c, ok)
    /\ UNCHANGED <<world, screen, mounted, bounds>>

\* There is another route, and it has not been tried.
CanRetry(c) == call[c].next \notin {NoRoute, call[c].route}

\* The request throws or times out.
NoAnswer(c) == call[c].pc # "idle" /\ net[call[c].route] \in {"slow", "down"}

\* On to the other route.
FallsBack(c) ==
    /\ NoAnswer(c) /\ CanRetry(c)
    /\ call' = [call EXCEPT ![c].pc = "sent", ![c].route = call[c].next,
                            ![c].next = NoRoute, ![c].answer = "none"]
    /\ late' = (late \/ (c = Toggle /\ call[c].pc = "sent" /\ net[call[c].route] = "slow"))
    /\ UNCHANGED <<net, well, valid, player, publicUrl, prefer, session, shown, bounds>>

\* All routes have failed.
Fails(c) ==
    /\ NoAnswer(c) /\ ~CanRetry(c)
    /\ token' = IF c = Logout THEN NoToken ELSE token
    /\ closing' = IF c = Logout THEN closing \cup {"logout"} ELSE closing
    /\ Conclude(c, FALSE)
    /\ late' = (late \/ (c = Toggle /\ call[c].pc = "sent" /\ net[call[c].route] = "slow"))
    /\ UNCHANGED <<net, well, valid, player, publicUrl, prefer, screen, mounted, bounds>>

CallStep(c) == Served(c) \/ Received(c) \/ FallsBack(c) \/ Fails(c)

-----------------------------------------------------------------------------
(* The dashboard and its timers *)

\* The timer of _startPing, or a pull to refresh.
Ping(c) ==
    /\ mounted /\ call[c].pc = "idle"
    /\ Send(c)
    /\ UNCHANGED <<world, prefer, session, shown, bounds>>

\* Fetches are alike: a new one takes the first free number.
Free(c) == call[c].pc = "idle" /\ \A d \in Fetches : call[d].pc = "idle" => c <= d

\* The polling timer fires: fetchMediaStatus.
Poll(c) ==
    /\ polling /\ Free(c)
    /\ IF token = NoToken THEN polling' = FALSE /\ UNCHANGED call
       ELSE Send(c) /\ UNCHANGED polling
    /\ UNCHANGED <<world, prefer, session, connected, failCount, refresh, card, bounds>>

\* The delayed fetchMediaStatus after a command.
Refresh(c) ==
    /\ refresh /\ Free(c)
    /\ refresh' = FALSE
    /\ IF token = NoToken THEN polling' = FALSE /\ UNCHANGED call
       ELSE Send(c) /\ UNCHANGED polling
    /\ UNCHANGED <<world, prefer, session, connected, failCount, card, bounds>>

\* playPause: the card changes before the request is sent.  Without a token
\* _post returns false, and the card changes back in the same callback.
PlayPause ==
    /\ screen = "dashboard" /\ call[Toggle].pc = "idle"
    /\ commands < MaxCommands
    /\ commands' = commands + 1
    /\ IF token = NoToken THEN refresh' = TRUE /\ UNCHANGED <<card, call>>
       ELSE card' = ~card /\ Send(Toggle) /\ UNCHANGED refresh
    /\ UNCHANGED <<world, prefer, session, connected, failCount, polling, issued, trouble>>

\* The logout button.
LogOut ==
    /\ screen = "dashboard" /\ call[Logout].pc = "idle" /\ token # NoToken
    /\ commands < MaxCommands /\ commands' = commands + 1
    /\ Send(Logout)
    /\ UNCHANGED <<world, prefer, session, shown, issued, trouble>>

\* After its await _check401, or _logout if the dashboard is still mounted,
\* clears the state and opens LoginScreen.
Close(why) ==
    /\ why \in closing /\ closing' = closing \ {why}
    /\ IF why = "denied" \/ mounted
       THEN screen' = "login" /\ connected' = FALSE /\ polling' = FALSE
       ELSE UNCHANGED <<screen, connected, polling>>
    /\ UNCHANGED <<world, prefer, token, mounted, failCount, refresh, card, call, bounds>>

\* The dashboard is disposed of once the transition to LoginScreen is over.
\* Its stopPolling looks MediaState up from a deactivated element, which may
\* throw; the exception is swallowed.
Dispose ==
    /\ mounted /\ screen = "login"
    /\ mounted' = FALSE /\ failCount' = 0
    /\ polling' \in {FALSE, polling}
    /\ UNCHANGED <<world, prefer, token, screen, closing, connected, refresh, card, call, bounds>>

-----------------------------------------------------------------------------
(* Login *)

OpenDashboard == screen' = "dashboard" /\ mounted' = TRUE

\* _checkAutoLogin: /auth/verify on the LAN only; offline, or an answer that is
\* neither yes nor no, is no reason to forget the token, a 401 is.
AutoLogin ==
    /\ screen = "login" /\ ~mounted /\ token # NoToken
    /\ \/ /\ net["lan"] # "down" /\ token \in valid
          /\ connected' = TRUE /\ OpenDashboard /\ UNCHANGED token
       \/ /\ net["lan"] # "down" /\ token \notin valid
          /\ token' = NoToken /\ UNCHANGED <<connected, screen, mounted>>
       \/ /\ net["lan"] # "up" \/ ~well
          /\ connected' = FALSE /\ OpenDashboard /\ UNCHANGED token
    /\ UNCHANGED <<world, prefer, closing, failCount, polling, refresh, card, call, bounds>>

\* A login with the PIN or a pairing that has succeeded.  Over the LAN a pairing
\* also sets the preference, and the public URL if the code had one; over the
\* tunnel, after the LAN has failed, it sets both.
Login ==
    /\ screen = "login" /\ ~mounted /\ token = NoToken /\ issued < MaxTokens
    /\ issued' = issued + 1
    /\ token' = issued' /\ valid' = {issued'}
    /\ OpenDashboard
    /\ \/ /\ net["lan"] # "down"
          /\ prefer' \in {prefer, FALSE} /\ publicUrl' \in {publicUrl, TRUE}
       \/ /\ net["lan"] # "up" /\ net["tunnel"] \in {"up", "slow"}
          /\ prefer' = TRUE /\ publicUrl' = TRUE
    /\ UNCHANGED <<net, well, player, late, closing, shown, call, commands, trouble>>

-----------------------------------------------------------------------------
(* The world outside the phone *)

\* A route changes.
NetChanges ==
    /\ trouble < MaxTrouble /\ trouble' = trouble + 1
    /\ net' \in Nets /\ \E r \in Routes : {q \in Routes : net'[q] # net[q]} = {r}
    /\ UNCHANGED <<well, valid, player, late, publicUrl, prefer, session, shown, call, issued,
                   commands>>

\* The server begins to refuse requests or to fail them; or it is well again,
\* which is no trouble.
ServerChanges ==
    /\ well' = ~well
    /\ \/ well /\ trouble < MaxTrouble /\ trouble' = trouble + 1
       \/ ~well /\ UNCHANGED trouble
    /\ UNCHANGED <<net, valid, player, late, publicUrl, prefer, session, shown, call, issued,
                   commands>>

\* The PC revokes the session.
Revoked ==
    /\ trouble < MaxTrouble /\ trouble' = trouble + 1
    /\ valid # {} /\ valid' = {}
    /\ UNCHANGED <<net, well, player, late, publicUrl, prefer, session, shown, call, issued, commands>>

\* A request the phone has given up reaches the player, or is lost.
LateCommand ==
    /\ late /\ late' = FALSE
    /\ player' \in {player, ~player}
    /\ UNCHANGED <<net, well, valid, publicUrl, prefer, session, shown, call, bounds>>

\* The app is killed and started again: only the token and the URL are kept.
AppRestart ==
    /\ trouble < MaxTrouble /\ trouble' = trouble + 1
    /\ late' = (late \/ call[Toggle].pc = "sent")
    /\ prefer' = FALSE
    /\ screen' = "login" /\ mounted' = FALSE /\ closing' = {}
    /\ connected' = FALSE /\ failCount' = 0
    /\ polling' = FALSE /\ refresh' = FALSE /\ card' = FALSE
    /\ call' = [c \in Calls |-> Idle]
    /\ UNCHANGED <<net, well, valid, player, publicUrl, token, issued, commands>>

PhoneNext ==
    \/ \E c \in Calls : CallStep(c)
    \/ \E c \in Pings : Ping(c)
    \/ \E c \in Fetches : Poll(c) \/ Refresh(c)
    \/ PlayPause \/ LogOut \/ Dispose
    \/ \E why \in {"denied", "logout"} : Close(why)
    \/ AutoLogin \/ Login
    \/ NetChanges \/ ServerChanges \/ Revoked \/ LateCommand \/ AppRestart

\* A request ends, by its timeout at the latest; timers fire; awaits and
\* transitions are over some time.  Nobody has to log in or touch a button.
PhoneFairness ==
    /\ \A c \in Calls : WF_phoneVars(CallStep(c))
    /\ \A c \in Pings : WF_phoneVars(Ping(c))
    /\ WF_phoneVars(\E c \in Fetches : Poll(c) \/ Refresh(c))
    /\ \A why \in {"denied", "logout"} : WF_phoneVars(Close(why))
    /\ WF_phoneVars(Dispose)

PhoneSpec == PhoneInit /\ [][PhoneNext]_phoneVars /\ PhoneFairness

-----------------------------------------------------------------------------
(* Correctness                                                                *)

Known     == IF publicUrl THEN Routes ELSE {"lan"}
\* A request comes through: over the preferred route, or over the other one
\* because the preferred one does not answer at all.
Reachable == \/ net[Active] = "up"
             \/ net[Active] # "edge" /\ \E r \in Known : net[r] = "up"
LoggedIn  == screen = "dashboard" /\ mounted

\* However its optimistic changes, rollbacks, late commands, errors and
\* overlapping fetches were ordered, the media card shows in the end what the
\* player does, if the session is good, requests come through and the server is
\* well: a stale answer or a wrong rollback is never the last word
\* (media_state.dart:14-63).
CardConverges ==
    <>[](LoggedIn /\ token \in valid /\ Reachable /\ well) => <>[](card = player)

\* The indicator says online in the end when requests come through and are
\* served, and offline when no route leads to the server, whoever answers for it
\* (dashboard_screen.dart:56-101, api_service.dart:206-249).
IndicatorConverges ==
    /\ <>[](LoggedIn /\ Reachable /\ well) => <>[]connected
    /\ <>[](LoggedIn /\ \A r \in Known : net[r] \in {"down", "edge"}) => <>[]~connected

\* The app switches between the local IP and the tunnel depending on network
\* availability: while a route it knows stays up it comes to be online
\* (DOCUMENTATION.md:22).
FailsOver ==
    <>[](LoggedIn /\ well /\ \E r \in Known : net[r] = "up") => <>[]connected

\* A phone that stays logged out stops polling for good, although an answer
\* to a ping may restart the timer after a logout has stopped it
\* (dashboard_screen.dart:68, media_state.dart:15).
LoggedOutStopsPolling ==
    <>[](token = NoToken) => <>[]~polling

=============================================================================
