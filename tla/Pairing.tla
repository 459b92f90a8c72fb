------------------------------ MODULE Pairing ------------------------------
(***************************************************************************)
(* Pairing a phone by QR code, end to end: the one-time token of the       *)
(* PairingManager (server/auth/qr.go), the dashboard pages that show it    *)
(* (server/tray/qr_page.go), POST /auth/pair (server/auth/handlers.go) and *)
(* the phone's attempt over LAN and then over the public tunnel            *)
(* (app/lib/services/api_service.dart, pairWithQR).                        *)
(*                                                                         *)
(* Every PairingManager method runs under pm.mu and is one step.  Pages    *)
(* and handlers call several methods, one step each.  A request or its     *)
(* answer can be lost or late: the phone then goes on, to another route or *)
(* to another code, while the server may still carry the request out.      *)
(***************************************************************************)
EXTENDS Integers

CONSTANTS
    Phones,
    Pages,          \* browser tabs with the dashboard
    MaxTokens,      \* bound: pairing tokens created
    MaxRequests,    \* bound: requests about at the same time
    MaxTime,        \* bound: last instant of the clock
    MaxRestarts,    \* bound: restarts of the server
    TTL             \* PairTokenTTL

ASSUME PairingAssumption ==
    /\ MaxTokens \in Nat /\ MaxTime \in Nat /\ MaxRestarts \in Nat
    /\ MaxRequests \in Nat /\ TTL \in Nat

VARIABLES
    now,        \* the server's clock
    pm,         \* PairingManager: currentToken, expiresAt, used
    url,        \* PairingManager.publicURL is not empty
    tunnel,     \* TunnelManager.publicURL is not empty
    minted,     \* pairing tokens created so far: 1..minted
    session,    \* the token of the active session
    sessions,   \* session tokens created so far: 1..sessions
    page,       \* what each tab shows, and what its handler has read
    phone,      \* what each phone is doing with which scanned code
    req,        \* requests to /auth/pair, as the server sees them
    restarts,
    \* History of the pairing tokens; no step depends on it.
    deadline,   \* when each token expires
    uses        \* how often each token has been accepted

vars == <<now, pm, url, tunnel, minted, session, sessions, page, phone, req, restarts,
          deadline, uses>>
serverVars == <<pm, url, tunnel, minted, session, sessions, deadline, uses>>

None     == 0
Tokens   == 1 .. MaxTokens
Codes    == Tokens \cup {None}
Routes   == {"lan", "tunnel"}
Requests == 1 .. MaxRequests

Managers == [token : Codes, expiresAt : Nat, used : BOOLEAN]
\* What a tab shows: whether a device is paired, the code and its public URL, and
\* currentPublicURL.  read: what the handler of its reload has read so far.
Reads  == [paired : BOOLEAN, code : Codes, url : BOOLEAN]
PageStates == [step : {"shown", "reload", "asked", "coded"}, paired : BOOLEAN, code : Codes,
               url : BOOLEAN, current : BOOLEAN, read : Reads]
PhoneStates == [step : {"idle", "paired"} \cup Routes, code : Codes, url : BOOLEAN,
                req : Requests \cup {None}, token : Nat]
\* closed: none, refused, failed or lost.
ReqStates == [pc : {"closed", "sent", "consumed", "ok"}, code : Codes, token : Nat]

TypeOK ==
    /\ now \in 0 .. MaxTime
    /\ pm \in Managers
    /\ url \in BOOLEAN /\ tunnel \in BOOLEAN
    /\ minted \in 0 .. MaxTokens
    /\ session \in Nat /\ sessions \in Nat
    /\ page \in [Pages -> PageStates]
    /\ phone \in [Phones -> PhoneStates]
    /\ req \in [Requests -> ReqStates]
    /\ restarts \in 0 .. MaxRestarts
    /\ deadline \in [Tokens -> Nat]
    /\ uses \in [Tokens -> Nat]

NoToken == [token |-> None, expiresAt |-> 0, used |-> FALSE]
NoRead  == [paired |-> FALSE, code |-> None, url |-> FALSE]
NoPage  == [step |-> "shown", paired |-> FALSE, code |-> None, url |-> FALSE,
            current |-> FALSE, read |-> NoRead]
NoCode  == [step |-> "idle", code |-> None, url |-> FALSE, req |-> None, token |-> None]
Closed  == [pc |-> "closed", code |-> None, token |-> None]

Init ==
    /\ now = 0 /\ pm = NoToken /\ url = FALSE /\ tunnel = FALSE
    /\ minted = 0 /\ session = None /\ sessions = 0 /\ restarts = 0
    /\ page = [g \in Pages |-> NoPage]
    /\ phone = [p \in Phones |-> NoCode]
    /\ req = [q \in Requests |-> Closed]
    /\ deadline = [t \in Tokens |-> 0]
    /\ uses = [t \in Tokens |-> 0]

\* The bound on tokens: the last one is not scanned, and once it exists the
\* clock stands still and the server stays up, so that it stays usable and no
\* page is ever left without a token.
Room == minted < MaxTokens

-----------------------------------------------------------------------------
(* Plausible bugs, each the wrong form of the definition it is named for; no    *)
(* action uses them.                                                            *)

BugUsable == pm.token # None /\ ~pm.used

\* A new token for every page.
BugGetQRPayload ==
    /\ minted < MaxTokens
    /\ minted' = minted + 1
    /\ pm' = [token |-> minted + 1, expiresAt |-> now + TTL, used |-> FALSE]
    /\ deadline' = [deadline EXCEPT ![minted + 1] = now + TTL]

\* The lifetime is one too short.
BugLifetime ==
    IF pm.token # None /\ ~pm.used /\ now <= pm.expiresAt
      THEN UNCHANGED <<pm, minted, deadline>>
      ELSE /\ minted < MaxTokens
           /\ minted' = minted + 1
           /\ pm' = [token |-> minted + 1, expiresAt |-> now + TTL - 1, used |-> FALSE]
           /\ deadline' = [deadline EXCEPT ![minted + 1] = now + TTL - 1]

\* Reloads when a device has been paired, not when it has been unpaired.
BugMustReload(g) ==
    \/ session # None /\ ~page[g].paired
    \/ ~page[g].paired /\ tunnel # page[g].current

\* The token stays good after its use.
BugConsume(q) ==
    /\ req[q].pc = "sent"
    /\ BugUsable /\ now <= pm.expiresAt /\ req[q].code = pm.token
    /\ uses' = [uses EXCEPT ![pm.token] = @ + 1]
    /\ req' = [req EXCEPT ![q].pc = "consumed"]
    /\ UNCHANGED <<now, pm, url, tunnel, minted, session, sessions, page, phone, restarts,
                   deadline>>

-----------------------------------------------------------------------------
(* PairingManager and the dashboard pages. *)

Present  == pm.token # None /\ ~pm.used
Usable == Present /\ now <= pm.expiresAt
TooLate  == Present /\ now > pm.expiresAt

\* GetQRPayload creates a token only if there is no usable one.
GetQRPayload ==
    IF Usable
      THEN UNCHANGED <<pm, minted, deadline>>
      ELSE /\ minted < MaxTokens
           /\ minted' = minted + 1
           /\ pm' = [token |-> minted + 1, expiresAt |-> now + TTL, used |-> FALSE]
           /\ deadline' = [deadline EXCEPT ![minted + 1] = now + TTL]

\* A tab is opened or reloaded: ServeQRPage first asks the session manager
\* whether a device is paired ...
PageStart(g) ==
    /\ page[g].step \in {"shown", "reload"}
    /\ page' = [page EXCEPT ![g].step = "asked",
                            ![g].read = [NoRead EXCEPT !.paired = session # None]]
    /\ UNCHANGED <<now, serverVars, phone, req, restarts>>

\* ... then takes the QR payload, with the pairing manager's public URL ...
PagePayload(g) ==
    /\ page[g].step = "asked"
    /\ GetQRPayload
    /\ page' = [page EXCEPT ![g].step = "coded",
                            ![g].read = [@ EXCEPT !.code = pm'.token, !.url = url]]
    /\ UNCHANGED <<now, url, tunnel, session, sessions, phone, req, restarts, uses>>

\* ... and last the tunnel manager's URL, which becomes currentPublicURL.
PageFinish(g) ==
    /\ page[g].step = "coded"
    /\ page' = [page EXCEPT ![g] = [step |-> "shown", paired |-> @.read.paired,
                    code |-> @.read.code, url |-> @.read.url, current |-> tunnel,
                    read |-> NoRead]]
    /\ UNCHANGED <<now, serverVars, phone, req, restarts>>

\* The page reloads itself when has_session is not what it was rendered with or,
\* while nobody is paired, when the tunnel manager's URL has changed.
MustReload(g) ==
    \/ (session # None) # page[g].paired
    \/ ~page[g].paired /\ tunnel # page[g].current

\* Its timer asks /internal/status.
PagePoll(g) ==
    /\ page[g].step = "shown" /\ page[g].code # None
    /\ MustReload(g) \/ tunnel # page[g].current
    /\ page' = [page EXCEPT ![g].step = IF MustReload(g) THEN "reload" ELSE "shown",
                            ![g].current = tunnel]
    /\ UNCHANGED <<now, serverVars, phone, req, restarts>>

\* The tunnel comes up or goes down: the manager stores its URL, once it has told
\* the pairing manager about the last one ...
TunnelChanges ==
    /\ tunnel = url
    /\ tunnel' = ~tunnel
    /\ UNCHANGED <<now, pm, url, minted, session, sessions, page, phone, req, restarts,
                   deadline, uses>>

\* ... and calls UpdatePublicURL after it has released its lock.
UpdatePublicURL ==
    /\ url # tunnel
    /\ url' = tunnel
    /\ UNCHANGED <<now, pm, tunnel, minted, session, sessions, page, phone, req, restarts,
                   deadline, uses>>

-----------------------------------------------------------------------------
(* POST /auth/pair. *)

\* ValidateAndConsume: a good token is used up, an expired one forgotten.
Consume(q) ==
    /\ req[q].pc = "sent"
    /\ \/ /\ Usable /\ req[q].code = pm.token
          /\ pm' = [pm EXCEPT !.token = None, !.used = TRUE]
          /\ uses' = [uses EXCEPT ![pm.token] = @ + 1]
          /\ req' = [req EXCEPT ![q].pc = "consumed"]
       \/ /\ ~(Usable /\ req[q].code = pm.token)
          /\ pm' = [pm EXCEPT !.token = IF TooLate THEN None ELSE @]
          /\ req' = [req EXCEPT ![q] = Closed]
          /\ UNCHANGED uses
    /\ UNCHANGED <<now, url, tunnel, minted, session, sessions, page, phone, restarts, deadline>>

\* CreateSession makes a session with a token of its own the active one, and the
\* handler answers with that token, to a phone that may have given up ...
CreateSession(q) ==
    /\ req[q].pc = "consumed"
    /\ sessions' = sessions + 1 /\ session' = sessions + 1
    /\ req' = [req EXCEPT ![q] = IF \E p \in Phones : phone[p].req = q
                  THEN [pc |-> "ok", code |-> @.code, token |-> sessions + 1] ELSE Closed]
    /\ UNCHANGED <<now, pm, url, tunnel, minted, page, phone, restarts, deadline, uses>>

\* ... or fails: the answer is a 500 and the pairing token is spent.
CreateSessionFails(q) ==
    /\ req[q].pc = "consumed"
    /\ req' = [req EXCEPT ![q] = Closed]
    /\ UNCHANGED <<now, serverVars, page, phone, restarts>>

\* POST /internal/unpair from the dashboard.
Unpair ==
    /\ session # None
    /\ session' = None
    /\ UNCHANGED <<now, pm, url, tunnel, minted, sessions, page, phone, req, restarts,
                   deadline, uses>>

-----------------------------------------------------------------------------
(* The phone. *)

\* The first of the numbers of requests that are not in use; which one it is
\* makes no difference.
Free(q) == req[q].pc = "closed" /\ \A p \in Phones : phone[p].req # q
Next1(q) == Free(q) /\ \A o \in Requests : Free(o) => q <= o

Sent(code) == [pc |-> "sent", code |-> code, token |-> None]

\* The user scans the code a tab shows, whatever has become of the requests for
\* former codes; the LAN address is tried first.
Scan(p, g) ==
    /\ phone[p].step = "idle"
    /\ ~page[g].paired /\ page[g].code \in 1 .. MaxTokens - 1
    /\ \E q \in Requests :
          /\ Next1(q)
          /\ phone' = [phone EXCEPT ![p] = [step |-> "lan", code |-> page[g].code,
                                            url |-> page[g].url, req |-> q, token |-> None]]
          /\ req' = [req EXCEPT ![q] = Sent(page[g].code)]
    /\ UNCHANGED <<now, serverVars, page, restarts>>

\* A 200 carries the session's token, is saved and ends the attempt.
Accepted(p) ==
    /\ phone[p].step \in Routes
    /\ \E q \in Requests :
          /\ phone[p].req = q /\ req[q].pc = "ok"
          /\ phone' = [phone EXCEPT ![p] = [NoCode EXCEPT !.step = "paired",
                                                          !.token = req[q].token]]
          /\ req' = [req EXCEPT ![q] = Closed]
    /\ UNCHANGED <<now, serverVars, page, restarts>>

\* An answer that arrives after the phone has given up is dropped.
Dropped(q) == [req EXCEPT ![q] = IF @.pc = "ok" THEN Closed ELSE @]

\* Any other answer, an error or a timeout: after LAN the same pairing token is
\* sent through the tunnel if the code had its address, else the attempt fails.
GiveUp(p) ==
    /\ \/ /\ phone[p].step = "lan" /\ phone[p].url
          /\ \E q \in Requests :
                /\ Next1(q)
                /\ phone' = [phone EXCEPT ![p].step = "tunnel", ![p].req = q]
                /\ req' = [Dropped(phone[p].req) EXCEPT ![q] = Sent(phone[p].code)]
       \/ /\ phone[p].step = "tunnel" \/ (phone[p].step = "lan" /\ ~phone[p].url)
          /\ phone' = [phone EXCEPT ![p] = NoCode]
          /\ req' = Dropped(phone[p].req)
    /\ UNCHANGED <<now, serverVars, page, restarts>>

\* The network drops a request before the server has seen it.
Lose(q) ==
    /\ req[q].pc = "sent"
    /\ req' = [req EXCEPT ![q] = Closed]
    /\ UNCHANGED <<now, serverVars, page, phone, restarts>>

\* A paired phone meets a 401 because its session is no longer the active one.
Kicked(p) ==
    /\ phone[p].step = "paired" /\ session # phone[p].token
    /\ phone' = [phone EXCEPT ![p] = NoCode]
    /\ UNCHANGED <<now, serverVars, page, req, restarts>>

-----------------------------------------------------------------------------
Tick ==
    /\ now < MaxTime /\ Room
    /\ now' = now + 1
    /\ UNCHANGED <<serverVars, page, phone, req, restarts>>

\* The session survives on disk, the PairingManager starts empty and running
\* handlers are cut off; a tab in the middle of a reload shows an error and has
\* no timer.
Restart ==
    /\ restarts < MaxRestarts /\ Room
    /\ restarts' = restarts + 1
    /\ pm' = NoToken /\ url' = FALSE /\ tunnel' = FALSE
    /\ page' = [g \in Pages |-> IF page[g].step \in {"asked", "coded"} THEN NoPage ELSE page[g]]
    /\ req' = [q \in Requests |-> IF req[q].pc = "ok" THEN req[q] ELSE Closed]
    /\ UNCHANGED <<now, minted, session, sessions, phone, deadline, uses>>

PageStep(g) == PageStart(g) \/ PagePayload(g) \/ PageFinish(g) \/ PagePoll(g)
Attempt(p) == Accepted(p) \/ GiveUp(p) \/ Kicked(p) \/ (\E g \in Pages : Scan(p, g))
Handle(q) == Consume(q) \/ CreateSession(q) \/ CreateSessionFails(q) \/ Lose(q)

Next ==
    \/ \E g \in Pages : PageStep(g)
    \/ \E p \in Phones : Attempt(p)
    \/ \E q \in Requests : Handle(q)
    \/ TunnelChanges \/ UpdatePublicURL \/ Unpair \/ Tick \/ Restart

Spec == Init /\ [][Next]_vars

\* A page's timer fires every three seconds, a reload that was asked for is done,
\* its handler runs to its end, and so does the tunnel manager's callback.
FairSpec ==
    /\ Spec /\ WF_vars(UpdatePublicURL)
    /\ \A g \in Pages :
          /\ WF_vars(PagePoll(g)) /\ WF_vars(page[g].step = "reload" /\ PageStart(g))
          /\ WF_vars(PagePayload(g)) /\ WF_vars(PageFinish(g))

-----------------------------------------------------------------------------
(* Properties. *)

\* A pairing token is accepted once, however many phones send it and however
\* often one phone sends it over its two routes (qr.go:106).
SingleUse == \A t \in Tokens : uses[t] <= 1

\* No token is accepted after its deadline (qr.go:17).
InTime == \A t \in Tokens : uses'[t] # uses[t] => now <= deadline[t]
AcceptedInTime == [][InTime]_vars

\* While the server lives, a usable token goes only by being used: a page that is
\* rendered does not invalidate the code another page shows (qr.go:135).
Kept == Usable /\ restarts' = restarts =>
            \/ pm'.token = pm.token
            \/ uses'[pm.token] = uses[pm.token] + 1
UsableTokenKept == [][Kept]_vars

\* If a device stays paired, or unpaired, every open tab comes to show so.
PagesFollowSession ==
    \A g \in Pages :
        /\ <>[](session # None /\ page[g].code # None) => <>[]page[g].paired
        /\ <>[](session = None /\ page[g].code # None) => <>[]~page[g].paired
=============================================================================
