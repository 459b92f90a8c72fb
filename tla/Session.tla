------------------------------ MODULE Session ------------------------------
(***************************************************************************)
(* The session manager of the server (server/auth/session.go) and the HTTP *)
(* handlers that call it (server/auth/handlers.go, server/middleware/      *)
(* auth.go).  At most one device is paired: its session lives in           *)
(* SessionManager.current and in session.json, which a restart reads back. *)
(*                                                                         *)
(* The lock sm.mu covers single assignments only, so every request is a    *)
(* sequence of steps: program counter pc[h] of goroutine h names the next  *)
(* one.  The two files are changed one system call at a time and the       *)
(* process may die between any two steps.                                  *)
(*                                                                         *)
(* Tokens are random and never repeat: the n-th one minted is the number   *)
(* n.  All sessions have the same lifetime, so they expire in the order in *)
(* which they were created: sessions 1..expired have expired.              *)
(***************************************************************************)
EXTENDS Naturals

CONSTANTS
    Handlers,       \* goroutines that serve requests
    MaxTokens,      \* bound: sessions created in a behaviour
    MaxCrashes,     \* bound: process deaths in a behaviour
    DiskMayFail     \* TRUE if a system call on the two files may fail

ASSUME SessionAssumption ==
    /\ MaxTokens \in Nat
    /\ MaxCrashes \in Nat
    /\ DiskMayFail \in BOOLEAN

VARIABLES
    up,         \* the process is running
    current,    \* SessionManager.current; None is the nil pointer
    file,       \* content of session.json; None if the file is absent
    tmp,        \* content of session.json.tmp; None if the file is absent
    minted,     \* how many tokens generateToken has returned
    expired,    \* how many sessions are past ExpiresAt
    pc,         \* next step of each handler
    kind,       \* what each handler is serving
    tok,        \* the session or token in each handler's hands
    crashes,    \* how often the process has died
    \* History of what clients have been told; no step depends on it.
    issued,     \* tokens that a response has carried to a client
    displaced,  \* the session each handler has taken out of current
    dead,       \* sessions whose replacement or revocation was acknowledged
    stale       \* value of dead when each handler's request arrived

machine == <<up, current, file, tmp, minted, expired, crashes>>
history == <<issued, displaced, dead, stale>>
vars    == <<machine, pc, kind, tok, history>>

None   == 0
Tokens == 1 .. MaxTokens
Session == Tokens \cup {None}

\* login is POST /auth/login with the right PIN and POST /auth/pair with a good
\* pairing token; unpair is POST /internal/unpair; logout is POST /auth/logout;
\* bearer is any other request with a Bearer token; legacy one with X-PIN.
Kinds == {"login", "unpair", "logout", "bearer", "legacy"}
NoRequest == "none"

Creating == {"install", "write", "unlink", "rename"}
Revoking == {"clear", "remove", "removeTmp"}
Steps    == Creating \cup Revoking \cup
            {"idle", "mint", "read", "judge", "serve", "peek", "peekAgain", "reply"}

Expired(t) == t <= expired
Live(t)    == t # None /\ ~Expired(t)
Idle       == \A h \in Handlers : pc[h] = "idle"
Dead(t)    == t \in dead

TypeOK ==
    /\ up \in BOOLEAN
    /\ current \in Session /\ file \in Session /\ tmp \in Session
    /\ minted \in 0 .. MaxTokens
    /\ expired \in 0 .. minted
    /\ crashes \in 0 .. MaxCrashes
    /\ pc \in [Handlers -> Steps]
    /\ kind \in [Handlers -> Kinds \cup {NoRequest}]
    /\ tok \in [Handlers -> Session]
    /\ displaced \in [Handlers -> Session]
    /\ issued \subseteq Session /\ dead \subseteq Tokens
    /\ stale \in [Handlers -> SUBSET Tokens]

Init ==
    /\ up = TRUE
    /\ current = None /\ file = None /\ tmp = None
    /\ minted = 0 /\ expired = 0 /\ crashes = 0
    /\ pc = [h \in Handlers |-> "idle"]
    /\ kind = [h \in Handlers |-> NoRequest]
    /\ tok = [h \in Handlers |-> None]
    /\ displaced = [h \in Handlers |-> None]
    /\ issued = {} /\ dead = {}
    /\ stale = [h \in Handlers |-> {}]

Goto(h, step) == pc' = [pc EXCEPT ![h] = step]

\* The handler returns and its local variables are gone.
Return(h) ==
    /\ Goto(h, "idle")
    /\ kind' = [kind EXCEPT ![h] = NoRequest]
    /\ tok' = [tok EXCEPT ![h] = None]
    /\ displaced' = [displaced EXCEPT ![h] = None]
    /\ stale' = [stale EXCEPT ![h] = {}]

\* One system call: it takes effect, or fails and its error is dropped.
Call(effect, nothing) == effect \/ (DiskMayFail /\ nothing)

-----------------------------------------------------------------------------
(* Plausible bugs, each the wrong form of the action it is named for; no action *)
(* uses them.                                                                   *)

BugRename(h) == /\ pc[h] = "rename" /\ Goto(h, "reply")
                /\ UNCHANGED <<machine, kind, tok, history>>

BugRemoveFile(h) == /\ pc[h] = "remove" /\ Goto(h, "removeTmp")
                    /\ UNCHANGED <<machine, kind, tok, history>>

BugClear(h) == /\ pc[h] = "clear" /\ Goto(h, "remove")
               /\ displaced' = [displaced EXCEPT ![h] = current]
               /\ UNCHANGED <<machine, kind, tok, issued, dead, stale>>

BugRead(h) == /\ pc[h] = "read" /\ Goto(h, "judge")
              /\ UNCHANGED <<machine, kind, tok, history>>

BugExpire == /\ expired' = expired + 1 /\ expired < MaxTokens
             /\ UNCHANGED <<up, current, file, tmp, minted, crashes, pc, kind, tok, history>>

BugCleanup == /\ up /\ Live(current) /\ current' = None
              /\ UNCHANGED <<up, file, tmp, minted, expired, crashes, pc, kind, tok, history>>

\* Falls back on the temporary file when session.json is missing.
BugRestart == /\ ~up /\ up' = TRUE
              /\ current' = IF Live(file) THEN file ELSE IF Live(tmp) THEN tmp ELSE None
              /\ UNCHANGED <<file, tmp, minted, expired, crashes, pc, kind, tok, history>>

-----------------------------------------------------------------------------
(* Arrival of a request. *)

FirstStep(k) ==
    CASE k = "login"              -> "mint"
      [] k = "unpair"             -> "clear"
      [] k \in {"logout", "bearer"} -> "read"
      [] k = "legacy"             -> "peek"

Begin(h) ==
    /\ up /\ pc[h] = "idle"
    /\ \E k \in Kinds :
          /\ kind' = [kind EXCEPT ![h] = k]
          /\ Goto(h, FirstStep(k))
          /\ IF k \in {"logout", "bearer"}
               THEN \E t \in issued : tok' = [tok EXCEPT ![h] = t]
               ELSE UNCHANGED tok
    /\ stale' = [stale EXCEPT ![h] = dead]
    /\ UNCHANGED <<machine, displaced, issued, dead>>

-----------------------------------------------------------------------------
(* CreateSession and saveSessionToDisk. *)

Mint(h) ==
    /\ pc[h] = "mint" /\ minted < MaxTokens
    /\ minted' = minted + 1
    /\ tok' = [tok EXCEPT ![h] = minted + 1]
    /\ Goto(h, "install")
    /\ UNCHANGED <<up, current, file, tmp, expired, crashes, kind, history>>

\* The error return of generateToken: the login handlers answer 500, WithAuth
\* serves the request all the same.
MintFails(h) ==
    /\ pc[h] = "mint"
    /\ Return(h)
    /\ UNCHANGED <<machine, issued, dead>>

Install(h) ==
    /\ pc[h] = "install"
    /\ current' = tok[h]
    /\ displaced' = [displaced EXCEPT ![h] = current]
    /\ Goto(h, "write")
    /\ UNCHANGED <<up, file, tmp, minted, expired, crashes, kind, tok,
                   issued, dead, stale>>

\* os.WriteFile of session.json.tmp; on an error the save is given up.
WriteTmp(h) ==
    /\ pc[h] = "write"
    /\ Call(tmp' = tok[h] /\ Goto(h, "unlink"), tmp' = tmp /\ Goto(h, "reply"))
    /\ UNCHANGED <<up, current, file, minted, expired, crashes, kind, tok, history>>

Unlink(h) ==
    /\ pc[h] = "unlink"
    /\ Call(file' = None, file' = file)
    /\ Goto(h, "rename")
    /\ UNCHANGED <<up, current, tmp, minted, expired, crashes, kind, tok, history>>

\* Rename commits whatever the shared temporary file holds by now.
Rename(h) ==
    /\ pc[h] = "rename"
    /\ Call(IF tmp = None THEN UNCHANGED <<file, tmp>> ELSE file' = tmp /\ tmp' = None,
            UNCHANGED <<file, tmp>>)
    /\ Goto(h, "reply")
    /\ UNCHANGED <<up, current, minted, expired, crashes, kind, tok, history>>

-----------------------------------------------------------------------------
(* RevokeAll and deleteSessionDiskFile. *)

Clear(h) ==
    /\ pc[h] = "clear"
    /\ current' = None
    /\ displaced' = [displaced EXCEPT ![h] = current]
    /\ Goto(h, "remove")
    /\ UNCHANGED <<up, file, tmp, minted, expired, crashes, kind, tok,
                   issued, dead, stale>>

RemoveFile(h) ==
    /\ pc[h] = "remove"
    /\ Call(file' = None, file' = file)
    /\ Goto(h, "removeTmp")
    /\ UNCHANGED <<up, current, tmp, minted, expired, crashes, kind, tok, history>>

RemoveTmp(h) ==
    /\ pc[h] = "removeTmp"
    /\ Call(tmp' = None, tmp' = tmp)
    /\ Goto(h, "reply")
    /\ UNCHANGED <<up, current, file, minted, expired, crashes, kind, tok, history>>

-----------------------------------------------------------------------------
(* ValidateToken, and the X-PIN branch of WithAuth. *)

\* The pointer is read under RLock and the token compared with it.  A mismatch
\* is a 401; WithAuth's X-PIN branch ignores the outcome and serves the request.
Read(h) ==
    /\ pc[h] = "read"
    /\ \/ /\ current = tok[h]
          /\ Goto(h, "judge")
          /\ UNCHANGED <<kind, tok, displaced, stale>>
       \/ /\ current # tok[h]
          /\ Return(h)
    /\ UNCHANGED <<machine, issued, dead>>

\* The expiry of that session is looked at later, outside the lock; RevokeAll
\* then clears whatever session is current by then.
Judge(h) ==
    /\ pc[h] = "judge"
    /\ Goto(h, IF Expired(tok[h])   THEN "clear"
               ELSE IF kind[h] = "logout" THEN "clear"
               ELSE IF kind[h] = "bearer" THEN "serve" ELSE "reply")
    \* an expired session answers 401: what is revoked here is no logout
    /\ kind' = [kind EXCEPT ![h] = IF Expired(tok[h]) /\ @ = "logout" THEN "bearer" ELSE @]
    /\ UNCHANGED <<machine, tok, history>>

Serve(h) ==
    /\ pc[h] = "serve"
    /\ Goto(h, "reply")
    /\ UNCHANGED <<machine, kind, tok, history>>

\* First GetActiveSession: create a session only if there is none.
Peek(h) ==
    /\ pc[h] = "peek"
    /\ Goto(h, IF Live(current) THEN "peekAgain" ELSE "mint")
    /\ UNCHANGED <<machine, kind, tok, history>>

\* Second GetActiveSession: the session whose LastSeenAt is to be touched.
PeekAgain(h) ==
    /\ pc[h] = "peekAgain"
    /\ IF Live(current)
         THEN tok' = [tok EXCEPT ![h] = current] /\ Goto(h, "read")
         ELSE tok' = tok /\ Goto(h, "reply")
    /\ UNCHANGED <<machine, kind, history>>

\* The response leaves the server.  Only a login tells its client the token; the
\* sessions this request displaced are from now on known to be gone.
Reply(h) ==
    /\ pc[h] = "reply"
    /\ issued' = IF kind[h] = "login" THEN issued \cup {tok[h]} ELSE issued
    /\ dead' = dead \cup ({displaced[h]} \ {None})
    /\ Return(h)
    /\ UNCHANGED machine

-----------------------------------------------------------------------------
(* Time, the cleanup goroutine, and the death and restart of the process. *)

\* A year has passed since the oldest unexpired session was created.
Expire ==
    /\ expired < minted
    /\ expired' = expired + 1
    /\ UNCHANGED <<up, current, file, tmp, minted, crashes, pc, kind, tok, history>>

\* One tick of cleanupLoop that finds an expired session; the file stays.
Cleanup ==
    /\ up /\ current # None /\ Expired(current)
    /\ current' = None
    /\ UNCHANGED <<up, file, tmp, minted, expired, crashes, pc, kind, tok, history>>

Crash ==
    /\ up /\ crashes < MaxCrashes
    /\ up' = FALSE
    /\ crashes' = crashes + 1
    /\ current' = None
    /\ pc' = [h \in Handlers |-> "idle"]
    /\ kind' = [h \in Handlers |-> NoRequest]
    /\ tok' = [h \in Handlers |-> None]
    /\ displaced' = [h \in Handlers |-> None]
    /\ stale' = [h \in Handlers |-> {}]
    /\ UNCHANGED <<file, tmp, minted, expired, issued, dead>>

\* NewSessionManager: restore the saved session, or delete it if it has expired.
Restart ==
    /\ ~up
    /\ up' = TRUE
    /\ current' = IF Live(file) THEN file ELSE None
    /\ IF file # None /\ Expired(file)
         THEN file' = None /\ tmp' = None
         ELSE UNCHANGED <<file, tmp>>
    /\ UNCHANGED <<minted, expired, crashes, pc, kind, tok, history>>

-----------------------------------------------------------------------------
Create(h)   == Mint(h) \/ MintFails(h) \/ Install(h) \/ WriteTmp(h) \/ Unlink(h) \/ Rename(h)
Revoke(h)   == Clear(h) \/ RemoveFile(h) \/ RemoveTmp(h)
Validate(h) == Read(h) \/ Judge(h) \/ Serve(h) \/ Peek(h) \/ PeekAgain(h)
Work(h)     == Create(h) \/ Revoke(h) \/ Validate(h) \/ Reply(h)

Next ==
    \/ \E h \in Handlers : Begin(h) \/ Work(h)
    \/ Expire \/ Cleanup \/ Crash \/ Restart

Spec == Init /\ [][Next]_vars

\* The Go scheduler runs every runnable goroutine, the ticker of cleanupLoop
\* fires every minute, and the installed service is started again when it dies.
Fairness ==
    /\ \A h \in Handlers : WF_vars(Work(h))
    /\ WF_vars(Cleanup)
    /\ WF_vars(Restart)

FairSpec == Spec /\ Fairness

-----------------------------------------------------------------------------
(* Properties.  Single says that one request is served at a time. *)

Single == \A g, h \in Handlers : g = h

\* When no request is in progress the paired device's session is the one on
\* disk, so that a restart at that moment drops nobody (session.go:106).
DurableWhenIdle == up /\ Idle /\ Live(current) => file = current

\* When no request is in progress and nobody is paired, no usable session is
\* left on disk for a restart to bring back (session.go:141).
ForgottenWhenIdle == up /\ Idle /\ current = None => ~Live(file)

\* A session whose revocation or replacement has been acknowledged is never
\* the current one again, whatever dies and restarts (session.go:46).
AckedIsFinal == ~Dead(current)

\* A request that arrived after that acknowledgement is not served with the
\* revoked token, however its steps interleave with other requests.
NeverServedOnceRevoked ==
    \A h \in Handlers : pc[h] = "serve" => tok[h] \notin stale[h]

\* While the process lives, a session that has time left is taken away only by
\* a login that replaces it or by an explicit unpair or logout (session.go:18).
OnPurpose ==
    Live(current) /\ current' = None /\ up' =>
        \E h \in Handlers : pc[h] = "clear" /\ kind[h] \in {"unpair", "logout"}
RevokedOnlyOnPurpose == [][OnPurpose]_vars

\* An expired session does not stay in memory (cleanupLoop, session.go:205).
ExpiredSessionGoes ==
    \A t \in Tokens : current = t /\ Expired(t) ~> current # t

-----------------------------------------------------------------------------
(* What the session manager promises its clients: one register. *)

\* The sessions the server may still honour, now or after a restart.
Honourable ==
    { t \in {current, file} \cup {tok[h] : h \in {g \in Handlers : pc[g] \in Creating}} :
        Live(t) }

Register == INSTANCE SessionRegister WITH
    honoured <- Honourable, admitted <- minted, busy <- ~Idle

\* Through crashes and restarts a session is admitted once, is never honoured
\* again once dropped, and between requests there is at most one.
ImplementsRegister == Register!Spec
=============================================================================
