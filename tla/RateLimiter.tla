---------------------------- MODULE RateLimiter ----------------------------
(***************************************************************************)
(* The rate limiter of the server (server/middleware/ratelimit.go) with    *)
(* the handlers that call it: Middleware in front of /auth/login and       *)
(* /auth/pair, WithAuth in front of everything else that is protected      *)
(* (server/middleware/auth.go), LoginHandler (server/auth/handlers.go).    *)
(*                                                                         *)
(* Every method takes rl.mu twice: getVisitor returns a pointer, and only  *)
(* then is the visitor read or changed.  cleanupLoop may delete it from    *)
(* the map in between, so visitors live in cells: a pointer is the number  *)
(* of a cell, which is free when nothing points to it.                     *)
(*                                                                         *)
(* Time is relative and unbounded: a visitor has the ticks since lastCheck *)
(* and the ticks left of its lockout.  Credit counts in Period-ths of a    *)
(* token; one is refilled per tick, rounding of the floats left out.       *)
(***************************************************************************)
EXTENDS Integers

CONSTANTS
    Handlers,       \* goroutines that serve requests
    Ips,            \* what ExtractIP returns
    Addrs,          \* values of RemoteAddr, an IP and a port
    MaxCells,       \* bound: visitors in memory
    Period,         \* ticks per request: 60 / requestsPerMinute
    Cap,            \* burstSize * Period
    IdleLimit,      \* ten minutes
    Limit,          \* authFailureLimit
    Lockout         \* lockoutDuration

ASSUME LimiterAssumption ==
    /\ MaxCells \in Nat /\ Period \in Nat \ {0} /\ Cap \in Nat
    /\ IdleLimit \in Nat /\ Limit \in Nat \ {0} /\ Lockout \in Nat \ {0}
    \* A visitor refills before it counts as idle: 60 s and 10 s against 600 s.
    /\ Cap <= IdleLimit
    /\ Ips \cap Addrs = {}

VARIABLES
    visitors,   \* RateLimiter.visitors: a cell or Nil for every key
    cell,       \* the visitors in memory
    req,        \* what each handler is serving, and where
    ptr,        \* the visitor each handler has got and not yet used
    \* History; no step depends on it.
    spent,      \* requests granted by an IP's visitor in the map, times Period,
                \* less one per tick
    lockedFor,  \* ticks left of the lockout last imposed on an IP
    barred,     \* value of lockedFor when a handler's request arrived
    failed      \* consecutive failures of each IP, no lockout in between

history == <<spent, lockedFor, barred, failed>>
vars    == <<visitors, cell, req, ptr, history>>

Nil    == 0
Cells  == 1 .. MaxCells
Keys   == Ips \cup Addrs
Nobody == "nobody"

\* auth, a login or a pairing, waits for Allow and api for IsLocked; the Working
\* ones have passed.
Arriving == {"auth", "api"}
Working  == {"password", "credentials"}
Steps    == Arriving \cup Working \cup {"none", "record", "reset"}

Visitors == [credit : 0 .. Cap, idle : 0 .. IdleLimit + 1, failures : 0 .. Limit - 1,
             lock : -1 .. Lockout]
Requests == [step : Steps, ip : Ips \cup {Nobody}, addr : Addrs \cup {Nobody}]

TypeOK ==
    /\ visitors \in [Keys -> Cells \cup {Nil}]
    /\ cell \in [Cells -> Visitors]
    /\ req \in [Handlers -> Requests]
    /\ ptr \in [Handlers -> Cells \cup {Nil}]
    /\ spent \in [Ips -> Nat]
    /\ lockedFor \in [Ips -> 0 .. Lockout]
    /\ barred \in [Handlers -> 0 .. Lockout]
    /\ failed \in [Ips -> 0 .. Limit]

Lesser(a, b)  == IF a <= b THEN a ELSE b
Greater(a, b) == IF a >= b THEN a ELSE b
Less(f) == [x \in DOMAIN f |-> Greater(f[x] - 1, 0)]

Fresh     == [credit |-> Cap, idle |-> 0, failures |-> 0, lock |-> -1]
NoRequest == [step |-> "none", ip |-> Nobody, addr |-> Nobody]

Init ==
    /\ visitors = [k \in Keys |-> Nil]
    /\ cell = [c \in Cells |-> Fresh]
    /\ req = [h \in Handlers |-> NoRequest]
    /\ ptr = [h \in Handlers |-> Nil]
    /\ spent = [i \in Ips |-> 0]
    /\ lockedFor = [i \in Ips |-> 0]
    /\ barred = [h \in Handlers |-> 0]
    /\ failed = [i \in Ips |-> 0]

-----------------------------------------------------------------------------
(* One visitor. *)

Locked(v)   == v.lock > 0
Refilled(v) == Lesser(v.credit + v.idle, Cap)
Grants(v)   == ~Locked(v) /\ Refilled(v) >= Period

ReachesLimit(v) == v.failures + 1 >= Limit

(* Plausible bugs, each the wrong form of the definition it is named for.      *)

\* lastCheck is not updated, so the same time is credited again.
BugCharged(v) ==
    IF Locked(v)
      THEN v
      ELSE [v EXCEPT !.credit = IF Grants(v) THEN Refilled(v) - Period ELSE Refilled(v)]

\* The counter is not reset when the limit is reached.
BugBlamed(v) ==
    IF ReachesLimit(v)
      THEN [v EXCEPT !.failures = @ + 1, !.lock = Lockout]
      ELSE [v EXCEPT !.failures = @ + 1]

\* Cleanup forgets about lockouts.
BugRemovable(v) == v.idle > IdleLimit

\* What Allow makes of it; a locked visitor is not refilled.
Charged(v) ==
    IF Locked(v)
      THEN v
      ELSE [v EXCEPT !.credit = IF Grants(v) THEN Refilled(v) - Period ELSE Refilled(v),
                     !.idle = 0]

\* What RecordAuthFailure makes of it.
Blamed(v) ==
    IF ReachesLimit(v)
      THEN [v EXCEPT !.failures = 0, !.lock = Lockout]
      ELSE [v EXCEPT !.failures = @ + 1]

Aged(v) == [v EXCEPT !.idle = Lesser(@ + 1, IdleLimit + 1), !.lock = Greater(@ - 1, -1)]

\* Deleted by cleanup: idle, and strictly after the end of its lockout.
Removable(v) == v.idle > IdleLimit /\ v.lock = -1

-----------------------------------------------------------------------------
(* Memory. *)

Used(vis, ptrs, c) == (\E k \in Keys : vis[k] = c) \/ (\E h \in Handlers : ptrs[h] = c)

\* The garbage collector: cells that nothing points to are free again.
Collect(mem, vis, ptrs) == [c \in Cells |-> IF Used(vis, ptrs, c) THEN mem[c] ELSE Fresh]

Free == {c \in Cells : ~Used(visitors, ptr, c)}

GetVisitor(h, k) ==
    \/ /\ visitors[k] # Nil
       /\ ptr' = [ptr EXCEPT ![h] = visitors[k]]
       /\ UNCHANGED <<visitors, cell>>
    \/ /\ visitors[k] = Nil
       /\ Free # {}
       /\ LET c == CHOOSE c \in Free : TRUE
          IN  /\ visitors' = [visitors EXCEPT ![k] = c]
              /\ ptr' = [ptr EXCEPT ![h] = c]
              /\ cell' = [cell EXCEPT ![c] = Fresh]

\* The visitor becomes v and the handler drops its pointer.
Update(h, v) ==
    /\ ptr' = [ptr EXCEPT ![h] = Nil]
    /\ cell' = Collect([cell EXCEPT ![ptr[h]] = v], visitors, ptr')
    /\ UNCHANGED visitors

Goto(h, step) == req' = [req EXCEPT ![h].step = step]
Finish(h)     == req' = [req EXCEPT ![h] = NoRequest]

-----------------------------------------------------------------------------
(* Requests. *)

\* The limiter is asked for the visitor of the request's IP.
Arrive(h, step, i, a) ==
    /\ req[h].step = "none"
    /\ req' = [req EXCEPT ![h] = [step |-> step, ip |-> i, addr |-> a]]
    /\ GetVisitor(h, i)
    /\ barred' = [barred EXCEPT ![h] = lockedFor[i]]
    /\ UNCHANGED <<spent, lockedFor, failed>>

\* Middleware: Allow.
Allow(h) ==
    /\ req[h].step = "auth"
    /\ LET v == cell[ptr[h]]
           i == req[h].ip
       IN  /\ Update(h, Charged(v))
           /\ \/ /\ Grants(v)
                 /\ Goto(h, "password")
                 /\ spent' = IF visitors[i] = ptr[h]
                               THEN [spent EXCEPT ![i] = @ + Period] ELSE spent
              \/ /\ ~Grants(v)
                 /\ Finish(h)
                 /\ UNCHANGED spent
    /\ barred' = [barred EXCEPT ![h] = 0]
    /\ UNCHANGED <<lockedFor, failed>>

\* WithAuth: IsLocked.
IsLocked(h) ==
    /\ req[h].step = "api"
    /\ \/ ~Locked(cell[ptr[h]]) /\ Goto(h, "credentials")
       \/ Locked(cell[ptr[h]]) /\ Finish(h)
    /\ Update(h, cell[ptr[h]])
    /\ barred' = [barred EXCEPT ![h] = 0]
    /\ UNCHANGED <<spent, lockedFor, failed>>

\* LoginHandler counts failures under RemoteAddr, WithAuth under the IP.
Judge(h) ==
    /\ \/ /\ req[h].step = "password"
          /\ GetVisitor(h, req[h].addr)
       \/ /\ req[h].step = "credentials"
          /\ GetVisitor(h, req[h].ip)
    /\ \E step \in {"record", "reset"} : Goto(h, step)
    /\ UNCHANGED history

\* PairHandler tells the limiter nothing, nor does a request without a PIN or token.
Answer(h) ==
    /\ req[h].step \in Working
    /\ Finish(h)
    /\ UNCHANGED <<visitors, cell, ptr, history>>

RecordAuthFailure(h) ==
    /\ req[h].step = "record"
    /\ LET v == cell[ptr[h]]
           i == req[h].ip
       IN  /\ Update(h, Blamed(v))
           /\ \/ /\ ReachesLimit(v) /\ visitors[i] = ptr[h]
                 /\ lockedFor' = [lockedFor EXCEPT ![i] = Lockout]
                 /\ failed' = [failed EXCEPT ![i] = 0]
              \/ /\ ~(ReachesLimit(v) /\ visitors[i] = ptr[h])
                 /\ failed' = [failed EXCEPT ![i] = Lesser(@ + 1, Limit)]
                 /\ UNCHANGED lockedFor
    /\ Finish(h)
    /\ UNCHANGED <<spent, barred>>

ResetAuthFailures(h) ==
    /\ req[h].step = "reset"
    /\ Update(h, [cell[ptr[h]] EXCEPT !.failures = 0])
    /\ failed' = [failed EXCEPT ![req[h].ip] = 0]
    /\ Finish(h)
    /\ UNCHANGED <<spent, lockedFor, barred>>

-----------------------------------------------------------------------------
\* One round of cleanupLoop, under the lock.
Cleanup ==
    /\ visitors' = [k \in Keys |-> IF visitors[k] # Nil /\ Removable(cell[visitors[k]])
                                     THEN Nil ELSE visitors[k]]
    /\ cell' = Collect(cell, visitors', ptr)
    /\ UNCHANGED <<req, ptr, history>>

Tick ==
    /\ cell' = Collect([c \in Cells |-> Aged(cell[c])], visitors, ptr)
    /\ spent' = Less(spent)
    /\ lockedFor' = Less(lockedFor) /\ barred' = Less(barred)
    /\ UNCHANGED <<visitors, req, ptr, failed>>

Serve(h) ==
    \/ \E step \in Arriving, i \in Ips, a \in Addrs : Arrive(h, step, i, a)
    \/ Allow(h) \/ IsLocked(h) \/ Judge(h) \/ Answer(h)
    \/ RecordAuthFailure(h) \/ ResetAuthFailures(h)

Next == (\E h \in Handlers : Serve(h)) \/ Cleanup \/ Tick

Spec == Init /\ [][Next]_vars

-----------------------------------------------------------------------------
(* Properties. *)

\* The visitor in the map grants at most burst + rate * time requests in any
\* interval of time, although cleanup forgets visitors and starts them afresh
\* (ratelimit.go:16).  A request that got its visitor before cleanup removed it
\* is charged to the removed one.
RateBound == \A i \in Ips : spent[i] <= Cap

\* A request that arrives while its IP is locked out passes neither limiter until
\* the lockout is over, whatever cleanup and other requests do (ratelimit.go:93).
Kept == \A h \in Handlers :
            req[h].step \in Arriving /\ req'[h].step \in Working => barred[h] = 0
LockoutKept == [][Kept]_vars

\* The limit of consecutive failures is never reached without a lockout
\* (ratelimit.go:115).
FailuresLock == \A i \in Ips : failed[i] < Limit
=============================================================================
