-------------------------- MODULE SessionRegister --------------------------
(***************************************************************************)
(* What the session manager promises (server/auth/session.go), with no     *)
(* disk, no memory and no steps inside a request: a set of sessions that   *)
(* may be honoured.  A session enters it once, when a request creates it;  *)
(* it may leave at any time (replaced, revoked, expired, lost in a crash)  *)
(* and never comes back; and when no request is in progress at most one    *)
(* session is honoured.                                                    *)
(***************************************************************************)
EXTENDS Naturals

VARIABLES
    honoured,   \* sessions a client could still use, now or after a restart
    admitted,   \* sessions 1..admitted have been created
    busy        \* a request is being served

rvars == <<honoured, admitted, busy>>

AtMostOne(S) == \A s, t \in S : s = t

Init == honoured = {} /\ admitted = 0 /\ busy = FALSE

Start  == ~busy /\ busy' = TRUE /\ UNCHANGED <<honoured, admitted>>

\* The request being served creates the next session.
Admit  == /\ busy /\ busy' = TRUE
          /\ admitted' = admitted + 1
          /\ honoured' = honoured \cup {admitted + 1}

Drop   == /\ honoured' \subseteq honoured /\ honoured' # honoured
          /\ UNCHANGED <<admitted, busy>>

\* The request ends, with a response or with the process.
Finish == /\ busy /\ busy' = FALSE
          /\ honoured' \subseteq honoured /\ AtMostOne(honoured')
          /\ UNCHANGED admitted

Next == Start \/ Admit \/ Drop \/ Finish
Spec == Init /\ [][Next]_rvars

\* Between requests at most one session is honoured (session.go:45, "max 1
\* device").
OneDevice == ~busy => AtMostOne(honoured)
=============================================================================
