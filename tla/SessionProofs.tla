--------------------------- MODULE SessionProofs ---------------------------
(* Theorems about Session, for every set of handlers and every bound: its      *)
(* types, one life of the process with any number of concurrent requests, and *)
(* requests that are served one at a time through crashes and restarts.        *)
EXTENDS Session, TLAPS

-----------------------------------------------------------------------------
(* Type correctness. *)

LEMMA InitType == Init => TypeOK
  BY SessionAssumption DEF Init, TypeOK, Session, Tokens, None, Steps,
     Creating, Revoking, Kinds, NoRequest

\* Every step keeps the variables in their types.
LEMMA StepType == TypeOK /\ [Next]_vars => TypeOK'
<1> SUFFICES ASSUME TypeOK, [Next]_vars PROVE TypeOK'
  OBVIOUS
<1> USE SessionAssumption DEF TypeOK, Session, Tokens, None, Steps, Creating,
    Revoking, Kinds, NoRequest, machine, history, Goto, Return, Call
<1>1. ASSUME NEW h \in Handlers, Begin(h) PROVE TypeOK'
  BY <1>1 DEF Begin, FirstStep
<1>2. ASSUME NEW h \in Handlers, Create(h) PROVE TypeOK'
  <2>1. CASE Mint(h)
    BY <2>1 DEF Mint
  <2>2. CASE MintFails(h)
    BY <2>2 DEF MintFails
  <2>3. CASE Install(h)
    BY <2>3 DEF Install
  <2>4. CASE WriteTmp(h)
    BY <2>4 DEF WriteTmp
  <2>5. CASE Unlink(h)
    BY <2>5 DEF Unlink
  <2>6. CASE Rename(h)
    BY <2>6 DEF Rename
  <2> QED
    BY <1>2, <2>1, <2>2, <2>3, <2>4, <2>5, <2>6 DEF Create
<1>3. ASSUME NEW h \in Handlers, Revoke(h) PROVE TypeOK'
  BY <1>3 DEF Revoke, Clear, RemoveFile, RemoveTmp
<1>4. ASSUME NEW h \in Handlers, Validate(h) PROVE TypeOK'
  <2>1. CASE Read(h)
    BY <2>1 DEF Read
  <2>2. CASE Judge(h)
    BY <2>2 DEF Judge
  <2>3. CASE Serve(h) \/ Peek(h)
    BY <2>3 DEF Serve, Peek
  <2>4. CASE PeekAgain(h)
    BY <2>4 DEF PeekAgain
  <2> QED
    BY <1>4, <2>1, <2>2, <2>3, <2>4 DEF Validate
<1>5. ASSUME NEW h \in Handlers, Reply(h) PROVE TypeOK'
  BY <1>5 DEF Reply
<1>6. CASE Expire
  BY <1>6 DEF Expire
<1>7. CASE Cleanup
  BY <1>7 DEF Cleanup
<1>8. CASE Crash
  <2>1. crashes' \in 0 .. MaxCrashes
    BY <1>8 DEF Crash
  <2>2. stale' \in [Handlers -> SUBSET Tokens]
    BY <1>8 DEF Crash
  <2>3. /\ pc' \in [Handlers -> Steps] /\ kind' \in [Handlers -> Kinds \cup {NoRequest}]
        /\ tok' \in [Handlers -> Session] /\ displaced' \in [Handlers -> Session]
    BY <1>8 DEF Crash
  <2> QED
    BY <1>8, <2>1, <2>2, <2>3 DEF Crash
<1>9. CASE Restart
  BY <1>9 DEF Restart
<1>10. CASE UNCHANGED vars
  BY <1>10 DEF vars
<1> QED
  BY <1>1, <1>2, <1>3, <1>4, <1>5, <1>6, <1>7, <1>8, <1>9, <1>10 DEF Next, Work

\* The variables of the session manager keep their types: in particular there
\* is never more than one current session, and disk holds only created ones.
THEOREM TypeCorrect == Spec => []TypeOK
  BY InitType, StepType, PTL DEF Spec

-----------------------------------------------------------------------------
(* One process life, any number of concurrent requests, any disk.          *)
(*                                                                         *)
(* A session leaves current for good because the only value ever assigned  *)
(* to it is a session that no other handler, and no record of what was     *)
(* displaced, knows yet.                                                   *)

\* Nothing refers to a session that has not been created.
Bounded ==
    /\ current <= minted
    /\ \A h \in Handlers : displaced[h] <= minted
    /\ \A t \in dead : t <= minted

\* A session about to be installed is known to its creator alone.
Fresh ==
    \A h \in Handlers : pc[h] = "install" =>
        /\ tok[h] # None /\ tok[h] <= minted
        /\ tok[h] # current /\ tok[h] \notin dead
        /\ \A g \in Handlers : displaced[g] # tok[h]
        /\ \A g \in Handlers : pc[g] = "install" /\ g # h => tok[g] # tok[h]

Displaced == \A h \in Handlers : displaced[h] # None => displaced[h] # current

\* What a request was found to hold was valid after it arrived.
Accepted ==
    \A h \in Handlers :
        /\ stale[h] \subseteq dead
        /\ pc[h] \in {"judge", "serve"} => tok[h] \notin stale[h]

LifeInv == up /\ Bounded /\ Fresh /\ AckedIsFinal /\ Displaced /\ Accepted

LEMMA LifeInit == Init => LifeInv
  BY SessionAssumption DEF Init, LifeInv, Bounded, Fresh, AckedIsFinal, Dead,
     Displaced, Accepted, None

LEMMA LifeStep ==
  ASSUME MaxCrashes = 0, TypeOK, TypeOK', LifeInv, [Next]_vars
  PROVE  LifeInv'
<1> USE DEF LifeInv, Bounded, Fresh, AckedIsFinal, Dead, Displaced, Accepted,
    TypeOK, Session, Tokens, None, machine, history, Goto, Return, Call
<1>1. ASSUME NEW h \in Handlers, Begin(h) PROVE LifeInv'
  BY <1>1 DEF Begin, FirstStep, Kinds
<1>2. ASSUME NEW h \in Handlers, Create(h) PROVE LifeInv'
  <2>1. CASE Mint(h)
    BY <2>1 DEF Mint
  <2>2. CASE MintFails(h)
    BY <2>2 DEF MintFails
  <2>3. CASE Install(h)
    BY <2>3 DEF Install
  <2>4. CASE WriteTmp(h)
    BY <2>4 DEF WriteTmp
  <2>5. CASE Unlink(h)
    BY <2>5 DEF Unlink
  <2>6. CASE Rename(h)
    BY <2>6 DEF Rename
  <2> QED
    BY <1>2, <2>1, <2>2, <2>3, <2>4, <2>5, <2>6 DEF Create
<1>3. ASSUME NEW h \in Handlers, Revoke(h) PROVE LifeInv'
  <2>1. CASE Clear(h)
    BY <2>1 DEF Clear
  <2>2. CASE RemoveFile(h)
    BY <2>2 DEF RemoveFile
  <2>3. CASE RemoveTmp(h)
    BY <2>3 DEF RemoveTmp
  <2> QED
    BY <1>3, <2>1, <2>2, <2>3 DEF Revoke
<1>4. ASSUME NEW h \in Handlers, Validate(h) PROVE LifeInv'
  <2>1. CASE Read(h)
    BY <2>1 DEF Read
  <2>2. CASE Judge(h)
    BY <2>2 DEF Judge
  <2>3. CASE Serve(h)
    BY <2>3 DEF Serve
  <2>4. CASE Peek(h)
    BY <2>4 DEF Peek
  <2>5. CASE PeekAgain(h)
    BY <2>5 DEF PeekAgain
  <2> QED
    BY <1>4, <2>1, <2>2, <2>3, <2>4, <2>5 DEF Validate
<1>5. ASSUME NEW h \in Handlers, Reply(h) PROVE LifeInv'
  BY <1>5 DEF Reply
<1>6. CASE Expire
  BY <1>6 DEF Expire
<1>7. CASE Cleanup
  BY <1>7 DEF Cleanup
<1>8. CASE Crash \/ Restart
  BY <1>8 DEF Crash, Restart
<1>9. CASE UNCHANGED vars
  BY <1>9 DEF vars
<1> QED
  BY <1>1, <1>2, <1>3, <1>4, <1>5, <1>6, <1>7, <1>8, <1>9 DEF Next, Work

\* What a request was found to hold stays valid for it as long as nothing that
\* is acknowledged as revoked becomes current again.
LEMMA AcceptedStep ==
  ASSUME TypeOK, AckedIsFinal, Accepted, [Next]_vars PROVE Accepted'
<1> USE DEF Accepted, AckedIsFinal, Dead, TypeOK, machine, history, Goto, Return
<1>1. ASSUME NEW h \in Handlers, Begin(h) PROVE Accepted'
  BY <1>1 DEF Begin, FirstStep, Kinds
<1>2. ASSUME NEW h \in Handlers, Create(h) \/ Revoke(h) PROVE Accepted'
  BY <1>2 DEF Create, Mint, MintFails, Install, WriteTmp, Unlink, Rename, Revoke, Clear,
     RemoveFile, RemoveTmp, Call
<1>3. ASSUME NEW h \in Handlers, Validate(h) PROVE Accepted'
  BY <1>3 DEF Validate, Read, Judge, Serve, Peek, PeekAgain
<1>4. ASSUME NEW h \in Handlers, Reply(h) PROVE Accepted'
  BY <1>4 DEF Reply
<1>5. CASE Expire \/ Cleanup \/ Crash \/ Restart \/ UNCHANGED vars
  BY <1>5 DEF Expire, Cleanup, Crash, Restart, vars
<1> QED
  BY <1>1, <1>2, <1>3, <1>4, <1>5 DEF Next, Work

\* In one life of the process, with any number of concurrent requests and a
\* disk that may fail: a session whose replacement or revocation has been
\* acknowledged is never current again.
THEOREM OneLifeAckedIsFinal ==
  ASSUME MaxCrashes = 0 PROVE Spec => []AckedIsFinal
<1>1. Spec => []LifeInv
  BY InitType, LifeInit, StepType, LifeStep, PTL DEF Spec
<1> QED
  BY <1>1, PTL DEF LifeInv

\* And no request that arrives later is served with its token.
THEOREM OneLifeNeverServed ==
  ASSUME MaxCrashes = 0 PROVE Spec => []NeverServedOnceRevoked
<1>1. Spec => []LifeInv
  BY InitType, LifeInit, StepType, LifeStep, PTL DEF Spec
<1>2. LifeInv => NeverServedOnceRevoked
  BY DEF LifeInv, Accepted, NeverServedOnceRevoked
<1> QED
  BY <1>1, <1>2, PTL
-----------------------------------------------------------------------------
(* Requests served one at a time and a disk that works: any number of       *)
(* sessions, crashes and restarts.                                          *)

\* What a restart would load is what memory holds, as far as it is usable.
Agree == file = current \/ (~Live(file) /\ ~Live(current))

\* Outside these steps memory and disk agree.
Unsettled == {"write", "unlink", "rename", "remove"}
Settled   == up /\ (\A h \in Handlers : pc[h] \notin Unsettled) => Agree

\* Inside them, what is about to be committed is what memory holds.
Carrying ==
    \A h \in Handlers :
        /\ pc[h] \in {"write", "unlink", "rename"} =>
              current = tok[h] \/ (~Live(current) /\ ~Live(tok[h]))
        /\ pc[h] \in {"unlink", "rename"} => tmp = tok[h]
        /\ pc[h] = "rename" => file = None
        /\ pc[h] = "remove" => current = None

Down == ~up => current = None /\ Idle

\* Sessions come into being in the order of their numbers.
Ordered ==
    /\ current <= minted /\ file <= minted
    /\ \A t \in dead : t <= minted
    /\ \A h \in Handlers : displaced[h] <= minted
    /\ \A h \in Handlers : pc[h] \in Creating =>
          tok[h] # None /\ tok[h] <= minted /\ tok[h] \notin dead
    /\ \A h \in Handlers : pc[h] = "install" =>
          tok[h] # current /\ tok[h] # file

\* Where a session taken out of current can still be found: nowhere once its
\* request is about to be acknowledged.
Gone ==
    \A h \in Handlers : displaced[h] # None =>
        /\ displaced[h] # current
        /\ pc[h] \in Unsettled \cup {"removeTmp", "reply"}
        /\ pc[h] \in Creating => displaced[h] # tok[h]
        /\ pc[h] \in {"rename", "removeTmp", "reply"} => displaced[h] # file

SerialInv == /\ Settled /\ Carrying /\ Down /\ Ordered /\ Gone
             /\ current \notin dead /\ file \notin dead

LEMMA SerialInit == Init => SerialInv
  BY SessionAssumption DEF Init, SerialInv, Settled, Agree, Carrying, Down, Idle,
     Ordered, Gone, Creating, None

LEMMA SerialStep ==
  ASSUME Single, DiskMayFail = FALSE, TypeOK, TypeOK', SerialInv, [Next]_vars
  PROVE  SerialInv'
<1> USE DEF SerialInv, Settled, Agree, Unsettled, Carrying, Down, Idle, Ordered,
    Gone, Creating, Single, Live, Expired, TypeOK, Session, Tokens, None,
    machine, history, Goto, Return, Call
<1>1. ASSUME NEW h \in Handlers, Begin(h) PROVE SerialInv'
  BY <1>1 DEF Begin, FirstStep, Kinds
<1>2. ASSUME NEW h \in Handlers, Create(h) PROVE SerialInv'
  <2>1. CASE Mint(h)
    BY <2>1 DEF Mint
  <2>2. CASE MintFails(h)
    BY <2>2 DEF MintFails
  <2>3. CASE Install(h)
    BY <2>3 DEF Install
  <2>4. CASE WriteTmp(h)
    BY <2>4 DEF WriteTmp
  <2>5. CASE Unlink(h)
    BY <2>5 DEF Unlink
  <2>6. CASE Rename(h)
    BY <2>6 DEF Rename
  <2> QED
    BY <1>2, <2>1, <2>2, <2>3, <2>4, <2>5, <2>6 DEF Create
<1>3. ASSUME NEW h \in Handlers, Revoke(h) PROVE SerialInv'
  <2>1. CASE Clear(h)
    BY <2>1 DEF Clear
  <2>2. CASE RemoveFile(h)
    BY <2>2 DEF RemoveFile
  <2>3. CASE RemoveTmp(h)
    BY <2>3 DEF RemoveTmp
  <2> QED
    BY <1>3, <2>1, <2>2, <2>3 DEF Revoke
<1>4. ASSUME NEW h \in Handlers, Validate(h) PROVE SerialInv'
  <2>1. CASE Read(h)
    BY <2>1 DEF Read
  <2>2. CASE Judge(h)
    BY <2>2 DEF Judge
  <2>3. CASE Serve(h)
    BY <2>3 DEF Serve
  <2>4. CASE Peek(h)
    BY <2>4 DEF Peek
  <2>5. CASE PeekAgain(h)
    BY <2>5 DEF PeekAgain
  <2> QED
    BY <1>4, <2>1, <2>2, <2>3, <2>4, <2>5 DEF Validate
<1>5. ASSUME NEW h \in Handlers, Reply(h) PROVE SerialInv'
  BY <1>5 DEF Reply
<1>6. CASE Expire
  BY <1>6 DEF Expire
<1>7. CASE Cleanup
  <2>1. Settled'
    BY <1>7 DEF Cleanup
  <2>2. Carrying'
    BY <1>7 DEF Cleanup
  <2>3. Down' /\ Ordered' /\ Gone' /\ current' \notin dead' /\ file' \notin dead'
    BY <1>7 DEF Cleanup
  <2> QED
    BY <2>1, <2>2, <2>3
<1>8. CASE Crash
  <2>1. Settled' /\ Carrying' /\ Down' /\ Ordered'
    BY <1>8 DEF Crash
  <2>2. Gone' /\ current' \notin dead' /\ file' \notin dead'
    BY <1>8 DEF Crash
  <2> QED
    BY <2>1, <2>2
<1>9. CASE Restart
  BY <1>9 DEF Restart
<1>10. CASE UNCHANGED vars
  BY <1>10 DEF vars
<1> QED
  BY <1>1, <1>2, <1>3, <1>4, <1>5, <1>6, <1>7, <1>8, <1>9, <1>10 DEF Next, Work

LEMMA SerialInvariant ==
  ASSUME Single, DiskMayFail = FALSE PROVE Spec => [](TypeOK /\ SerialInv)
  BY InitType, SerialInit, StepType, SerialStep, PTL DEF Spec

\* Served one at a time, a session whose replacement or revocation has been
\* acknowledged is never current again, whatever crashes and restarts happen.
THEOREM SerialAckedIsFinal ==
  ASSUME Single, DiskMayFail = FALSE PROVE Spec => []AckedIsFinal
<1>1. SerialInv => AckedIsFinal
  BY DEF SerialInv, AckedIsFinal, Dead
<1> QED
  BY SerialInvariant, <1>1, PTL

\* Nor is a request served with its token that arrives after that.
THEOREM SerialNeverServed ==
  ASSUME Single, DiskMayFail = FALSE PROVE Spec => []NeverServedOnceRevoked
<1>1. Init => Accepted
  BY DEF Init, Accepted
<1>2. SerialInv => AckedIsFinal
  BY DEF SerialInv, AckedIsFinal, Dead
<1>3. Spec => []Accepted
  BY SerialInvariant, <1>1, <1>2, AcceptedStep, PTL DEF Spec
<1>4. Accepted => NeverServedOnceRevoked
  BY DEF Accepted, NeverServedOnceRevoked
<1> QED
  BY <1>3, <1>4, PTL

\* Between requests, the paired device's session is the one on disk: a restart
\* at that moment drops nobody (session.go saveSessionToDisk).
THEOREM SerialDurable ==
  ASSUME Single, DiskMayFail = FALSE PROVE Spec => []DurableWhenIdle
<1>1. SerialInv => DurableWhenIdle
  BY DEF SerialInv, Settled, Agree, Unsettled, DurableWhenIdle, Idle, Live
<1> QED
  BY SerialInvariant, <1>1, PTL

\* Between requests, when nobody is paired no usable session is left on disk for
\* a restart to bring back (session.go RevokeAll, deleteSessionDiskFile).
THEOREM SerialForgotten ==
  ASSUME Single, DiskMayFail = FALSE PROVE Spec => []ForgottenWhenIdle
<1>1. SerialInv => ForgottenWhenIdle
  BY DEF SerialInv, Settled, Agree, Unsettled, ForgottenWhenIdle, Idle, Live
<1> QED
  BY SerialInvariant, <1>1, PTL

-----------------------------------------------------------------------------
(* Requests served one at a time, on any disk: whose session is taken away. *)

\* A request that revokes without having been asked to found its session
\* expired, and no other has taken its place since.
Purposeful ==
    \A h \in Handlers :
        /\ pc[h] = "install" => tok[h] # None
        /\ pc[h] = "judge" => (Live(current) => current = tok[h])
        /\ pc[h] = "clear" /\ kind[h] \notin {"unpair", "logout"} => ~Live(current)

PurposeInv == Down /\ Purposeful

LEMMA PurposeStep ==
  ASSUME Single, TypeOK, PurposeInv, [Next]_vars
  PROVE  PurposeInv'
<1> USE DEF PurposeInv, Purposeful, Down, Idle, Single, Live, Expired, TypeOK,
    Session, Tokens, None, machine, history, Goto, Return, Call
<1>1. ASSUME NEW h \in Handlers, Begin(h) PROVE PurposeInv'
  BY <1>1 DEF Begin, FirstStep, Kinds
<1>2. ASSUME NEW h \in Handlers, Create(h) PROVE PurposeInv'
  BY <1>2 DEF Create, Mint, MintFails, Install, WriteTmp, Unlink, Rename
<1>3. ASSUME NEW h \in Handlers, Revoke(h) PROVE PurposeInv'
  BY <1>3 DEF Revoke, Clear, RemoveFile, RemoveTmp
<1>4. ASSUME NEW h \in Handlers, Validate(h) PROVE PurposeInv'
  <2>1. CASE Read(h)
    BY <2>1 DEF Read
  <2>2. CASE Judge(h)
    BY <2>2 DEF Judge
  <2>3. CASE Serve(h) \/ Peek(h) \/ PeekAgain(h)
    BY <2>3 DEF Serve, Peek, PeekAgain
  <2> QED
    BY <1>4, <2>1, <2>2, <2>3 DEF Validate
<1>5. ASSUME NEW h \in Handlers, Reply(h) PROVE PurposeInv'
  BY <1>5 DEF Reply
<1>6. CASE Expire \/ Cleanup \/ Restart
  BY <1>6 DEF Expire, Cleanup, Restart
<1>7. CASE Crash
  BY <1>7 DEF Crash
<1>8. CASE UNCHANGED vars
  BY <1>8 DEF vars
<1> QED
  BY <1>1, <1>2, <1>3, <1>4, <1>5, <1>6, <1>7, <1>8 DEF Next, Work

\* Served one at a time, whether the disk fails or not, a session with time left
\* is taken away only by a login that replaces it or by an explicit unpair or
\* logout; neither the cleanup goroutine nor a request with an old token does
\* it (session.go ValidateToken, cleanupLoop).
THEOREM SerialOnPurpose ==
  ASSUME Single PROVE Spec => RevokedOnlyOnPurpose
<1>1. Init => PurposeInv
  BY DEF Init, PurposeInv, Purposeful, Down, Idle, Live
<1>2. TypeOK /\ PurposeInv /\ [Next]_vars => [OnPurpose]_vars
  <2> SUFFICES ASSUME TypeOK, PurposeInv, Next, Live(current), current' = None, up'
               PROVE  \E h \in Handlers : pc[h] = "clear" /\ kind[h] \in {"unpair", "logout"}
    BY DEF OnPurpose
  <2>1. \E h \in Handlers : Clear(h)
    BY DEF PurposeInv, Purposeful, Down, Live, Expired, Next, Work, Begin, Create, Mint,
       MintFails, Install, WriteTmp, Unlink, Rename, Revoke, RemoveFile, RemoveTmp,
       Validate, Read, Judge, Serve, Peek, PeekAgain, Reply, Expire, Cleanup, Crash,
       Restart, machine
  <2> QED
    BY <2>1 DEF Clear, PurposeInv, Purposeful
<1> QED
  BY InitType, StepType, PurposeStep, <1>1, <1>2, PTL DEF Spec, RevokedOnlyOnPurpose

-----------------------------------------------------------------------------
(* Session implements SessionRegister. *)

LEMMA InHonourable ==
  ASSUME NEW t
  PROVE  t \in Honourable <=>
           /\ Live(t)
           /\ \/ t = current \/ t = file
              \/ \E h \in Handlers : pc[h] \in Creating /\ t = tok[h]
  BY DEF Honourable

LEMMA InHonourableNext ==
  ASSUME NEW t
  PROVE  t \in Honourable' <=>
           /\ Live(t)'
           /\ \/ t = current' \/ t = file'
              \/ \E h \in Handlers : pc'[h] \in Creating /\ t = tok'[h]
  BY DEF Honourable, Live, Expired

\* A step that creates no session and neither starts nor ends a request.
Quiet == minted' = minted /\ Idle' = Idle /\ Honourable' \subseteq Honourable

LEMMA QuietStep == Quiet => [Register!Next]_(Register!rvars)
  BY DEF Quiet, Register!Next, Register!Drop, Register!rvars

\* A step that ends the request and leaves at most one session honoured.
LEMMA FinishStep ==
  ASSUME ~Idle, Idle', minted' = minted, Honourable' \subseteq Honourable,
         \A s, t \in Honourable' : s = t
  PROVE  [Register!Next]_(Register!rvars)
  BY DEF Register!Next, Register!Finish, Register!AtMostOne

LEMMA RegisterInit == Init => Register!Init
<1> SUFFICES ASSUME Init PROVE Register!Init
  OBVIOUS
<1>1. Honourable = {}
  BY InHonourable DEF Init, Live, None, Creating
<1> QED
  BY <1>1 DEF Register!Init, Init, Idle

\* When the last request returns, memory and disk agree on the one session.
LEMMA OneLeft ==
  ASSUME TypeOK', SerialInv', up', Idle'
  PROVE  \A s, t \in Honourable' : s = t
<1>1. Agree'
  BY DEF SerialInv, Settled, Idle, Unsettled
<1>2. \A s \in Honourable' : Live(s)' /\ (s = current' \/ s = file')
  BY InHonourableNext DEF Idle, Creating
<1> QED
  BY <1>1, <1>2 DEF Agree, Live, Expired

LEMMA RegisterStep ==
  ASSUME Single, DiskMayFail = FALSE, TypeOK, TypeOK', SerialInv, SerialInv',
         [Next]_vars
  PROVE  [Register!Next]_(Register!rvars)
<1> USE DEF TypeOK, Session, Tokens, None, Single, Live, Expired, machine, history,
    Goto, Return, Call
<1>0. ASSUME NEW h \in Handlers, pc[h] # "idle" PROVE ~Idle /\ up
  BY <1>0 DEF SerialInv, Down, Idle
<1>1. ASSUME NEW h \in Handlers, Begin(h) PROVE [Register!Next]_(Register!rvars)
  <2>1. Idle /\ ~Idle'
    BY <1>1 DEF Begin, FirstStep, Kinds, Idle
  <2>2. pc'[h] \notin Creating /\ pc[h] \notin Creating
    BY <1>1 DEF Begin, FirstStep, Kinds, Creating
  <2>3. Honourable' = Honourable
    <3>1. \A g \in Handlers : pc'[g] \notin Creating /\ pc[g] \notin Creating
      BY <2>2
    <3>2. UNCHANGED machine
      BY <1>1 DEF Begin
    <3>3. ASSUME NEW t PROVE t \in Honourable' <=> t \in Honourable
      BY <3>1, <3>2, InHonourable, InHonourableNext
    <3> QED
      BY <3>3
  <2> QED
    BY <1>1, <2>1, <2>3 DEF Begin, Register!Next, Register!Start
<1>2. ASSUME NEW h \in Handlers, Mint(h) PROVE [Register!Next]_(Register!rvars)
  <2>1. ~Idle /\ ~Idle'
    BY <1>2 DEF Mint, Idle
  <2>2. pc[h] \notin Creating /\ pc'[h] \in Creating /\ tok'[h] = minted + 1
    BY <1>2 DEF Mint, Creating
  <2>3. Honourable' = Honourable \cup {minted + 1}
    <3>1. Live(minted + 1)'
      BY <1>2 DEF Mint
    <3>2. ASSUME NEW t PROVE t \in Honourable' <=> t \in Honourable \cup {minted + 1}
      BY <1>2, <2>2, <3>1, InHonourable, InHonourableNext DEF Mint
    <3> QED
      BY <3>2
  <2> QED
    BY <1>2, <2>1, <2>3 DEF Mint, Register!Next, Register!Admit
<1>3. ASSUME NEW h \in Handlers,
             Install(h) \/ WriteTmp(h) \/ Unlink(h) \/ Rename(h) \/ Revoke(h)
      PROVE  [Register!Next]_(Register!rvars)
  <2>1. pc[h] # "idle" /\ pc'[h] # "idle" /\ minted' = minted
    BY <1>3 DEF Install, WriteTmp, Unlink, Rename, Revoke, Clear, RemoveFile, RemoveTmp
  <2>2. Idle' = Idle
    BY <2>1 DEF Idle
  <2>3. Honourable' \subseteq Honourable
    <3>1. CASE Install(h)
      BY <3>1, InHonourable, InHonourableNext DEF Install, Creating
    <3>2. CASE WriteTmp(h)
      BY <3>2, InHonourable, InHonourableNext DEF WriteTmp, Creating
    <3>3. CASE Unlink(h)
      BY <3>3, InHonourable, InHonourableNext DEF Unlink, Creating
    <3>4. CASE Rename(h)
      BY <3>4, InHonourable, InHonourableNext DEF Rename, Creating, SerialInv, Carrying
    <3>5. CASE Revoke(h)
      BY <3>5, InHonourable, InHonourableNext
         DEF Revoke, Clear, RemoveFile, RemoveTmp, Creating
    <3> QED
      BY <1>3, <3>1, <3>2, <3>3, <3>4, <3>5
  <2> QED
    BY <2>1, <2>2, <2>3, QuietStep DEF Quiet
<1>4. ASSUME NEW h \in Handlers, pc[h] # "idle", pc[h] \notin Creating,
             Return(h), UNCHANGED machine
      PROVE  [Register!Next]_(Register!rvars)
  <2>1. ~Idle /\ Idle' /\ up'
    BY <1>0, <1>4 DEF Idle
  <2>2. Honourable' \subseteq Honourable
    BY <1>4, InHonourable, InHonourableNext DEF Creating
  <2> QED
    BY <1>4, <2>1, <2>2, OneLeft, FinishStep
<1>5. ASSUME NEW h \in Handlers, Validate(h) PROVE [Register!Next]_(Register!rvars)
  <2>1. CASE Return(h)
    BY <1>4, <1>5, <2>1 DEF Validate, Read, Judge, Serve, Peek, PeekAgain, Creating
  <2>2. CASE ~Return(h)
    <3>1. /\ pc[h] \notin Creating \cup {"idle"} /\ pc'[h] \notin Creating \cup {"idle"}
          /\ UNCHANGED machine
      BY <1>5, <2>2 DEF Validate, Read, Judge, Serve, Peek, PeekAgain, Creating
    <3>2. Idle' = Idle
      BY <3>1 DEF Idle
    <3>3. Honourable' \subseteq Honourable
      BY <3>1, InHonourable, InHonourableNext
    <3> QED
      BY <3>1, <3>2, <3>3, QuietStep DEF Quiet
  <2> QED
    BY <2>1, <2>2
<1>6. CASE Expire \/ Cleanup \/ Restart
  <2>1. UNCHANGED <<minted, pc, tok>> /\ Idle' = Idle
    BY <1>6 DEF Expire, Cleanup, Restart, Idle
  <2>2. Honourable' \subseteq Honourable
    BY <1>6, <2>1, InHonourable, InHonourableNext DEF Expire, Cleanup, Restart
  <2> QED
    BY <2>1, <2>2, QuietStep DEF Quiet
<1>7. CASE Crash
  <2>1. Idle' /\ minted' = minted
    BY <1>7 DEF Crash, Idle
  <2>2. \A t \in Honourable' : t = file /\ Live(t)
    BY <1>7, InHonourableNext DEF Crash, Creating
  <2>3. Honourable' \subseteq Honourable
    BY <2>2, InHonourable
  <2>4. CASE Idle
    BY <2>1, <2>3, <2>4, QuietStep DEF Quiet
  <2>5. CASE ~Idle
    BY <2>1, <2>2, <2>3, <2>5, FinishStep
  <2> QED
    BY <2>4, <2>5
<1>8. CASE UNCHANGED vars
  <2>1. minted' = minted /\ Idle' = Idle /\ Honourable' = Honourable
    BY <1>8 DEF vars, Idle, Honourable
  <2> QED
    BY <2>1, QuietStep DEF Quiet
<1>9. ASSUME NEW h \in Handlers, MintFails(h) \/ Reply(h)
      PROVE  [Register!Next]_(Register!rvars)
  BY <1>4, <1>9 DEF MintFails, Reply, Creating
<1> QED
  BY <1>1, <1>2, <1>3, <1>5, <1>6, <1>7, <1>8, <1>9 DEF Next, Work, Create

\* Served one at a time, the session manager with its memory, its disk, its
\* crashes and restarts behaves as one register.
THEOREM SessionIsRegister ==
  ASSUME Single, DiskMayFail = FALSE PROVE Spec => ImplementsRegister
<1>1. Spec => [](TypeOK /\ SerialInv)
  BY SerialInvariant
<1> QED
  BY <1>1, RegisterInit, RegisterStep, PTL DEF Spec, ImplementsRegister, Register!Spec

\* Hence the server never honours two sessions between requests, one in memory
\* and another on disk that a restart would bring back (session.go:45, "max 1
\* device").
THEOREM SerialOneDevice ==
  ASSUME Single, DiskMayFail = FALSE PROVE Spec => []Register!OneDevice
<1> USE DEF Register!OneDevice
<1>1. Register!Init => Register!OneDevice
  BY DEF Register!Init, Register!AtMostOne
<1>2. Register!OneDevice /\ [Register!Next]_(Register!rvars) => Register!OneDevice'
  BY DEF Register!Next, Register!Start, Register!Admit, Register!Drop, Register!Finish,
     Register!AtMostOne, Register!rvars
<1> QED
  BY SessionIsRegister, <1>1, <1>2, PTL DEF ImplementsRegister, Register!Spec
=============================================================================
