--------------------------- MODULE PairingProofs ---------------------------
(* Theorems about Pairing, for every set of phones and pages and every bound. *)
EXTENDS Pairing, TLAPS

LEMMA InitType == Init => TypeOK
<1> SUFFICES ASSUME Init PROVE TypeOK
  OBVIOUS
<1> USE PairingAssumption DEF Init, Codes, None
<1>1. pm \in Managers
  BY DEF NoToken, Managers
<1>2. page \in [Pages -> PageStates]
  BY DEF PageStates, Reads, NoPage, NoRead
<1>3. phone \in [Phones -> PhoneStates]
  BY DEF PhoneStates, NoCode
<1>4. req \in [Requests -> ReqStates]
  BY DEF ReqStates, Closed
<1>5. deadline \in [Tokens -> Nat] /\ uses \in [Tokens -> Nat]
  OBVIOUS
<1>6. /\ now \in 0 .. MaxTime /\ minted \in 0 .. MaxTokens /\ restarts \in 0 .. MaxRestarts
      /\ session \in Nat /\ sessions \in Nat
  OBVIOUS
<1>7. url \in BOOLEAN /\ tunnel \in BOOLEAN
  OBVIOUS
<1> QED
  BY <1>1, <1>2, <1>3, <1>4, <1>5, <1>6, <1>7 DEF TypeOK

\* What the pages, the phones and the handlers leave the other two with.
LEMMA PageType ==
  ASSUME NEW g \in Pages, page \in [Pages -> PageStates], NEW s \in PageStates
  PROVE  [page EXCEPT ![g] = s] \in [Pages -> PageStates]
  OBVIOUS

LEMMA PhoneType ==
  ASSUME NEW p \in Phones, phone \in [Phones -> PhoneStates], NEW s \in PhoneStates
  PROVE  [phone EXCEPT ![p] = s] \in [Phones -> PhoneStates]
  OBVIOUS

LEMMA ReqType ==
  ASSUME NEW q, NEW s \in ReqStates, NEW f \in [Requests -> ReqStates]
  PROVE  [f EXCEPT ![q] = s] \in [Requests -> ReqStates]
  OBVIOUS

LEMMA Constants ==
  /\ NoPage \in PageStates /\ NoRead \in Reads
  /\ NoCode \in PhoneStates /\ Closed \in ReqStates /\ NoToken \in Managers
  BY DEF NoPage, NoRead, NoCode, Closed, NoToken, PageStates, Reads, PhoneStates, ReqStates,
     Managers, Codes, None

LEMMA DroppedType ==
  ASSUME NEW q, req \in [Requests -> ReqStates]
  PROVE  Dropped(q) \in [Requests -> ReqStates]
  BY Constants DEF Dropped

LEMMA PageStepType ==
  ASSUME TypeOK, NEW g \in Pages, PageStep(g) PROVE TypeOK'
<1> USE PairingAssumption DEF TypeOK, serverVars
<1>0. page[g] \in PageStates
  OBVIOUS
<1>1. CASE PageStart(g)
  <2>1. [NoRead EXCEPT !.paired = session # None] \in Reads
    BY DEF NoRead, Reads, Codes, None
  <2>2. [page[g] EXCEPT !.step = "asked",
                        !.read = [NoRead EXCEPT !.paired = session # None]] \in PageStates
    BY <1>0, <2>1 DEF PageStates
  <2> QED
    BY <1>1, <2>2, PageType DEF PageStart
<1>2. CASE PagePayload(g)
  <2>1. /\ pm' \in Managers
        /\ minted' \in 0 .. MaxTokens /\ deadline' \in [Tokens -> Nat]
    <3>1. now + TTL \in Nat
      OBVIOUS
    <3>2. CASE Usable
      BY <1>2, <3>2 DEF PagePayload, GetQRPayload
    <3>3. CASE ~Usable
      <4>1. minted + 1 \in Tokens
        BY <1>2, <3>3 DEF PagePayload, GetQRPayload, Tokens
      <4>2. pm' \in Managers
        <5>1. pm' = [token |-> minted + 1, expiresAt |-> now + TTL, used |-> FALSE]
          BY <1>2, <3>3 DEF PagePayload, GetQRPayload
        <5> QED
          BY <3>1, <4>1, <5>1 DEF Managers, Codes
      <4>3. minted' \in 0 .. MaxTokens
        BY <1>2, <3>3 DEF PagePayload, GetQRPayload
      <4>4. deadline' \in [Tokens -> Nat]
        BY <1>2, <3>1, <3>3 DEF PagePayload, GetQRPayload
      <4> QED
        BY <4>2, <4>3, <4>4
    <3> QED
      BY <3>2, <3>3
  <2>2. pm'.token \in Codes
    BY <2>1 DEF Managers
  <2>3. [page[g].read EXCEPT !.code = pm'.token, !.url = url] \in Reads
    BY <1>0, <2>2 DEF PageStates, Reads
  <2>4. [page[g] EXCEPT !.step = "coded",
           !.read = [page[g].read EXCEPT !.code = pm'.token, !.url = url]] \in PageStates
    BY <1>0, <2>3 DEF PageStates
  <2>5. page' = [page EXCEPT ![g] = [page[g] EXCEPT !.step = "coded",
           !.read = [page[g].read EXCEPT !.code = pm'.token, !.url = url]]]
    BY <1>2 DEF PagePayload
  <2>6. page' \in [Pages -> PageStates]
    BY <2>4, <2>5, PageType
  <2> QED
    BY <1>2, <2>1, <2>6 DEF PagePayload
<1>3. CASE PageFinish(g)
  <2>1. [step |-> "shown", paired |-> page[g].read.paired, code |-> page[g].read.code,
         url |-> page[g].read.url, current |-> tunnel, read |-> NoRead] \in PageStates
    BY <1>0, Constants DEF PageStates, Reads
  <2> QED
    BY <1>3, <2>1, PageType DEF PageFinish
<1>4. CASE PagePoll(g)
  <2>1. [page[g] EXCEPT !.step = IF MustReload(g) THEN "reload" ELSE "shown",
                        !.current = tunnel] \in PageStates
    BY <1>0 DEF PageStates
  <2> QED
    BY <1>4, <2>1, PageType DEF PagePoll
<1> QED
  BY <1>1, <1>2, <1>3, <1>4 DEF PageStep

LEMMA HandleType ==
  ASSUME TypeOK, NEW q \in Requests, Handle(q) PROVE TypeOK'
<1> USE DEF TypeOK, serverVars
<1>0. req[q] \in ReqStates
  OBVIOUS
<1>1. CASE Consume(q)
  <2>1. pm' \in Managers
    BY <1>1 DEF Consume, Managers, Codes
  <2>2. Usable => pm.token \in Tokens
    BY DEF Usable, Present, Managers, Codes
  <2>3. uses' \in [Tokens -> Nat]
    BY <1>1, <2>2 DEF Consume
  <2>4. [req[q] EXCEPT !.pc = "consumed"] \in ReqStates
    BY <1>0 DEF ReqStates
  <2>5. req' \in [Requests -> ReqStates]
    BY <1>1, <2>4, ReqType, Constants DEF Consume
  <2> QED
    BY <1>1, <2>1, <2>3, <2>5 DEF Consume
<1>2. CASE CreateSession(q)
  <2>1. [pc |-> "ok", code |-> req[q].code, token |-> sessions + 1] \in ReqStates
    BY <1>0 DEF ReqStates
  <2>2. req' \in [Requests -> ReqStates]
    BY <1>2, <2>1, ReqType, Constants DEF CreateSession
  <2> QED
    BY <1>2, <2>2 DEF CreateSession
<1>3. CASE CreateSessionFails(q)
  BY <1>3, ReqType, Constants DEF CreateSessionFails
<1>4. CASE Lose(q)
  BY <1>4, ReqType, Constants DEF Lose
<1> QED
  BY <1>1, <1>2, <1>3, <1>4 DEF Handle

LEMMA SentType ==
  ASSUME NEW code \in Codes PROVE Sent(code) \in ReqStates
  BY DEF Sent, ReqStates, None

LEMMA AttemptType ==
  ASSUME TypeOK, NEW p \in Phones, Attempt(p) PROVE TypeOK'
<1> USE DEF TypeOK, serverVars
<1>0. phone[p] \in PhoneStates
  OBVIOUS
<1>1. ASSUME NEW g \in Pages, Scan(p, g) PROVE TypeOK'
  <2>1. PICK q \in Requests :
          /\ phone' = [phone EXCEPT ![p] = [step |-> "lan", code |-> page[g].code,
                                            url |-> page[g].url, req |-> q, token |-> None]]
          /\ req' = [req EXCEPT ![q] = Sent(page[g].code)]
    BY <1>1 DEF Scan
  <2>2. page[g].code \in Codes /\ page[g].url \in BOOLEAN
    BY DEF PageStates
  <2>3. [step |-> "lan", code |-> page[g].code, url |-> page[g].url, req |-> q,
         token |-> None] \in PhoneStates
    BY <2>2 DEF PhoneStates, Routes, None
  <2>4. phone' \in [Phones -> PhoneStates]
    BY <2>1, <2>3, PhoneType
  <2>5. req' \in [Requests -> ReqStates]
    BY <2>1, <2>2, SentType, ReqType
  <2> QED
    BY <1>1, <2>4, <2>5 DEF Scan
<1>2. CASE Accepted(p)
  <2>1. PICK q \in Requests :
          /\ phone' = [phone EXCEPT ![p] = [NoCode EXCEPT !.step = "paired",
                                                          !.token = req[q].token]]
          /\ req' = [req EXCEPT ![q] = Closed]
    BY <1>2 DEF Accepted
  <2>2. [NoCode EXCEPT !.step = "paired", !.token = req[q].token] \in PhoneStates
    <3>1. req[q].token \in Nat
      BY DEF ReqStates
    <3> QED
      BY <3>1 DEF NoCode, PhoneStates, Codes, None
  <2>3. phone' \in [Phones -> PhoneStates]
    BY <2>1, <2>2, PhoneType
  <2>4. req' \in [Requests -> ReqStates]
    BY <2>1, ReqType, Constants
  <2> QED
    BY <1>2, <2>3, <2>4 DEF Accepted
<1>3. CASE GiveUp(p)
  <2>0. Dropped(phone[p].req) \in [Requests -> ReqStates]
    BY DroppedType
  <2>1. phone' \in [Phones -> PhoneStates] /\ req' \in [Requests -> ReqStates]
    <3>1. CASE phone[p].step = "lan" /\ phone[p].url
      <4>1. PICK q \in Requests :
              /\ phone' = [phone EXCEPT ![p].step = "tunnel", ![p].req = q]
              /\ req' = [Dropped(phone[p].req) EXCEPT ![q] = Sent(phone[p].code)]
        BY <1>3, <3>1 DEF GiveUp
      <4>2. [phone[p] EXCEPT !.step = "tunnel", !.req = q] \in PhoneStates
        BY <1>0 DEF PhoneStates, Routes
      <4>3. phone' = [phone EXCEPT ![p] = [phone[p] EXCEPT !.step = "tunnel", !.req = q]]
        BY <4>1
      <4>4. Sent(phone[p].code) \in ReqStates
        BY <1>0, SentType DEF PhoneStates
      <4> QED
        BY <2>0, <4>1, <4>2, <4>3, <4>4, PhoneType, ReqType
    <3>2. CASE ~(phone[p].step = "lan" /\ phone[p].url)
      BY <1>3, <2>0, <3>2, PhoneType, Constants DEF GiveUp
    <3> QED
      BY <3>1, <3>2
  <2> QED
    BY <1>3, <2>1 DEF GiveUp
<1>4. CASE Kicked(p)
  BY <1>4, PhoneType, Constants DEF Kicked
<1> QED
  BY <1>1, <1>2, <1>3, <1>4 DEF Attempt

LEMMA StepType == TypeOK /\ [Next]_vars => TypeOK'
<1> SUFFICES ASSUME TypeOK, [Next]_vars PROVE TypeOK'
  OBVIOUS
<1> USE DEF TypeOK, serverVars
<1>1. CASE TunnelChanges \/ UpdatePublicURL
  BY <1>1 DEF TunnelChanges, UpdatePublicURL
<1>2. CASE Unpair
  BY <1>2 DEF Unpair, None
<1>3. CASE Tick
  BY <1>3, PairingAssumption DEF Tick
<1>4. CASE Restart
  <2>1. page' \in [Pages -> PageStates]
    BY <1>4, Constants DEF Restart
  <2>2. req' \in [Requests -> ReqStates]
    BY <1>4, Constants DEF Restart
  <2>3. restarts' \in 0 .. MaxRestarts
    BY <1>4, PairingAssumption DEF Restart
  <2> QED
    BY <1>4, <2>1, <2>2, <2>3, Constants DEF Restart
<1>5. CASE UNCHANGED vars
  BY <1>5 DEF vars
<1> QED
  BY <1>1, <1>2, <1>3, <1>4, <1>5, PageStepType, AttemptType, HandleType DEF Next

\* The pairing state keeps its types.
THEOREM TypeCorrect == Spec => []TypeOK
  BY InitType, StepType, PTL DEF Spec

-----------------------------------------------------------------------------
(* Single use.  The token in hand has never been accepted, so accepting it  *)
(* makes its count one, and it leaves the manager in the same step.         *)

\* The current token is one that was minted and not yet accepted, and the
\* manager's deadline is the one it was given.
Unspent ==
    Present => /\ pm.token <= minted /\ uses[pm.token] = 0
               /\ deadline[pm.token] = pm.expiresAt

Future == \A t \in Tokens : t > minted => uses[t] = 0

PairInv == Unspent /\ Future /\ SingleUse

LEMMA PairInit == Init => PairInv
  BY PairingAssumption DEF Init, PairInv, Unspent, Future, SingleUse, Present, NoToken, None,
     Tokens

\* Only a page's payload and a handler's ValidateAndConsume touch the tokens.
LEMMA OthersKeepTokens ==
  ASSUME TypeOK, [Next]_vars, \A g \in Pages : ~PagePayload(g),
         \A q \in Requests : ~Consume(q), ~Restart
  PROVE  UNCHANGED <<pm, minted, deadline, uses>>
  BY DEF Next, vars, serverVars, PageStep, PageStart, PageFinish, PagePoll, Attempt, Scan,
     Accepted, GiveUp, Kicked, Handle, CreateSession, CreateSessionFails, Lose,
     TunnelChanges, UpdatePublicURL, Unpair, Tick

LEMMA PairStep ==
  ASSUME TypeOK, TypeOK', PairInv, [Next]_vars PROVE PairInv'
<1> USE DEF PairInv, Unspent, Future, SingleUse, Present
<1>1. ASSUME NEW g \in Pages, PagePayload(g) PROVE PairInv'
  <2>1. CASE Usable
    BY <1>1, <2>1 DEF PagePayload, GetQRPayload
  <2>2. CASE ~Usable
    <3>1. minted + 1 \in Tokens /\ uses[minted + 1] = 0
      BY <1>1, <2>2, PairingAssumption DEF PagePayload, GetQRPayload, Tokens, TypeOK
    <3> QED
      BY <1>1, <2>2, <3>1 DEF PagePayload, GetQRPayload, TypeOK, Tokens
  <2> QED
    BY <2>1, <2>2
<1>2. ASSUME NEW q \in Requests, Consume(q) PROVE PairInv'
  <2>1. CASE Usable /\ req[q].code = pm.token
    <3>1. pm.token \in Tokens /\ uses[pm.token] = 0 /\ ~Present'
      BY <1>2, <2>1 DEF Consume, Usable, TypeOK, Managers, Codes
    <3>2. uses' = [uses EXCEPT ![pm.token] = 1] /\ UNCHANGED <<minted, deadline>>
      BY <1>2, <2>1, <3>1 DEF Consume, TypeOK
    <3> QED
      BY <2>1, <3>1, <3>2 DEF TypeOK, Usable, Tokens
  <2>2. CASE ~(Usable /\ req[q].code = pm.token)
    <3>1. Present' => pm' = pm /\ Present
      BY <1>2, <2>2 DEF Consume, TypeOK, Managers
    <3>2. UNCHANGED <<minted, uses, deadline>>
      BY <1>2, <2>2 DEF Consume
    <3> QED
      BY <3>1, <3>2
  <2> QED
    BY <2>1, <2>2
<1>3. CASE Restart
  <2>1. ~Present'
    BY <1>3 DEF Restart, NoToken
  <2> QED
    BY <1>3, <2>1 DEF Restart
<1> QED
  BY <1>1, <1>2, <1>3, OthersKeepTokens

LEMMA PairInvariant == Spec => [](TypeOK /\ PairInv)
  BY InitType, PairInit, StepType, PairStep, PTL DEF Spec

\* Whatever phones, routes, retries, pages and restarts there are, a pairing
\* token is accepted at most once.
THEOREM PairingSingleUse == Spec => []SingleUse
  BY PairInvariant, PTL DEF PairInv

\* No token is accepted after its deadline.
THEOREM PairingInTime == Spec => AcceptedInTime
<1>1. ASSUME TypeOK, PairInv, [Next]_vars PROVE [InTime]_vars
  <2> SUFFICES ASSUME NEW t \in Tokens, uses'[t] # uses[t] PROVE now <= deadline[t]
    BY DEF InTime
  <2>1. PICK q \in Requests : Consume(q)
    <3>1. \A g \in Pages : ~PagePayload(g)
      BY DEF PagePayload
    <3>2. ~Restart
      BY DEF Restart
    <3> QED
      BY <1>1, <3>1, <3>2, OthersKeepTokens
  <2>2. Usable /\ uses' = [uses EXCEPT ![pm.token] = @ + 1]
    BY <2>1 DEF Consume
  <2>3. t = pm.token
    BY <1>1, <2>2 DEF TypeOK
  <2> QED
    BY <1>1, <2>2, <2>3 DEF PairInv, Unspent, Usable
<1> QED
  BY PairInvariant, <1>1, PTL DEF Spec, AcceptedInTime

\* While the server lives, a token that can still be used is taken away only by
\* its own use: neither another page, nor a wrong code, nor time spent on other
\* requests costs a phone the code it is looking at (qr.go GetQRPayload).
THEOREM PairingTokenKept == Spec => UsableTokenKept
<1>1. ASSUME TypeOK, [Next]_vars PROVE [Kept]_vars
  <2> SUFFICES ASSUME Next, Usable, restarts' = restarts, pm'.token # pm.token
               PROVE  uses'[pm.token] = uses[pm.token] + 1
    BY <1>1 DEF Kept
  <2> USE <1>1
  <2>1. PICK q \in Requests : Consume(q)
    <3>1. pm' # pm
      OBVIOUS
    <3>2. ~Restart
      BY DEF Restart, TypeOK
    <3>3. \A g \in Pages : ~PagePayload(g)
      BY <3>1 DEF PagePayload, GetQRPayload
    <3> QED
      BY <3>1, <3>2, <3>3, OthersKeepTokens
  <2>2. ~TooLate /\ pm.token \in Tokens /\ now \in Nat /\ pm.expiresAt \in Nat
    BY DEF Usable, TooLate, Present, TypeOK, Managers, Codes
  <2>3. uses' = [uses EXCEPT ![pm.token] = @ + 1]
    <3>1. CASE ~(Usable /\ req[q].code = pm.token)
      <4>1. pm' = [pm EXCEPT !.token = pm.token]
        BY <2>1, <2>2, <3>1 DEF Consume
      <4>2. pm'.token = pm.token
        BY <4>1 DEF TypeOK, Managers
      <4> QED
        BY <4>2
    <3>2. CASE Usable /\ req[q].code = pm.token
      BY <2>1, <3>2 DEF Consume
    <3> QED
      BY <3>1, <3>2
  <2> QED
    BY <2>2, <2>3 DEF TypeOK
<1> QED
  BY InitType, StepType, <1>1, PTL DEF Spec, UsableTokenKept
=============================================================================
