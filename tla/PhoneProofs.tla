----------------------------- MODULE PhoneProofs ------------------------------
(* Theorems about Phone, for every number of concurrent calls, tokens,        *)
(* commands and troubles.                                                     *)
EXTENDS Phone, TLAPS

AnswerSet == {"none", "ok", "denied", "error", "playing", "paused"}
CallSet == [pc : {"idle", "sent", "answered"}, route : Routes, next : Routes \cup {NoRoute},
            token : Tokens \cup {NoToken}, answer : AnswerSet, before : BOOLEAN]

\* What the phone shows has its type.
ShownTypeOK ==
    /\ prefer \in BOOLEAN /\ connected \in BOOLEAN /\ polling \in BOOLEAN
    /\ refresh \in BOOLEAN /\ card \in BOOLEAN
    /\ failCount \in 0 .. 3

\* The world around it.
WorldTypeOK ==
    /\ net \in Nets /\ well \in BOOLEAN
    /\ player \in BOOLEAN /\ late \in BOOLEAN /\ publicUrl \in BOOLEAN
    /\ issued \in 0 .. MaxTokens /\ commands \in 0 .. MaxCommands /\ trouble \in 0 .. MaxTrouble

\* A health check carries no token, so it is never denied.
Sound(c, k) ==
    /\ k \in CallSet
    /\ c \in Pings => k.token = NoToken /\ k.answer # "denied"
CallsSound == call \in [Calls -> CallSet] /\ \A c \in Calls : Sound(c, call[c])

\* Only tokens the server has issued are about.
Issued ==
    /\ valid \subseteq 1 .. issued /\ token \in 0 .. issued
    /\ \A c \in Calls : call[c].token \in 0 .. issued

\* The dashboard on top is alive.
ScreenSound ==
    /\ screen \in {"login", "dashboard"} /\ mounted \in BOOLEAN
    /\ closing \subseteq {"denied", "logout"}
    /\ screen = "dashboard" => mounted

PhoneInv == ShownTypeOK /\ WorldTypeOK /\ CallsSound /\ Issued /\ ScreenSound

LEMMA Bounds ==
  /\ MaxTokens \in Nat /\ 1 \in 0 .. MaxTokens
  /\ \A n \in 0 .. MaxTokens : 1 .. n \subseteq Tokens /\ 0 .. n \subseteq Tokens \cup {NoToken}
  /\ Tokens \subseteq Nat /\ NoToken = 0
  BY PhoneAssumption DEF PhoneAssumption, Tokens, NoToken

LEMMA Zero ==
  0 \in 0 .. 3 /\ 0 \in 0 .. MaxCommands /\ 0 \in 0 .. MaxTrouble
  BY PhoneAssumption DEF PhoneAssumption

LEMMA TypeFromParts == PhoneInv => PhoneTypeOK
<1> SUFFICES ASSUME PhoneInv PROVE PhoneTypeOK
  OBVIOUS
<1>1. valid \subseteq Tokens /\ token \in Tokens \cup {NoToken}
  BY Bounds DEF PhoneInv, Issued, WorldTypeOK
<1> QED
  BY <1>1 DEF PhoneInv, PhoneTypeOK, ShownTypeOK, WorldTypeOK, CallsSound, CallSet, AnswerSet,
              ScreenSound

-----------------------------------------------------------------------------
(* The requests *)

LEMMA IdleSound == \A c : Sound(c, Idle) /\ Idle.token = 0
  BY Bounds DEF Sound, Idle, CallSet, AnswerSet, Routes

\* One request changes.
LEMMA OneCall ==
  ASSUME CallsSound, NEW c \in Calls, NEW k, Sound(c, k), call' = [call EXCEPT ![c] = k]
  PROVE  CallsSound' /\ \A d \in Calls : call'[d] = IF d = c THEN k ELSE call[d]
<1>1. k \in CallSet /\ call \in [Calls -> CallSet]
  BY DEF Sound, CallsSound
<1>2. \A d \in Calls : call'[d] = IF d = c THEN k ELSE call[d]
  BY <1>1
<1>3. call' \in [Calls -> CallSet]
  BY <1>1
<1>4. \A d \in Calls : Sound(d, call'[d])
  BY <1>2 DEF CallsSound
<1> QED
  BY <1>2, <1>3, <1>4 DEF CallsSound, Sound

\* It is sent over the preferred route.
LEMMA SendSound ==
  ASSUME PhoneInv, NEW c \in Calls, Send(c)
  PROVE  CallsSound' /\ \A d \in Calls : call'[d].token \in 0 .. issued
<1> DEFINE t == IF c \in Pings THEN NoToken ELSE token
           b == c = Toggle /\ card
           k == [Idle EXCEPT !.pc = "sent", !.route = Active, !.next = Fallback, !.token = t,
                             !.before = b]
<1>1. t \in Tokens \cup {NoToken} /\ t \in 0 .. issued /\ b \in BOOLEAN
      /\ (c \in Pings => t = NoToken)
  BY Bounds DEF PhoneInv, Issued, WorldTypeOK, ShownTypeOK
<1>2. Active \in Routes /\ Fallback \in Routes
  BY DEF Active, Fallback, Routes
<1>3. call' = [call EXCEPT ![c] = k]
  BY DEF Send
<1> HIDE DEF t, b
<1>4. /\ k \in CallSet /\ k.pc = "sent" /\ k.route = Active /\ k.next = Fallback
      /\ k.token = t /\ k.answer = "none"
  <2>1. Idle \in CallSet /\ Idle.answer = "none"
    BY IdleSound DEF Sound, Idle
  <2> DEFINE k1 == [Idle EXCEPT !.pc = "sent"]
             k2 == [k1 EXCEPT !.route = Active]
             k3 == [k2 EXCEPT !.next = Fallback]
             k4 == [k3 EXCEPT !.token = t]
             k5 == [k4 EXCEPT !.before = b]
  <2>2. k1 \in CallSet /\ k1.pc = "sent" /\ k1.answer = "none"
    BY <2>1 DEF CallSet
  <2> HIDE DEF k1
  <2>3. k2 \in CallSet /\ k2.pc = "sent" /\ k2.answer = "none" /\ k2.route = Active
    BY <1>2, <2>2 DEF CallSet
  <2> HIDE DEF k2
  <2>4. /\ k3 \in CallSet /\ k3.pc = "sent" /\ k3.answer = "none" /\ k3.route = Active
        /\ k3.next = Fallback
    BY <1>2, <2>3 DEF CallSet
  <2> HIDE DEF k3
  <2>5. /\ k4 \in CallSet /\ k4.pc = "sent" /\ k4.answer = "none" /\ k4.route = Active
        /\ k4.next = Fallback /\ k4.token = t
    BY <1>1, <2>4 DEF CallSet
  <2> HIDE DEF k4
  <2>6. /\ k5 \in CallSet /\ k5.pc = "sent" /\ k5.answer = "none" /\ k5.route = Active
        /\ k5.next = Fallback /\ k5.token = t
    BY <1>1, <2>5 DEF CallSet
  <2>7. k = k5
    BY DEF k1, k2, k3, k4
  <2> QED
    BY <2>6, <2>7
<1>5. Sound(c, k)
  BY <1>1, <1>2, <1>4 DEF Sound
<1>6. k.token \in 0 .. issued
  BY <1>1, <1>4
<1> HIDE DEF k
<1>7. CallsSound' /\ \A d \in Calls : call'[d] = IF d = c THEN k ELSE call[d]
  BY <1>3, <1>5, OneCall DEF PhoneInv
<1> QED
  BY <1>6, <1>7 DEF PhoneInv, Issued

\* It ends.
LEMMA EndSound ==
  ASSUME PhoneInv, NEW c \in Calls, call' = [call EXCEPT ![c] = Idle]
  PROVE  CallsSound' /\ \A d \in Calls : call'[d].token \in 0 .. issued
<1>1. CallsSound' /\ \A d \in Calls : call'[d] = IF d = c THEN Idle ELSE call[d]
  BY IdleSound, OneCall DEF PhoneInv
<1>2. 0 \in 0 .. issued
  BY Bounds DEF PhoneInv, WorldTypeOK
<1> QED
  BY <1>1, <1>2, IdleSound DEF PhoneInv, Issued

\* Pings, and the effect of a result on what the phone shows.
LEMMA ConcludeEnds ==
  ASSUME PhoneInv, NEW c \in Calls, NEW ok \in BOOLEAN, Conclude(c, ok), prefer' \in BOOLEAN
  PROVE  ShownTypeOK' /\ CallsSound' /\ \A d \in Calls : call'[d].token \in 0 .. issued
<1>1. call[c].before \in BOOLEAN
  BY DEF PhoneInv, CallsSound, CallSet
<1>2. connected' \in BOOLEAN /\ polling' \in BOOLEAN /\ refresh' \in BOOLEAN /\ card' \in BOOLEAN
  BY <1>1 DEF Conclude, Pinged, PhoneInv, ShownTypeOK, shown
<1>3. failCount' \in 0 .. 3
  BY DEF Conclude, Pinged, PhoneInv, ShownTypeOK, shown
<1>4. CallsSound' /\ \A d \in Calls : call'[d].token \in 0 .. issued
  BY EndSound DEF Conclude
<1> QED
  BY <1>2, <1>3, <1>4 DEF ShownTypeOK

LEMMA AnswersSound ==
  ASSUME NEW c \in Calls, NEW answer \in Answers(c)
  PROVE  answer \in AnswerSet /\ (c \in Pings => answer # "denied")
<1>1. Handled(c) \in {"denied", "ok", "playing", "paused"}
  BY DEF Handled
<1>2. c \in Pings => Handled(c) # "denied"
  BY DEF Handled, Accepted
<1>3. answer \in {Handled(c), "error"}
  BY DEF Answers
<1> QED
  BY <1>1, <1>2, <1>3 DEF AnswerSet

LEMMA ServedSound ==
  ASSUME PhoneInv, NEW c \in Calls, Served(c)
  PROVE  PhoneInv'
<1>1. PICK answer \in Answers(c) :
         call' = [call EXCEPT ![c].pc = "answered", ![c].answer = answer]
  BY DEF Served
<1> DEFINE k == [call[c] EXCEPT !.pc = "answered", !.answer = answer]
<1>2. call[c] \in CallSet /\ Sound(c, call[c])
  BY DEF PhoneInv, CallsSound
<1>3. answer \in AnswerSet /\ (c \in Pings => answer # "denied")
  BY AnswersSound
<1>4. call' = [call EXCEPT ![c] = k]
  BY <1>1, <1>2 DEF PhoneInv, CallsSound
<1>5. /\ k \in CallSet /\ k.token = call[c].token /\ k.answer = answer
  BY <1>2, <1>3 DEF CallSet
<1>6. Sound(c, k)
  BY <1>2, <1>3, <1>5 DEF Sound
<1> HIDE DEF k
<1>7. CallsSound' /\ \A d \in Calls : call'[d] = IF d = c THEN k ELSE call[d]
  BY <1>4, <1>6, OneCall DEF PhoneInv
<1>8. valid' \subseteq valid /\ UNCHANGED <<net, well, late, publicUrl, prefer, session, shown, bounds>>
  BY DEF Served
<1>9. Issued'
  <2>1. \A d \in Calls : call'[d].token \in 0 .. issued
    BY <1>5, <1>7 DEF PhoneInv, Issued
  <2> QED
    BY <1>8, <2>1 DEF PhoneInv, Issued, session, bounds
<1>10. player' \in BOOLEAN
  BY DEF Served, PhoneInv, WorldTypeOK
<1> QED
  BY <1>7, <1>8, <1>9, <1>10
     DEF PhoneInv, ShownTypeOK, WorldTypeOK, ScreenSound, session, shown, bounds

LEMMA FallsBackSound ==
  ASSUME PhoneInv, NEW c \in Calls, FallsBack(c)
  PROVE  PhoneInv'
<1> DEFINE k == [call[c] EXCEPT !.pc = "sent", !.route = call[c].next, !.next = NoRoute,
                                !.answer = "none"]
<1>1. call[c] \in CallSet /\ Sound(c, call[c]) /\ call[c].next # NoRoute
  BY DEF PhoneInv, CallsSound, FallsBack, CanRetry
<1>2. call' = [call EXCEPT ![c] = k]
  BY <1>1 DEF FallsBack, PhoneInv, CallsSound
<1>3. k \in CallSet /\ k.token = call[c].token /\ k.answer = "none"
  BY <1>1 DEF CallSet, AnswerSet
<1>4. Sound(c, k)
  BY <1>1, <1>3 DEF Sound
<1> HIDE DEF k
<1>5. CallsSound' /\ \A d \in Calls : call'[d] = IF d = c THEN k ELSE call[d]
  BY <1>2, <1>4, OneCall DEF PhoneInv
<1>6. Issued'
  <2>1. \A d \in Calls : call'[d].token \in 0 .. issued
    BY <1>3, <1>5 DEF PhoneInv, Issued
  <2> QED
    BY <2>1 DEF FallsBack, PhoneInv, Issued, session, bounds
<1>7. late' \in BOOLEAN
  BY DEF FallsBack, PhoneInv, WorldTypeOK
<1> QED
  BY <1>5, <1>6, <1>7 DEF FallsBack, PhoneInv, ShownTypeOK, WorldTypeOK, ScreenSound,
                          session, shown, bounds

LEMMA ReceivedSound ==
  ASSUME PhoneInv, NEW c \in Calls, Received(c)
  PROVE  PhoneInv'
<1>1. prefer' \in BOOLEAN
  BY DEF Received, PhoneInv, ShownTypeOK
<1>2. PICK ok \in BOOLEAN : Conclude(c, ok)
  <2>1. (Answer(c) \notin {"denied", "error"}) \in BOOLEAN
    OBVIOUS
  <2> QED
    BY <2>1 DEF Received
<1>3. ShownTypeOK' /\ CallsSound' /\ \A d \in Calls : call'[d].token \in 0 .. issued
  BY <1>1, <1>2, ConcludeEnds
<1>4. token' \in 0 .. issued
  BY Bounds DEF Received, PhoneInv, Issued, WorldTypeOK
<1>5. Issued'
  BY <1>3, <1>4 DEF Received, PhoneInv, Issued, world, bounds
<1> QED
  BY <1>3, <1>5 DEF Received, PhoneInv, WorldTypeOK, ScreenSound, world, bounds

LEMMA FailsSound ==
  ASSUME PhoneInv, NEW c \in Calls, Fails(c)
  PROVE  PhoneInv'
<1>1. ShownTypeOK' /\ CallsSound' /\ \A d \in Calls : call'[d].token \in 0 .. issued
  BY ConcludeEnds DEF Fails, PhoneInv, ShownTypeOK
<1>2. token' \in 0 .. issued
  BY Bounds DEF Fails, PhoneInv, Issued, WorldTypeOK
<1>3. Issued'
  BY <1>1, <1>2 DEF Fails, PhoneInv, Issued, bounds
<1>4. late' \in BOOLEAN
  BY DEF Fails, PhoneInv, WorldTypeOK
<1> QED
  BY <1>1, <1>3, <1>4 DEF Fails, PhoneInv, WorldTypeOK, ScreenSound, bounds

-----------------------------------------------------------------------------
(* The dashboard, login and the world *)

LEMMA DashboardSound ==
  ASSUME PhoneInv,
         \/ \E c \in Pings : Ping(c)
         \/ \E c \in Fetches : Poll(c) \/ Refresh(c)
         \/ PlayPause \/ LogOut
  PROVE  PhoneInv'
<1> SUFFICES /\ CallsSound' /\ \A d \in Calls : call'[d].token \in 0 .. issued
             /\ ShownTypeOK' /\ commands' \in 0 .. MaxCommands
             /\ UNCHANGED <<world, prefer, session, issued, trouble>>
  BY DEF PhoneInv, Issued, WorldTypeOK, ScreenSound, world, session
<1>0. Pings \subseteq Calls /\ Fetches \subseteq Calls /\ Toggle \in Calls /\ Logout \in Calls
  BY DEF Calls
<1>1. ASSUME UNCHANGED call
      PROVE  CallsSound' /\ \A d \in Calls : call'[d].token \in 0 .. issued
  BY <1>1 DEF PhoneInv, CallsSound, Sound, Issued
<1>2. ASSUME commands < MaxCommands, commands' = commands + 1
      PROVE  commands' \in 0 .. MaxCommands
  BY <1>2, PhoneAssumption DEF PhoneAssumption, PhoneInv, WorldTypeOK
<1>3. CASE \E c \in Pings : Ping(c)
  BY <1>0, <1>3, SendSound DEF Ping, PhoneInv, ShownTypeOK, WorldTypeOK, shown, bounds
<1>4. CASE \E c \in Fetches : Poll(c) \/ Refresh(c)
  <2>1. PICK c \in Fetches : Poll(c) \/ Refresh(c)
    BY <1>4
  <2>2. CASE token = NoToken
    BY <1>1, <2>1, <2>2 DEF Poll, Refresh, PhoneInv, ShownTypeOK, WorldTypeOK, bounds
  <2>3. CASE token # NoToken
    BY <1>0, <2>1, <2>3, SendSound
       DEF Poll, Refresh, PhoneInv, ShownTypeOK, WorldTypeOK, bounds
  <2> QED
    BY <2>2, <2>3
<1>5. CASE PlayPause
  <2>1. commands' \in 0 .. MaxCommands
    BY <1>2, <1>5 DEF PlayPause
  <2>2. CASE token = NoToken
    BY <1>1, <1>5, <2>1, <2>2 DEF PlayPause, PhoneInv, ShownTypeOK
  <2>3. CASE token # NoToken
    BY <1>0, <1>5, <2>1, <2>3, SendSound DEF PlayPause, PhoneInv, ShownTypeOK
  <2> QED
    BY <2>2, <2>3
<1>6. CASE LogOut
  BY <1>0, <1>2, <1>6, SendSound DEF LogOut, PhoneInv, ShownTypeOK, shown
<1> QED
  BY <1>3, <1>4, <1>5, <1>6

\* Steps that leave the requests and the tokens alone.
LEMMA CallsStay ==
  ASSUME PhoneInv, UNCHANGED <<call, issued>>, valid' \subseteq valid, token' \in {token, NoToken}
  PROVE  CallsSound' /\ Issued'
<1>1. 0 \in 0 .. issued
  BY Bounds DEF PhoneInv, WorldTypeOK
<1> QED
  BY <1>1, Bounds DEF PhoneInv, CallsSound, Sound, Issued

LEMMA ScreensSound ==
  ASSUME PhoneInv,
         \/ \E why \in {"denied", "logout"} : Close(why)
         \/ Dispose \/ AutoLogin
  PROVE  PhoneInv'
<1>1. CallsSound' /\ Issued'
  BY CallsStay DEF Close, Dispose, AutoLogin, world, bounds
<1>2. ScreenSound' /\ ShownTypeOK'
  <2>1. CASE \E why \in {"denied", "logout"} : Close(why)
    BY <2>1 DEF Close, PhoneInv, ScreenSound, ShownTypeOK
  <2>2. CASE Dispose
    BY <2>2, Zero DEF Dispose, PhoneInv, ScreenSound, ShownTypeOK
  <2>3. CASE AutoLogin
    BY <2>3 DEF AutoLogin, OpenDashboard, PhoneInv, ScreenSound, ShownTypeOK
  <2> QED
    BY <2>1, <2>2, <2>3
<1>3. WorldTypeOK'
  BY DEF Close, Dispose, AutoLogin, PhoneInv, WorldTypeOK, world, bounds
<1> QED
  BY <1>1, <1>2, <1>3 DEF PhoneInv

LEMMA LoginSound ==
  ASSUME PhoneInv, Login
  PROVE  PhoneInv'
<1>1. issued' = issued + 1 /\ issued' \in 0 .. MaxTokens /\ issued \in Nat
  BY Bounds DEF Login, PhoneInv, WorldTypeOK
<1>2. 0 .. issued \subseteq 0 .. issued' /\ issued' \in 1 .. issued' /\ 1 .. issued \subseteq 1 .. issued'
  BY <1>1
<1>3. Issued'
  <2>1. valid' = {issued'} /\ token' = issued' /\ UNCHANGED call
    BY DEF Login
  <2>2. valid' \subseteq 1 .. issued' /\ token' \in 0 .. issued'
    BY <1>1, <1>2, <2>1 DEF PhoneInv, Issued
  <2> QED
    BY <1>2, <2>1, <2>2 DEF PhoneInv, Issued
<1>4. ShownTypeOK' /\ publicUrl' \in BOOLEAN
  BY DEF Login, PhoneInv, ShownTypeOK, WorldTypeOK, shown
<1>5. CallsSound'
  BY DEF Login, PhoneInv, CallsSound, Sound
<1> QED
  BY <1>1, <1>3, <1>4, <1>5 DEF Login, OpenDashboard, PhoneInv, WorldTypeOK, ScreenSound

LEMMA WorldSound ==
  ASSUME PhoneInv, NetChanges \/ ServerChanges \/ Revoked \/ LateCommand
  PROVE  PhoneInv'
<1>1. CallsSound' /\ Issued'
  BY CallsStay DEF NetChanges, ServerChanges, Revoked, LateCommand, session, bounds
<1>2. ScreenSound' /\ ShownTypeOK'
  BY DEF NetChanges, ServerChanges, Revoked, LateCommand, session, shown, PhoneInv, ScreenSound, ShownTypeOK
<1>3. ASSUME trouble < MaxTrouble, trouble' = trouble + 1
      PROVE  trouble' \in 0 .. MaxTrouble
  BY <1>3, PhoneAssumption DEF PhoneAssumption, PhoneInv, WorldTypeOK
<1>4. WorldTypeOK'
  <2>1. CASE NetChanges
    BY <1>3, <2>1 DEF NetChanges, PhoneInv, WorldTypeOK
  <2>2. CASE ServerChanges
    BY <1>3, <2>2 DEF ServerChanges, PhoneInv, WorldTypeOK
  <2>3. CASE Revoked
    BY <1>3, <2>3 DEF Revoked, PhoneInv, WorldTypeOK
  <2>4. CASE LateCommand
    BY <2>4 DEF LateCommand, PhoneInv, WorldTypeOK, bounds
  <2> QED
    BY <2>1, <2>2, <2>3, <2>4
<1> QED
  BY <1>1, <1>2, <1>4 DEF PhoneInv

\* A start of the app: no call, nothing shown.
LEMMA NoCalls ==
  ASSUME call = [c \in Calls |-> Idle], issued \in 0 .. MaxTokens
  PROVE  CallsSound /\ \A c \in Calls : call[c].token \in 0 .. issued
<1>1. \A c \in Calls : call[c] = Idle
  OBVIOUS
<1>2. 0 \in 0 .. issued
  BY Bounds
<1> QED
  BY <1>1, <1>2, IdleSound DEF CallsSound, Sound

LEMMA RestartSound ==
  ASSUME PhoneInv, AppRestart
  PROVE  PhoneInv'
<1>1. CallsSound' /\ \A c \in Calls : call'[c].token \in 0 .. issued
  <2>1. call' = [c \in Calls |-> Idle] /\ issued' = issued /\ issued \in 0 .. MaxTokens
    BY DEF AppRestart, PhoneInv, WorldTypeOK
  <2>2. \A c \in Calls : call'[c] = Idle
    BY <2>1
  <2>3. 0 \in 0 .. issued
    BY <2>1, Bounds
  <2>4. call' \in [Calls -> CallSet]
    BY <2>1, IdleSound DEF Sound
  <2>5. \A c \in Calls : Sound(c, call'[c])
    BY <2>2, IdleSound
  <2> QED
    BY <2>2, <2>3, <2>4, <2>5, IdleSound DEF CallsSound, Sound
<1>2. trouble' \in 0 .. MaxTrouble
  BY PhoneAssumption DEF PhoneAssumption, AppRestart, PhoneInv, WorldTypeOK
<1>3. Issued'
  BY <1>1 DEF AppRestart, PhoneInv, Issued
<1>4. ShownTypeOK' /\ ScreenSound'
  BY Zero DEF AppRestart, ShownTypeOK, ScreenSound
<1> QED
  BY <1>1, <1>2, <1>3, <1>4 DEF AppRestart, PhoneInv, WorldTypeOK

LEMMA PhoneInitInv == PhoneInit => PhoneInv
<1> SUFFICES ASSUME PhoneInit PROVE PhoneInv
  OBVIOUS
<1>1. issued \in 0 .. MaxTokens /\ token \in 0 .. issued /\ valid \subseteq 1 .. issued
  <2>1. token \in {0, 1} /\ issued = token /\ valid = Tokens \cap {token}
    BY Bounds DEF PhoneInit
  <2>2. 0 \notin Tokens
    BY DEF Tokens
  <2> QED
    BY <2>1, <2>2, Bounds
<1>2. CallsSound /\ \A c \in Calls : call[c].token \in 0 .. issued
  BY <1>1, NoCalls DEF PhoneInit
<1>3. WorldTypeOK
  BY <1>1, Zero, PhoneAssumption DEF PhoneAssumption, PhoneInit, WorldTypeOK
<1>4. ShownTypeOK
  BY Zero DEF PhoneInit, ShownTypeOK
<1> QED
  BY <1>1, <1>2, <1>3, <1>4 DEF PhoneInit, PhoneInv, Issued, ScreenSound

LEMMA PhoneStep == PhoneInv /\ [PhoneNext]_phoneVars => PhoneInv'
<1> SUFFICES ASSUME PhoneInv, [PhoneNext]_phoneVars PROVE PhoneInv'
  OBVIOUS
<1>1. CASE UNCHANGED phoneVars
  BY <1>1 DEF phoneVars, PhoneInv, ShownTypeOK, WorldTypeOK, CallsSound, Sound, Issued, ScreenSound
<1>2. CASE PhoneNext
  BY <1>2, ServedSound, ReceivedSound, FallsBackSound, FailsSound, DashboardSound, ScreensSound,
     LoginSound, WorldSound, RestartSound DEF PhoneNext, CallStep
<1> QED
  BY <1>1, <1>2

\* The phone's type invariant, however requests, answers, logins and restarts of
\* the app interleave.
THEOREM PhoneTypes == PhoneSpec => []PhoneTypeOK
  BY PhoneInitInv, PhoneStep, TypeFromParts, PTL DEF PhoneSpec

\* The tokens that are saved, carried by a request or accepted by the server are
\* ones it has issued (api_service.dart authToken, pairWithQR).
THEOREM PhoneTokens == PhoneSpec => []Issued
<1>1. PhoneInv => Issued
  BY DEF PhoneInv
<1> QED
  BY <1>1, PhoneInitInv, PhoneStep, PTL DEF PhoneSpec

=============================================================================
