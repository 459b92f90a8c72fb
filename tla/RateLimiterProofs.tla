------------------------- MODULE RateLimiterProofs -------------------------
(* Theorems about RateLimiter, for every set of handlers and addresses and     *)
(* every rate, burst, limit and lockout.                                       *)
EXTENDS RateLimiter, TLAPS

Holding == Arriving \cup {"record", "reset"}

-----------------------------------------------------------------------------
(* What the operators on one visitor return. *)

LEMMA FreshType == Fresh \in Visitors
  BY LimiterAssumption DEF Fresh, Visitors

LEMMA VisitorTypes ==
  ASSUME NEW v \in Visitors
  PROVE  /\ Charged(v) \in Visitors /\ Blamed(v) \in Visitors /\ Aged(v) \in Visitors
         /\ [v EXCEPT !.failures = 0] \in Visitors
<1> USE LimiterAssumption DEF Visitors
<1>1. Refilled(v) \in 0 .. Cap
  BY DEF Refilled, Lesser
<1>2. Grants(v) => Refilled(v) - Period \in 0 .. Cap
  BY <1>1 DEF Grants
<1>3. Charged(v) \in Visitors
  <2>1. ASSUME NEW x \in 0 .. Cap PROVE [v EXCEPT !.credit = x, !.idle = 0] \in Visitors
    <3>1. 0 \in 0 .. IdleLimit + 1
      OBVIOUS
    <3> QED
      BY <3>1
  <2>2. CASE Locked(v)
    BY <2>2 DEF Charged
  <2>3. CASE ~Locked(v) /\ Grants(v)
    BY <1>2, <2>1, <2>3 DEF Charged
  <2>4. CASE ~Locked(v) /\ ~Grants(v)
    BY <1>1, <2>1, <2>4 DEF Charged
  <2> QED
    BY <2>2, <2>3, <2>4
<1>4. Blamed(v) \in Visitors
  <2>1. CASE ReachesLimit(v)
    <3>1. 0 \in 0 .. Limit - 1 /\ Lockout \in -1 .. Lockout
      OBVIOUS
    <3>2. [v EXCEPT !.failures = 0, !.lock = Lockout] \in Visitors
      BY <3>1
    <3> QED
      BY <2>1, <3>2 DEF Blamed
  <2>2. CASE ~ReachesLimit(v)
    <3>1. v.failures + 1 \in 0 .. Limit - 1
      BY <2>2 DEF ReachesLimit
    <3>2. [v EXCEPT !.failures = v.failures + 1] \in Visitors
      BY <3>1
    <3> QED
      BY <2>2, <3>2 DEF Blamed
  <2> QED
    BY <2>1, <2>2
<1>5. Aged(v) \in Visitors
  <2>1. Lesser(v.idle + 1, IdleLimit + 1) \in 0 .. IdleLimit + 1
    BY DEF Lesser
  <2>2. Greater(v.lock - 1, -1) \in -1 .. Lockout
    BY DEF Greater
  <2> QED
    BY <2>1, <2>2 DEF Aged
<1> QED
  BY <1>3, <1>4, <1>5

\* Allow takes exactly the price of a request, and nothing if it refuses.
LEMMA ChargedFacts ==
  ASSUME NEW v \in Visitors
  PROVE  /\ Refilled(Charged(v)) = IF Grants(v) THEN Refilled(v) - Period ELSE Refilled(v)
         /\ Charged(v).lock = v.lock
  BY LimiterAssumption DEF Charged, Refilled, Grants, Visitors, Lesser, Locked

LEMMA BlamedFacts ==
  ASSUME NEW v \in Visitors
  PROVE  /\ Refilled(Blamed(v)) = Refilled(v)
         /\ Blamed(v).lock = IF ReachesLimit(v) THEN Lockout ELSE v.lock
  BY LimiterAssumption DEF Blamed, Refilled, Visitors

\* A tick refills at most one, up to Cap, and an idle visitor is full.
LEMMA AgedFacts ==
  ASSUME NEW v \in Visitors
  PROVE  /\ Refilled(Aged(v)) <= Refilled(v) + 1 /\ Refilled(Aged(v)) <= Cap
         /\ Refilled(Aged(v)) \in Nat
         /\ Aged(v).lock = Greater(v.lock - 1, -1)
  BY LimiterAssumption DEF Aged, Refilled, Visitors, Lesser, Greater

LEMMA RemovableFull ==
  ASSUME NEW v \in Visitors, Removable(v) PROVE Refilled(v) = Cap /\ v.lock = -1
  BY LimiterAssumption DEF Removable, Refilled, Visitors, Lesser

-----------------------------------------------------------------------------
(* Type correctness. *)

LEMMA CollectType ==
  ASSUME NEW mem, NEW vis, NEW ptrs, mem \in [Cells -> Visitors]
  PROVE  Collect(mem, vis, ptrs) \in [Cells -> Visitors]
  BY FreshType DEF Collect

LEMMA UpdateType ==
  ASSUME TypeOK, NEW h \in Handlers, NEW v \in Visitors, Update(h, v)
  PROVE  /\ visitors' \in [Keys -> Cells \cup {Nil}] /\ cell' \in [Cells -> Visitors]
         /\ ptr' \in [Handlers -> Cells \cup {Nil}]
<1>1. [cell EXCEPT ![ptr[h]] = v] \in [Cells -> Visitors]
  BY DEF TypeOK
<1> QED
  BY <1>1, CollectType DEF Update, TypeOK

LEMMA GetVisitorType ==
  ASSUME TypeOK, NEW h \in Handlers, NEW k \in Keys, GetVisitor(h, k)
  PROVE  /\ visitors' \in [Keys -> Cells \cup {Nil}] /\ cell' \in [Cells -> Visitors]
         /\ ptr' \in [Handlers -> Cells \cup {Nil}]
         /\ ptr'[h] \in Cells /\ visitors'[k] = ptr'[h]
<1>1. CASE visitors[k] # Nil
  BY <1>1 DEF GetVisitor, TypeOK
<1>2. CASE visitors[k] = Nil
  <2> DEFINE c == CHOOSE c \in Free : TRUE
  <2>1. c \in Free /\ Free \subseteq Cells
    BY <1>2 DEF GetVisitor, Free
  <2>2. /\ visitors' = [visitors EXCEPT ![k] = c]
        /\ ptr' = [ptr EXCEPT ![h] = c]
        /\ cell' = [cell EXCEPT ![c] = Fresh]
    BY <1>2 DEF GetVisitor
  <2> HIDE DEF c
  <2> QED
    BY <2>1, <2>2, FreshType DEF TypeOK
<1> QED
  BY <1>1, <1>2

\* A request that is being served has its addresses, and a pointer where it needs one.
InHand ==
    \A h \in Handlers :
        /\ req[h].step # "none" => req[h].ip \in Ips /\ req[h].addr \in Addrs
        /\ req[h].step \in Holding => ptr[h] \in Cells

LEMMA InitType == Init => TypeOK /\ InHand
<1> SUFFICES ASSUME Init PROVE TypeOK /\ InHand
  OBVIOUS
<1>1. NoRequest \in Requests /\ NoRequest.step = "none"
  BY DEF NoRequest, Requests, Steps
<1>2. 0 \in 0 .. Lockout /\ 0 \in 0 .. Limit
  BY LimiterAssumption
<1>3. TypeOK
  BY <1>1, <1>2, FreshType DEF Init, TypeOK, Nil
<1>4. InHand
  BY <1>1 DEF Init, InHand, Holding, Arriving
<1> QED
  BY <1>3, <1>4

LEMMA GotoType ==
  ASSUME TypeOK, NEW h \in Handlers, NEW step \in Steps
  PROVE  [req EXCEPT ![h].step = step] \in [Handlers -> Requests]
<1>1. [req[h] EXCEPT !.step = step] \in Requests
  BY DEF TypeOK, Requests
<1> QED
  BY <1>1 DEF TypeOK

LEMMA FinishType ==
  ASSUME TypeOK, NEW h \in Handlers
  PROVE  [req EXCEPT ![h] = NoRequest] \in [Handlers -> Requests]
  BY DEF TypeOK, NoRequest, Requests, Steps

LEMMA LessType ==
  /\ \A X, f : f \in [X -> Nat] => Less(f) \in [X -> Nat]
  /\ \A X, f : f \in [X -> 0 .. Lockout] => Less(f) \in [X -> 0 .. Lockout]
  BY LimiterAssumption DEF Less, Greater

LEMMA StepType ==
  ASSUME TypeOK, InHand, [Next]_vars PROVE TypeOK' /\ InHand'
<1> USE LimiterAssumption DEF Nil
<1>1. ASSUME NEW h \in Handlers, NEW step \in Arriving, NEW i \in Ips, NEW a \in Addrs,
             Arrive(h, step, i, a)
      PROVE  TypeOK' /\ InHand'
  <2>1. [step |-> step, ip |-> i, addr |-> a] \in Requests
    BY DEF Requests, Steps
  <2>2. req' \in [Handlers -> Requests] /\ barred' \in [Handlers -> 0 .. Lockout]
    BY <1>1, <2>1 DEF Arrive, TypeOK
  <2>3. TypeOK'
    BY <1>1, <2>2, GetVisitorType DEF Arrive, TypeOK, Keys
  <2>4. ptr'[h] \in Cells /\ \A g \in Handlers \ {h} : ptr'[g] = ptr[g]
    BY <1>1, GetVisitorType DEF Arrive, GetVisitor, TypeOK, Keys
  <2>5. InHand'
    BY <1>1, <2>4 DEF Arrive, InHand, TypeOK
  <2> QED
    BY <2>3, <2>5
<1>2. ASSUME NEW h \in Handlers, Allow(h) PROVE TypeOK' /\ InHand'
  <2>1. cell[ptr[h]] \in Visitors
    BY <1>2 DEF Allow, InHand, Holding, Arriving, TypeOK
  <2>2. spent' \in [Ips -> Nat]
    BY <1>2 DEF Allow, TypeOK
  <2>3. req' \in [Handlers -> Requests]
    BY <1>2, GotoType, FinishType DEF Allow, Goto, Finish, Steps, Working
  <2>6. /\ visitors' \in [Keys -> Cells \cup {Nil}] /\ cell' \in [Cells -> Visitors]
        /\ ptr' \in [Handlers -> Cells \cup {Nil}]
    BY <1>2, <2>1, UpdateType, VisitorTypes DEF Allow
  <2>4. TypeOK'
    <3>1. barred' \in [Handlers -> 0 .. Lockout]
      BY <1>2 DEF Allow, TypeOK
    <3> QED
      BY <1>2, <2>2, <2>3, <2>6, <3>1 DEF Allow, TypeOK
  <2>5. InHand'
    BY <1>2 DEF Allow, InHand, Goto, Finish, NoRequest, Update, TypeOK, Requests,
       Holding, Arriving
  <2> QED
    BY <2>4, <2>5
<1>3. ASSUME NEW h \in Handlers, IsLocked(h) PROVE TypeOK' /\ InHand'
  <2>1. cell[ptr[h]] \in Visitors
    BY <1>3 DEF IsLocked, InHand, Holding, Arriving, TypeOK
  <2>2. req' \in [Handlers -> Requests]
    BY <1>3, GotoType, FinishType DEF IsLocked, Goto, Finish, Steps, Working
  <2>5. /\ visitors' \in [Keys -> Cells \cup {Nil}] /\ cell' \in [Cells -> Visitors]
        /\ ptr' \in [Handlers -> Cells \cup {Nil}]
    BY <1>3, <2>1, UpdateType DEF IsLocked
  <2>3. TypeOK'
    <3>1. barred' \in [Handlers -> 0 .. Lockout]
      BY <1>3 DEF IsLocked, TypeOK
    <3> QED
      BY <1>3, <2>2, <2>5, <3>1 DEF IsLocked, TypeOK
  <2>4. InHand'
    BY <1>3 DEF IsLocked, InHand, Goto, Finish, NoRequest, Update, TypeOK, Requests,
       Holding, Arriving
  <2> QED
    BY <2>3, <2>4
<1>4. ASSUME NEW h \in Handlers, Judge(h) PROVE TypeOK' /\ InHand'
  <2>1. PICK k \in Keys : GetVisitor(h, k)
    BY <1>4 DEF Judge, InHand, Keys
  <2>2. req' \in [Handlers -> Requests]
    BY <1>4, GotoType DEF Judge, Goto, Steps
  <2>3. TypeOK'
    BY <1>4, <2>1, <2>2, GetVisitorType DEF Judge, TypeOK, history
  <2>4. ptr'[h] \in Cells /\ \A g \in Handlers \ {h} : ptr'[g] = ptr[g]
    BY <2>1, GetVisitorType DEF GetVisitor, TypeOK
  <2>5. InHand'
    BY <1>4, <2>4 DEF Judge, InHand, Goto, TypeOK, Requests
  <2> QED
    BY <2>3, <2>5
<1>5. ASSUME NEW h \in Handlers, Answer(h) PROVE TypeOK' /\ InHand'
  BY <1>5, FinishType DEF Answer, Finish, TypeOK, InHand, NoRequest, history, Holding, Arriving
<1>6. ASSUME NEW h \in Handlers, RecordAuthFailure(h) PROVE TypeOK' /\ InHand'
  <2>1. cell[ptr[h]] \in Visitors
    BY <1>6 DEF RecordAuthFailure, InHand, Holding, TypeOK
  <2>2. lockedFor' \in [Ips -> 0 .. Lockout] /\ failed' \in [Ips -> 0 .. Limit]
    BY <1>6 DEF RecordAuthFailure, TypeOK, Lesser
  <2>3. TypeOK'
    BY <1>6, <2>1, <2>2, FinishType, UpdateType, VisitorTypes
    DEF RecordAuthFailure, Finish, TypeOK
  <2>4. InHand'
    BY <1>6 DEF RecordAuthFailure, InHand, Finish, NoRequest, Update, TypeOK,
       Holding, Arriving
  <2> QED
    BY <2>3, <2>4
<1>7. ASSUME NEW h \in Handlers, ResetAuthFailures(h) PROVE TypeOK' /\ InHand'
  <2>1. cell[ptr[h]] \in Visitors
    BY <1>7 DEF ResetAuthFailures, InHand, Holding, TypeOK
  <2>2. failed' \in [Ips -> 0 .. Limit]
    <3>1. failed \in [Ips -> 0 .. Limit] /\ 0 \in 0 .. Limit
      BY DEF TypeOK
    <3> QED
      BY <1>7, <3>1 DEF ResetAuthFailures
  <2>3. TypeOK'
    BY <1>7, <2>1, <2>2, FinishType, UpdateType, VisitorTypes
    DEF ResetAuthFailures, Finish, TypeOK
  <2>4. InHand'
    BY <1>7 DEF ResetAuthFailures, InHand, Finish, NoRequest, Update, TypeOK,
       Holding, Arriving
  <2> QED
    BY <2>3, <2>4
<1>8. CASE Cleanup
  <2>1. visitors' \in [Keys -> Cells \cup {Nil}]
    BY <1>8 DEF Cleanup, TypeOK
  <2> QED
    BY <1>8, <2>1, CollectType DEF Cleanup, TypeOK, InHand, history
<1>9. CASE Tick
  <2>1. [c \in Cells |-> Aged(cell[c])] \in [Cells -> Visitors]
    BY VisitorTypes DEF TypeOK
  <2> QED
    BY <1>9, <2>1, CollectType, LessType DEF Tick, TypeOK, InHand
<1>10. CASE UNCHANGED vars
  BY <1>10 DEF vars, history, TypeOK, InHand
<1> QED
  BY <1>1, <1>2, <1>3, <1>4, <1>5, <1>6, <1>7, <1>8, <1>9, <1>10 DEF Next, Serve

\* The limiter keeps its types.
THEOREM TypeCorrect == Spec => []TypeOK
<1>1. Spec => [](TypeOK /\ InHand)
  BY InitType, StepType, PTL DEF Spec
<1> QED
  BY <1>1, PTL

-----------------------------------------------------------------------------
(* The bucket and the lockout.  A pointer a request holds leads to the         *)
(* visitor of its own IP or to none in the map; the credit of a visitor and    *)
(* the requests it has granted never exceed Cap; the lockout of a visitor in   *)
(* the map is as long as the history says, so cleanup has to leave it there.   *)

\* No two keys share a visitor.
Own == \A k, j \in Keys : visitors[k] = visitors[j] /\ visitors[k] # Nil => k = j

OwnIp ==
    \A h \in Handlers, k \in Keys :
        req[h].step \in Arriving /\ visitors[k] = ptr[h] => k = req[h].ip

Budget ==
    \A i \in Ips : IF visitors[i] = Nil THEN spent[i] = 0
                    ELSE Refilled(cell[visitors[i]]) + spent[i] <= Cap

Locks ==
    \A i \in Ips : lockedFor[i] > 0 => /\ visitors[i] # Nil
                                        /\ cell[visitors[i]].lock >= lockedFor[i]

Bars ==
    \A h \in Handlers : barred[h] > 0 =>
        /\ req[h].step \in Arriving
        /\ visitors[req[h].ip] = ptr[h]
        /\ cell[ptr[h]].lock >= barred[h]

LimitInv == Own /\ OwnIp /\ Budget /\ Locks /\ Bars

LEMMA LimitInit == Init => LimitInv
  BY DEF Init, LimitInv, Own, OwnIp, Budget, Locks, Bars, NoRequest, Arriving, Keys

\* After Update the visitors that are in use are what they were, but for the one
\* the handler held.
LEMMA UpdateFacts ==
  ASSUME TypeOK, NEW h \in Handlers, NEW v \in Visitors, ptr[h] \in Cells, Update(h, v)
  PROVE  /\ visitors' = visitors /\ ptr' = [ptr EXCEPT ![h] = Nil]
         /\ \A k \in Keys : visitors[k] # Nil =>
               cell'[visitors[k]] = IF visitors[k] = ptr[h] THEN v ELSE cell[visitors[k]]
         /\ \A g \in Handlers \ {h} : ptr[g] # Nil =>
               cell'[ptr[g]] = IF ptr[g] = ptr[h] THEN v ELSE cell[ptr[g]]
<1>1. visitors' = visitors /\ ptr' = [ptr EXCEPT ![h] = Nil]
  BY DEF Update
<1>2. ASSUME NEW c \in Cells, Used(visitors, ptr', c)
      PROVE  cell'[c] = IF c = ptr[h] THEN v ELSE cell[c]
  BY <1>2 DEF Update, Collect, TypeOK
<1>3. \A k \in Keys : visitors[k] # Nil => visitors[k] \in Cells /\ Used(visitors, ptr', visitors[k])
  BY DEF Used, TypeOK
<1>4. \A g \in Handlers \ {h} : ptr[g] # Nil => ptr[g] \in Cells /\ Used(visitors, ptr', ptr[g])
  BY <1>1 DEF Used, TypeOK
<1> QED
  BY <1>1, <1>2, <1>3, <1>4

\* getVisitor leaves every visitor in use alone; a new one is in nobody's hands.
LEMMA GetVisitorFacts ==
  ASSUME TypeOK, NEW h \in Handlers, NEW k \in Keys, GetVisitor(h, k)
  PROVE  /\ ptr'[h] \in Cells /\ visitors'[k] = ptr'[h]
         /\ \A j \in Keys \ {k} : visitors'[j] = visitors[j]
         /\ \A g \in Handlers \ {h} : ptr'[g] = ptr[g]
         /\ \A j \in Keys : visitors[j] # Nil => /\ visitors'[j] = visitors[j]
                                                 /\ cell'[visitors[j]] = cell[visitors[j]]
         /\ \A g \in Handlers : ptr[g] # Nil => cell'[ptr[g]] = cell[ptr[g]]
         /\ visitors[k] = Nil =>
               /\ cell'[visitors'[k]] = Fresh
               /\ \A j \in Keys : visitors[j] # visitors'[k]
               /\ \A g \in Handlers : ptr[g] # visitors'[k]
<1>1. CASE visitors[k] # Nil
  BY <1>1 DEF GetVisitor, TypeOK
<1>2. CASE visitors[k] = Nil
  <2> DEFINE c == CHOOSE c \in Free : TRUE
  <2>1. c \in Cells /\ ~Used(visitors, ptr, c)
    BY <1>2 DEF GetVisitor, Free
  <2>2. /\ visitors' = [visitors EXCEPT ![k] = c]
        /\ ptr' = [ptr EXCEPT ![h] = c]
        /\ cell' = [cell EXCEPT ![c] = Fresh]
    BY <1>2 DEF GetVisitor
  <2> HIDE DEF c
  <2> QED
    BY <1>2, <2>1, <2>2 DEF TypeOK, Used
<1> QED
  BY <1>1, <1>2

OwnIpOf(h) == \A k \in Keys :
    req[h].step \in Arriving /\ visitors[k] = ptr[h] => k = req[h].ip

BarOf(h) == barred[h] > 0 =>
    /\ req[h].step \in Arriving
    /\ visitors[req[h].ip] = ptr[h]
    /\ cell[ptr[h]].lock >= barred[h]

\* What getVisitor keeps of the invariant: all of it but for the handler itself.
LEMMA GetVisitorKeeps ==
  ASSUME TypeOK, InHand, LimitInv, NEW h \in Handlers, NEW k \in Keys, GetVisitor(h, k),
         UNCHANGED <<spent, lockedFor>>,
         \A g \in Handlers \ {h} : req'[g] = req[g] /\ barred'[g] = barred[g]
  PROVE  /\ Own' /\ Budget' /\ Locks'
         /\ \A g \in Handlers \ {h} : OwnIpOf(g)' /\ BarOf(g)'
<1> USE GetVisitorFacts DEF LimitInv
<1>1. Own'
  <2> SUFFICES ASSUME NEW i \in Keys, NEW j \in Keys,
                      visitors'[i] = visitors'[j], visitors'[i] # Nil
               PROVE  i = j
    BY DEF Own
  <2>1. CASE visitors[k] # Nil
    BY <2>1 DEF Own
  <2>2. CASE visitors[k] = Nil
    BY <2>2 DEF Own
  <2> QED
    BY <2>1, <2>2
<1>2. Budget'
  <2> SUFFICES ASSUME NEW i \in Ips
               PROVE  IF visitors'[i] = Nil THEN spent'[i] = 0
                      ELSE Refilled(cell'[visitors'[i]]) + spent'[i] <= Cap
    BY DEF Budget, Refilled
  <2>1. CASE visitors[i] # Nil
    BY <2>1 DEF Budget, Keys
  <2>2. CASE visitors[i] = Nil /\ i = k
    <3>1. Refilled(Fresh) = Cap
      BY LimiterAssumption DEF Refilled, Fresh, Lesser
    <3> QED
      BY <2>2, <3>1, LimiterAssumption DEF Budget, Nil, Cells
  <2>3. CASE visitors[i] = Nil /\ i # k
    BY <2>3 DEF Budget, Keys
  <2> QED
    BY <2>1, <2>2, <2>3
<1>3. Locks'
  BY DEF Locks, Keys
<1>4. ASSUME NEW g \in Handlers \ {h} PROVE OwnIpOf(g)' /\ BarOf(g)'
  <2>1. req[g].step \in Arriving => ptr[g] \in Cells /\ ptr[g] # Nil /\ req[g].ip \in Keys
    BY DEF InHand, Holding, Arriving, Cells, Nil, Keys
  <2>2. OwnIpOf(g)'
    <3>1. OwnIpOf(g)
      BY DEF OwnIp, OwnIpOf
    <3>2. req'[g] = req[g] /\ ptr'[g] = ptr[g]
      OBVIOUS
    <3> SUFFICES ASSUME NEW j \in Keys, req[g].step \in Arriving, visitors'[j] = ptr[g]
                 PROVE  visitors[j] = ptr[g]
      BY <3>1, <3>2 DEF OwnIpOf
    <3>3. CASE visitors[j] # Nil
      BY <3>3
    <3>4. CASE visitors[j] = Nil /\ j # k
      BY <3>4
    <3>5. CASE visitors[j] = Nil /\ j = k
      BY <3>5
    <3> QED
      BY <3>3, <3>4, <3>5
  <2>3. BarOf(g)'
    <3>1. BarOf(g)
      BY DEF Bars, BarOf
    <3> QED
      BY <2>1, <3>1 DEF BarOf
  <2> QED
    BY <2>2, <2>3
<1> QED
  BY <1>1, <1>2, <1>3, <1>4

\* The same for a handler that puts its visitor back, with a lockout no shorter.
LEMMA UpdateKeeps ==
  ASSUME TypeOK, InHand, LimitInv, NEW h \in Handlers, NEW v \in Visitors,
         ptr[h] \in Cells, Update(h, v), v.lock >= cell[ptr[h]].lock,
         \A g \in Handlers \ {h} : req'[g] = req[g] /\ barred'[g] = barred[g]
  PROVE  /\ Own'
         /\ lockedFor' = lockedFor => Locks'
         /\ spent' = spent /\ Refilled(v) = Refilled(cell[ptr[h]]) => Budget'
         /\ \A g \in Handlers \ {h} : OwnIpOf(g)' /\ BarOf(g)'
<1> USE UpdateFacts DEF LimitInv
<1>1. Own'
  BY DEF Own
<1>2. lockedFor' = lockedFor => Locks'
  <2> SUFFICES ASSUME lockedFor' = lockedFor, NEW i \in Ips, lockedFor[i] > 0
               PROVE  visitors[i] # Nil /\ cell'[visitors[i]].lock >= lockedFor[i]
    BY DEF Locks
  <2>1. visitors[i] # Nil /\ cell[visitors[i]].lock >= lockedFor[i]
    BY DEF Locks
  <2>2. visitors[i] \in Cells
    BY <2>1 DEF TypeOK, Keys
  <2>3. cell[visitors[i]].lock \in Int /\ v.lock \in Int /\ lockedFor[i] \in Int
    BY <2>2, LimiterAssumption DEF TypeOK, Visitors
  <2> QED
    BY <2>1, <2>3 DEF Keys
<1>3. spent' = spent /\ Refilled(v) = Refilled(cell[ptr[h]]) => Budget'
  <2> SUFFICES ASSUME spent' = spent, Refilled(v) = Refilled(cell[ptr[h]]), NEW i \in Ips
               PROVE  IF visitors[i] = Nil THEN spent[i] = 0
                      ELSE Refilled(cell'[visitors[i]]) + spent[i] <= Cap
    BY DEF Budget, Refilled
  <2> QED
    BY DEF Budget, Keys
<1>4. ASSUME NEW g \in Handlers \ {h} PROVE OwnIpOf(g)' /\ BarOf(g)'
  <2>1. OwnIpOf(g)'
    BY DEF OwnIp, OwnIpOf, TypeOK
  <2>2. BarOf(g)'
    <3> SUFFICES ASSUME barred[g] > 0
                 PROVE  /\ req[g].step \in Arriving /\ visitors[req[g].ip] = ptr[g]
                        /\ cell'[ptr[g]].lock >= barred[g]
      BY DEF BarOf, TypeOK
    <3>1. /\ req[g].step \in Arriving /\ visitors[req[g].ip] = ptr[g]
          /\ cell[ptr[g]].lock >= barred[g]
      BY DEF Bars
    <3>2. ptr[g] \in Cells /\ ptr[g] # Nil
      BY <3>1 DEF InHand, Holding, Cells, Nil
    <3>3. cell[ptr[g]].lock \in Int /\ v.lock \in Int /\ barred[g] \in Int
      BY <3>2, LimiterAssumption DEF TypeOK, Visitors
    <3> QED
      BY <3>1, <3>2, <3>3
  <2> QED
    BY <2>1, <2>2
<1> QED
  BY <1>1, <1>2, <1>3, <1>4

\* A handler whose request neither waits nor is barred satisfies its part.
LEMMA Harmless ==
  ASSUME NEW h \in Handlers, barred'[h] = 0, req'[h].step \notin Arriving
  PROVE  OwnIpOf(h)' /\ BarOf(h)'
  BY DEF OwnIpOf, BarOf

LEMMA Gather ==
  ASSUME Own', Budget', Locks', \A h \in Handlers : OwnIpOf(h)' /\ BarOf(h)'
  PROVE  LimitInv'
  BY DEF LimitInv, OwnIp, Bars, OwnIpOf, BarOf

LEMMA LimitStep ==
  ASSUME TypeOK, InHand, TypeOK', InHand', LimitInv, [Next]_vars PROVE LimitInv'
<1> USE LimiterAssumption
<1>1. ASSUME NEW h \in Handlers, NEW step \in Arriving, NEW i \in Ips, NEW a \in Addrs,
             Arrive(h, step, i, a)
      PROVE  LimitInv'
  <2>1. i \in Keys /\ GetVisitor(h, i) /\ req'[h].ip = i /\ barred'[h] = lockedFor[i]
    BY <1>1 DEF Arrive, TypeOK, Keys
  <2>2. /\ Own' /\ Budget' /\ Locks'
        /\ \A g \in Handlers \ {h} : OwnIpOf(g)' /\ BarOf(g)'
    BY <1>1, <2>1, GetVisitorKeeps DEF Arrive, TypeOK
  <2>3. visitors'[i] = ptr'[h] /\ ptr'[h] # Nil
    BY <2>1, GetVisitorFacts DEF Nil, Cells
  <2>4. OwnIpOf(h)'
    BY <2>1, <2>2, <2>3 DEF Own, OwnIpOf
  <2>5. BarOf(h)'
    <3> SUFFICES ASSUME lockedFor[i] > 0 PROVE cell'[ptr'[h]].lock >= lockedFor[i]
      BY <1>1, <2>1, <2>3 DEF BarOf, Arrive, TypeOK
    <3> QED
      BY <2>1, <2>3, GetVisitorFacts DEF LimitInv, Locks
  <2> QED
    BY <2>2, <2>4, <2>5, Gather
<1>2. ASSUME NEW h \in Handlers, Allow(h) PROVE LimitInv'
  <2> DEFINE v == cell[ptr[h]]
             i == req[h].ip
  <2>1. ptr[h] \in Cells /\ v \in Visitors /\ i \in Ips /\ req[h].step \in Arriving
    BY <1>2 DEF Allow, InHand, Holding, Arriving, TypeOK
  <2>2. Update(h, Charged(v)) /\ Charged(v) \in Visitors /\ Charged(v).lock = v.lock
    BY <1>2, <2>1, VisitorTypes, ChargedFacts DEF Allow
  <2>3. \A g \in Handlers \ {h} : req'[g] = req[g] /\ barred'[g] = barred[g]
    BY <1>2 DEF Allow, Goto, Finish, TypeOK
  <2>4. v.lock \in Int
    BY <2>1 DEF Visitors
  <2>5. Own' /\ Locks' /\ \A g \in Handlers \ {h} : OwnIpOf(g)' /\ BarOf(g)'
    <3>1. lockedFor' = lockedFor
      BY <1>2 DEF Allow
    <3> QED
      BY <2>1, <2>2, <2>3, <2>4, <3>1, UpdateKeeps
  <2>6. OwnIpOf(h)' /\ BarOf(h)'
    <3>1. barred'[h] = 0 /\ req'[h].step \notin Arriving
      BY <1>2 DEF Allow, Goto, Finish, NoRequest, TypeOK, Requests, Arriving
    <3> QED
      BY <3>1, Harmless
  <2>7. Budget'
    <3>1. CASE ~Grants(v)
      <4>1. spent' = spent /\ Refilled(Charged(v)) = Refilled(v)
        BY <1>2, <2>1, <3>1, ChargedFacts DEF Allow
      <4> QED
        BY <2>1, <2>2, <2>3, <2>4, <4>1, UpdateKeeps
    <3>2. CASE Grants(v)
      <4>1. /\ Refilled(Charged(v)) = Refilled(v) - Period /\ Refilled(v) \in Int
            /\ spent' = IF visitors[i] = ptr[h] THEN [spent EXCEPT ![i] = @ + Period]
                        ELSE spent
        BY <1>2, <2>1, <3>2, ChargedFacts DEF Allow, Refilled, Visitors, Lesser
      <4> SUFFICES ASSUME NEW j \in Ips
                   PROVE  IF visitors[j] = Nil THEN spent'[j] = 0
                          ELSE Refilled(cell'[visitors[j]]) + spent'[j] <= Cap
        BY <2>1, <2>2, UpdateFacts DEF Budget, Refilled
      <4>2. j \in Keys /\ spent[j] \in Nat
        BY DEF Keys, TypeOK
      <4>3. IF visitors[j] = Nil THEN spent[j] = 0
            ELSE Refilled(cell[visitors[j]]) + spent[j] <= Cap
        BY DEF LimitInv, Budget
      <4>4. visitors[j] # Nil =>
              cell'[visitors[j]] = IF visitors[j] = ptr[h] THEN Charged(v)
                                   ELSE cell[visitors[j]]
        BY <2>1, <2>2, <4>2, UpdateFacts
      <4>5. visitors[j] = ptr[h] => j = i /\ visitors[j] # Nil
        BY <2>1, <4>2 DEF LimitInv, OwnIp, Cells, Nil
      <4>6. CASE visitors[j] = ptr[h]
        <5>1. spent'[j] = spent[j] + Period /\ cell'[visitors[j]] = Charged(v)
          BY <2>1, <4>1, <4>4, <4>5, <4>6 DEF TypeOK
        <5>2. Refilled(v) + spent[j] <= Cap
          BY <4>3, <4>5, <4>6
        <5> QED
          BY <4>1, <4>2, <4>5, <4>6, <5>1, <5>2
      <4>7. CASE visitors[j] # ptr[h]
        <5>1. spent'[j] = spent[j]
          BY <4>1, <4>7 DEF TypeOK
        <5> QED
          BY <4>3, <4>4, <4>7, <5>1
      <4> QED
        BY <4>6, <4>7
    <3> QED
      BY <3>1, <3>2
  <2> QED
    BY <2>5, <2>6, <2>7, Gather
<1>3. ASSUME NEW h \in Handlers, IsLocked(h) PROVE LimitInv'
  <2>1. ptr[h] \in Cells /\ cell[ptr[h]] \in Visitors
    BY <1>3 DEF IsLocked, InHand, Holding, Arriving, TypeOK
  <2>2. \A g \in Handlers \ {h} : req'[g] = req[g] /\ barred'[g] = barred[g]
    BY <1>3 DEF IsLocked, Goto, Finish, TypeOK
  <2>3. cell[ptr[h]].lock \in Int
    BY <2>1 DEF Visitors
  <2>4. UNCHANGED <<spent, lockedFor>> /\ Update(h, cell[ptr[h]])
    BY <1>3 DEF IsLocked
  <2>5. /\ Own' /\ Locks' /\ Budget'
        /\ \A g \in Handlers \ {h} : OwnIpOf(g)' /\ BarOf(g)'
    BY <2>1, <2>2, <2>3, <2>4, UpdateKeeps
  <2>6. barred'[h] = 0 /\ req'[h].step \notin Arriving
    BY <1>3 DEF IsLocked, Goto, Finish, NoRequest, TypeOK, Requests, Arriving
  <2> QED
    BY <2>5, <2>6, Harmless, Gather
<1>4. ASSUME NEW h \in Handlers, Judge(h) PROVE LimitInv'
  <2>1. PICK k \in Keys : GetVisitor(h, k)
    BY <1>4 DEF Judge, InHand, Keys
  <2>2. /\ \A g \in Handlers \ {h} : req'[g] = req[g] /\ barred'[g] = barred[g]
        /\ UNCHANGED <<spent, lockedFor>>
    BY <1>4 DEF Judge, Goto, TypeOK, history
  <2>3. /\ Own' /\ Locks' /\ Budget'
        /\ \A g \in Handlers \ {h} : OwnIpOf(g)' /\ BarOf(g)'
    BY <2>1, <2>2, GetVisitorKeeps
  <2>4. barred'[h] = 0 /\ req'[h].step \notin Arriving
    <3>1. barred[h] = 0
      BY <1>4 DEF Judge, LimitInv, Bars, Arriving, TypeOK
    <3> QED
      BY <1>4, <3>1 DEF Judge, history, Goto, TypeOK, Requests, Arriving
  <2> QED
    BY <2>3, <2>4, Harmless, Gather
<1>5. ASSUME NEW h \in Handlers, Answer(h) PROVE LimitInv'
  <2>1. /\ UNCHANGED <<visitors, cell, ptr, history>>
        /\ req' = [req EXCEPT ![h] = NoRequest] /\ req[h].step \notin Arriving
    BY <1>5 DEF Answer, Finish, Arriving, Working
  <2>2. barred[h] = 0
    BY <2>1 DEF LimitInv, Bars, TypeOK
  <2> QED
    BY <2>1, <2>2
    DEF LimitInv, Own, OwnIp, Budget, Locks, Bars, Refilled, history, NoRequest, Arriving, TypeOK
<1>6. ASSUME NEW h \in Handlers, RecordAuthFailure(h) PROVE LimitInv'
  <2> DEFINE v == cell[ptr[h]]
             i == req[h].ip
  <2>1. ptr[h] \in Cells /\ v \in Visitors /\ i \in Ips /\ v.lock \in -1 .. Lockout
    BY <1>6 DEF RecordAuthFailure, InHand, Holding, TypeOK, Visitors
  <2>2. /\ Update(h, Blamed(v)) /\ Blamed(v) \in Visitors /\ Blamed(v).lock >= v.lock
        /\ Refilled(Blamed(v)) = Refilled(v)
    <3>1. Blamed(v) \in Visitors /\ Refilled(Blamed(v)) = Refilled(v)
      BY <2>1, VisitorTypes, BlamedFacts
    <3>2. Blamed(v).lock = IF ReachesLimit(v) THEN Lockout ELSE v.lock
      BY <2>1, BlamedFacts
    <3>3. Blamed(v).lock >= v.lock
      <4> HIDE DEF v
      <4> QED
        BY <2>1, <3>2
    <3>4. Update(h, Blamed(v))
      BY <1>6 DEF RecordAuthFailure
    <3> QED
      BY <3>1, <3>3, <3>4
  <2>3. /\ \A g \in Handlers \ {h} : req'[g] = req[g] /\ barred'[g] = barred[g]
        /\ spent' = spent
    BY <1>6 DEF RecordAuthFailure, Finish, TypeOK
  <2>4. /\ Own' /\ Budget' /\ (lockedFor' = lockedFor => Locks')
        /\ \A g \in Handlers \ {h} : OwnIpOf(g)' /\ BarOf(g)'
    BY <2>1, <2>2, <2>3, UpdateKeeps
  <2>5. Locks'
    <3>1. CASE ReachesLimit(v) /\ visitors[i] = ptr[h]
      <4>1. lockedFor' = [lockedFor EXCEPT ![i] = Lockout] /\ Blamed(v).lock = Lockout
        BY <1>6, <2>1, <3>1, BlamedFacts DEF RecordAuthFailure
      <4> SUFFICES ASSUME NEW j \in Ips, lockedFor'[j] > 0
                   PROVE  visitors[j] # Nil /\ cell'[visitors[j]].lock >= lockedFor'[j]
        BY <2>1, <2>2, UpdateFacts DEF Locks
      <4>2. \A k \in Keys : visitors[k] # Nil =>
              cell'[visitors[k]] = IF visitors[k] = ptr[h] THEN Blamed(v) ELSE cell[visitors[k]]
        BY <2>1, <2>2, UpdateFacts
      <4>3. CASE j = i
        BY <2>1, <3>1, <4>1, <4>2, <4>3 DEF Keys, Cells, Nil, TypeOK
      <4>4. CASE j # i
        <5>1. lockedFor'[j] = lockedFor[j] /\ lockedFor[j] > 0
          BY <4>1, <4>4 DEF TypeOK
        <5>2. visitors[j] # Nil /\ cell[visitors[j]].lock >= lockedFor[j]
          BY <5>1 DEF LimitInv, Locks
        <5>3. visitors[j] # ptr[h]
          BY <2>1, <3>1, <4>4, <5>2 DEF LimitInv, Own, Keys
        <5> QED
          BY <4>2, <5>1, <5>2, <5>3 DEF Keys
      <4> QED
        BY <4>3, <4>4
    <3>2. CASE ~(ReachesLimit(v) /\ visitors[i] = ptr[h])
      BY <1>6, <2>4, <3>2 DEF RecordAuthFailure
    <3> QED
      BY <3>1, <3>2
  <2>6. barred'[h] = 0 /\ req'[h].step \notin Arriving
    <3>1. barred[h] = 0
      BY <1>6 DEF RecordAuthFailure, LimitInv, Bars, Arriving, TypeOK
    <3> QED
      BY <1>6, <3>1 DEF RecordAuthFailure, Finish, NoRequest, TypeOK, Arriving
  <2> QED
    BY <2>4, <2>5, <2>6, Harmless, Gather
<1>7. ASSUME NEW h \in Handlers, ResetAuthFailures(h) PROVE LimitInv'
  <2> DEFINE v == cell[ptr[h]]
             w == [v EXCEPT !.failures = 0]
  <2>1. ptr[h] \in Cells /\ v \in Visitors /\ v.lock \in Int
    BY <1>7 DEF ResetAuthFailures, InHand, Holding, TypeOK, Visitors
  <2>2. Update(h, w) /\ w \in Visitors /\ w.lock = v.lock /\ Refilled(w) = Refilled(v)
    BY <1>7, <2>1, VisitorTypes DEF ResetAuthFailures, Refilled, Visitors
  <2>3. /\ \A g \in Handlers \ {h} : req'[g] = req[g] /\ barred'[g] = barred[g]
        /\ UNCHANGED <<spent, lockedFor>>
    BY <1>7 DEF ResetAuthFailures, Finish, TypeOK
  <2>4. /\ Own' /\ Budget' /\ Locks'
        /\ \A g \in Handlers \ {h} : OwnIpOf(g)' /\ BarOf(g)'
    <3> HIDE DEF w
    <3> QED
      BY <2>1, <2>2, <2>3, UpdateKeeps
  <2>5. barred'[h] = 0 /\ req'[h].step \notin Arriving
    <3>1. barred[h] = 0
      BY <1>7 DEF ResetAuthFailures, LimitInv, Bars, Arriving, TypeOK
    <3> QED
      BY <1>7, <3>1 DEF ResetAuthFailures, Finish, NoRequest, TypeOK, Arriving
  <2> QED
    BY <2>4, <2>5, Harmless, Gather
<1>8. CASE Cleanup
  <2>1. UNCHANGED <<req, ptr, spent, lockedFor, barred>>
    BY <1>8 DEF Cleanup, history
  <2>2. ASSUME NEW k \in Keys
        PROVE  \/ visitors'[k] = visitors[k]
               \/ visitors'[k] = Nil /\ visitors[k] # Nil /\ Removable(cell[visitors[k]])
    BY <1>8 DEF Cleanup
  <2>3. ASSUME NEW k \in Keys, visitors'[k] # Nil
        PROVE  visitors'[k] = visitors[k] /\ cell'[visitors[k]] = cell[visitors[k]]
    <3>1. visitors'[k] = visitors[k] /\ visitors[k] \in Cells
      BY <2>2, <2>3 DEF TypeOK
    <3> QED
      BY <1>8, <3>1 DEF Cleanup, Collect, Used
  <2>4. ASSUME NEW k \in Keys, visitors'[k] = Nil, visitors[k] # Nil
        PROVE  Refilled(cell[visitors[k]]) = Cap /\ cell[visitors[k]].lock = -1
    <3>1. cell[visitors[k]] \in Visitors /\ Removable(cell[visitors[k]])
      BY <2>2, <2>4 DEF TypeOK
    <3> QED
      BY <3>1, RemovableFull
  <2>5. ASSUME NEW h \in Handlers, ptr[h] # Nil PROVE cell'[ptr[h]] = cell[ptr[h]]
    <3>1. ptr[h] \in Cells
      BY <2>5 DEF TypeOK
    <3> QED
      BY <1>8, <3>1 DEF Cleanup, Collect, Used
  <2>6. Own'
    BY <2>3 DEF LimitInv, Own
  <2>7. Budget'
    <3> SUFFICES ASSUME NEW i \in Ips
                 PROVE  IF visitors'[i] = Nil THEN spent[i] = 0
                        ELSE Refilled(cell'[visitors'[i]]) + spent[i] <= Cap
      BY <2>1 DEF Budget, Refilled
    <3>1. i \in Keys /\ spent[i] \in Nat
      BY DEF Keys, TypeOK
    <3>2. IF visitors[i] = Nil THEN spent[i] = 0
          ELSE Refilled(cell[visitors[i]]) + spent[i] <= Cap
      BY DEF LimitInv, Budget
    <3>3. CASE visitors'[i] # Nil
      BY <2>3, <3>1, <3>2, <3>3
    <3>4. CASE visitors'[i] = Nil /\ visitors[i] # Nil
      <4>1. Cap + spent[i] <= Cap
        BY <2>4, <3>1, <3>2, <3>4
      <4> QED
        BY <3>1, <3>4, <4>1
    <3>5. CASE visitors'[i] = Nil /\ visitors[i] = Nil
      BY <3>2, <3>5
    <3> QED
      BY <3>3, <3>4, <3>5
  <2>8. Locks'
    <3> SUFFICES ASSUME NEW i \in Ips, lockedFor[i] > 0
                 PROVE  visitors'[i] # Nil /\ cell'[visitors'[i]].lock >= lockedFor[i]
      BY <2>1 DEF Locks
    <3>1. i \in Keys /\ lockedFor[i] \in Nat
      BY DEF Keys, TypeOK
    <3>2. visitors[i] # Nil /\ cell[visitors[i]].lock >= lockedFor[i]
      BY DEF LimitInv, Locks
    <3>3. visitors'[i] # Nil
      BY <2>4, <3>1, <3>2
    <3> QED
      BY <2>3, <3>1, <3>2, <3>3
  <2>9. ASSUME NEW h \in Handlers PROVE OwnIpOf(h)' /\ BarOf(h)'
    <3>1. OwnIpOf(h)'
      <4> SUFFICES ASSUME NEW k \in Keys, req[h].step \in Arriving, visitors'[k] = ptr[h]
                   PROVE  k = req[h].ip
        BY <2>1 DEF OwnIpOf
      <4>1. ptr[h] # Nil
        BY DEF InHand, Holding, Cells, Nil
      <4>2. visitors[k] = ptr[h]
        BY <2>3, <4>1
      <4> QED
        BY <4>2 DEF LimitInv, OwnIp
    <3>2. BarOf(h)'
      <4> SUFFICES ASSUME barred[h] > 0
                   PROVE  /\ req[h].step \in Arriving /\ visitors'[req[h].ip] = ptr[h]
                          /\ cell'[ptr[h]].lock >= barred[h]
        BY <2>1 DEF BarOf
      <4>1. /\ req[h].step \in Arriving /\ visitors[req[h].ip] = ptr[h]
            /\ cell[ptr[h]].lock >= barred[h] /\ barred[h] \in Nat
        BY DEF LimitInv, Bars, TypeOK
      <4>2. ptr[h] # Nil /\ req[h].ip \in Keys
        BY <4>1 DEF InHand, Holding, Arriving, Cells, Nil, Keys
      <4>3. visitors'[req[h].ip] # Nil
        BY <2>4, <4>1, <4>2
      <4> QED
        BY <2>3, <2>5, <4>1, <4>2, <4>3
    <3> QED
      BY <3>1, <3>2
  <2> QED
    BY <2>6, <2>7, <2>8, <2>9, Gather
<1>9. CASE Tick
  <2>1. UNCHANGED <<visitors, req, ptr>>
    BY <1>9 DEF Tick
  <2>2. ASSUME NEW c \in Cells, Used(visitors, ptr, c)
        PROVE  /\ cell'[c] = Aged(cell[c]) /\ cell[c] \in Visitors
               /\ cell'[c].lock = Greater(cell[c].lock - 1, -1) /\ cell[c].lock \in Int
    <3>1. cell'[c] = Aged(cell[c]) /\ cell[c] \in Visitors
      BY <1>9, <2>2 DEF Tick, Collect, TypeOK
    <3> QED
      BY <3>1, AgedFacts DEF Visitors
  <2>3. \A k \in Keys : visitors[k] # Nil =>
           visitors[k] \in Cells /\ Used(visitors, ptr, visitors[k])
    BY DEF TypeOK, Used
  <2>4. \A h \in Handlers : ptr[h] # Nil => ptr[h] \in Cells /\ Used(visitors, ptr, ptr[h])
    BY DEF TypeOK, Used
  <2>5. Own' /\ OwnIp'
    BY <2>1 DEF LimitInv, Own, OwnIp
  <2>6. Budget'
    <3> SUFFICES ASSUME NEW i \in Ips
                 PROVE  IF visitors[i] = Nil THEN spent'[i] = 0
                        ELSE Refilled(cell'[visitors[i]]) + spent'[i] <= Cap
      BY <2>1 DEF Budget, Refilled
    <3>1. i \in Keys /\ spent[i] \in Nat /\ spent'[i] = Greater(spent[i] - 1, 0)
      BY <1>9 DEF Keys, TypeOK, Tick, Less
    <3>2. IF visitors[i] = Nil THEN spent[i] = 0
          ELSE Refilled(cell[visitors[i]]) + spent[i] <= Cap
      BY DEF LimitInv, Budget
    <3>3. CASE visitors[i] = Nil
      BY <3>1, <3>2, <3>3 DEF Greater
    <3>4. CASE visitors[i] # Nil
      <4> DEFINE v == cell[visitors[i]]
      <4>1. v \in Visitors /\ cell'[visitors[i]] = Aged(v)
        BY <2>2, <2>3, <3>1, <3>4
      <4>2. Refilled(v) \in Nat
        BY <4>1 DEF Refilled, Visitors, Lesser
      <4>3. /\ Refilled(Aged(v)) <= Refilled(v) + 1 /\ Refilled(Aged(v)) <= Cap
            /\ Refilled(Aged(v)) \in Nat
        BY <4>1, AgedFacts
      <4>4. Refilled(v) + spent[i] <= Cap
        BY <3>2, <3>4
      <4>5. Refilled(Aged(v)) + Greater(spent[i] - 1, 0) <= Cap
        <5> HIDE DEF v
        <5> QED
          BY <3>1, <4>2, <4>3, <4>4 DEF Greater
      <4> QED
        BY <3>1, <3>4, <4>1, <4>5
    <3> QED
      BY <3>3, <3>4
  <2>7. Locks'
    <3> SUFFICES ASSUME NEW i \in Ips, lockedFor'[i] > 0
                 PROVE  visitors[i] # Nil /\ cell'[visitors[i]].lock >= lockedFor'[i]
      BY <2>1 DEF Locks
    <3>1. i \in Keys /\ lockedFor[i] \in Nat /\ lockedFor'[i] = Greater(lockedFor[i] - 1, 0)
      BY <1>9 DEF Keys, TypeOK, Tick, Less
    <3>2. lockedFor[i] > 0 /\ lockedFor'[i] = lockedFor[i] - 1
      BY <3>1 DEF Greater
    <3>3. visitors[i] # Nil /\ cell[visitors[i]].lock >= lockedFor[i]
      BY <3>2 DEF LimitInv, Locks
    <3>4. /\ cell'[visitors[i]].lock = Greater(cell[visitors[i]].lock - 1, -1)
          /\ cell[visitors[i]].lock \in Int
      BY <2>2, <2>3, <3>1, <3>3
    <3> QED
      BY <3>1, <3>2, <3>3, <3>4 DEF Greater
  <2>8. Bars'
    <3> SUFFICES ASSUME NEW h \in Handlers, barred'[h] > 0
                 PROVE  /\ req[h].step \in Arriving /\ visitors[req[h].ip] = ptr[h]
                        /\ cell'[ptr[h]].lock >= barred'[h]
      BY <2>1 DEF Bars
    <3>1. barred[h] \in Nat /\ barred'[h] = Greater(barred[h] - 1, 0)
      BY <1>9 DEF TypeOK, Tick, Less
    <3>2. barred[h] > 0 /\ barred'[h] = barred[h] - 1
      BY <3>1 DEF Greater
    <3>3. /\ req[h].step \in Arriving /\ visitors[req[h].ip] = ptr[h]
          /\ cell[ptr[h]].lock >= barred[h]
      BY <3>2 DEF LimitInv, Bars
    <3>4. ptr[h] # Nil
      BY <3>3 DEF InHand, Holding, Cells, Nil
    <3>5. /\ cell'[ptr[h]].lock = Greater(cell[ptr[h]].lock - 1, -1)
          /\ cell[ptr[h]].lock \in Int
      BY <2>2, <2>4, <3>4
    <3> QED
      BY <3>1, <3>2, <3>3, <3>5 DEF Greater
  <2> QED
    BY <2>5, <2>6, <2>7, <2>8 DEF LimitInv
<1>10. CASE UNCHANGED vars
  BY <1>10 DEF vars, history, LimitInv, Own, OwnIp, Budget, Locks, Bars, Refilled
<1> QED
  BY <1>1, <1>2, <1>3, <1>4, <1>5, <1>6, <1>7, <1>8, <1>9, <1>10 DEF Next, Serve

LEMMA LimitInvariant == Spec => [](TypeOK /\ InHand /\ LimitInv)
  BY InitType, LimitInit, StepType, LimitStep, PTL DEF Spec

\* Whatever cleanup and other requests do, the visitor of an IP grants at most
\* the burst plus the rate times the elapsed time.
THEOREM LimiterRate == Spec => []RateBound
<1>1. TypeOK /\ LimitInv => RateBound
  <2> SUFFICES ASSUME TypeOK, LimitInv, NEW i \in Ips PROVE spent[i] <= Cap
    BY DEF RateBound
  <2>1. CASE visitors[i] = Nil
    BY <2>1, LimiterAssumption DEF LimitInv, Budget
  <2>2. CASE visitors[i] # Nil
    <3>1. cell[visitors[i]] \in Visitors /\ spent[i] \in Nat
      BY <2>2 DEF TypeOK, Keys
    <3>2. Refilled(cell[visitors[i]]) \in Nat
      BY <3>1, LimiterAssumption DEF Refilled, Visitors, Lesser
    <3>3. Refilled(cell[visitors[i]]) + spent[i] <= Cap
      BY <2>2 DEF LimitInv, Budget
    <3> QED
      BY <3>1, <3>2, <3>3, LimiterAssumption
  <2> QED
    BY <2>1, <2>2
<1> QED
  BY LimitInvariant, <1>1, PTL

\* A request that arrives during the lockout of its IP passes no limiter before
\* the lockout is over.
THEOREM LimiterLockout == Spec => LockoutKept
<1>1. ASSUME TypeOK, InHand, LimitInv, [Next]_vars PROVE [Kept]_vars
  <2> SUFFICES ASSUME NEW h \in Handlers, req[h].step \in Arriving, req'[h].step \in Working
               PROVE  barred[h] = 0
    BY DEF Kept
  <2>1. req'[h] # req[h]
    BY DEF Arriving, Working
  <2>2. Allow(h) \/ IsLocked(h)
    <3>1. ASSUME NEW g \in Handlers, Serve(g) PROVE g = h
      BY <1>1, <2>1, <3>1 DEF Serve, Arrive, Allow, IsLocked, Judge, Answer, RecordAuthFailure,
         ResetAuthFailures, Goto, Finish, TypeOK
    <3>2. Serve(h)
      <4>1. ~(Cleanup \/ Tick \/ UNCHANGED vars)
        BY <2>1 DEF Cleanup, Tick, vars
      <4> QED
        BY <1>1, <3>1, <4>1 DEF Next
    <3> QED
      BY <3>2 DEF Serve, Arrive, Judge, Answer, RecordAuthFailure, ResetAuthFailures,
         Arriving, Working
  <2>3. ~Locked(cell[ptr[h]])
    <3>1. req' # [req EXCEPT ![h] = NoRequest]
      BY <1>1 DEF NoRequest, Working, TypeOK
    <3> QED
      BY <2>2, <3>1 DEF Allow, IsLocked, Grants, Finish
  <2>4. cell[ptr[h]].lock \in Int /\ barred[h] \in Nat
    BY <1>1, LimiterAssumption DEF InHand, Holding, TypeOK, Visitors
  <2> QED
    BY <1>1, <2>3, <2>4 DEF LimitInv, Bars, Locked
<1> QED
  BY LimitInvariant, <1>1, PTL DEF Spec, LockoutKept

=============================================================================
