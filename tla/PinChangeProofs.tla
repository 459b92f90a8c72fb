-------------------------- MODULE PinChangeProofs --------------------------
(* Theorems about PinChange, for any number of failing calls and crashes: its  *)
(* types for every set of handlers; what holds when requests come one at a     *)
(* time and only one of the two directories has a .env; and, with one .env and *)
(* any number of concurrent requests, that no PIN is stored in plain text.     *)
EXTENDS PinChange, TLAPS

LEMMA Files ==
  /\ \A p \in Pins : Plain(p) \in Contents /\ Hashed(p) \in Hashes
  /\ \A p \in Pins : Hashed(p).pin = p /\ Hashed(p).hashed
  /\ Hashes \subseteq Contents
  /\ \A c \in Contents : c.pin \in Pins /\ c.hashed \in BOOLEAN
<1>1. \A p \in Pins : Plain(p) \in Contents /\ Hashed(p) \in Hashes
  BY DEF Contents, Hashes
<1>2. \A p \in Pins : Hashed(p).pin = p /\ Hashed(p).hashed
  BY DEF Hashed
<1>3. \A c \in Contents : c.pin \in Pins /\ c.hashed \in BOOLEAN
  <2> SUFFICES ASSUME NEW c \in Contents PROVE c.pin \in Pins /\ c.hashed \in BOOLEAN
    OBVIOUS
  <2>1. PICK p \in Pins : c = Plain(p) \/ c = Hashed(p)
    BY DEF Contents, Hashes
  <2>2. Plain(p).pin = p /\ Hashed(p).pin = p /\ Plain(p).hashed = FALSE /\ Hashed(p).hashed = TRUE
    BY DEF Plain, Hashed
  <2>3. c.pin = p
    BY <2>1, <2>2
  <2>4. c.hashed \in {TRUE, FALSE}
    BY <2>1, <2>2, Zenon
  <2> QED
    BY <2>3, <2>4
<1> QED
  BY <1>1, <1>2, <1>3 DEF Contents

LEMMA PathPlace == Path \in Places
  BY DEF Path, Places

\* A migration has a PIN, and a change is under way only while the server is up.
Named ==
    /\ boot \in {"open", "write", "rename"} => pin \in Pins
    /\ \A h \in Handlers : pc[h] # "idle" => new[h] \in Pins /\ boot = "up"

LEMMA InitType == Init => TypeOK /\ Named
<1> SUFFICES ASSUME Init PROVE TypeOK /\ Named
  OBVIOUS
<1>1. PICK p \in Pins, layout \in Layouts :
         /\ env = [d \in Places |-> IF d \in layout THEN Plain(p) ELSE None]
         /\ expected = {p}
  BY DEF Init
<1>2. env \in [Places -> Contents \cup {None}] /\ expected \subseteq Pins
  BY <1>1, Files
<1>3. target \in [Handlers -> Places] /\ tmp \in [Places -> Hashes \cup {None}]
  BY DEF Init, Places
<1> QED
  BY <1>2, <1>3, PinAssumption DEF Init, TypeOK, Boots, Steps, Named

LEMMA NamedStep ==
  ASSUME TypeOK, Named, [Next]_vars PROVE Named'
<1>1. ASSUME NEW h \in Handlers, Change(h) PROVE Named'
  <2>1. ASSUME NEW p \in Pins, Verified(h, p) PROVE Named'
    BY <2>1 DEF Verified, Goto, Named, TypeOK
  <2>2. CASE pc[h] # "idle" /\ UNCHANGED boot /\ (\A g \in Handlers \ {h} :
                pc'[g] = pc[g] /\ new'[g] = new[g]) /\ (pc'[h] = "idle" \/ new'[h] = new[h])
    BY <2>2 DEF Named
  <2> QED
    BY <1>1, <2>1, <2>2
    DEF Change, SetPIN, Open, WriteTmp, VerifyTmp, Rename, RenameAgain, RenameLast, Renames,
        Remove, RemoveAgain, Removes, Discard, Reply, Goto, TypeOK
<1>2. CASE Load
  <2>1. Loaded # None => Loaded.pin \in Pins
    BY Files DEF Loaded, TypeOK, Places
  <2> QED
    BY <1>2, <2>1 DEF Load, Named
<1>3. CASE MigrateOpen \/ MigrateWrite \/ MigrateRename \/ Crash \/ UNCHANGED vars
  BY <1>3 DEF MigrateOpen, MigrateWrite, MigrateRename, Crash, vars, Named
<1> QED
  BY <1>1, <1>2, <1>3 DEF Next, Start

LEMMA FaultType == TypeOK /\ Fault => faults' \in 0 .. MaxFaults
  BY PinAssumption DEF TypeOK, Fault

LEMMA GotoType ==
  ASSUME TypeOK, NEW h \in Handlers, NEW s \in Steps, Goto(h, s)
  PROVE  pc' \in [Handlers -> Steps]
  BY DEF TypeOK, Goto

LEMMA TmpType ==
  ASSUME TypeOK, NEW d \in Places, NEW c \in Hashes \cup {None}
  PROVE  /\ [tmp EXCEPT ![d] = c] \in [Places -> Hashes \cup {None}]
         /\ [env EXCEPT ![d] = c] \in [Places -> Contents \cup {None}]
  BY Files DEF TypeOK

LEMMA StepType ==
  ASSUME TypeOK, Named, [Next]_vars PROVE TypeOK'
<1> USE PinAssumption, FaultType
<1>1. CASE Load
  <2>1. Loaded # None => Loaded.pin \in Pins
    BY Files DEF Loaded, TypeOK, Places
  <2> QED
    BY <1>1, <2>1 DEF Load, TypeOK, Boots
<1>2. CASE MigrateOpen
  BY <1>2 DEF MigrateOpen, TypeOK, Boots
<1>3. CASE MigrateWrite
  <2>1. pin \in Pins
    BY <1>3 DEF MigrateWrite, Named
  <2>2. tmp' \in [Places -> Hashes \cup {None}]
    BY <1>3, <2>1, PathPlace, TmpType, Files DEF MigrateWrite
  <2> QED
    BY <1>3, <2>2 DEF MigrateWrite, TypeOK, Boots
<1>4. CASE MigrateRename
  <2>1. tmp[Path] \in Hashes \cup {None}
    BY PathPlace DEF TypeOK
  <2>2. /\ tmp' \in [Places -> Hashes \cup {None}]
        /\ env' \in [Places -> Contents \cup {None}]
    BY <1>4, <2>1, PathPlace, TmpType DEF MigrateRename, TypeOK
  <2> QED
    BY <1>4, <2>2 DEF MigrateRename, TypeOK, Boots
<1>5. CASE Crash
  <2>1. target' \in [Handlers -> Places] /\ pc' \in [Handlers -> Steps]
    BY <1>5 DEF Crash, Places, Steps
  <2>2. crashes' \in 0 .. MaxCrashes
    BY <1>5 DEF Crash, TypeOK
  <2> QED
    BY <1>5, <2>1, <2>2 DEF Crash, TypeOK, Boots
<1>6. ASSUME NEW h \in Handlers, Change(h) PROVE TypeOK'
  <2>1. ASSUME NEW p \in Pins, Verified(h, p) PROVE TypeOK'
    <3>1. pc' \in [Handlers -> Steps]
      BY <2>1, GotoType DEF Verified, Steps
    <3> QED
      BY <2>1, <3>1 DEF Verified, TypeOK
  <2>2. CASE SetPIN(h)
    <3>1. pc' \in [Handlers -> Steps]
      BY <2>2, GotoType DEF SetPIN, Steps
    <3> QED
      BY <2>2, <3>1 DEF SetPIN, TypeOK
  <2>3. CASE Open(h)
    <3>1. pc' \in [Handlers -> Steps]
      BY <2>3, GotoType DEF Open, Steps
    <3>2. target' \in [Handlers -> Places]
      BY <2>3, PathPlace DEF Open, TypeOK
    <3> QED
      BY <2>3, <3>1, <3>2 DEF Open, TypeOK
  <2>4. CASE WriteTmp(h)
    <3>1. pc' \in [Handlers -> Steps]
      BY <2>4, GotoType DEF WriteTmp, Steps
    <3>2. target[h] \in Places /\ new[h] \in Pins
      BY <2>4 DEF TypeOK, Named, WriteTmp
    <3>3. tmp' \in [Places -> Hashes \cup {None}]
      BY <2>4, <3>2, TmpType, Files DEF WriteTmp, TypeOK
    <3> QED
      BY <2>4, <3>1, <3>3 DEF WriteTmp, TypeOK
  <2>5. CASE VerifyTmp(h)
    <3>1. pc' \in [Handlers -> Steps]
      BY <2>5, GotoType DEF VerifyTmp, Steps
    <3> QED
      BY <2>5, <3>1 DEF VerifyTmp, TypeOK
  <2>6. ASSUME NEW s \in Steps, Renames(h, s) PROVE TypeOK'
    <3>1. pc' \in [Handlers -> Steps]
      BY <2>6, GotoType DEF Renames, Steps
    <3>2. target[h] \in Places /\ tmp[target[h]] \in Hashes \cup {None}
      BY DEF TypeOK
    <3>3. /\ tmp' \in [Places -> Hashes \cup {None}]
          /\ env' \in [Places -> Contents \cup {None}]
      BY <2>6, <3>2, TmpType DEF Renames, TypeOK
    <3> QED
      BY <2>6, <3>1, <3>3 DEF Renames, TypeOK
  <2>7. ASSUME NEW s \in Steps, Removes(h, s) PROVE TypeOK'
    <3>1. pc' \in [Handlers -> Steps]
      BY <2>7, GotoType DEF Removes
    <3>2. env' \in [Places -> Contents \cup {None}]
      BY <2>7, TmpType DEF Removes, TypeOK
    <3> QED
      BY <2>7, <3>1, <3>2 DEF Removes, TypeOK
  <2>8. CASE Discard(h)
    <3>1. pc' \in [Handlers -> Steps]
      BY <2>8, GotoType DEF Discard, Steps
    <3>2. tmp' \in [Places -> Hashes \cup {None}]
      BY <2>8, TmpType DEF Discard, TypeOK
    <3> QED
      BY <2>8, <3>1, <3>2 DEF Discard, TypeOK
  <2>9. CASE Reply(h)
    <3>1. pc' \in [Handlers -> Steps]
      BY <2>9, GotoType DEF Reply, Steps
    <3>2. target' \in [Handlers -> Places]
      BY <2>9 DEF Reply, TypeOK, Places
    <3>3. expected' \subseteq Pins
      BY <2>9 DEF Reply, TypeOK, Named
    <3> QED
      BY <2>9, <3>1, <3>2, <3>3 DEF Reply, TypeOK
  <2> QED
    BY <1>6, <2>1, <2>2, <2>3, <2>4, <2>5, <2>6, <2>7, <2>8, <2>9
    DEF Change, Rename, RenameAgain, RenameLast, Remove, RemoveAgain, Steps
<1>7. CASE UNCHANGED vars
  BY <1>7 DEF vars, TypeOK
<1> QED
  BY <1>1, <1>2, <1>3, <1>4, <1>5, <1>6, <1>7 DEF Next, Start

\* The state of the PIN keeps its types.
THEOREM TypeCorrect == Spec => []TypeOK
<1>1. Spec => [](TypeOK /\ Named)
  BY InitType, StepType, NamedStep, PTL DEF Spec
<1> QED
  BY <1>1, PTL

-----------------------------------------------------------------------------
(* One request at a time, one .env.  While nothing has failed the temporary file *)
(* of the change under way is there when it is renamed, so the fallback, which  *)
(* removes .env first, is never taken; with failures it may be, but a 200 still *)
(* means that the rename has happened.                                         *)

Single  == \A g, h \in Handlers : g = h
OneFile == Layouts \subseteq {{"exe"}, {"cwd"}}

Fallback == {"remove", "renameAgain", "removeAgain", "renameLast", "discard", "failed"}
Rewriting == {"write", "verify", "rename", "remove", "renameAgain", "removeAgain",
              "renameLast", "discard"}

\* What holds of the only directory d with a .env, failures or not.
Bound(d) ==
    /\ \A o \in Places \ {d} : env[o] = None /\ tmp[o] = None
    /\ \A h \in Handlers :
         /\ pc[h] \in Rewriting => target[h] = d
         /\ pc[h] \notin {"idle", "set"} => pin = new[h]
         /\ pc[h] \in {"verify", "rename", "remove", "renameAgain", "removeAgain", "renameLast"}
              => tmp[d] = Hashed(new[h])
         /\ pc[h] = "ok" => env[d] = Hashed(new[h])
    /\ boot \in {"open", "write", "rename"} => env[d] # None /\ env[d].pin = pin
    /\ boot = "rename" => tmp[d] = Hashed(pin)

\* What holds of it while no call has failed.
Sound(d) ==
    faults = 0 =>
        /\ env[d] # None /\ env[d].pin \in expected
        /\ boot = "up" => env[d].hashed /\ pin # None
        /\ boot = "up" /\ Idle => env[d] = Hashed(pin)
        /\ \A h \in Handlers :
             /\ pc[h] \notin Fallback
             /\ pc[h] # "idle" => new[h] \in expected
             /\ pc[h] = "set" => pin \in expected /\ env[d] = Hashed(pin)

PinInv == \E d \in Places : Bound(d) /\ Sound(d)

LEMMA PinInit == OneFile /\ Init => PinInv
<1> SUFFICES ASSUME OneFile, Init PROVE PinInv
  OBVIOUS
<1>1. PICK p \in Pins, layout \in Layouts :
         /\ env = [d \in Places |-> IF d \in layout THEN Plain(p) ELSE None]
         /\ expected = {p}
  BY DEF Init
<1>2. PICK d \in Places : layout = {d}
  BY DEF OneFile, Places
<1>3. env[d] = Plain(p) /\ Plain(p).pin = p /\ Plain(p) # None
  BY <1>1, <1>2, PinAssumption, Files DEF Plain, Contents
<1>4. Bound(d)
  BY <1>1, <1>2 DEF Init, Bound, Rewriting
<1>5. Sound(d)
  BY <1>1, <1>3 DEF Init, Sound, Fallback
<1> QED
  BY <1>4, <1>5 DEF PinInv

LEMMA Where ==
  ASSUME NEW d \in Places, Bound(d)
  PROVE  Loaded = env[d] /\ (env[d] # None => Path = d)
  BY DEF Bound, Loaded, Path, Places

LEMMA StartStep ==
  ASSUME TypeOK, Named, NEW d \in Places, Bound(d), Sound(d), Start
  PROVE  Bound(d)' /\ Sound(d)'
<1>1. Loaded = env[d] /\ (env[d] # None => Path = d)
  BY Where
<1>2. \A h \in Handlers : pc[h] = "idle"
  BY DEF Named, Start, Load, MigrateOpen, MigrateWrite, MigrateRename
<1>3. env[d] # None => env[d] \in Contents /\ env[d].pin \in Pins /\ env[d].hashed \in BOOLEAN
  BY Files DEF TypeOK
<1>4. CASE Load
  <2>1. env[d] # None /\ env[d].hashed => env[d] = Hashed(env[d].pin)
    <3> SUFFICES ASSUME env[d] \in Contents, env[d].hashed PROVE env[d] = Hashed(env[d].pin)
      BY <1>3
    <3>1. PICK p \in Pins : env[d] = Plain(p) \/ env[d] = Hashed(p)
      BY DEF Contents, Hashes
    <3>2. ~Plain(p).hashed /\ Hashed(p).pin = p
      BY DEF Plain, Hashed
    <3> QED
      BY <3>1, <3>2
  <2>2. Bound(d)'
    BY <1>1, <1>2, <1>4 DEF Load, Bound, Rewriting
  <2>3. Sound(d)'
    BY <1>1, <1>2, <1>3, <1>4, <2>1, PinAssumption DEF Load, Sound, Idle, Fallback
  <2> QED
    BY <2>2, <2>3
<1>5. CASE MigrateOpen
  <2>1. /\ env[d] # None /\ env[d].pin = pin
        /\ boot' # "up" \/ faults' # 0
    BY <1>5 DEF MigrateOpen, Bound, Fault, TypeOK
  <2> QED
    BY <1>1, <1>2, <1>5, <2>1 DEF MigrateOpen, Bound, Sound, Rewriting, Fallback
<1>6. CASE MigrateWrite
  <2>1. env[d] # None /\ env[d].pin = pin /\ Path = d
    BY <1>1, <1>6 DEF MigrateWrite, Bound
  <2>2. (boot' = "rename" /\ tmp'[d] = Hashed(pin) /\ faults' = faults) \/ (faults' # 0 /\ boot' = "up")
    BY <1>6, <2>1 DEF MigrateWrite, Fault, TypeOK
  <2>3. \A o \in Places \ {d} : tmp'[o] = tmp[o]
    BY <1>6, <2>1 DEF MigrateWrite, TypeOK
  <2>4. UNCHANGED <<pin, env, pc, new, target, expected>>
    BY <1>6 DEF MigrateWrite
  <2>5. Bound(d)'
    BY <1>2, <2>1, <2>2, <2>3, <2>4 DEF Bound, Rewriting
  <2>6. Sound(d)'
    BY <1>2, <2>2, <2>4 DEF Sound, Fallback
  <2> QED
    BY <2>5, <2>6
<1>7. CASE MigrateRename
  <2>1. env[d] # None /\ env[d].pin = pin /\ Path = d /\ tmp[d] = Hashed(pin) /\ pin \in Pins
    BY <1>1, <1>7 DEF MigrateRename, Bound, Named
  <2>2. \/ env' = [env EXCEPT ![d] = Hashed(pin)] /\ faults' = faults
        \/ env' = env /\ faults' # 0
    BY <1>7, <2>1 DEF MigrateRename, Fault, TypeOK
  <2>3. tmp' = [tmp EXCEPT ![d] = None] /\ boot' = "up" /\ UNCHANGED <<pin, pc, new, target, expected>>
    BY <1>7, <2>1 DEF MigrateRename
  <2>4. Bound(d)'
    BY <1>2, <2>1, <2>2, <2>3 DEF Bound, Rewriting, TypeOK
  <2>5. Sound(d)'
    <3> SUFFICES ASSUME faults' = 0 PROVE Sound(d)'
      BY DEF Sound
    <3>1. env'[d] = Hashed(pin) /\ faults = 0
      BY <2>2 DEF TypeOK
    <3>2. Hashed(pin).pin = pin /\ Hashed(pin).hashed /\ Hashed(pin) # None /\ pin # None
      BY <2>1, Files, PinAssumption
    <3>3. pin \in expected
      BY <2>1, <3>1 DEF Sound
    <3> QED
      BY <1>2, <2>3, <3>1, <3>2, <3>3 DEF Sound, Fallback
  <2> QED
    BY <2>4, <2>5
<1> QED
  BY <1>4, <1>5, <1>6, <1>7 DEF Start

LEMMA CrashStep ==
  ASSUME TypeOK, NEW d \in Places, Bound(d), Sound(d), Crash
  PROVE  Bound(d)' /\ Sound(d)'
<1>1. /\ \A h \in Handlers : pc'[h] = "idle"
      /\ boot' = "down" /\ UNCHANGED <<env, tmp, faults, expected>>
  BY DEF Crash
<1>2. Bound(d)'
  BY <1>1 DEF Bound, Rewriting
<1>3. Sound(d)'
  BY <1>1 DEF Sound, Fallback
<1> QED
  BY <1>2, <1>3

LEMMA ChangeStep ==
  ASSUME Single, TypeOK, Named, NEW d \in Places, Bound(d), Sound(d),
         NEW h \in Handlers, Change(h)
  PROVE  Bound(d)' /\ Sound(d)'
<1>1. Loaded = env[d] /\ (env[d] # None => Path = d)
  BY Where
<1>2. \A g \in Handlers : g = h
  BY DEF Single
<1>3. \A s \in Steps : Goto(h, s) => pc'[h] = s
  BY DEF Goto, TypeOK
<1>4. boot = "up"
  BY DEF Change, Verified, SetPIN, Open, WriteTmp, VerifyTmp, Rename, RenameAgain,
     RenameLast, Remove, RemoveAgain, Discard, Reply, Named
<1>5. ASSUME pc[h] # "idle"
      PROVE  new[h] \in Pins /\ Hashed(new[h]).pin = new[h] /\ Hashed(new[h]).hashed
             /\ Hashed(new[h]) # None /\ new[h] # None
  BY <1>5, Files, PinAssumption DEF Named
<1>6. ASSUME NEW p \in Pins, Verified(h, p) PROVE Bound(d)' /\ Sound(d)'
  <2>1. /\ UNCHANGED <<boot, pin, env, tmp, target, faults>>
        /\ pc[h] = "idle" /\ pc'[h] = "set" /\ new'[h] = p /\ pin # None
        /\ expected' = {pin, p}
    BY <1>2, <1>3, <1>6 DEF Verified, Steps, Idle, TypeOK
  <2>2. Bound(d)'
    BY <1>2, <1>4, <2>1 DEF Bound, Rewriting
  <2>3. Sound(d)'
    <3> SUFFICES ASSUME faults = 0 PROVE Sound(d)'
      BY <2>1 DEF Sound
    <3>1. env[d] = Hashed(pin) /\ env[d] # None /\ env[d].hashed
      BY <1>2, <1>4, <2>1 DEF Sound, Idle
    <3>2. pin \in Pins
      BY <2>1 DEF TypeOK
    <3>3. env[d].pin = pin
      BY <3>1, <3>2, Files
    <3> QED
      BY <1>2, <2>1, <3>1, <3>3 DEF Sound, Fallback, Idle
  <2> QED
    BY <2>2, <2>3
<1>7. CASE SetPIN(h)
  <2>1. /\ UNCHANGED <<boot, env, tmp, new, target, faults, expected>>
        /\ pc[h] = "set" /\ pc'[h] = "open" /\ pin' = new[h]
    BY <1>3, <1>7 DEF SetPIN, Steps
  <2>2. Bound(d)'
    BY <1>2, <1>4, <2>1 DEF Bound, Rewriting
  <2>3. Sound(d)'
    BY <1>2, <1>4, <1>5, <2>1 DEF Sound, Fallback, Idle
  <2> QED
    BY <2>2, <2>3
<1>8. CASE Open(h)
  <2>1. /\ UNCHANGED <<boot, pin, env, tmp, new, expected>>
        /\ pc[h] = "open" /\ target' = [target EXCEPT ![h] = Path]
        /\ \/ pc'[h] = "write" /\ env[Path] # None /\ faults' = faults
           \/ pc'[h] = "failed" /\ env[Path] = None /\ faults' = faults
           \/ pc'[h] = "failed" /\ faults' # 0
    BY <1>3, <1>8 DEF Open, Steps, Fault, TypeOK
  <2>2. pc'[h] = "write" => Path = d
    BY <2>1, PathPlace DEF Bound
  <2>3. faults' = 0 => faults = 0 /\ pc'[h] = "write"
    BY <1>1, <2>1 DEF Sound, TypeOK
  <2>4. Bound(d)'
    BY <1>2, <1>4, <2>1, <2>2 DEF Bound, Rewriting, TypeOK
  <2>5. Sound(d)'
    BY <1>2, <1>4, <2>1, <2>3 DEF Sound, Fallback, Idle
  <2> QED
    BY <2>4, <2>5
<1>9. CASE WriteTmp(h)
  <2>1. target[h] = d
    BY <1>9 DEF WriteTmp, Bound, Rewriting
  <2>2. /\ UNCHANGED <<boot, pin, env, new, target, expected>> /\ pc[h] = "write"
        /\ \/ /\ pc'[h] = "verify" /\ tmp' = [tmp EXCEPT ![d] = Hashed(new[h])]
              /\ faults' = faults
           \/ pc'[h] = "discard" /\ tmp' = tmp /\ faults' # 0
    BY <1>3, <1>9, <2>1 DEF WriteTmp, Steps, Fault, TypeOK
  <2>3. Bound(d)'
    BY <1>2, <1>4, <2>1, <2>2 DEF Bound, Rewriting, TypeOK
  <2>4. Sound(d)'
    BY <1>2, <1>4, <2>2 DEF Sound, Fallback, Idle
  <2> QED
    BY <2>3, <2>4
<1>10. CASE VerifyTmp(h)
  <2>1. target[h] = d /\ tmp[d] = Hashed(new[h]) /\ tmp[d] # None
    BY <1>5, <1>10 DEF VerifyTmp, Bound, Rewriting
  <2>2. /\ UNCHANGED <<boot, pin, env, tmp, new, target, expected>> /\ pc[h] = "verify"
        /\ \/ pc'[h] = "rename" /\ faults' = faults
           \/ pc'[h] = "discard" /\ faults' # 0
    BY <1>3, <1>10, <2>1 DEF VerifyTmp, Steps, Fault, TypeOK
  <2>3. Bound(d)'
    BY <1>2, <1>4, <2>1, <2>2 DEF Bound, Rewriting
  <2>4. Sound(d)'
    BY <1>2, <1>4, <2>2 DEF Sound, Fallback, Idle
  <2> QED
    BY <2>3, <2>4
<1>11. ASSUME NEW s \in {"remove", "removeAgain", "discard"}, Renames(h, s),
              pc[h] \in {"rename", "renameAgain", "renameLast"}
       PROVE  Bound(d)' /\ Sound(d)'
  <2>1. target[h] = d /\ tmp[d] = Hashed(new[h]) /\ tmp[d] # None /\ pin = new[h]
    BY <1>5, <1>11 DEF Bound, Rewriting
  <2>2. /\ UNCHANGED <<boot, pin, new, target, expected>>
        /\ \/ /\ pc'[h] = "ok" /\ env' = [env EXCEPT ![d] = Hashed(new[h])]
              /\ tmp' = [tmp EXCEPT ![d] = None] /\ faults' = faults
           \/ pc'[h] = s /\ UNCHANGED <<env, tmp>> /\ faults' # 0
    BY <1>3, <1>11, <2>1 DEF Renames, Steps, Fault, TypeOK
  <2>3. CASE pc'[h] = "ok" /\ env' = [env EXCEPT ![d] = Hashed(new[h])]
             /\ tmp' = [tmp EXCEPT ![d] = None] /\ faults' = faults
    <3>1. env'[d] = Hashed(new[h]) /\ \A o \in Places \ {d} : env'[o] = env[o] /\ tmp'[o] = tmp[o]
      BY <2>3 DEF TypeOK
    <3>2. Bound(d)'
      BY <1>2, <1>4, <2>1, <2>2, <2>3, <3>1 DEF Bound, Rewriting
    <3>3. Sound(d)'
      BY <1>2, <1>4, <1>5, <1>11, <2>1, <2>2, <2>3, <3>1 DEF Sound, Fallback, Idle
    <3> QED
      BY <3>2, <3>3
  <2>4. CASE pc'[h] = s /\ UNCHANGED <<env, tmp>> /\ faults' # 0
    <3>1. Bound(d)'
      BY <1>2, <1>4, <2>1, <2>2, <2>4 DEF Bound, Rewriting
    <3>2. Sound(d)'
      BY <2>4 DEF Sound
    <3> QED
      BY <3>1, <3>2
  <2> QED
    BY <2>2, <2>3, <2>4
<1>12. ASSUME NEW s \in {"renameAgain", "renameLast"}, Removes(h, s),
              pc[h] \in {"remove", "removeAgain"}
       PROVE  Bound(d)' /\ Sound(d)'
  <2>1. target[h] = d /\ tmp[d] = Hashed(new[h]) /\ faults # 0
    BY <1>12 DEF Bound, Rewriting, Sound, Fallback
  <2>2. /\ UNCHANGED <<boot, pin, tmp, new, target, expected>> /\ pc'[h] = s
        /\ env' = [env EXCEPT ![d] = None] \/ env' = env
        /\ faults' # 0
    BY <1>3, <1>12, <2>1 DEF Removes, Steps, Fault, TypeOK
  <2>3. Bound(d)'
    BY <1>2, <1>4, <1>12, <2>1, <2>2 DEF Bound, Rewriting, TypeOK
  <2> QED
    BY <2>2, <2>3 DEF Sound
<1>13. CASE Discard(h)
  <2>1. target[h] = d /\ faults # 0
    BY <1>13 DEF Discard, Bound, Rewriting, Sound, Fallback
  <2>2. /\ UNCHANGED <<boot, pin, env, new, target, expected>> /\ pc[h] = "discard"
        /\ pc'[h] = "failed" /\ faults' # 0
        /\ tmp' = [tmp EXCEPT ![d] = None] \/ tmp' = tmp
    BY <1>3, <1>13, <2>1 DEF Discard, Steps, Fault, TypeOK
  <2>3. Bound(d)'
    BY <1>2, <1>4, <2>1, <2>2 DEF Bound, Rewriting, TypeOK
  <2> QED
    BY <2>2, <2>3 DEF Sound
<1>14. CASE Reply(h)
  <2>1. /\ UNCHANGED <<boot, pin, env, tmp, faults>> /\ pc'[h] = "idle"
        /\ pc[h] = "ok" => expected' = {new[h]}
        /\ pc[h] \in {"ok", "failed"}
    BY <1>2, <1>3, <1>14 DEF Reply, Steps
  <2>2. Bound(d)'
    BY <1>2, <1>4, <2>1 DEF Bound, Rewriting
  <2>3. Sound(d)'
    <3>1. CASE pc[h] = "failed"
      BY <2>1, <3>1 DEF Sound, Fallback
    <3>2. CASE pc[h] = "ok"
      <4>1. env[d] = Hashed(new[h]) /\ pin = new[h]
        BY <3>2 DEF Bound
      <4> QED
        BY <1>2, <1>4, <1>5, <2>1, <3>2, <4>1 DEF Sound, Fallback, Idle
    <3> QED
      BY <2>1, <3>1, <3>2
  <2> QED
    BY <2>2, <2>3
<1> QED
  BY <1>6, <1>7, <1>8, <1>9, <1>10, <1>11, <1>12, <1>13, <1>14
  DEF Change, Rename, RenameAgain, RenameLast, Remove, RemoveAgain

LEMMA PinStep ==
  ASSUME Single, TypeOK, Named, PinInv, [Next]_vars PROVE PinInv'
<1>1. PICK d \in Places : Bound(d) /\ Sound(d)
  BY DEF PinInv
<1>2. Bound(d)' /\ Sound(d)'
  <2>1. CASE Start
    BY <1>1, <2>1, StartStep
  <2>2. CASE Crash
    BY <1>1, <2>2, CrashStep
  <2>3. ASSUME NEW h \in Handlers, Change(h) PROVE Bound(d)' /\ Sound(d)'
    BY <1>1, <2>3, ChangeStep
  <2>4. CASE UNCHANGED vars
    BY <1>1, <2>4 DEF vars, Bound, Sound, Idle
  <2> QED
    BY <2>1, <2>2, <2>3, <2>4 DEF Next
<1> QED
  BY <1>2 DEF PinInv

LEMMA PinInvariant ==
  ASSUME Single, OneFile PROVE Spec => [](TypeOK /\ PinInv)
<1>1. TypeOK /\ Named /\ PinInv /\ [Next]_vars => TypeOK' /\ Named' /\ PinInv'
  BY StepType, NamedStep, PinStep
<1>2. Init => TypeOK /\ Named /\ PinInv
  BY InitType, PinInit
<1>3. Spec => [](TypeOK /\ Named /\ PinInv)
  BY <1>1, <1>2, PTL DEF Spec
<1> QED
  BY <1>3, PTL

\* One request at a time and one .env: while no call fails, a start at any moment,
\* also after a crash in the middle of a change, finds the old PIN or the new one
\* (HandleChangePIN, system.go:104-185, with loadLiteralEnv).
THEOREM SerialNeverLost ==
  ASSUME Single, OneFile PROVE Spec => []NeverLost
<1>1. PinInv => NeverLost
  BY Where DEF PinInv, Sound, NeverLost
<1> QED
  BY PinInvariant, <1>1, PTL

\* Under the same conditions the PIN in memory and the one in the file agree
\* between requests (SetPIN at system.go:104, the rename at 175-183).
THEOREM SerialAgree ==
  ASSUME Single, OneFile PROVE Spec => []AgreeWhenIdle
<1>1. PinInv => AgreeWhenIdle
  BY Where DEF PinInv, Sound, AgreeWhenIdle
<1> QED
  BY PinInvariant, <1>1, PTL

\* One request at a time and one .env, calls failing or not: a 200 of
\* HandleChangePIN (system.go:185-198) means that the new PIN is in force and stored.
THEOREM SerialStored ==
  ASSUME Single, OneFile PROVE Spec => []AckedMeansStored
<1>1. PinInv => AckedMeansStored
  BY Where DEF PinInv, Bound, AckedMeansStored
<1> QED
  BY PinInvariant, <1>1, PTL

-----------------------------------------------------------------------------
(* Any number of concurrent requests, one .env.  The temporary file only ever  *)
(* holds a hash, so whichever request renames it, and whoever wrote it, a plain *)
(* PIN can only be what the server was installed with; and that is migrated    *)
(* before the first request is served.                                         *)

\* What holds of the only directory d with a .env.
Migrated(d) ==
    /\ \A o \in Places \ {d} : env[o] = None
    /\ \A h \in Handlers : pc[h] \in Rewriting => target[h] = d
    /\ boot \in {"open", "write", "rename"} => env[d] # None
    /\ boot = "rename" => tmp[d] # None
    /\ faults = 0 /\ boot = "up" /\ env[d] # None => env[d].hashed

MigratedInv == \E d \in Places : Migrated(d)

LEMMA MigratedInit == OneFile /\ Init => MigratedInv
<1> SUFFICES ASSUME OneFile, Init PROVE MigratedInv
  OBVIOUS
<1>1. PICK p \in Pins, layout \in Layouts :
         env = [d \in Places |-> IF d \in layout THEN Plain(p) ELSE None]
  BY DEF Init
<1>2. PICK d \in Places : layout = {d}
  BY DEF OneFile, Places
<1> QED
  BY <1>1, <1>2 DEF Init, MigratedInv, Migrated, Rewriting

LEMMA HashesAreHashed == \A c \in Hashes : c.hashed
  BY Files DEF Hashes

LEMMA MigratedChange ==
  ASSUME TypeOK, Named, NEW d \in Places, Migrated(d), NEW h \in Handlers, Change(h)
  PROVE  Migrated(d)'
<1> USE DEF Migrated
<1>1. boot = "up" /\ boot' = "up" /\ (faults' = 0 => faults = 0)
  BY DEF Change, Verified, SetPIN, Open, WriteTmp, VerifyTmp, Rename, RenameAgain,
     RenameLast, Renames, Remove, RemoveAgain, Removes, Discard, Reply, Named, Fault, TypeOK
<1>2. \A g \in Handlers \ {h} : pc'[g] = pc[g] /\ target'[g] = target[g]
  BY DEF Change, Verified, SetPIN, Open, WriteTmp, VerifyTmp, Rename, RenameAgain,
     RenameLast, Renames, Remove, RemoveAgain, Removes, Discard, Reply, Goto, TypeOK
<1>3. ASSUME env' = env, pc'[h] \notin Rewriting \/ target'[h] = d PROVE Migrated(d)'
  BY <1>1, <1>2, <1>3
<1>4. CASE \E p \in Pins : Verified(h, p)
  BY <1>3, <1>4 DEF Verified, Goto, Rewriting, TypeOK
<1>5. CASE SetPIN(h) \/ Reply(h)
  BY <1>3, <1>5 DEF SetPIN, Reply, Goto, Rewriting, TypeOK
<1>6. CASE Open(h)
  <2>1. pc'[h] = "write" => Path = d
    BY <1>6, PathPlace DEF Open, Goto, TypeOK
  <2>2. pc'[h] \in {"write", "failed"} /\ target'[h] = Path /\ env' = env
    BY <1>6 DEF Open, Goto, TypeOK
  <2> QED
    BY <1>3, <2>1, <2>2 DEF Rewriting
<1>7. CASE WriteTmp(h) \/ VerifyTmp(h) \/ Discard(h)
  BY <1>3, <1>7 DEF WriteTmp, VerifyTmp, Discard, Rewriting
<1>8. CASE Rename(h) \/ RenameAgain(h) \/ RenameLast(h)
  <2>1. target[h] = d /\ target' = target
    BY <1>8 DEF Rename, RenameAgain, RenameLast, Renames, Rewriting
  <2>2. env' = env \/ (tmp[d] # None /\ env' = [env EXCEPT ![d] = tmp[d]])
    BY <1>8, <2>1 DEF Rename, RenameAgain, RenameLast, Renames
  <2>3. tmp[d] # None => tmp[d].hashed
    BY HashesAreHashed DEF TypeOK
  <2> QED
    BY <1>1, <1>2, <2>1, <2>2, <2>3 DEF TypeOK
<1>9. CASE Remove(h) \/ RemoveAgain(h)
  <2>1. target[h] = d /\ target' = target
    BY <1>9 DEF Remove, RemoveAgain, Removes, Rewriting
  <2>2. env' = env \/ env' = [env EXCEPT ![d] = None]
    BY <1>9, <2>1 DEF Remove, RemoveAgain, Removes
  <2> QED
    BY <1>1, <1>2, <2>1, <2>2 DEF TypeOK
<1> QED
  BY <1>4, <1>5, <1>6, <1>7, <1>8, <1>9 DEF Change

LEMMA MigratedStart ==
  ASSUME TypeOK, Named, NEW d \in Places, Migrated(d), Start
  PROVE  Migrated(d)'
<1> USE DEF Migrated
<1>1. Loaded = env[d] /\ (env[d] # None => Path = d)
  BY DEF Loaded, Path, Places
<1>2. UNCHANGED <<pc, target>>
  BY DEF Start, Load, MigrateOpen, MigrateWrite, MigrateRename
<1>3. CASE Load
  BY <1>1, <1>2, <1>3 DEF Load
<1>4. CASE MigrateOpen
  BY <1>2, <1>4 DEF MigrateOpen, Fault, TypeOK
<1>5. CASE MigrateWrite
  <2>1. Hashed(pin) # None
    BY <1>5, Files, PinAssumption DEF MigrateWrite, Named
  <2> QED
    BY <1>1, <1>2, <1>5, <2>1 DEF MigrateWrite, Fault, TypeOK
<1>6. CASE MigrateRename
  <2>1. Path = d /\ tmp[d].hashed /\ tmp[d] # None
    BY <1>1, <1>6, HashesAreHashed DEF MigrateRename, TypeOK
  <2>2. boot' = "up" /\ (env' = [env EXCEPT ![d] = tmp[d]] \/ (env' = env /\ faults' # 0))
    BY <1>6, <2>1 DEF MigrateRename, Fault, TypeOK
  <2> QED
    BY <1>2, <2>1, <2>2 DEF TypeOK
<1> QED
  BY <1>3, <1>4, <1>5, <1>6 DEF Start

LEMMA MigratedStep ==
  ASSUME TypeOK, Named, MigratedInv, [Next]_vars PROVE MigratedInv'
<1>1. PICK d \in Places : Migrated(d)
  BY DEF MigratedInv
<1>2. Migrated(d)'
  <2>1. ASSUME NEW h \in Handlers, Change(h) PROVE Migrated(d)'
    BY <1>1, <2>1, MigratedChange
  <2>2. CASE Start
    BY <1>1, <2>2, MigratedStart
  <2>3. CASE Crash
    BY <1>1, <2>3 DEF Crash, Migrated, Rewriting
  <2>4. CASE UNCHANGED vars
    BY <1>1, <2>4 DEF vars, Migrated
  <2> QED
    BY <2>1, <2>2, <2>3, <2>4 DEF Next
<1> QED
  BY <1>2 DEF MigratedInv

\* With one .env and however many requests at once, also when they race for the
\* temporary file and remove .env in the fallback: while no call has failed, no
\* PIN is stored in plain text once the server is up (config.go
\* autoHashPINInEnv, system.go HandleChangePIN).
THEOREM NoPlainTextStored ==
  ASSUME OneFile PROVE Spec => []NoPlainText
<1>1. Init => TypeOK /\ Named /\ MigratedInv
  BY InitType, MigratedInit
<1>2. TypeOK /\ Named /\ MigratedInv /\ [Next]_vars => TypeOK' /\ Named' /\ MigratedInv'
  BY StepType, NamedStep, MigratedStep
<1>3. MigratedInv => NoPlainText
  BY DEF MigratedInv, Migrated, NoPlainText
<1> QED
  BY <1>1, <1>2, <1>3, PTL DEF Spec
=============================================================================
