----------------------------- MODULE PinChange -----------------------------
(***************************************************************************)
(* The PIN of the server: loaded from .env, and hashed there if it is      *)
(* plain text, when the process starts (server/config/config.go), replaced *)
(* by POST /system/pin (server/handlers/system.go, HandleChangePIN).       *)
(*                                                                         *)
(* The PIN in memory is a global without a lock, and .env is rewritten by  *)
(* one system call after another through a temporary file with a fixed     *)
(* name.  Each call is a step; it may fail, and the process may die, in    *)
(* between.  .env is beside the executable, or in the working directory if *)
(* main could not change to the executable's.  Of its content only the PIN *)
(* is modelled.                                                            *)
(***************************************************************************)
EXTENDS Naturals

CONSTANTS
    Handlers,       \* goroutines that serve requests
    Pins,
    None,           \* no PIN, no file
    Layouts,        \* which directories may have a .env at first
    MaxFaults,      \* bound: system calls that fail
    MaxCrashes      \* bound: process deaths

Places == {"exe", "cwd"}

\* What a .env says of the PIN.
Plain(p)  == [pin |-> p, hashed |-> FALSE]
Hashed(p) == [pin |-> p, hashed |-> TRUE]
Hashes    == {Hashed(p) : p \in Pins}
Contents  == Hashes \cup {Plain(p) : p \in Pins}

ASSUME PinAssumption ==
    /\ None \notin Pins \cup Contents
    /\ Layouts \subseteq SUBSET Places
    /\ MaxFaults \in Nat /\ MaxCrashes \in Nat

VARIABLES
    boot,       \* what the process is doing: down, starting or up
    pin,        \* config.App.PIN; a hash, but for a moment at the start
    env,        \* content of each .env
    tmp,        \* content of each .env.tmp
    pc,         \* next step of each handler
    new,        \* the new PIN each handler has been asked for
    target,     \* the directory whose .env each handler rewrites
    faults, crashes,
    \* History; no step depends on it.
    expected    \* the PINs that the requests answered so far, and those under
                \* way, allow to be in force

vars == <<boot, pin, env, tmp, pc, new, target, faults, crashes, expected>>

Boots == {"down", "open", "write", "rename", "up"}
Steps == {"idle", "set", "open", "write", "verify", "rename", "remove", "renameAgain",
          "removeAgain", "renameLast", "discard", "ok", "failed"}

TypeOK ==
    /\ boot \in Boots
    /\ pin \in Pins \cup {None}
    /\ env \in [Places -> Contents \cup {None}]
    /\ tmp \in [Places -> Hashes \cup {None}]
    /\ pc \in [Handlers -> Steps]
    /\ new \in [Handlers -> Pins \cup {None}]
    /\ target \in [Handlers -> Places]
    /\ faults \in 0 .. MaxFaults /\ crashes \in 0 .. MaxCrashes
    /\ expected \subseteq Pins

Idle == \A h \in Handlers : pc[h] = "idle"

\* The server is installed with a plain PIN and has not been started.
Init ==
    /\ boot = "down"
    /\ \E p \in Pins, layout \in Layouts :
         /\ env = [d \in Places |-> IF d \in layout THEN Plain(p) ELSE None]
         /\ expected = {p}
    /\ pin = None
    /\ tmp = [d \in Places |-> None]
    /\ pc = [h \in Handlers |-> "idle"]
    /\ new = [h \in Handlers |-> None]
    /\ target = [h \in Handlers |-> "cwd"]
    /\ faults = 0 /\ crashes = 0

\* The file that is rewritten: the one beside the executable if it exists.
Path == IF env["exe"] # None THEN "exe" ELSE "cwd"

\* What Init reads: a .env in the working directory overrides the other.
Loaded == IF env["cwd"] # None THEN env["cwd"] ELSE env["exe"]

\* A system call fails.
Fault == faults < MaxFaults /\ faults' = faults + 1

Goto(h, step) == pc' = [pc EXCEPT ![h] = step]

-----------------------------------------------------------------------------
(* Plausible bugs, each the wrong form of the action it is named for.           *)

\* The PIN is written back as it was read.
BugMigrateWrite ==
    /\ boot = "write" /\ boot' = "rename"
    /\ tmp' = [tmp EXCEPT ![Path] = Plain(pin)]
    /\ UNCHANGED <<pin, env, pc, new, target, faults, crashes, expected>>

\* A plain PIN is taken for a hash.
BugLoad ==
    /\ boot = "down" /\ boot' = "up"
    /\ pin' = IF Loaded = None THEN None ELSE Loaded.pin
    /\ UNCHANGED <<env, tmp, pc, new, target, faults, crashes, expected>>

\* Memory keeps the old PIN until the next start.
BugSetPIN(h) ==
    /\ pc[h] = "set" /\ Goto(h, "open")
    /\ UNCHANGED <<boot, pin, env, tmp, new, target, faults, crashes, expected>>

\* The old file is removed first, as the fallback does.
BugRename(h) ==
    /\ pc[h] = "rename" /\ Goto(h, "remove")
    /\ UNCHANGED <<boot, pin, env, tmp, new, target, faults, crashes, expected>>

\* The last error is not looked at.
BugRenameLast(h) ==
    /\ pc[h] = "renameLast" /\ Goto(h, "ok")
    /\ UNCHANGED <<boot, pin, env, tmp, new, target, faults, crashes, expected>>

-----------------------------------------------------------------------------
(* The start of the process. *)

Load ==
    /\ boot = "down"
    /\ \/ /\ Loaded = None
          /\ pin' = None /\ boot' = "up"
       \/ /\ Loaded # None
          /\ pin' = Loaded.pin
          /\ boot' = IF Loaded.hashed THEN "up" ELSE "open"
    /\ UNCHANGED <<env, tmp, pc, new, target, faults, crashes, expected>>

\* autoHashPINInEnv; any error, that of hashing the PIN included, only ends the
\* migration.
MigrateOpen ==
    /\ boot = "open"
    /\ \/ env[Path] # None /\ boot' = "write" /\ UNCHANGED faults
       \/ Fault /\ boot' = "up"
    /\ UNCHANGED <<pin, env, tmp, pc, new, target, crashes, expected>>

MigrateWrite ==
    /\ boot = "write"
    /\ \/ /\ tmp' = [tmp EXCEPT ![Path] = Hashed(pin)]
          /\ boot' = "rename" /\ UNCHANGED faults
       \/ /\ Fault
          /\ tmp' = [tmp EXCEPT ![Path] = None]
          /\ boot' = "up"
    /\ UNCHANGED <<pin, env, pc, new, target, crashes, expected>>

MigrateRename ==
    /\ boot = "rename" /\ boot' = "up"
    /\ tmp' = [tmp EXCEPT ![Path] = None]
    /\ \/ env' = [env EXCEPT ![Path] = tmp[Path]] /\ UNCHANGED faults
       \/ Fault /\ UNCHANGED env
    /\ UNCHANGED <<pin, pc, new, target, crashes, expected>>

-----------------------------------------------------------------------------
(* POST /system/pin. *)

\* The current PIN is verified and the new one, which differs, is hashed.
Verified(h, p) ==
    /\ boot = "up" /\ pc[h] = "idle"
    /\ pin # None /\ p # pin
    /\ expected' = (IF Idle THEN {pin} ELSE expected) \cup {p}
    /\ new' = [new EXCEPT ![h] = p]
    /\ Goto(h, "set")
    /\ UNCHANGED <<boot, pin, env, tmp, target, faults, crashes>>

SetPIN(h) ==
    /\ pc[h] = "set" /\ Goto(h, "open")
    /\ pin' = new[h]
    /\ UNCHANGED <<boot, env, tmp, new, target, faults, crashes, expected>>

Open(h) ==
    /\ pc[h] = "open"
    /\ target' = [target EXCEPT ![h] = Path]
    /\ \/ env[Path] # None /\ Goto(h, "write") /\ UNCHANGED faults
       \/ env[Path] = None /\ Goto(h, "failed") /\ UNCHANGED faults
       \/ Fault /\ Goto(h, "failed")
    /\ UNCHANGED <<boot, pin, env, tmp, new, crashes, expected>>

WriteTmp(h) ==
    /\ pc[h] = "write"
    /\ \/ /\ tmp' = [tmp EXCEPT ![target[h]] = Hashed(new[h])]
          /\ Goto(h, "verify") /\ UNCHANGED faults
       \/ Fault /\ Goto(h, "discard") /\ UNCHANGED tmp
    /\ UNCHANGED <<boot, pin, env, new, target, crashes, expected>>

VerifyTmp(h) ==
    /\ pc[h] = "verify"
    /\ \/ tmp[target[h]] # None /\ Goto(h, "rename") /\ UNCHANGED faults
       \/ tmp[target[h]] = None /\ Goto(h, "discard") /\ UNCHANGED faults
       \/ Fault /\ Goto(h, "discard")
    /\ UNCHANGED <<boot, pin, env, tmp, new, target, crashes, expected>>

\* os.Rename replaces the file, or fails, at the latest if there is no temporary
\* file any more.
Renames(h, otherwise) ==
    /\ \/ /\ tmp[target[h]] # None
          /\ env' = [env EXCEPT ![target[h]] = tmp[target[h]]]
          /\ tmp' = [tmp EXCEPT ![target[h]] = None]
          /\ Goto(h, "ok") /\ UNCHANGED faults
       \/ /\ tmp[target[h]] = None /\ Goto(h, otherwise)
          /\ UNCHANGED <<env, tmp, faults>>
       \/ /\ Fault /\ Goto(h, otherwise)
          /\ UNCHANGED <<env, tmp>>
    /\ UNCHANGED <<boot, pin, new, target, crashes, expected>>

Rename(h) == pc[h] = "rename" /\ Renames(h, "remove")
RenameAgain(h) == pc[h] = "renameAgain" /\ Renames(h, "removeAgain")
RenameLast(h) == pc[h] = "renameLast" /\ Renames(h, "discard")

\* The error of os.Remove is dropped.
Removes(h, then) ==
    /\ \/ env' = [env EXCEPT ![target[h]] = None] /\ UNCHANGED faults
       \/ Fault /\ UNCHANGED env
    /\ Goto(h, then)
    /\ UNCHANGED <<boot, pin, tmp, new, target, crashes, expected>>

Remove(h)      == pc[h] = "remove" /\ Removes(h, "renameAgain")
RemoveAgain(h) == pc[h] = "removeAgain" /\ Removes(h, "renameLast")

Discard(h) ==
    /\ pc[h] = "discard" /\ Goto(h, "failed")
    /\ \/ tmp' = [tmp EXCEPT ![target[h]] = None] /\ UNCHANGED faults
       \/ Fault /\ UNCHANGED tmp
    /\ UNCHANGED <<boot, pin, env, new, target, crashes, expected>>

\* A 200, or a 500 after which either PIN may be in force.
Reply(h) ==
    /\ pc[h] \in {"ok", "failed"} /\ Goto(h, "idle")
    /\ expected' = IF pc[h] = "ok" /\ \A g \in Handlers \ {h} : pc[g] = "idle"
                     THEN {new[h]} ELSE expected
    /\ new' = [new EXCEPT ![h] = None]
    /\ target' = [target EXCEPT ![h] = "cwd"]
    /\ UNCHANGED <<boot, pin, env, tmp, faults, crashes>>

-----------------------------------------------------------------------------
Crash ==
    /\ boot # "down" /\ crashes < MaxCrashes
    /\ crashes' = crashes + 1
    /\ boot' = "down" /\ pin' = None
    /\ pc' = [h \in Handlers |-> "idle"]
    /\ new' = [h \in Handlers |-> None]
    /\ target' = [h \in Handlers |-> "cwd"]
    /\ UNCHANGED <<env, tmp, faults, expected>>

Change(h) ==
    \/ \E p \in Pins : Verified(h, p)
    \/ SetPIN(h) \/ Open(h) \/ WriteTmp(h) \/ VerifyTmp(h)
    \/ Rename(h) \/ Remove(h) \/ RenameAgain(h) \/ RemoveAgain(h) \/ RenameLast(h)
    \/ Discard(h) \/ Reply(h)

Start == Load \/ MigrateOpen \/ MigrateWrite \/ MigrateRename

Next == Start \/ Crash \/ \E h \in Handlers : Change(h)

Spec == Init /\ [][Next]_vars

-----------------------------------------------------------------------------
(* Properties. *)

\* While no call has failed, a start at any moment, after a crash between any two
\* steps, finds a PIN that the answers given so far allow (system.go:174).
NeverLost == faults = 0 => Loaded # None /\ Loaded.pin \in expected

\* While no call has failed, memory and disk have the same PIN between requests
\* (system.go:104).
AgreeWhenIdle == faults = 0 /\ boot = "up" /\ Idle => pin # None /\ Loaded = Hashed(pin)

\* A 200 is sent only when the new PIN is in force and survives a restart, failing
\* calls or not (system.go:195).
AckedMeansStored ==
    \A h \in Handlers : pc[h] = "ok" => pin = new[h] /\ Loaded = Hashed(new[h])

\* While no call has failed, no PIN is stored in plain text once the server is up
\* (config.go:71).
NoPlainText ==
    faults = 0 /\ boot = "up" => \A d \in Places : env[d] # None => env[d].hashed
=============================================================================
