---------------------------- MODULE MediaStatus ----------------------------
(***************************************************************************)
(* Media status and media keys (server/windows/media.go, server/handlers/  *)
(* media.go).  A request writes a PowerShell script under a name taken     *)
(* from the clock and has it run in the user's session: directly, or, when *)
(* the server is a service in session 0, by a scheduled task, whose script *)
(* leaves its result in a file that the request polls for.  The script may *)
(* be late, and write after the request has given up.                      *)
(*                                                                         *)
(* A script's name is the request's UnixNano, of which nano is the part    *)
(* below a tick; a task's is the process and the UnixMilli, the tick, at   *)
(* which it is created.  Requests of one tick may meet in either name.     *)
(* What a script reports is modelled by the tick at which it asked the     *)
(* player.  The process may die: its goroutines go, and what it has left   *)
(* on disk and in the Task Scheduler stays.                                *)
(***************************************************************************)
EXTENDS Naturals

CONSTANTS
    Jobs,           \* goroutines that serve /media requests
    MaxRequests,    \* bound: requests in a behaviour
    MaxTicks,       \* bound: ticks of the clock
    MaxDeaths       \* bound: deaths of the process

ASSUME MediaAssumption == MaxTicks \in Nat /\ MaxRequests \in Nat /\ MaxDeaths \in Nat

VARIABLES
    session0,   \* the server runs as a service; constant
    clock,      \* the tick it is
    arrived,    \* requests so far
    life,       \* the process: deaths so far
    job,        \* the requests
    scripts,    \* script files on disk
    tasks,      \* scheduled tasks that are registered, and the scripts they run
    running,    \* scripts that a task has started
    outputs,    \* result files: their names and the tick they report
    deleting,   \* goroutines that are about to delete a task, by request
    removing,   \* scripts that a goroutine is about to remove
    recent,     \* mediaCacheVal is set and mediaCacheTime is recent
    abandoned   \* history: tasks whose delete has failed or whose process has died

mediaVars == <<session0, clock, arrived, life, job, scripts, tasks, running, outputs, deleting,
               removing, recent, abandoned>>
environment == <<session0, clock, arrived, life>>
scheduler   == <<tasks, deleting, abandoned>>

Ticks  == 0 .. MaxTicks
NoTick == MaxTicks + 1
Kinds  == {"status", "key"}
Names     == [kind : Kinds, tick : Ticks, nano : 0 .. 1]
TaskNames == [kind : Kinds, tick : Ticks, life : 0 .. MaxDeaths]
NoName == [kind |-> "key", tick |-> 0, nano |-> 0]
NoTask == [kind |-> "key", tick |-> 0, life |-> 0]

NoJob == [pc |-> "idle", no |-> 0, name |-> NoName, task |-> NoTask, report |-> NoTick]

MediaTypeOK ==
    /\ session0 \in BOOLEAN /\ clock \in Ticks
    /\ arrived \in 0 .. MaxRequests /\ life \in 0 .. MaxDeaths
    /\ job \in [Jobs -> [pc : {"idle", "write", "direct", "create", "run", "poll", "answer"},
                         no : 0 .. MaxRequests, name : Names, task : TaskNames,
                         report : Ticks \cup {NoTick}]]
    /\ scripts \subseteq Names /\ removing \subseteq Names
    /\ tasks \subseteq [task : TaskNames, script : Names]
    /\ deleting \subseteq [task : TaskNames, no : 0 .. MaxRequests]
    /\ running \subseteq [task : TaskNames, name : Names, report : Ticks \cup {NoTick}]
    /\ outputs \subseteq [tick : Ticks, nano : 0 .. 1, report : Ticks]
    /\ recent \in BOOLEAN
    /\ abandoned \subseteq TaskNames

MediaInit ==
    /\ session0 \in BOOLEAN
    /\ clock = 0 /\ arrived = 0 /\ life = 0
    /\ job = [j \in Jobs |-> NoJob]
    /\ scripts = {} /\ tasks = {} /\ running = {} /\ outputs = {}
    /\ deleting = {} /\ removing = {} /\ abandoned = {}
    /\ recent = FALSE

JobAt(j, pc) == job[j].pc = pc
JobTo(j, pc) == job' = [job EXCEPT ![j].pc = pc]
IsStatus(j)  == job[j].name.kind = "status"

\* A status request's script goes when it returns, a key's three seconds later.
JobEnds(j) ==
    /\ job' = [job EXCEPT ![j] = NoJob]
    /\ scripts' = IF IsStatus(j) THEN scripts \ {job[j].name} ELSE scripts

-----------------------------------------------------------------------------
(* Plausible bugs, each the wrong form of the definition it is named for; no *)
(* action uses them.                                                         *)

BugIsOutput(o, name) == TRUE

BugRunTask(j) ==
    /\ JobAt(j, "run")
    /\ \/ /\ deleting' = deleting \cup {[task |-> job[j].task, no |-> job[j].no]}
          /\ running' = running \cup {[task |-> job[j].task, name |-> job[j].name,
                                       report |-> NoTick]}
          /\ IF IsStatus(j) THEN JobTo(j, "poll") /\ UNCHANGED scripts ELSE JobEnds(j)
       \/ JobEnds(j) /\ UNCHANGED <<running, deleting>>
    /\ UNCHANGED <<environment, tasks, outputs, removing, recent, abandoned>>

-----------------------------------------------------------------------------
\* The result file of a script has its UnixNano.
IsOutput(o, name) == o.tick = name.tick /\ o.nano = name.nano

\* A status request with a recent cache is answered from it and changes nothing.
MediaRequest(j) ==
    /\ JobAt(j, "idle") /\ arrived < MaxRequests
    /\ arrived' = arrived + 1
    /\ \E kind \in Kinds, nano \in 0 .. 1 :
          /\ kind = "status" => ~recent
          /\ job' = [job EXCEPT ![j] = [NoJob EXCEPT !.pc = "write", !.no = arrived + 1,
                                !.name = [kind |-> kind, tick |-> clock, nano |-> nano]]]
    /\ UNCHANGED <<session0, clock, life, scripts, scheduler, running, outputs, removing, recent>>

\* os.WriteFile; then a status removes an old result file, and a key starts the
\* goroutine that removes its script.
WriteScript(j) ==
    /\ JobAt(j, "write")
    /\ \/ /\ scripts' = scripts \cup {job[j].name}
          /\ IF IsStatus(j)
             THEN /\ outputs' = {o \in outputs : ~IsOutput(o, job[j].name)}
                  /\ UNCHANGED removing
             ELSE /\ removing' = removing \cup {job[j].name}
                  /\ UNCHANGED outputs
          /\ JobTo(j, IF session0 THEN "create" ELSE "direct")
       \/ job' = [job EXCEPT ![j] = NoJob] /\ UNCHANGED <<scripts, outputs, removing>>
    /\ UNCHANGED <<environment, scheduler, running, recent>>

\* In an interactive session the script runs as a child and its output is read.
RunDirectly(j) ==
    /\ JobAt(j, "direct")
    /\ \/ IsStatus(j) /\ UNCHANGED scripts
          /\ job' = [job EXCEPT ![j].pc = "answer", ![j].report = clock]
       \/ JobEnds(j)
    /\ UNCHANGED <<environment, scheduler, running, outputs, removing, recent>>

\* schtasks /create /f: a task of that name is overwritten.
CreateTask(j) ==
    /\ JobAt(j, "create")
    /\ \/ \E t \in TaskNames :
             /\ t = [kind |-> job[j].name.kind, tick |-> clock, life |-> life]
             /\ tasks' = {x \in tasks : x.task # t} \cup {[task |-> t, script |-> job[j].name]}
             /\ abandoned' = abandoned \ {t}
             /\ job' = [job EXCEPT ![j].pc = "run", ![j].task = t]
             /\ UNCHANGED scripts
       \/ JobEnds(j) /\ UNCHANGED <<tasks, abandoned>>
    /\ UNCHANGED <<environment, running, outputs, deleting, removing, recent>>

\* schtasks /delete, whose error is dropped.
Delete(t) ==
    \/ tasks' = {x \in tasks : x.task # t} /\ UNCHANGED abandoned
    \/ abandoned' = abandoned \cup {t} /\ UNCHANGED tasks

\* The Task Scheduler starts the script the task now has, unless an instance of
\* the task still runs (external).
Starts(t) ==
    \/ \E x \in tasks :
          /\ x.task = t
          /\ running' = running \cup {[task |-> t, name |-> x.script, report |-> NoTick]}
    \/ (\E s \in running : s.task = t) /\ UNCHANGED running

\* schtasks /run needs the task, which a request of the same tick may have
\* deleted; when it fails the task is deleted at once, else by a goroutine.
RunTask(j) ==
    /\ JobAt(j, "run")
    /\ \/ /\ \E x \in tasks : x.task = job[j].task
          /\ Starts(job[j].task)
          /\ deleting' = deleting \cup {[task |-> job[j].task, no |-> job[j].no]}
          /\ IF IsStatus(j) THEN JobTo(j, "poll") /\ UNCHANGED scripts ELSE JobEnds(j)
          /\ UNCHANGED <<tasks, abandoned>>
       \/ /\ Delete(job[j].task)
          /\ JobEnds(j)
          /\ UNCHANGED <<running, deleting>>
    /\ UNCHANGED <<environment, outputs, removing, recent>>

\* The polling loop finds the file, reads and removes it; JSON may be cut short.
Collect(j) ==
    /\ JobAt(j, "poll")
    /\ \E o \in outputs :
          /\ IsOutput(o, job[j].name)
          /\ outputs' = outputs \ {o}
          /\ \/ job' = [job EXCEPT ![j].pc = "answer", ![j].report = o.report]
                /\ UNCHANGED scripts
             \/ JobEnds(j)
    /\ UNCHANGED <<environment, scheduler, running, removing, recent>>

GiveUp(j) ==
    /\ JobAt(j, "poll")
    /\ JobEnds(j)
    /\ UNCHANGED <<environment, scheduler, running, outputs, removing, recent>>

\* The cache is overwritten without a lock, by whoever answers last.
Answer(j) ==
    /\ JobAt(j, "answer")
    /\ recent' = TRUE
    /\ JobEnds(j)
    /\ UNCHANGED <<environment, scheduler, running, outputs, removing>>

\* A goroutine that a successful /run has started.
DeleteTask(d) ==
    /\ d \in deleting
    /\ deleting' = deleting \ {d}
    /\ Delete(d.task)
    /\ UNCHANGED <<environment, job, scripts, running, outputs, removing, recent>>

\* The goroutine that SendMediaKey starts when it has written the script; the
\* error of os.Remove is dropped.
RemoveScript(n) ==
    /\ n \in removing
    /\ removing' = removing \ {n}
    /\ scripts' \in {scripts \ {n}, scripts}
    /\ UNCHANGED <<environment, job, scheduler, running, outputs, recent>>

\* The process dies, with its requests and goroutines, and is started again.
Die ==
    /\ life < MaxDeaths
    /\ life' = life + 1
    /\ job' = [j \in Jobs |-> NoJob]
    /\ deleting' = {} /\ removing' = {} /\ recent' = FALSE
    /\ abandoned' = {x.task : x \in tasks}
    /\ UNCHANGED <<session0, clock, arrived, scripts, tasks, running, outputs>>

-----------------------------------------------------------------------------
(* The scripts and the clock                                                  *)

\* The script, if its file is still there, asks the player; a key ends there.
ScriptAsks ==
    /\ \E s \in running :
          /\ s.report = NoTick
          /\ running' = IF s.name \in scripts /\ s.name.kind = "status"
                        THEN (running \ {s}) \cup {[s EXCEPT !.report = clock]}
                        ELSE running \ {s}
    /\ UNCHANGED <<environment, job, scripts, scheduler, outputs, removing, recent>>

ScriptWrites ==
    /\ \E s \in running :
          /\ s.report # NoTick
          /\ running' = running \ {s}
          /\ outputs' = {o \in outputs : ~IsOutput(o, s.name)}
                \cup {[tick |-> s.name.tick, nano |-> s.name.nano, report |-> s.report]}
    /\ UNCHANGED <<environment, job, scripts, scheduler, removing, recent>>

CacheAges ==
    /\ recent
    /\ recent' = FALSE
    /\ UNCHANGED <<environment, job, scripts, scheduler, running, outputs, removing>>

Tick ==
    /\ clock < MaxTicks
    /\ clock' = clock + 1
    /\ UNCHANGED <<session0, arrived, life, job, scripts, scheduler, running, outputs, removing,
                   recent>>

JobStep(j) ==
    \/ WriteScript(j) \/ RunDirectly(j) \/ CreateTask(j) \/ RunTask(j)
    \/ Collect(j) \/ GiveUp(j) \/ Answer(j)

MediaNext ==
    \/ \E j \in Jobs : MediaRequest(j) \/ JobStep(j)
    \/ \E d \in deleting : DeleteTask(d)
    \/ \E n \in removing : RemoveScript(n)
    \/ Die \/ ScriptAsks \/ ScriptWrites \/ CacheAges \/ Tick

MediaSpec == MediaInit /\ [][MediaNext]_mediaVars

-----------------------------------------------------------------------------
(* Correctness                                                                *)

\* A status that was asked of the player, not of the cache, is no older than
\* its request, although the script of an earlier request that gave up may
\* write its result at any later time (media.go GetMediaStatus).
FreshStatus == \A j \in Jobs : JobAt(j, "answer") => job[j].report >= job[j].name.tick

\* A registered task that no request and no goroutine is going to delete is one
\* whose delete was tried since its creation and failed, or whose process died:
\* no early return forgets it, whoever else has used its name (media.go
\* runInUserSession).
TasksOwned ==
    \A x \in tasks :
        \/ x.task \in abandoned
        \/ \E d \in deleting : d.task = x.task
        \/ \E j \in Jobs : JobAt(j, "run") /\ job[j].task = x.task

=============================================================================
