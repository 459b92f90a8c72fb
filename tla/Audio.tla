------------------------------- MODULE Audio -------------------------------
(***************************************************************************)
(* Volume and mute of the PC's audio devices (server/windows/audio.go, the *)
(* COM helpers in api.go, and server/handlers/audio.go).  Every request is *)
(* a chain of calls to Windows, each of which may fail and most of which   *)
(* return a counted reference that the program has to release: by hand on  *)
(* some paths, by deferred calls on others.                                *)
(*                                                                         *)
(* Requests share nothing but the devices, so one at a time is modelled.   *)
(* A channel stands for the device whose name contains the channel's.      *)
(***************************************************************************)
EXTENDS Integers, FiniteSets

CONSTANTS
    RenderDevices, CaptureDevices,
    Channels,           \* devices named in sonarChannels
    Preferred           \* the device named in preferredDevice

ASSUME AudioAssumption ==
    /\ RenderDevices \cap CaptureDevices = {}
    /\ Channels \subseteq RenderDevices \cup CaptureDevices
    /\ Preferred \in RenderDevices
    /\ \A d \in RenderDevices \cup CaptureDevices :
          d \notin {"enumerator", "collection", "default", "endpoint", "nil"}

VARIABLES
    audioPc,    \* next call of the request
    asked,      \* the request: what it reads or sets, and of which device
    refs,       \* references to each object that the program holds
    deferred,   \* objects that the deferred calls will release
    found,      \* devices in renderDevs and captureDevs
    known,      \* those whose name and identifier could be read
    target,     \* object the volume interface is asked of
    todo,       \* devices a listing has not come to
    settings    \* volume and mute of each device

audioVars == <<audioPc, asked, refs, deferred, found, known, target, todo, settings>>

Devices == RenderDevices \cup CaptureDevices
Objects == Devices \cup {"enumerator", "collection", "default", "endpoint"}
Volumes == {0, 1}
NoObject == "nil"

\* GET /audio/status, POST /audio/volume and /audio/mute are "master";
\* /audio/channels and /audio/devices list; DebugListAllDevices is "debug".
Ops     == {"master", "channel", "device", "channels", "devices", "debug"}
Effects == {"get", "volume", "mute"}
Listing == {"channels", "devices", "debug"}
Both    == {"channel", "channels", "debug"}     \* those that enumerate captures too
NotAsked == [op |-> "debug", effect |-> "get", device |-> Preferred, volume |-> 0, muted |-> FALSE]

AudioTypeOK ==
    /\ audioPc \in {"idle", "com", "render", "renderList", "capture", "captureList",
                    "pick", "default", "activate", "effect", "read"}
    /\ asked \in [op : Ops, effect : Effects, device : Devices, volume : Volumes, muted : BOOLEAN]
    /\ refs \in [Objects -> Int]
    /\ deferred \subseteq Objects
    /\ known \subseteq found /\ found \subseteq Devices
    /\ target \in Objects \cup {NoObject}
    /\ todo \subseteq found
    /\ settings \in [Devices -> [volume : Volumes, muted : BOOLEAN]]

AudioInit ==
    /\ audioPc = "idle" /\ asked = NotAsked
    /\ refs = [x \in Objects |-> 0] /\ deferred = {}
    /\ found = {} /\ known = {} /\ target = NoObject /\ todo = {}
    /\ settings = [d \in Devices |-> [volume |-> 0, muted |-> FALSE]]

Step(from, to) == audioPc = from /\ audioPc' = to
Take(objects) == refs' = [x \in Objects |-> refs[x] + IF x \in objects THEN 1 ELSE 0]

\* The function returns: the objects it releases by hand, and the deferred calls.
Finish(byHand) ==
    /\ audioPc' = "idle" /\ asked' = NotAsked
    /\ refs' = [x \in Objects |-> refs[x] - (IF x \in byHand THEN 1 ELSE 0)
                                          - (IF x \in deferred THEN 1 ELSE 0)]
    /\ deferred' = {} /\ found' = {} /\ known' = {} /\ target' = NoObject /\ todo' = {}

\* enumDevices returned an error, or released what it had: the master volume
\* falls back to the default device, a channel goes on with the devices it
\* has, every other request fails.
FlowFails(flow, released) ==
    CASE asked.op = "master" ->
            /\ audioPc' = "default"
            /\ refs' = [x \in Objects |-> refs[x] - IF x \in released THEN 1 ELSE 0]
            /\ UNCHANGED <<asked, deferred, found, known, target, todo>>
      [] asked.op = "channel" ->
            /\ audioPc' = IF flow = "render" THEN "capture" ELSE "pick"
            /\ refs' = [x \in Objects |-> refs[x] - IF x \in released THEN 1 ELSE 0]
            /\ deferred' = IF flow = "render" THEN deferred ELSE deferred \cup found
            /\ UNCHANGED <<asked, found, known, target, todo>>
      [] OTHER -> Finish(released)

-----------------------------------------------------------------------------
(* Plausible bugs, each the wrong form of the action it is known for; no action *)
(* uses them.                                                                   *)

BugPickPreferred ==
    /\ asked.op = "master" /\ Preferred \in known /\ Step("pick", "activate")
    /\ target' = Preferred
    /\ UNCHANGED <<asked, refs, deferred, found, known, todo, settings>>

BugPickNamed ==
    /\ asked.op \in {"channel", "device"} /\ Step("pick", "activate")
    /\ \E d \in found : target' = d
    /\ UNCHANGED <<asked, refs, deferred, found, known, todo, settings>>

-----------------------------------------------------------------------------
\* A request that has passed the checks of its handler.
AudioRequest ==
    /\ Step("idle", "com")
    /\ asked' \in [op : Ops, effect : Effects, device : Devices, volume : Volumes, muted : BOOLEAN]
    /\ asked'.op \in Listing => asked'.effect = "get" /\ asked'.device = Preferred
    /\ asked'.op = "channel" => asked'.effect # "get" /\ asked'.device \in Channels
    /\ asked'.op = "device"  => asked'.effect # "get"
    /\ asked'.op = "master"  => asked'.device = Preferred
    /\ asked'.effect # "volume" => asked'.volume = 0
    /\ asked'.effect # "mute"   => ~asked'.muted
    /\ UNCHANGED <<refs, deferred, found, known, target, todo, settings>>

\* withCOM and createEnumerator.  getTargetEndpointVolume defers nothing.
Connect ==
    /\ audioPc = "com"
    /\ \/ Finish({})
       \/ /\ Step("com", "render") /\ Take({"enumerator"})
          /\ deferred' = IF asked.op = "master" THEN {} ELSE {"enumerator"}
          /\ UNCHANGED <<asked, found, known, target, todo>>
    /\ UNCHANGED settings

\* enumDevices: EnumAudioEndpoints, ...
Enumerate(flow, list) ==
    /\ audioPc = flow
    /\ \/ FlowFails(flow, {})
       \/ /\ Step(flow, list) /\ Take({"collection"})
          /\ UNCHANGED <<asked, deferred, found, known, target, todo>>
    /\ UNCHANGED settings

\* ... then GetCount, and Item and GetId or OpenPropertyStore for each device,
\* any of which may be skipped or stay without a name.  getDeviceFriendlyName
\* releases the property store it has opened by a deferred call on each of its
\* paths: the step takes and gives back that reference.
ListFlow(flow, list, devices) ==
    /\ audioPc = list
    /\ \/ FlowFails(flow, {"collection"})
       \/ \E got \in SUBSET devices : \E readable \in SUBSET got :
             /\ refs' = [x \in Objects |-> refs[x] + (IF x \in got THEN 1 ELSE 0)
                                                   - (IF x = "collection" THEN 1 ELSE 0)]
             /\ found' = found \cup got /\ known' = known \cup readable
             /\ audioPc' = IF flow = "render" /\ asked.op \in Both THEN "capture" ELSE "pick"
             /\ deferred' =
                   CASE asked.op = "master" -> deferred
                     [] asked.op = "channel" /\ flow = "render" -> deferred
                     [] asked.op = "channel" /\ flow = "capture" -> deferred \cup found'
                     [] OTHER -> deferred \cup got
             /\ UNCHANGED <<asked, target, todo>>
    /\ UNCHANGED settings

\* findDeviceByName(devices, preferredDevice) found it: the others are released.
PickPreferred ==
    /\ asked.op = "master" /\ Preferred \in known /\ Step("pick", "activate")
    /\ target' = Preferred
    /\ refs' = [x \in Objects |-> refs[x] - IF x \in found \ {Preferred} THEN 1 ELSE 0]
    /\ UNCHANGED <<asked, deferred, found, known, todo, settings>>

PickDefault ==
    /\ asked.op = "master" /\ Preferred \notin known /\ Step("pick", "default")
    /\ refs' = [x \in Objects |-> refs[x] - IF x \in found THEN 1 ELSE 0]
    /\ UNCHANGED <<asked, deferred, found, known, target, todo, settings>>

\* GetDefaultAudioEndpoint
GetDefault ==
    /\ audioPc = "default"
    /\ \/ Finish({"enumerator"})
       \/ /\ Step("default", "activate") /\ Take({"default"})
          /\ target' = "default"
          /\ UNCHANGED <<asked, deferred, found, known, todo>>
    /\ UNCHANGED settings

\* A channel by its name, a device by its identifier.
PickNamed ==
    /\ asked.op \in {"channel", "device"} /\ asked.device \in known
    /\ Step("pick", "activate")
    /\ target' = asked.device
    /\ UNCHANGED <<asked, refs, deferred, found, known, todo, settings>>

PickNothing ==
    /\ asked.op \in {"channel", "device"} /\ audioPc = "pick" /\ asked.device \notin known
    /\ Finish({})
    /\ UNCHANGED settings

\* activateEndpointVolume.  On success the triple of the master volume, or the
\* volume interface of the others, is released by a deferred call.
Activate ==
    /\ audioPc = "activate"
    /\ \/ Finish(IF asked.op = "master" THEN {"enumerator", target} ELSE {})
       \/ /\ Step("activate", "effect") /\ Take({"endpoint"})
          /\ deferred' = deferred \cup {"endpoint"} \cup
                (IF asked.op = "master" THEN {"enumerator", target} ELSE {})
          /\ UNCHANGED <<asked, found, known, target, todo>>
    /\ UNCHANGED settings

\* The call itself, on the device or on the one that is the default by now.
Effect ==
    /\ audioPc = "effect"
    /\ \/ UNCHANGED settings
       \/ \E d \in IF target = "default" THEN RenderDevices ELSE {target} :
             settings' = CASE asked.effect = "volume" -> [settings EXCEPT ![d].volume = asked.volume]
                           [] asked.effect = "mute" -> [settings EXCEPT ![d].muted = asked.muted]
                           [] OTHER -> settings
    /\ Finish({})

\* The listings go through their devices; DebugListAllDevices has their names.
StartList ==
    /\ asked.op \in Listing /\ Step("pick", "read")
    /\ todo' = CASE asked.op = "channels" -> known \cap Channels
                 [] asked.op = "devices"  -> known
                 [] OTHER -> {}
    /\ UNCHANGED <<asked, refs, deferred, found, known, target, settings>>

\* A device whose volume interface cannot be had is left out; the errors of the
\* two readings are not looked at.
ReadDevice ==
    /\ audioPc = "read" /\ target = NoObject
    /\ \E d \in todo :
          /\ todo' = todo \ {d}
          /\ \/ target' = d /\ Take({"endpoint"})
             \/ UNCHANGED <<target, refs>>
    /\ UNCHANGED <<audioPc, asked, deferred, found, known, settings>>

ReleaseRead ==
    /\ audioPc = "read" /\ target # NoObject
    /\ target' = NoObject
    /\ refs' = [refs EXCEPT !["endpoint"] = @ - 1]
    /\ UNCHANGED <<audioPc, asked, deferred, found, known, todo, settings>>

EndList ==
    /\ audioPc = "read" /\ target = NoObject /\ todo = {}
    /\ Finish({})
    /\ UNCHANGED settings

AudioNext ==
    \/ AudioRequest \/ Connect
    \/ Enumerate("render", "renderList") \/ ListFlow("render", "renderList", RenderDevices)
    \/ Enumerate("capture", "captureList") \/ ListFlow("capture", "captureList", CaptureDevices)
    \/ PickPreferred \/ PickDefault \/ GetDefault \/ PickNamed \/ PickNothing
    \/ Activate \/ Effect \/ StartList \/ ReadDevice \/ ReleaseRead \/ EndList

AudioSpec == AudioInit /\ [][AudioNext]_audioVars

-----------------------------------------------------------------------------
(* Correctness                                                                *)

\* Whatever call fails, a request has released by its end what it was given,
\* nothing twice, and it calls nothing it has released: a leak grows with
\* every poll of the app, a second release crashes the server (audio.go
\* getTargetEndpointVolume, api.go enumDevices and releaseDevices).
RefsBalanced ==
    /\ \A x \in Objects : refs[x] \in 0 .. 1
    /\ audioPc = "idle" => \A x \in Objects : refs[x] = 0
    /\ audioPc = "activate" => refs[target] = 1
    /\ audioPc = "read" => \A d \in todo : refs[d] = 1

\* A request changes at most one device: the one it names, and for the master
\* volume the preferred one, or another render device only when the preferred
\* one was not to be found (audio.go getTargetEndpointVolume, SetChannelVolume,
\* SetDeviceVolume).
OnlyNamedDevice ==
    [][ \A d \in Devices : settings'[d] # settings[d] =>
          /\ \A e \in Devices \ {d} : settings'[e] = settings[e]
          /\ \/ d = asked.device
             \/ asked.op = "master" /\ d \in RenderDevices /\ Preferred \notin known
      ]_audioVars

=============================================================================
