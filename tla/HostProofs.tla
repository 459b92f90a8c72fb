---------------------------- MODULE HostProofs ------------------------------
(* Theorems about Audio, for every set of devices, about MediaStatus, for     *)
(* every number of requests and every clock, and about the host that MCHost   *)
(* composes of all its parts.                                                 *)
EXTENDS MCHost, LifecycleProofs, ScreenProofs

-----------------------------------------------------------------------------
(* Audio: the references a request holds, step by step                        *)

AudioSteps == {"idle", "com", "render", "renderList", "capture", "captureList",
          "pick", "default", "activate", "effect", "read"}
Requested == [op : Ops, effect : Effects, device : Devices, volume : Volumes, muted : BOOLEAN]

\* What the program holds at each step.  The master volume gives up the devices
\* it does not need, all other requests keep them to the end.
Held ==
    CASE audioPc \in {"idle", "com"} -> {}
      [] audioPc = "render" -> {"enumerator"}
      [] audioPc = "renderList" -> {"enumerator", "collection"}
      [] audioPc \in {"capture", "pick"} -> {"enumerator"} \cup found
      [] audioPc = "captureList" -> {"enumerator", "collection"} \cup found
      [] audioPc = "default" -> {"enumerator"}
      [] audioPc = "activate" ->
            IF asked.op = "master" THEN {"enumerator", target} ELSE {"enumerator"} \cup found
      [] audioPc = "effect" ->
            {"endpoint"} \cup
               IF asked.op = "master" THEN {"enumerator", target} ELSE {"enumerator"} \cup found
      [] audioPc = "read" ->
            {"enumerator"} \cup found \cup IF target = NoObject THEN {} ELSE {"endpoint"}

\* What the deferred calls will release: in the end, all that is held.
Owed ==
    CASE audioPc \in {"idle", "com"} -> {}
      [] audioPc \in {"render", "renderList", "default"} ->
            IF asked.op = "master" THEN {} ELSE {"enumerator"}
      [] audioPc \in {"capture", "captureList"} ->
            IF asked.op = "channel" THEN {"enumerator"} ELSE {"enumerator"} \cup found
      [] audioPc \in {"pick", "activate", "read"} ->
            IF asked.op = "master" THEN {} ELSE {"enumerator"} \cup found
      [] audioPc = "effect" ->
            {"endpoint"} \cup
               IF asked.op = "master" THEN {"enumerator", target} ELSE {"enumerator"} \cup found

Counts(held) == [x \in Objects |-> IF x \in held THEN 1 ELSE 0]

\* Which requests come to which step, and with what.
Course ==
    /\ audioPc \in AudioSteps /\ asked \in Requested
    /\ audioPc \in {"idle", "com", "render", "renderList"} => found = {}
    /\ audioPc \in {"capture", "captureList"} =>
          asked.op \in Both /\ found \subseteq RenderDevices
    /\ audioPc = "default" => asked.op = "master"
    /\ audioPc = "read" => asked.op \in Listing
    /\ audioPc \in {"activate", "effect"} => asked.op \in {"master", "channel", "device"}
    /\ asked.op = "master" => asked.device = Preferred
    /\ known \subseteq found /\ found \subseteq Devices
    /\ todo \subseteq found

\* The volume interface is asked of a device that was found, or of the default.
Targets ==
    /\ target \in Devices \cup {"default", NoObject}
    /\ audioPc \in {"activate", "effect"} =>
          \/ target = asked.device /\ target \in known
          \/ target = "default" /\ asked.op = "master"
    /\ audioPc \in {"activate", "effect"} /\ target = "default" => Preferred \notin known
    /\ audioPc = "default" => Preferred \notin known
    /\ audioPc = "read" => target \in found \cup {NoObject}
    /\ audioPc \notin {"activate", "effect", "read"} => target = NoObject

AudioInv == Course /\ Targets /\ refs = Counts(Held) /\ deferred = Owed

LEMMA Flows == RenderDevices \cap CaptureDevices = {} /\ Preferred \in RenderDevices
  BY AudioAssumption DEF AudioAssumption

LEMMA Distinct ==
  \A d \in Devices : /\ d # "enumerator" /\ d # "collection" /\ d # "default"
                      /\ d # "endpoint" /\ d # "nil"
  BY AudioAssumption DEF AudioAssumption, Devices

LEMMA Known ==
  /\ {"enumerator", "collection", "default", "endpoint"} \cup Devices = Objects
  /\ NoObject = "nil"
  BY DEF Objects, NoObject

\* References taken, and given up.
LEMMA Taken ==
  ASSUME NEW held \in SUBSET Objects, NEW got \in SUBSET Objects, held \cap got = {},
         refs = Counts(held), Take(got)
  PROVE  refs' = Counts(held \cup got)
<1>1. \A x \in Objects : refs[x] = IF x \in held THEN 1 ELSE 0
  BY DEF Counts
<1>2. \A x \in Objects : refs[x] + (IF x \in got THEN 1 ELSE 0)
                            = IF x \in held \cup got THEN 1 ELSE 0
  BY <1>1
<1> QED
  BY <1>2 DEF Take, Counts

LEMMA Released ==
  ASSUME NEW held \in SUBSET Objects, NEW freed \in SUBSET held, refs = Counts(held),
         refs' = [x \in Objects |-> refs[x] - IF x \in freed THEN 1 ELSE 0]
  PROVE  refs' = Counts(held \ freed)
<1>1. \A x \in Objects : refs[x] = IF x \in held THEN 1 ELSE 0
  BY DEF Counts
<1>2. \A x \in Objects : refs[x] - (IF x \in freed THEN 1 ELSE 0)
                            = IF x \in held \ freed THEN 1 ELSE 0
  BY <1>1
<1> QED
  BY <1>2 DEF Counts

LEMMA AudioTypes == AudioInv /\ settings \in [Devices -> [volume : Volumes, muted : BOOLEAN]]
                       => AudioTypeOK
<1> SUFFICES ASSUME AudioInv, settings \in [Devices -> [volume : Volumes, muted : BOOLEAN]]
             PROVE  AudioTypeOK
  OBVIOUS
<1> USE DEF AudioInv, Course
<1>1. refs \in [Objects -> Int]
  BY DEF Counts
<1>2. target \in Objects \cup {NoObject}
  BY DEF Targets, Objects
<1>3. deferred \subseteq Objects
  <2>1. audioPc = "effect" => target \in Objects
    BY DEF Targets, Objects
  <2>2. found \subseteq Objects /\ {"enumerator", "endpoint"} \subseteq Objects
    BY DEF Objects
  <2> QED
    BY <2>1, <2>2 DEF Owed, AudioSteps
<1> QED
  BY <1>1, <1>2, <1>3 DEF AudioTypeOK, AudioSteps, Requested

LEMMA Balanced == AudioInv => RefsBalanced
<1> SUFFICES ASSUME AudioInv PROVE RefsBalanced
  OBVIOUS
<1> USE DEF AudioInv
<1>1. \A x \in Objects : refs[x] = IF x \in Held THEN 1 ELSE 0
  BY DEF Counts
<1>2. \A x \in Objects : refs[x] \in 0 .. 1
  BY <1>1
<1>3. audioPc = "idle" => \A x \in Objects : refs[x] = 0
  BY <1>1 DEF Held
<1>4. audioPc = "activate" => refs[target] = 1
  <2> SUFFICES ASSUME audioPc = "activate" PROVE refs[target] = 1
    OBVIOUS
  <2>1. target \in Objects
    BY DEF Targets, Objects, Course
  <2>2. target \in Held
    BY DEF Held, Targets, Course
  <2> QED
    BY <1>1, <2>1, <2>2
<1>5. audioPc = "read" => \A d \in todo : refs[d] = 1
  BY <1>1 DEF Held, Course, Objects
<1> QED
  BY <1>2, <1>3, <1>4, <1>5 DEF RefsBalanced

LEMMA AudioInitInv == AudioInit => AudioInv
<1> SUFFICES ASSUME AudioInit PROVE AudioInv
  OBVIOUS
<1> USE DEF AudioInit
<1>1. NotAsked \in Requested
  BY Flows DEF NotAsked, Requested, Ops, Effects, Volumes, Devices
<1>2. Course
  BY <1>1 DEF Course, AudioSteps, NotAsked
<1>3. Targets
  BY DEF Targets
<1>4. refs = Counts(Held) /\ deferred = Owed
  BY DEF Counts, Held, Owed
<1> QED
  BY <1>2, <1>3, <1>4 DEF AudioInv

\* A request that returns has released what it held.
LEMMA FinishInv ==
  ASSUME AudioInv, NEW byHand \in SUBSET Objects, Finish(byHand),
         byHand \cup deferred = Held, byHand \cap deferred = {}
  PROVE  AudioInv'
<1>1. NotAsked \in Requested
  BY Flows DEF NotAsked, Requested, Ops, Effects, Volumes, Devices
<1>2. Course'
  BY <1>1 DEF Finish, Course, AudioSteps, NotAsked
<1>3. Targets'
  BY DEF Finish, Targets
<1>4. refs' = [x \in Objects |-> 0]
  <2>1. \A x \in Objects : refs[x] - (IF x \in byHand THEN 1 ELSE 0)
                              - (IF x \in deferred THEN 1 ELSE 0) = 0
    BY DEF AudioInv, Counts
  <2> QED
    BY <2>1 DEF Finish
<1>5. (Counts(Held))' = [x \in Objects |-> 0] /\ deferred' = Owed'
  BY DEF Finish, Counts, Held, Owed
<1> QED
  BY <1>2, <1>3, <1>4, <1>5 DEF AudioInv

LEMMA HeldInObjects == AudioInv => Held \subseteq Objects
<1> SUFFICES ASSUME AudioInv PROVE Held \subseteq Objects
  OBVIOUS
<1>1. found \subseteq Objects
  BY Known DEF AudioInv, Course
<1>2. audioPc \in {"activate", "effect"} => target \in Objects
  BY Known DEF AudioInv, Course, Targets
<1> QED
  BY <1>1, <1>2, Known DEF Held, AudioInv, Course, AudioSteps

LEMMA AudioRequestInv == AudioInv /\ AudioRequest => AudioInv'
<1> SUFFICES ASSUME AudioInv, AudioRequest PROVE AudioInv'
  OBVIOUS
<1> USE DEF AudioInv, AudioRequest, Step
<1>1. asked' \in Requested
  BY DEF Requested
<1>2. Course'
  BY <1>1 DEF Course, AudioSteps
<1>3. Targets'
  BY DEF Targets
<1>4. refs' = (Counts(Held))' /\ deferred' = Owed'
  BY DEF Counts, Held, Owed
<1> QED
  BY <1>2, <1>3, <1>4

LEMMA ConnectInv == AudioInv /\ Connect => AudioInv'
<1> SUFFICES ASSUME AudioInv, Connect PROVE AudioInv'
  OBVIOUS
<1>1. audioPc = "com" /\ Held = {} /\ deferred = {} /\ refs = Counts({})
  BY DEF AudioInv, Connect, Held, Owed
<1>2. CASE Finish({})
  BY <1>1, <1>2, FinishInv
<1>3. CASE /\ Step("com", "render") /\ Take({"enumerator"})
           /\ deferred' = IF asked.op = "master" THEN {} ELSE {"enumerator"}
           /\ UNCHANGED <<asked, found, known, target, todo>>
  <2>1. refs' = Counts({"enumerator"})
    BY <1>1, <1>3, Taken, Known
  <2>2. Course' /\ Targets'
    BY <1>1, <1>3 DEF AudioInv, Course, Targets, Step, AudioSteps
  <2>3. refs' = (Counts(Held))' /\ deferred' = Owed'
    BY <1>3, <2>1 DEF Counts, Held, Owed, Step
  <2> QED
    BY <2>2, <2>3 DEF AudioInv
<1> QED
  BY <1>2, <1>3 DEF Connect

\* An enumeration that fails, with or without a collection to release.
LEMMA FlowFailsInv ==
  ASSUME AudioInv, NEW flow \in {"render", "capture"}, NEW released \in SUBSET Objects,
         \/ audioPc = flow /\ released = {}
         \/ flow = "render" /\ audioPc = "renderList" /\ released = {"collection"}
         \/ flow = "capture" /\ audioPc = "captureList" /\ released = {"collection"},
         FlowFails(flow, released)
  PROVE  AudioInv'
<1> DEFINE kept == {"enumerator"} \cup found
<1>1. /\ Held = kept \cup released /\ kept \cap released = {}
      /\ flow = "render" => found = {}
      /\ flow = "capture" => asked.op \in Both
  BY Distinct DEF AudioInv, Course, Held, AudioSteps
<1>2. deferred = IF asked.op = "master" THEN {}
                 ELSE IF asked.op = "channel" THEN {"enumerator"} ELSE kept
  BY <1>1 DEF AudioInv, Owed, Both
<1>3. CASE asked.op = "master"
  <2>1. /\ audioPc' = "default"
        /\ refs' = [x \in Objects |-> refs[x] - IF x \in released THEN 1 ELSE 0]
        /\ UNCHANGED <<asked, deferred, found, known, target, todo>>
    BY <1>3 DEF FlowFails
  <2>2. flow = "render" /\ found = {}
    BY <1>1, <1>3 DEF Both
  <2>3. refs' = Counts(kept)
    <3>1. refs' = Counts(Held \ released)
      <4> HIDE DEF kept
      <4>1. Held \in SUBSET Objects /\ released \in SUBSET Held /\ refs = Counts(Held)
        BY <1>1, HeldInObjects DEF AudioInv
      <4> QED
        BY <2>1, <4>1, Released
    <3>2. Held \ released = kept
      BY <1>1
    <3> QED
      BY <3>1, <3>2
  <2>4. refs' = (Counts(Held))' /\ deferred' = Owed'
    BY <1>2, <1>3, <2>1, <2>2, <2>3 DEF Counts, Held, Owed
  <2>5. Course' /\ Targets'
    BY <1>3, <2>1, <2>2 DEF AudioInv, Course, Targets, AudioSteps
  <2> QED
    BY <2>4, <2>5 DEF AudioInv
<1>4. CASE asked.op = "channel"
  <2>1. /\ audioPc' = IF flow = "render" THEN "capture" ELSE "pick"
        /\ refs' = [x \in Objects |-> refs[x] - IF x \in released THEN 1 ELSE 0]
        /\ deferred' = IF flow = "render" THEN deferred ELSE deferred \cup found
        /\ UNCHANGED <<asked, found, known, target, todo>>
    BY <1>4 DEF FlowFails
  <2>2. refs' = Counts(kept)
    <3>1. refs' = Counts(Held \ released)
      <4> HIDE DEF kept
      <4>1. Held \in SUBSET Objects /\ released \in SUBSET Held /\ refs = Counts(Held)
        BY <1>1, HeldInObjects DEF AudioInv
      <4> QED
        BY <2>1, <4>1, Released
    <3>2. Held \ released = kept
      BY <1>1
    <3> QED
      BY <3>1, <3>2
  <2>3. refs' = (Counts(Held))' /\ deferred' = Owed'
    BY <1>1, <1>2, <1>4, <2>1, <2>2 DEF Counts, Held, Owed
  <2>4. Course' /\ Targets'
    BY <1>1, <1>4, <2>1 DEF AudioInv, Course, Targets, AudioSteps, Both
  <2> QED
    BY <2>3, <2>4 DEF AudioInv
<1>5. CASE asked.op \notin {"master", "channel"}
  BY <1>1, <1>2, <1>5, FinishInv DEF FlowFails
<1> QED
  BY <1>3, <1>4, <1>5

LEMMA EnumerateInv ==
  AudioInv /\ (Enumerate("render", "renderList") \/ Enumerate("capture", "captureList"))
     => AudioInv'
<1> SUFFICES ASSUME AudioInv, NEW flow \in {"render", "capture"},
                    Enumerate(flow, IF flow = "render" THEN "renderList" ELSE "captureList")
             PROVE  AudioInv'
  OBVIOUS
<1> DEFINE list == IF flow = "render" THEN "renderList" ELSE "captureList"
<1>1. CASE FlowFails(flow, {})
  BY <1>1, FlowFailsInv DEF Enumerate
<1>2. CASE /\ Step(flow, list) /\ Take({"collection"})
           /\ UNCHANGED <<asked, deferred, found, known, target, todo>>
  <2>1. Held = {"enumerator"} \cup found /\ "collection" \notin Held
    BY <1>2, Distinct DEF AudioInv, Course, Held, Step
  <2>2. refs' = Counts(Held \cup {"collection"})
    BY <1>2, <2>1, Taken, HeldInObjects, Known DEF AudioInv
  <2>3. refs' = (Counts(Held))' /\ deferred' = Owed'
    BY <1>2, <2>1, <2>2 DEF AudioInv, Course, Counts, Held, Owed, Step
  <2>4. Course' /\ Targets'
    BY <1>2 DEF AudioInv, Course, Targets, AudioSteps, Step
  <2> QED
    BY <2>3, <2>4 DEF AudioInv
<1> QED
  BY <1>1, <1>2 DEF Enumerate

LEMMA ListInv ==
  ASSUME AudioInv, NEW flow \in {"render", "capture"},
         ListFlow(flow, IF flow = "render" THEN "renderList" ELSE "captureList",
                  IF flow = "render" THEN RenderDevices ELSE CaptureDevices)
  PROVE  AudioInv'
<1> DEFINE list == IF flow = "render" THEN "renderList" ELSE "captureList"
           devices == IF flow = "render" THEN RenderDevices ELSE CaptureDevices
<1>0. audioPc = list
  BY DEF ListFlow
<1>1. CASE FlowFails(flow, {"collection"})
  <2>1. {"collection"} \in SUBSET Objects
    BY Known
  <2>2. \/ flow = "render" /\ audioPc = "renderList"
        \/ flow = "capture" /\ audioPc = "captureList"
    BY <1>0
  <2> QED
    BY <1>1, <2>1, <2>2, FlowFailsInv
<1>2. CASE ~FlowFails(flow, {"collection"})
  <2>1. PICK got \in SUBSET devices :
             /\ refs' = [x \in Objects |-> refs[x] + (IF x \in got THEN 1 ELSE 0)
                                                   - (IF x = "collection" THEN 1 ELSE 0)]
             /\ found' = found \cup got /\ known' \subseteq known \cup got
             /\ audioPc' = IF flow = "render" /\ asked.op \in Both THEN "capture" ELSE "pick"
             /\ deferred' =
                   CASE asked.op = "master" -> deferred
                     [] asked.op = "channel" /\ flow = "render" -> deferred
                     [] asked.op = "channel" /\ flow = "capture" -> deferred \cup found'
                     [] OTHER -> deferred \cup got
             /\ UNCHANGED <<asked, target, todo>>
    BY <1>2 DEF ListFlow
  <2>2. Held = {"enumerator", "collection"} \cup found
    BY <1>0 DEF AudioInv, Course, Held
  <2>3. /\ flow = "render" => found = {}
        /\ flow = "capture" => asked.op \in Both /\ found \subseteq RenderDevices
    BY <1>0 DEF AudioInv, Course
  <2>4. got \subseteq Devices /\ got \cap Held = {} /\ "collection" \notin found \cup got
    BY <2>2, <2>3, Flows, Distinct DEF AudioInv, Course, Devices
  <2>5. refs' = Counts({"enumerator"} \cup found')
    <3>1. \A x \in Objects : refs[x] = IF x \in Held THEN 1 ELSE 0
      BY DEF AudioInv, Counts
    <3>2. \A x \in Objects : refs[x] + (IF x \in got THEN 1 ELSE 0)
                                 - (IF x = "collection" THEN 1 ELSE 0)
                 = IF x \in {"enumerator"} \cup (found \cup got) THEN 1 ELSE 0
      BY <2>2, <2>4, <3>1
    <3> QED
      BY <2>1, <3>2 DEF Counts
  <2>6. refs' = (Counts(Held))'
    BY <2>1, <2>5 DEF Held, Counts
  <2>7. deferred' = Owed'
    BY <1>0, <2>1, <2>3 DEF AudioInv, Course, Owed, Both
  <2>8. Course'
    BY <2>1, <2>3, <2>4 DEF AudioInv, Course, AudioSteps, Both
  <2>9. Targets'
    BY <1>0, <2>1 DEF AudioInv, Targets
  <2> QED
    BY <2>6, <2>7, <2>8, <2>9 DEF AudioInv
<1> QED
  BY <1>1, <1>2

LEMMA PickInv ==
  AudioInv /\ (PickPreferred \/ PickDefault \/ PickNamed \/ PickNothing \/ StartList)
     => AudioInv'
<1> SUFFICES ASSUME AudioInv, audioPc = "pick",
                    PickPreferred \/ PickDefault \/ PickNamed \/ PickNothing \/ StartList
             PROVE  AudioInv'
  BY DEF PickPreferred, PickDefault, PickNamed, PickNothing, StartList, Step
<1>1. /\ Held = {"enumerator"} \cup found /\ refs = Counts(Held)
      /\ found \subseteq Devices /\ "enumerator" \notin found
      /\ deferred = IF asked.op = "master" THEN {} ELSE Held
  BY Distinct DEF AudioInv, Course, Held, Owed
<1>2. CASE PickPreferred
  <2>1. refs' = [x \in Objects |-> refs[x] - IF x \in found \ {Preferred} THEN 1 ELSE 0]
    BY <1>2 DEF PickPreferred
  <2>2. Preferred \in found
    BY <1>2 DEF PickPreferred, AudioInv, Course
  <2>3. refs' = Counts({"enumerator", Preferred})
    <3>1. Held \ (found \ {Preferred}) = {"enumerator", Preferred}
      BY <1>1, <2>2
    <3>2. refs' = Counts(Held \ (found \ {Preferred}))
      BY <1>1, <2>1, Released, HeldInObjects
    <3> QED
      BY <3>1, <3>2
  <2>4. refs' = (Counts(Held))' /\ deferred' = Owed'
    BY <1>1, <1>2, <2>3 DEF PickPreferred, Step, Counts, Held, Owed
  <2>5. Course' /\ Targets'
    BY <1>1, <1>2, <2>2, Distinct DEF PickPreferred, Step, AudioInv, Course, Targets, AudioSteps
  <2> QED
    BY <2>4, <2>5 DEF AudioInv
<1>3. CASE PickDefault
  <2>1. refs' = [x \in Objects |-> refs[x] - IF x \in found THEN 1 ELSE 0]
    BY <1>3 DEF PickDefault
  <2>2. refs' = Counts({"enumerator"})
    <3>1. Held \ found = {"enumerator"}
      BY <1>1
    <3>2. refs' = Counts(Held \ found)
      BY <1>1, <2>1, Released, HeldInObjects
    <3> QED
      BY <3>1, <3>2
  <2>3. refs' = (Counts(Held))' /\ deferred' = Owed'
    BY <1>1, <1>3, <2>2 DEF PickDefault, Step, Counts, Held, Owed
  <2>4. Course' /\ Targets'
    BY <1>3 DEF PickDefault, Step, AudioInv, Course, Targets, AudioSteps
  <2> QED
    BY <2>3, <2>4 DEF AudioInv
<1>4. CASE PickNamed
  <2>1. refs' = (Counts(Held))' /\ deferred' = Owed'
    BY <1>1, <1>4 DEF PickNamed, Step, Counts, Held, Owed
  <2>2. Course' /\ Targets'
    BY <1>4, Distinct DEF PickNamed, Step, AudioInv, Course, Targets, AudioSteps, Requested
  <2> QED
    BY <2>1, <2>2 DEF AudioInv
<1>5. CASE PickNothing
  <2>1. Finish({}) /\ deferred = Held
    BY <1>1, <1>5 DEF PickNothing
  <2> QED
    BY <2>1, FinishInv
<1>6. CASE StartList
  <2>1. target = NoObject
    BY DEF AudioInv, Targets
  <2>2. refs' = (Counts(Held))' /\ deferred' = Owed'
    BY <1>1, <1>6, <2>1 DEF StartList, Step, Counts, Held, Owed, Listing
  <2>3. todo' \subseteq found
    BY <1>6 DEF StartList, AudioInv, Course
  <2>4. Course' /\ Targets'
    BY <1>6, <2>1, <2>3 DEF StartList, Step, AudioInv, Course, Targets, AudioSteps, Listing
  <2> QED
    BY <2>2, <2>4 DEF AudioInv
<1> QED
  BY <1>2, <1>3, <1>4, <1>5, <1>6

LEMMA DefaultInv == AudioInv /\ GetDefault => AudioInv'
<1> SUFFICES ASSUME AudioInv, GetDefault PROVE AudioInv'
  OBVIOUS
<1>1. /\ audioPc = "default" /\ Held = {"enumerator"} /\ deferred = {}
      /\ asked.op = "master" /\ Preferred \notin known
  BY DEF AudioInv, Course, Targets, Held, Owed, GetDefault
<1>2. CASE Finish({"enumerator"})
  BY <1>1, <1>2, FinishInv, Known
<1>3. CASE /\ Step("default", "activate") /\ Take({"default"})
           /\ target' = "default"
           /\ UNCHANGED <<asked, deferred, found, known, todo>>
  <2>1. refs' = Counts(Held \cup {"default"})
    BY <1>1, <1>3, Taken, Known DEF AudioInv
  <2>2. refs' = (Counts(Held))' /\ deferred' = Owed'
    BY <1>1, <1>3, <2>1 DEF Step, Counts, Held, Owed
  <2>3. Course' /\ Targets'
    BY <1>1, <1>3 DEF Step, AudioInv, Course, Targets, AudioSteps
  <2> QED
    BY <2>2, <2>3 DEF AudioInv
<1> QED
  BY <1>2, <1>3 DEF GetDefault

LEMMA ActivateInv == AudioInv /\ Activate => AudioInv'
<1> SUFFICES ASSUME AudioInv, Activate PROVE AudioInv'
  OBVIOUS
<1> DEFINE triple == {"enumerator", target}
<1>1. /\ audioPc = "activate"
      /\ Held = IF asked.op = "master" THEN triple ELSE {"enumerator"} \cup found
      /\ deferred = IF asked.op = "master" THEN {} ELSE Held
  BY DEF AudioInv, Held, Owed, Activate
<1>2. /\ Held \subseteq Objects /\ "endpoint" \notin Held
      /\ asked.op = "master" => triple \subseteq Objects
  BY <1>1, HeldInObjects, Distinct DEF AudioInv, Course, Targets
<1>3. CASE Finish(IF asked.op = "master" THEN {"enumerator", target} ELSE {})
  BY <1>1, <1>2, <1>3, FinishInv
<1>4. CASE /\ Step("activate", "effect") /\ Take({"endpoint"})
           /\ deferred' = deferred \cup {"endpoint"} \cup
                  (IF asked.op = "master" THEN {"enumerator", target} ELSE {})
           /\ UNCHANGED <<asked, found, known, target, todo>>
  <2>1. refs' = Counts(Held \cup {"endpoint"})
    BY <1>2, <1>4, Taken, Known DEF AudioInv
  <2>2. Held' = Held \cup {"endpoint"}
    BY <1>1, <1>4 DEF Step, Held
  <2>3. deferred' = Owed'
    BY <1>1, <1>4 DEF Step, Owed
  <2>4. refs' = (Counts(Held))'
    BY <2>1, <2>2 DEF Counts
  <2>5. Course' /\ Targets'
    BY <1>1, <1>4 DEF Step, AudioInv, Course, Targets, AudioSteps
  <2> QED
    BY <2>3, <2>4, <2>5 DEF AudioInv
<1> QED
  BY <1>3, <1>4 DEF Activate

LEMMA EffectInv == AudioInv /\ (Effect \/ EndList) => AudioInv'
<1> SUFFICES ASSUME AudioInv, Effect \/ EndList PROVE AudioInv'
  OBVIOUS
<1>1. Finish({})
  BY DEF Effect, EndList
<1>2. deferred = Held
  BY DEF Effect, EndList, AudioInv, Course, Held, Owed, Listing
<1> QED
  BY <1>1, <1>2, FinishInv

LEMMA ReadInv == AudioInv /\ (ReadDevice \/ ReleaseRead) => AudioInv'
<1> SUFFICES ASSUME AudioInv, ReadDevice \/ ReleaseRead PROVE AudioInv'
  OBVIOUS
<1> DEFINE kept == {"enumerator"} \cup found
<1>1. /\ audioPc = "read" /\ Held = kept \cup IF target = NoObject THEN {} ELSE {"endpoint"}
      /\ audioPc' = "read" /\ UNCHANGED <<asked, deferred, found, known>>
  BY DEF ReadDevice, ReleaseRead, AudioInv, Held
<1>2. "endpoint" \notin kept /\ kept \subseteq Objects /\ found \subseteq Devices
  BY Distinct, Known DEF AudioInv, Course
<1>3. deferred' = Owed'
  BY <1>1 DEF AudioInv, Owed
<1>4. Course' /\ Targets'
  BY <1>1, <1>2 DEF ReadDevice, ReleaseRead, AudioInv, Course, Targets, AudioSteps
<1>5. CASE ReadDevice
  <2>1. target = NoObject /\ Held = kept
    BY <1>1, <1>5 DEF ReadDevice
  <2>2. CASE UNCHANGED <<target, refs>>
    <3>1. Held' = Held
      BY <1>1, <2>2 DEF Held
    <3> QED
      BY <1>3, <1>4, <2>2, <3>1 DEF AudioInv, Counts
  <2>3. CASE target' # NoObject /\ Take({"endpoint"})
    <3>1. refs' = Counts(kept \cup {"endpoint"})
      BY <1>2, <2>1, <2>3, Taken, Known DEF AudioInv
    <3>2. Held' = kept \cup {"endpoint"}
      BY <1>1, <2>3 DEF Held
    <3>3. refs' = (Counts(Held))'
      BY <3>1, <3>2 DEF Counts
    <3> QED
      BY <1>3, <1>4, <3>3 DEF AudioInv
  <2>4. \A d \in todo : d # NoObject
    BY Distinct DEF AudioInv, Course, NoObject
  <2> QED
    BY <1>5, <2>2, <2>3, <2>4 DEF ReadDevice
<1>6. CASE ReleaseRead
  <2>1. Held = kept \cup {"endpoint"} /\ target' = NoObject
    BY <1>1, <1>6 DEF ReleaseRead
  <2>2. Held' = kept
    BY <1>1, <2>1 DEF Held
  <2>3. refs' = Counts(kept)
    <3>1. refs = Counts(Held) /\ refs' = [refs EXCEPT !["endpoint"] = @ - 1]
      BY <1>6 DEF ReleaseRead, AudioInv
    <3> QED
      BY <1>2, <2>1, <3>1, Known DEF Counts
  <2>4. refs' = (Counts(Held))'
    BY <2>2, <2>3 DEF Counts
  <2> QED
    BY <1>3, <1>4, <2>4 DEF AudioInv
<1> QED
  BY <1>5, <1>6

LEMMA AudioKept == AudioInv /\ [AudioNext]_audioVars => AudioInv'
<1> SUFFICES ASSUME AudioInv, [AudioNext]_audioVars PROVE AudioInv'
  OBVIOUS
<1>1. CASE UNCHANGED audioVars
  BY <1>1 DEF audioVars, AudioInv, Course, Targets, Held, Owed, Counts
<1>2. CASE ListFlow("render", "renderList", RenderDevices)
  BY <1>2, ListInv
<1>3. CASE ListFlow("capture", "captureList", CaptureDevices)
  BY <1>3, ListInv
<1> QED
  BY <1>1, <1>2, <1>3, AudioRequestInv, ConnectInv, EnumerateInv, PickInv, DefaultInv,
     ActivateInv, EffectInv, ReadInv
  DEF AudioNext

\* Whichever of its calls fails, a request has given back all it was given when
\* it returns, and nothing twice (audio.go getTargetEndpointVolume, api.go
\* enumDevices and releaseDevices).
THEOREM AudioRefs == AudioSpec => []RefsBalanced
<1> QED
  BY AudioInitInv, AudioKept, Balanced, PTL DEF AudioSpec

\* The volume and mute of every device.
SettingsSet == [Devices -> [volume : Volumes, muted : BOOLEAN]]

LEMMA OnlyEffect == [AudioNext]_audioVars => Effect \/ settings' = settings
  BY DEF AudioNext, audioVars, AudioRequest, Connect, Enumerate, ListFlow, PickPreferred,
         PickDefault, GetDefault, PickNamed, PickNothing, Activate, StartList, ReadDevice,
         ReleaseRead, EndList

LEMMA SettingsStep ==
  ASSUME AudioInv, settings \in SettingsSet, [AudioNext]_audioVars
  PROVE  settings' \in SettingsSet
<1>1. CASE settings' = settings
  BY <1>1
<1>2. CASE Effect
  <2>1. target = "default" \/ target \in Devices
    BY <1>2 DEF Effect, AudioInv, Targets, Course
  <2>2. CASE settings' # settings
    <3>1. PICK d \in Devices :
             \/ settings' = [settings EXCEPT ![d].volume = asked.volume]
             \/ settings' = [settings EXCEPT ![d].muted = asked.muted]
      BY <1>2, <2>1, <2>2 DEF Effect, Devices
    <3>2. asked.volume \in Volumes /\ asked.muted \in BOOLEAN
      BY DEF AudioInv, Course, Requested
    <3>3. CASE settings' = [settings EXCEPT ![d].volume = asked.volume]
      BY <3>2, <3>3 DEF SettingsSet
    <3>4. CASE settings' = [settings EXCEPT ![d].muted = asked.muted]
      BY <3>2, <3>4 DEF SettingsSet
    <3> QED
      BY <2>2, <3>1, <3>3, <3>4
  <2> QED
    BY <1>1, <2>2
<1> QED
  BY <1>1, <1>2, OnlyEffect

\* Every value of Audio stays in its type, with every set of devices.
THEOREM AudioTypesHold == AudioSpec => []AudioTypeOK
<1> DEFINE Inv == AudioInv /\ settings \in SettingsSet
<1>1. AudioInit => Inv
  BY AudioInitInv DEF AudioInit, SettingsSet, Volumes
<1>2. Inv /\ [AudioNext]_audioVars => Inv'
  BY AudioKept, SettingsStep
<1>3. Inv => AudioTypeOK
  BY AudioTypes DEF SettingsSet
<1> QED
  BY <1>1, <1>2, <1>3, PTL DEF AudioSpec

\* A request changes at most one device, the one it names, or for the master
\* volume the default one when the preferred one was not found (audio.go).
THEOREM AudioNamed == AudioSpec => OnlyNamedDevice
<1> DEFINE Good == \A d \in Devices : settings'[d] # settings[d] =>
                      /\ \A e \in Devices \ {d} : settings'[e] = settings[e]
                      /\ \/ d = asked.device
                         \/ asked.op = "master" /\ d \in RenderDevices /\ Preferred \notin known
           Inv == AudioInv /\ settings \in SettingsSet
<1>1. AudioInit => Inv
  BY AudioInitInv DEF AudioInit, SettingsSet, Volumes
<1>2. Inv /\ [AudioNext]_audioVars => Inv'
  BY AudioKept, SettingsStep
<1>3. Inv /\ [AudioNext]_audioVars => [Good]_audioVars
  <2> SUFFICES ASSUME Inv, [AudioNext]_audioVars, settings' # settings PROVE Good
    OBVIOUS
  <2>1. Effect
    BY OnlyEffect
  <2>2. PICK t \in IF target = "default" THEN RenderDevices ELSE {target} :
           \/ settings' = [settings EXCEPT ![t].volume = asked.volume]
           \/ settings' = [settings EXCEPT ![t].muted = asked.muted]
    BY <2>1 DEF Effect
  <2>3. \A e \in Devices \ {t} : settings'[e] = settings[e]
    BY <2>2 DEF SettingsSet
  <2>4. \/ t = asked.device
        \/ asked.op = "master" /\ t \in RenderDevices /\ Preferred \notin known
    <3>1. audioPc = "effect" /\ asked.device \in Devices
      BY <2>1 DEF Effect, AudioInv, Course, Requested
    <3>2. asked.device # "default"
      BY <3>1, Distinct
    <3> QED
      BY <2>2, <3>1, <3>2 DEF AudioInv, Targets
  <2> QED
    BY <2>3, <2>4
<1> QED
  BY <1>1, <1>2, <1>3, PTL DEF AudioSpec, OnlyNamedDevice

-----------------------------------------------------------------------------
(* MediaStatus: a status is no older than its request                         *)

Pcs  == {"idle", "write", "direct", "create", "run", "poll", "answer"}
Asks == Ticks \cup {NoTick}
JobSet == [pc : Pcs, no : 0 .. MaxRequests, name : Names, task : TaskNames, report : Asks]
RunSet == [task : TaskNames, name : Names, report : Asks]

\* What carries a tick was made at that tick or later: requests and scripts,
\* and result files report a tick no earlier than that of their name.
Dated(k) == k.name.tick <= clock /\ (k.pc = "answer" => k.report >= k.name.tick)
JobsDated == job \in [Jobs -> JobSet] /\ \A j \in Jobs : Dated(job[j])
Runs(s) ==
    /\ s \in RunSet
    /\ s.name.tick <= clock /\ s.name.tick <= s.report
Scripts == \A s \in running : Runs(s)
Tells(o) == o \in [tick : Ticks, nano : 0 .. 1, report : Ticks] /\ o.tick <= o.report
Results == \A o \in outputs : Tells(o)
\* A task may start the script of another request, but none of the future.
Entry(x) == x \in [task : TaskNames, script : Names] /\ x.script.tick <= clock
Registered == \A x \in tasks : Entry(x)
Counted == arrived \in 0 .. MaxRequests /\ life \in 0 .. MaxDeaths

MediaInv == clock \in Ticks /\ Counted /\ JobsDated /\ Scripts /\ Results /\ Registered

LEMMA Clock ==
  /\ Ticks \subseteq Nat /\ 0 \in Ticks /\ NoTick \in Nat
  /\ \A t \in Ticks : t <= NoTick /\ 0 <= t
  BY MediaAssumption DEF MediaAssumption, Ticks, NoTick

LEMMA Idle == NoJob \in JobSet /\ NoJob.name.tick = 0 /\ NoJob.pc = "idle"
<1>1. 0 \in 0 .. MaxRequests /\ 0 \in 0 .. MaxDeaths /\ 0 \in 0 .. 1
  BY MediaAssumption DEF MediaAssumption
<1>2. NoName \in Names /\ NoName.tick = 0 /\ NoTask \in TaskNames
  BY <1>1, Clock DEF NoName, Names, Kinds, NoTask, TaskNames
<1> QED
  BY <1>1, <1>2 DEF NoJob, JobSet, Pcs, Asks

\* One request changes and the clock stands.
LEMMA OneJob ==
  ASSUME JobsDated, NEW j \in Jobs, NEW k \in JobSet, Dated(k), clock' = clock,
         job' = [job EXCEPT ![j] = k]
  PROVE  JobsDated'
<1>1. job' \in [Jobs -> JobSet]
  BY DEF JobsDated
<1>2. ASSUME NEW i \in Jobs PROVE Dated(job[i])'
  <2>1. Dated(job'[i])
    BY DEF JobsDated
  <2> QED
    BY <2>1 DEF Dated
<1> QED
  BY <1>1, <1>2 DEF JobsDated

\* It moves on to a step before its answer, ...
LEMMA JobMoves ==
  ASSUME JobsDated, NEW j \in Jobs, NEW pc \in Pcs \ {"answer"}, clock' = clock,
         JobTo(j, pc)
  PROVE  JobsDated'
<1> DEFINE k == [job[j] EXCEPT !.pc = pc]
<1>1. k \in JobSet /\ k.pc = pc /\ k.name = job[j].name
  BY DEF JobsDated, JobSet
<1>2. Dated(k)
  BY <1>1 DEF JobsDated, Dated
<1>3. job' = [job EXCEPT ![j] = k]
  BY DEF JobTo, JobsDated
<1> HIDE DEF k
<1> QED
  BY <1>1, <1>2, <1>3, OneJob

\* ... to its answer, ...
LEMMA JobReports ==
  ASSUME JobsDated, NEW j \in Jobs, NEW t \in Ticks, job[j].name.tick <= t, clock' = clock,
         job' = [job EXCEPT ![j].pc = "answer", ![j].report = t]
  PROVE  JobsDated'
<1> DEFINE k == [[job[j] EXCEPT !.pc = "answer"] EXCEPT !.report = t]
<1>0. job[j] \in JobSet /\ job[j].name.tick \in Ticks
  BY DEF JobsDated, JobSet, Names
<1>1. k \in JobSet /\ k.report = t /\ k.name = job[j].name
  BY <1>0 DEF JobSet, Asks, Pcs
<1>2. Dated(k)
  BY <1>0, <1>1, Clock DEF JobsDated, Dated
<1>3. job' = [job EXCEPT ![j] = k]
  BY <1>0 DEF JobsDated
<1> HIDE DEF k
<1> QED
  BY <1>1, <1>2, <1>3, OneJob

\* ... or ends.
LEMMA JobEndsInv ==
  ASSUME JobsDated, clock \in Ticks, NEW j \in Jobs, clock' = clock,
         job' = [job EXCEPT ![j] = NoJob]
  PROVE  JobsDated'
<1>1. Dated(NoJob)
  BY Idle, Clock DEF Dated
<1> QED
  BY <1>1, Idle, OneJob

LEMMA Same ==
  ASSUME clock' = clock
  PROVE  /\ UNCHANGED job /\ JobsDated => JobsDated'
         /\ Scripts /\ running' \subseteq running => Scripts'
         /\ Results /\ outputs' \subseteq outputs => Results'
         /\ Registered /\ tasks' \subseteq tasks => Registered'
         /\ Counted /\ UNCHANGED <<arrived, life>> => Counted'
  BY DEF JobsDated, Dated, Scripts, Runs, Results, Tells, Registered, Entry, Counted

LEMMA MediaInitInv == MediaInit => MediaInv
<1> SUFFICES ASSUME MediaInit PROVE MediaInv
  OBVIOUS
<1>1. \A j \in Jobs : job[j] = NoJob
  BY DEF MediaInit
<1>2. \A j \in Jobs : Dated(job[j])
  <2>1. Dated(NoJob)
    BY Idle, Clock DEF MediaInit, Dated
  <2> QED
    BY <1>1, <2>1
<1>3. job \in [Jobs -> JobSet]
  BY Idle DEF MediaInit
<1>4. Counted
  BY MediaAssumption DEF MediaAssumption, MediaInit, Counted
<1> QED
  BY <1>2, <1>3, <1>4, Clock DEF MediaInit, MediaInv, JobsDated, Scripts, Results, Registered

LEMMA MediaArrives ==
  ASSUME MediaInv, NEW j \in Jobs, MediaRequest(j)
  PROVE  MediaInv'
<1> USE DEF MediaInv
<1>1. PICK kind \in Kinds, nano \in 0 .. 1 :
         job' = [job EXCEPT ![j] = [NoJob EXCEPT !.pc = "write", !.no = arrived + 1,
                    !.name = [kind |-> kind, tick |-> clock, nano |-> nano]]]
  BY DEF MediaRequest
<1> DEFINE n == [kind |-> kind, tick |-> clock, nano |-> nano]
           k == [NoJob EXCEPT !.pc = "write", !.no = arrived + 1, !.name = n]
<1>2. n \in Names /\ n.tick = clock
  BY DEF Names
<1>3. arrived + 1 \in 0 .. MaxRequests
  BY MediaAssumption DEF MediaAssumption, MediaRequest, Counted
<1>4. k \in JobSet /\ k.pc = "write" /\ k.name = n
  BY <1>2, <1>3, Idle DEF JobSet, Pcs
<1>5. Dated(k)
  BY <1>2, <1>4, Clock DEF Dated
<1>6. job' = [job EXCEPT ![j] = k] /\ clock' = clock
  BY <1>1 DEF MediaRequest
<1> HIDE DEF k
<1>7. JobsDated'
  BY <1>4, <1>5, <1>6, OneJob
<1>8. Counted'
  BY <1>3 DEF MediaRequest, Counted
<1> QED
  BY <1>6, <1>7, <1>8, Same DEF MediaRequest, scheduler

\* A task is created, for the script of its request.
LEMMA MediaCreates ==
  ASSUME MediaInv, NEW j \in Jobs, CreateTask(j)
  PROVE  MediaInv'
<1> USE DEF MediaInv
<1>1. clock' = clock /\ running' = running /\ outputs' = outputs /\ UNCHANGED <<arrived, life>>
  BY DEF CreateTask, environment
<1>2. ASSUME NEW t \in TaskNames,
             tasks' = {x \in tasks : x.task # t} \cup {[task |-> t, script |-> job[j].name]},
             job' = [job EXCEPT ![j].pc = "run", ![j].task = t]
      PROVE  JobsDated' /\ Registered'
  <2> DEFINE k == [[job[j] EXCEPT !.pc = "run"] EXCEPT !.task = t]
             e == [task |-> t, script |-> job[j].name]
  <2>0. job[j] \in JobSet /\ job[j].name \in Names /\ job[j].name.tick <= clock
    BY DEF JobsDated, JobSet, Dated
  <2>1. k \in JobSet /\ k.pc = "run" /\ k.name = job[j].name
    BY <2>0 DEF JobSet, Pcs
  <2>2. Dated(k)
    BY <2>0, <2>1 DEF Dated
  <2>3. job' = [job EXCEPT ![j] = k]
    BY <1>2, <2>0 DEF JobsDated
  <2>4. Entry(e)
    BY <2>0 DEF Entry
  <2> HIDE DEF k, e
  <2>5. JobsDated'
    BY <1>1, <2>1, <2>2, <2>3, OneJob
  <2>6. \A x \in tasks' : Entry(x)
    BY <1>2, <2>4 DEF Registered, e
  <2> QED
    BY <1>1, <2>5, <2>6 DEF Registered, Entry
<1>3. CASE JobEnds(j) /\ UNCHANGED <<tasks, abandoned>>
  BY <1>1, <1>3, JobEndsInv, Same DEF JobEnds
<1>4. CASE \E t \in TaskNames :
             /\ tasks' = {x \in tasks : x.task # t} \cup {[task |-> t, script |-> job[j].name]}
             /\ job' = [job EXCEPT ![j].pc = "run", ![j].task = t]
  BY <1>1, <1>2, <1>4, Same
<1> QED
  BY <1>3, <1>4 DEF CreateTask

\* A script starts.
LEMMA MediaStarts ==
  ASSUME MediaInv, clock' = clock, NEW t \in TaskNames, Starts(t)
  PROVE  Scripts'
<1> USE DEF MediaInv
<1>1. CASE UNCHANGED running
  BY <1>1, Same
<1>2. ASSUME NEW x \in tasks,
             running' = running \cup {[task |-> t, name |-> x.script, report |-> NoTick]}
      PROVE  Scripts'
  <2> DEFINE s == [task |-> t, name |-> x.script, report |-> NoTick]
  <2>1. x.script \in Names /\ x.script.tick <= clock /\ x.script.tick \in Ticks
    BY DEF Registered, Entry, Names
  <2>2. Runs(s)
    BY <2>1, Clock DEF Runs, RunSet, Asks
  <2> HIDE DEF s
  <2>3. \A y \in running' : Runs(y)
    BY <1>2, <2>2 DEF Scripts, s
  <2> QED
    BY <2>3 DEF Scripts, Runs
<1> QED
  BY <1>1, <1>2 DEF Starts

LEMMA MediaRuns ==
  ASSUME MediaInv, NEW j \in Jobs, RunTask(j)
  PROVE  MediaInv'
<1> USE DEF MediaInv
<1>1. /\ clock' = clock /\ outputs' = outputs /\ UNCHANGED <<arrived, life>>
      /\ tasks' \subseteq tasks
  BY DEF RunTask, environment, Delete
<1>2. job[j].task \in TaskNames
  BY DEF JobsDated, JobSet
<1>3. Scripts'
  <2>1. CASE Starts(job[j].task)
    BY <1>1, <1>2, <2>1, MediaStarts
  <2>2. CASE UNCHANGED running
    BY <1>1, <2>2, Same
  <2> QED
    BY <2>1, <2>2 DEF RunTask
<1>4. JobTo(j, "poll") \/ JobEnds(j)
  BY DEF RunTask
<1>5. JobsDated'
  BY <1>1, <1>4, JobMoves, JobEndsInv DEF JobEnds, Pcs
<1> QED
  BY <1>1, <1>3, <1>5, Same

LEMMA MediaJobs ==
  ASSUME MediaInv, NEW j \in Jobs, JobStep(j)
  PROVE  MediaInv'
<1> USE DEF MediaInv
<1>1. CASE WriteScript(j)
  <2>1. /\ clock' = clock /\ running' = running /\ outputs' \subseteq outputs
        /\ tasks' = tasks /\ UNCHANGED <<arrived, life>>
    BY <1>1 DEF WriteScript, environment, scheduler
  <2>2. CASE JobTo(j, IF session0 THEN "create" ELSE "direct")
    BY <2>1, <2>2, JobMoves, Same DEF Pcs
  <2>3. CASE job' = [job EXCEPT ![j] = NoJob]
    BY <2>1, <2>3, JobEndsInv, Same
  <2> QED
    BY <1>1, <2>2, <2>3 DEF WriteScript
<1>2. CASE RunDirectly(j)
  <2>1. /\ clock' = clock /\ running' = running /\ outputs' = outputs
        /\ tasks' = tasks /\ UNCHANGED <<arrived, life>>
    BY <1>2 DEF RunDirectly, environment, scheduler
  <2>2. CASE job' = [job EXCEPT ![j].pc = "answer", ![j].report = clock]
    <3>1. job[j].name.tick <= clock
      BY DEF JobsDated, Dated
    <3> QED
      BY <2>1, <2>2, <3>1, JobReports, Same
  <2>3. CASE JobEnds(j)
    BY <2>1, <2>3, JobEndsInv, Same DEF JobEnds
  <2> QED
    BY <1>2, <2>2, <2>3 DEF RunDirectly
<1>3. CASE Collect(j)
  <2>1. clock' = clock /\ running' = running /\ tasks' = tasks /\ UNCHANGED <<arrived, life>>
    BY <1>3 DEF Collect, environment, scheduler
  <2>2. PICK o \in outputs :
          /\ o.tick = job[j].name.tick /\ outputs' = outputs \ {o}
          /\ \/ job' = [job EXCEPT ![j].pc = "answer", ![j].report = o.report]
             \/ JobEnds(j)
    BY <1>3 DEF Collect, IsOutput
  <2>3. o.report \in Ticks /\ job[j].name.tick <= o.report
    BY <2>2 DEF Results, Tells
  <2>4. JobsDated'
    BY <2>1, <2>2, <2>3, JobReports, JobEndsInv DEF JobEnds
  <2> QED
    BY <2>1, <2>2, <2>4, Same
<1>4. CASE GiveUp(j) \/ Answer(j)
  <2>1. /\ clock' = clock /\ running' = running /\ outputs' = outputs
        /\ tasks' = tasks /\ UNCHANGED <<arrived, life>>
    BY <1>4 DEF GiveUp, Answer, environment, scheduler
  <2> QED
    BY <1>4, <2>1, JobEndsInv, Same DEF GiveUp, Answer, JobEnds
<1> QED
  BY <1>1, <1>2, <1>3, <1>4, MediaCreates, MediaRuns DEF JobStep

\* The process dies: its requests go, its tasks and scripts stay.
LEMMA MediaDies == MediaInv /\ Die => MediaInv'
<1> SUFFICES ASSUME MediaInv, Die PROVE MediaInv'
  OBVIOUS
<1> USE DEF MediaInv
<1>1. UNCHANGED <<clock, arrived, tasks, running, outputs>>
  BY DEF Die
<1>2. JobsDated'
  <2>1. \A j \in Jobs : job'[j] = NoJob
    BY DEF Die
  <2>2. job' \in [Jobs -> JobSet]
    BY Idle DEF Die
  <2>3. Dated(NoJob)
    BY Idle, Clock DEF Dated
  <2>4. \A j \in Jobs : Dated(job'[j])
    BY <2>1, <2>3
  <2> QED
    BY <1>1, <2>2, <2>4 DEF JobsDated, Dated
<1>3. Counted'
  BY <1>1, MediaAssumption DEF MediaAssumption, Counted, Die
<1> QED
  BY <1>1, <1>2, <1>3, Same

LEMMA MediaHost ==
  ASSUME MediaInv,
         \/ \E d \in deleting : DeleteTask(d)
         \/ \E n \in removing : RemoveScript(n)
         \/ ScriptAsks \/ ScriptWrites \/ CacheAges \/ Tick
  PROVE  MediaInv'
<1> USE DEF MediaInv
<1>1. CASE (\E d \in deleting : DeleteTask(d)) \/ (\E n \in removing : RemoveScript(n)) \/ CacheAges
  <2>1. /\ clock' = clock /\ running' = running /\ outputs' = outputs /\ job' = job
        /\ tasks' \subseteq tasks /\ UNCHANGED <<arrived, life>>
    BY <1>1 DEF DeleteTask, Delete, RemoveScript, CacheAges, environment, scheduler
  <2> QED
    BY <2>1, Same
<1>2. CASE ScriptAsks
  <2>1. PICK s \in running :
           /\ s.report = NoTick
           /\ running' \subseteq running \cup {[s EXCEPT !.report = clock]}
    BY <1>2 DEF ScriptAsks
  <2>2. /\ clock' = clock /\ outputs' = outputs /\ job' = job /\ tasks' = tasks
        /\ UNCHANGED <<arrived, life>>
    BY <1>2 DEF ScriptAsks, environment, scheduler
  <2> DEFINE t == [s EXCEPT !.report = clock]
  <2>3. Runs(t)
    <3>1. s \in RunSet /\ s.name.tick <= clock
      BY DEF Scripts, Runs
    <3>2. t \in RunSet /\ t.name = s.name /\ t.report = clock
      BY <3>1 DEF Asks, RunSet
    <3> QED
      BY <3>1, <3>2 DEF Runs
  <2>4. Scripts'
    <3> HIDE DEF t
    <3>1. \A x \in running' : Runs(x)
      BY <2>1, <2>3 DEF Scripts, t
    <3> QED
      BY <2>2, <3>1 DEF Scripts, Runs
  <2> QED
    BY <2>2, <2>4, Same
<1>3. CASE ScriptWrites
  <2>1. PICK s \in running :
           /\ s.report # NoTick /\ running' = running \ {s}
           /\ outputs' \subseteq outputs \cup
                 {[tick |-> s.name.tick, nano |-> s.name.nano, report |-> s.report]}
    BY <1>3 DEF ScriptWrites
  <2>2. clock' = clock /\ job' = job /\ tasks' = tasks /\ UNCHANGED <<arrived, life>>
    BY <1>3 DEF ScriptWrites, environment, scheduler
  <2> DEFINE o == [tick |-> s.name.tick, nano |-> s.name.nano, report |-> s.report]
  <2>3. Tells(o)
    <3>1. /\ s \in RunSet /\ s.name.tick <= s.report
      BY DEF Scripts, Runs
    <3>2. s.name.tick \in Ticks /\ s.name.nano \in 0 .. 1 /\ s.report \in Ticks
      BY <2>1, <3>1 DEF Asks, Names, RunSet
    <3> QED
      BY <3>1, <3>2 DEF Tells
  <2>4. Results'
    <3> HIDE DEF o
    <3>1. \A x \in outputs' : Tells(x)
      BY <2>1, <2>3 DEF Results, o
    <3> QED
      BY <3>1 DEF Results, Tells
  <2> QED
    BY <2>1, <2>2, <2>4, Same
<1>4. CASE Tick
  <2>1. /\ clock \in Nat /\ clock' = clock + 1 /\ job' = job /\ tasks' = tasks
        /\ running' = running /\ outputs' = outputs /\ UNCHANGED <<arrived, life>>
    BY <1>4, Clock DEF Tick, scheduler
  <2>2. clock' \in Ticks
    BY <1>4, MediaAssumption DEF Tick, Ticks, MediaAssumption
  <2>3. \A t \in Ticks : t <= clock => t <= clock'
    BY <2>1, Clock
  <2>4. JobsDated'
    <3>1. \A j \in Jobs : job[j].name.tick \in Ticks
      BY DEF JobsDated, JobSet, Names
    <3> QED
      BY <2>1, <2>3, <3>1 DEF JobsDated, Dated
  <2>5. Scripts'
    <3>1. \A s \in running : s.name.tick \in Ticks
      BY DEF Scripts, Runs, RunSet, Names
    <3> QED
      BY <2>1, <2>3, <3>1 DEF Scripts, Runs
  <2>6. Results' /\ Counted'
    BY <2>1 DEF Results, Tells, Counted
  <2>7. Registered'
    <3>1. \A x \in tasks : x.script.tick \in Ticks
      BY DEF Registered, Entry, Names
    <3> QED
      BY <2>1, <2>3, <3>1 DEF Registered, Entry
  <2> QED
    BY <2>2, <2>4, <2>5, <2>6, <2>7
<1> QED
  BY <1>1, <1>2, <1>3, <1>4

LEMMA MediaKept == MediaInv /\ [MediaNext]_mediaVars => MediaInv'
<1> SUFFICES ASSUME MediaInv, [MediaNext]_mediaVars PROVE MediaInv'
  OBVIOUS
<1>1. CASE UNCHANGED mediaVars
  BY <1>1, Same DEF mediaVars, MediaInv
<1>2. CASE MediaNext
  BY <1>2, MediaArrives, MediaJobs, MediaDies, MediaHost DEF MediaNext
<1> QED
  BY <1>1, <1>2

\* A status asked of the player is no older than its request, whichever script
\* of whichever earlier request writes late (media.go GetMediaStatus).
THEOREM MediaFresh == MediaSpec => []FreshStatus
<1>1. MediaInv => FreshStatus
  BY DEF MediaInv, FreshStatus, JobsDated, Dated, JobAt
<1>2. MediaInv /\ [MediaNext]_mediaVars => MediaInv'
  BY MediaKept
<1> QED
  BY <1>1, <1>2, MediaInitInv, PTL DEF MediaSpec

-----------------------------------------------------------------------------
(* MediaStatus: which scheduled tasks are left behind                         *)

\* Somebody will delete the task n, or a delete of it has failed, or its
\* process has died.
Owned(n) ==
    \/ n \in abandoned
    \/ \E d \in deleting : d.task = n
    \/ \E j \in Jobs : JobAt(j, "run") /\ job[j].task = n

\* No request but j changes.
LEMMA OneStep ==
  ASSUME MediaInv, NEW j \in Jobs, JobStep(j) \/ MediaRequest(j)
  PROVE  \A i \in Jobs \ {j} : job'[i] = job[i]
<1>1. job \in [Jobs -> JobSet]
  BY DEF MediaInv, JobsDated
<1> QED
  BY <1>1 DEF JobStep, MediaRequest, WriteScript, RunDirectly, CreateTask, RunTask,
              Collect, GiveUp, Answer, JobTo, JobEnds

LEMMA TasksStep ==
  ASSUME MediaInv, TasksOwned, [MediaNext]_mediaVars
  PROVE  TasksOwned'
<1>1. \A x \in tasks : Owned(x.task)
  BY DEF TasksOwned, Owned
<1> SUFFICES ASSUME NEW x \in tasks' PROVE Owned(x.task)'
  BY DEF TasksOwned, Owned, JobAt
<1>2. CASE UNCHANGED mediaVars
  BY <1>1, <1>2 DEF mediaVars, Owned, JobAt
<1>3. ASSUME NEW j \in Jobs, RunTask(j) PROVE Owned(x.task)'
  <2>1. \A i \in Jobs \ {j} : job'[i] = job[i]
    BY <1>3, OneStep DEF JobStep
  <2>2. x \in tasks /\ deleting \subseteq deleting' /\ abandoned \subseteq abandoned'
    BY <1>3 DEF RunTask, Delete
  <2>3. x.task = job[j].task => (\E d \in deleting' : d.task = x.task) \/ x.task \in abandoned'
    BY <1>3 DEF RunTask, Delete
  <2> QED
    BY <1>1, <2>1, <2>2, <2>3 DEF Owned, JobAt
<1>4. ASSUME NEW j \in Jobs, CreateTask(j) PROVE Owned(x.task)'
  <2>1. \A i \in Jobs \ {j} : job'[i] = job[i]
    BY <1>4, OneStep DEF JobStep
  <2>2. deleting' = deleting /\ JobAt(j, "create")
    BY <1>4 DEF CreateTask
  <2>3. CASE x \in tasks /\ (x.task \in abandoned => x.task \in abandoned')
    BY <1>1, <2>1, <2>2, <2>3 DEF Owned, JobAt
  <2>4. ASSUME NEW t \in TaskNames,
               tasks' = {y \in tasks : y.task # t} \cup {[task |-> t, script |-> job[j].name]},
               abandoned' = abandoned \ {t},
               job' = [job EXCEPT ![j].pc = "run", ![j].task = t]
        PROVE  Owned(x.task)'
    <3>1. job'[j].pc = "run" /\ job'[j].task = t
      BY <2>4 DEF MediaInv, JobsDated, JobSet
    <3>2. CASE x.task = t
      BY <3>1, <3>2 DEF Owned, JobAt
    <3>3. CASE x.task # t
      BY <2>3, <2>4, <3>3
    <3> QED
      BY <3>2, <3>3
  <2> QED
    BY <1>4, <2>3, <2>4 DEF CreateTask
<1>5. ASSUME NEW j \in Jobs, \/ MediaRequest(j) \/ WriteScript(j) \/ RunDirectly(j)
                             \/ Collect(j) \/ GiveUp(j) \/ Answer(j)
      PROVE  Owned(x.task)'
  <2>1. \A i \in Jobs \ {j} : job'[i] = job[i]
    BY <1>5, OneStep DEF JobStep
  <2>2. UNCHANGED <<tasks, deleting, abandoned>> /\ ~JobAt(j, "run")
    BY <1>5 DEF MediaRequest, WriteScript, RunDirectly, Collect, GiveUp, Answer, JobAt, scheduler
  <2> QED
    BY <1>1, <2>1, <2>2 DEF Owned, JobAt
<1>6. ASSUME NEW e \in deleting, DeleteTask(e) PROVE Owned(x.task)'
  <2>1. job' = job /\ deleting' = deleting \ {e} /\ x \in tasks
    BY <1>6 DEF DeleteTask, Delete
  <2>2. abandoned \subseteq abandoned' /\ (x.task = e.task => x.task \in abandoned')
    BY <1>6 DEF DeleteTask, Delete
  <2> QED
    BY <1>1, <2>1, <2>2 DEF Owned, JobAt
<1>7. CASE \/ \E n \in removing : RemoveScript(n)
           \/ ScriptAsks \/ ScriptWrites \/ CacheAges \/ Tick
  <2>1. UNCHANGED <<tasks, deleting, abandoned, job>>
    BY <1>7 DEF RemoveScript, ScriptAsks, ScriptWrites, CacheAges, Tick, scheduler
  <2> QED
    BY <1>1, <2>1 DEF Owned, JobAt
<1>8. CASE Die
  BY <1>8 DEF Die, Owned
<1> QED
  BY <1>2, <1>3, <1>4, <1>5, <1>6, <1>7, <1>8 DEF MediaNext, JobStep

\* Whichever call fails and whoever shares a task's name, a registered task
\* that nobody is going to delete is one whose delete failed or whose process
\* died (media.go runInUserSession).
THEOREM MediaTasks == MediaSpec => []TasksOwned
<1>1. MediaInit => TasksOwned
  BY DEF MediaInit, TasksOwned
<1>2. MediaInv /\ [MediaNext]_mediaVars => MediaInv'
  BY MediaKept
<1>3. MediaInv /\ TasksOwned /\ [MediaNext]_mediaVars => TasksOwned'
  BY TasksStep
<1> QED
  BY <1>1, <1>2, <1>3, MediaInitInv, PTL DEF MediaSpec

-----------------------------------------------------------------------------
(* MediaStatus: the types                                                     *)

\* What MediaInv leaves open.
MediaSets ==
    /\ session0 \in BOOLEAN /\ recent \in BOOLEAN
    /\ scripts \subseteq Names /\ removing \subseteq Names
    /\ deleting \subseteq [task : TaskNames, no : 0 .. MaxRequests]
    /\ abandoned \subseteq TaskNames

LEMMA MediaTyped == MediaInv /\ MediaSets => MediaTypeOK
<1> SUFFICES ASSUME MediaInv, MediaSets PROVE MediaTypeOK
  OBVIOUS
<1>1. running \subseteq RunSet /\ tasks \subseteq [task : TaskNames, script : Names]
  BY DEF MediaInv, Scripts, Runs, Registered, Entry
<1>2. outputs \subseteq [tick : Ticks, nano : 0 .. 1, report : Ticks]
  BY DEF MediaInv, Results, Tells
<1> QED
  BY <1>1, <1>2 DEF MediaInv, MediaSets, MediaTypeOK, JobsDated, JobSet, RunSet, Pcs, Asks, Counted

LEMMA MediaSetsStep == MediaInv /\ MediaSets /\ [MediaNext]_mediaVars => MediaSets'
<1> SUFFICES ASSUME MediaInv, MediaSets, [MediaNext]_mediaVars PROVE MediaSets'
  OBVIOUS
<1>1. \A j \in Jobs : /\ job[j].name \in Names /\ job[j].task \in TaskNames
                      /\ job[j].no \in 0 .. MaxRequests
  BY DEF MediaInv, JobsDated, JobSet
<1>2. CASE UNCHANGED mediaVars
  BY <1>2 DEF mediaVars, MediaSets
<1>3. ASSUME NEW j \in Jobs, MediaRequest(j) PROVE MediaSets'
  BY <1>3 DEF MediaRequest, MediaSets, scheduler
<1>4. ASSUME NEW j \in Jobs, JobStep(j) PROVE MediaSets'
  <2>1. scripts' \subseteq Names /\ removing' \subseteq Names
    BY <1>1, <1>4 DEF MediaSets, JobStep, WriteScript, RunDirectly, CreateTask, RunTask, Collect,
                      GiveUp, Answer, JobEnds
  <2>2. deleting' \subseteq [task : TaskNames, no : 0 .. MaxRequests]
    <3>1. deleting' \subseteq deleting \cup {[task |-> job[j].task, no |-> job[j].no]}
      BY <1>4 DEF JobStep, WriteScript, RunDirectly, CreateTask, RunTask, Collect,
                  GiveUp, Answer, scheduler
    <3> QED
      BY <1>1, <3>1 DEF MediaSets
  <2>3. abandoned' \subseteq abandoned \cup {job[j].task}
    BY <1>4 DEF JobStep, WriteScript, RunDirectly, CreateTask, RunTask, Delete, Collect,
                GiveUp, Answer, scheduler
  <2>4. recent' \in BOOLEAN /\ UNCHANGED session0
    BY <1>4 DEF MediaSets, JobStep, WriteScript, RunDirectly, CreateTask, RunTask, Collect,
                GiveUp, Answer, environment
  <2> QED
    BY <1>1, <2>1, <2>2, <2>3, <2>4 DEF MediaSets
<1>5. ASSUME NEW d \in deleting, DeleteTask(d) PROVE MediaSets'
  <2>1. d.task \in TaskNames
    BY DEF MediaSets
  <2> QED
    BY <1>5, <2>1 DEF DeleteTask, Delete, MediaSets, environment
<1>6. CASE Die
  <2>1. \A x \in tasks : x.task \in TaskNames
    BY DEF MediaInv, Registered, Entry
  <2>2. abandoned' \subseteq TaskNames
    BY <1>6, <2>1 DEF Die
  <2> QED
    BY <1>6, <2>2 DEF Die, MediaSets
<1>7. CASE \/ \E n \in removing : RemoveScript(n)
           \/ ScriptAsks \/ ScriptWrites \/ CacheAges \/ Tick
  <2>1. /\ scripts' \subseteq scripts /\ removing' \subseteq removing
        /\ recent' \in {recent, FALSE} /\ UNCHANGED <<session0, deleting, abandoned>>
    BY <1>7 DEF RemoveScript, ScriptAsks, ScriptWrites, CacheAges, Tick, environment, scheduler
  <2> QED
    BY <2>1 DEF MediaSets
<1> QED
  BY <1>2, <1>3, <1>4, <1>5, <1>6, <1>7 DEF MediaNext

LEMMA MediaSetsInit == MediaInit => MediaSets
  BY DEF MediaInit, MediaSets

\* The media player's type invariant.
THEOREM MediaTypes == MediaSpec => []MediaTypeOK
  BY MediaInitInv, MediaKept, MediaSetsInit, MediaSetsStep, MediaTyped, PTL DEF MediaSpec

-----------------------------------------------------------------------------
(* The host: the parts side by side                                           *)

\* One part moves and the others stand still, so a step of the host is a step
\* or a stutter of each part.
LEMMA HostIsParts ==
  [HostNext]_hostVars => /\ [LifecycleNext]_serverVars /\ [ScreenNext]_screenVars
                         /\ [AudioNext]_audioVars /\ [MediaNext]_mediaVars
<1> SUFFICES ASSUME [HostNext]_hostVars
             PROVE  /\ [LifecycleNext]_serverVars /\ [ScreenNext]_screenVars
                    /\ [AudioNext]_audioVars /\ [MediaNext]_mediaVars
  OBVIOUS
<1>1. CASE UNCHANGED hostVars
  BY <1>1 DEF hostVars
<1>2. CASE \/ part = "screen" /\ ScreenNext /\ UNCHANGED <<serverVars, audioVars, mediaVars>>
           \/ part = "audio"  /\ AudioNext  /\ UNCHANGED <<serverVars, screenVars, mediaVars>>
           \/ part = "media"  /\ MediaNext  /\ UNCHANGED <<serverVars, screenVars, audioVars>>
  BY <1>2
<1>3. CASE /\ ServerNext \/ TunnelPart
           /\ UNCHANGED <<screenVars, audioVars, mediaVars>>
  BY <1>3 DEF TunnelPart, LifecycleNext, ServerNext
<1> QED
  BY <1>1, <1>2, <1>3 DEF HostNext

\* The tunnel beside a main that is ready to start it.
LEMMA TunnelPartInit ==
  ASSUME TunnelInit, mainPc = "build", starts = MaxStarts,
         certFile = 1, keyFile = 1, pairs = 1, old = 0, torn = FALSE,
         listener = "none", signal = "none", quit = "none", closed = FALSE
  PROVE  ServerTyped
<1>1. 1 \in Pair /\ 1 \in 0 .. MaxPairs /\ 1 # Absent /\ 0 \in 0 .. 1
  BY PairFacts, LifecycleAssumption DEF LifecycleAssumption, Absent
<1>2. FilesInv
  BY <1>1 DEF FilesInv, FilesTypeOK, Steps, Contents, Writing, Fits, Present
<1>3. TunnelInv /\ StartedOnce
  BY AtStartInv DEF TunnelInit, AtStart, AtRest, StartedOnce
<1>4. Aged
  BY <1>1 DEF Aged
<1>5. Goroutines
  <2>1. MaxStarts \in 1 .. MaxStarts
    BY LifecycleAssumption DEF LifecycleAssumption
  <2> QED
    BY <2>1 DEF Goroutines
<1> QED
  BY <1>2, <1>3, <1>4, <1>5 DEF ServerTyped, ServerInv

LEMMA HostServerInit == HostInit => ServerTyped
<1> SUFFICES ASSUME HostInit PROVE ServerTyped
  OBVIOUS
<1>1. CASE part = "tunnel"
  BY <1>1, TunnelPartInit DEF HostInit
<1>2. CASE part # "tunnel"
  BY <1>2, TypedInit DEF HostInit
<1> QED
  BY <1>1, <1>2

LEMMA HostServer == HostSpec => []ServerTyped
<1>1. [HostNext]_hostVars => [LifecycleNext]_serverVars
  BY HostIsParts
<1> QED
  BY <1>1, HostServerInit, TypedStep, PTL DEF HostSpec

\* Side by side, each of the three device parts behaves as its own
\* specification says: what is proved of a part alone holds in the host.
THEOREM HostParts == HostSpec => ScreenSpec /\ AudioSpec /\ MediaSpec
<1>1. HostInit => ScreenInit /\ AudioInit /\ MediaInit
  BY DEF HostInit
<1> QED
  BY <1>1, HostIsParts, PTL DEF HostSpec, ScreenSpec, AudioSpec, MediaSpec

\* Every variable of every part keeps its type.
THEOREM HostTypes == HostSpec => []TypeOK
<1>1. /\ TunnelTypeOK /\ LifecycleTypeOK /\ ScreenTypeOK /\ AudioTypeOK /\ MediaTypeOK
      => TypeOK
  BY DEF TypeOK
<1>2. ServerTyped => TunnelTypeOK /\ LifecycleTypeOK
  BY TypesOfServer DEF ServerTyped, ServerInv, TunnelInv
<1> QED
  BY <1>1, <1>2, HostServer, HostParts, ScreenTypes, AudioTypesHold, MediaTypes, PTL

\* The promises of all parts hold together, in the composition that is run.
HostPromises ==
    /\ UrlOfThisTunnel /\ ServesUnlessTorn
    /\ SingleThread /\ CursorsBack /\ SettingShown
    /\ RefsBalanced /\ FreshStatus /\ TasksOwned

\* Every promise of a part, proved of the part alone, is one of the host
\* (main.go wires the parts; none of them writes the state of another).
THEOREM HostKeepsPromises == HostSpec => []HostPromises /\ OnlyNamedDevice
<1>1. /\ UrlOfThisTunnel /\ ServesUnlessTorn /\ SingleThread /\ CursorsBack /\ SettingShown
      /\ RefsBalanced /\ FreshStatus /\ TasksOwned
      => HostPromises
  BY DEF HostPromises
<1>2. ServerTyped => UrlOfThisTunnel /\ ServesUnlessTorn
  BY FilesServe DEF ServerTyped, ServerInv, TunnelInv
<1> QED
  BY <1>1, <1>2, HostServer, HostParts, ScreenSingleThread, ScreenCursorsBack,
     ScreenSettingShown, AudioRefs, AudioNamed, MediaFresh, MediaTasks, PTL

=============================================================================
