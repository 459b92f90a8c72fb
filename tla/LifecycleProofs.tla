-------------------------- MODULE LifecycleProofs ---------------------------
(* Theorems about Lifecycle with its tunnel, for every number of starts,      *)
(* certificates, URLs and log lines.                                          *)
EXTENDS Lifecycle, TLAPS

\* The tunnel has not been started in this life of the process.
AtRest ==
    loop = "none" /\ proc = NoProc /\ keep = {} /\ pmUrl = NoUrl /\ tm = NewTm
        /\ context = "none"

\* Start is called once, with nothing running: it never starts a second loop.
StartedOnce == mainPc \in {"certs", "build", "dead"} \cup Generating => AtRest

\* runLoop reads URLs only of a process it has started, and a goroutine is
\* started per line that was read.
ProcInv ==
    /\ loop \in {"store", "scan", "announce", "lost"} => proc.url \in Urls
    /\ proc.unread <= proc.printed
    /\ loop = "announce" => proc.unread < proc.printed

TunnelInv == TunnelTypeOK /\ ProcInv /\ UrlOfThisTunnel

Procs == [alive : BOOLEAN, url : Urls \cup {NoUrl},
          printed : 0 .. MaxLines, unread : 0 .. MaxLines]

LEMMA NoProcType == NoProc \in Procs
  BY TunnelAssumption DEF NoProc, Procs

LEMMA RestInv == named \in BOOLEAN /\ AtRest => TunnelInv
<1> SUFFICES ASSUME named \in BOOLEAN, AtRest PROVE TunnelInv
  OBVIOUS
<1> USE DEF AtRest
<1>1. TunnelTypeOK
  <2>1. tm \in [enabled : BOOLEAN, status : Statuses, url : Urls \cup {NoUrl}]
    BY DEF NewTm, Statuses
  <2> QED
    BY <2>1, NoProcType DEF TunnelTypeOK, LoopSteps, Procs
<1>2. ProcInv
  BY DEF ProcInv, NoProc
<1>3. UrlOfThisTunnel
  BY TunnelAssumption DEF UrlOfThisTunnel, TunnelAssumption
<1> QED
  BY <1>1, <1>2, <1>3 DEF TunnelInv

\* A step of the loop that touches neither the process nor the pairing manager.
LEMMA LoopMoves ==
  ASSUME TunnelInv, NEW step \in LoopSteps \ {"announce", "store", "none"},
         step \in {"scan", "lost"} => loop \in {"store", "scan", "announce"},
         loop \in {"scan", "announce", "lost"} => step \in {"scan", "lost"},
         LoopTo(step), tm' \in [enabled : BOOLEAN, status : Statuses, url : Urls \cup {NoUrl}],
         context' \in {"none", "live", "cancelled"}, keep' \subseteq KeepAlive,
         UNCHANGED <<named, pmUrl, proc>>
  PROVE  TunnelInv'
<1> USE DEF TunnelInv
<1>1. TunnelTypeOK'
  BY DEF TunnelTypeOK, LoopTo
<1>2. ProcInv'
  BY DEF ProcInv, LoopTo, TunnelTypeOK
<1>3. UrlOfThisTunnel'
  BY DEF UrlOfThisTunnel, LoopTo
<1> QED
  BY <1>1, <1>2, <1>3

LEMMA ProcFacts ==
  ASSUME TunnelInv
  PROVE  /\ proc \in Procs /\ MaxLines \in Nat
         /\ proc.printed \in 0 .. MaxLines /\ proc.unread \in 0 .. MaxLines
         /\ proc.unread <= proc.printed
  BY TunnelAssumption DEF TunnelAssumption, TunnelInv, TunnelTypeOK, ProcInv, Procs

\* cloudflared prints and dies; the loop's hold on it stays.
LEMMA ProcStep ==
  ASSUME TunnelInv, ProcPrints \/ ProcDies
  PROVE  TunnelInv'
<1>1. proc' \in Procs /\ proc'.url = proc.url
  <2>1. CASE ProcPrints
    <3>1. proc.printed + 1 \in 0 .. MaxLines /\ proc.unread + 1 \in 0 .. MaxLines
      BY <2>1, ProcFacts DEF ProcPrints
    <3> QED
      BY <2>1, <3>1, ProcFacts DEF ProcPrints, Procs
  <2>2. CASE ProcDies
    BY <2>2, ProcFacts DEF ProcDies, Procs
  <2> QED
    BY <2>1, <2>2
<1>2. /\ proc'.unread <= proc'.printed
      /\ proc.unread < proc.printed => proc'.unread < proc'.printed
  <2>1. CASE ProcPrints
    <3>1. proc'.printed = proc.printed + 1 /\ proc'.unread = proc.unread + 1
      BY <2>1, ProcFacts DEF ProcPrints, Procs
    <3> QED
      BY <3>1, ProcFacts
  <2>2. CASE ProcDies
    BY <2>2, ProcFacts DEF ProcDies, Procs
  <2> QED
    BY <2>1, <2>2
<1>3. UNCHANGED <<named, tm, context, pmUrl, loop, keep>>
  BY DEF ProcPrints, ProcDies
<1>4. TunnelTypeOK'
  BY <1>1, <1>3 DEF TunnelInv, TunnelTypeOK, Procs
<1>5. ProcInv'
  BY <1>1, <1>2, <1>3 DEF TunnelInv, ProcInv
<1>6. UrlOfThisTunnel'
  BY <1>1, <1>3 DEF TunnelInv, UrlOfThisTunnel
<1> QED
  BY <1>4, <1>5, <1>6 DEF TunnelInv

LEMMA KeepStep ==
  ASSUME TunnelInv, NEW k \in keep, KeepAliveTick(k) \/ KeepAliveDone(k)
  PROVE  TunnelInv'
  BY DEF KeepAliveTick, KeepAliveDone, TunnelInv, TunnelTypeOK, ProcInv, UrlOfThisTunnel

\* Stop, at any point of the loop.
LEMMA StopInv ==
  ASSUME TunnelInv, Stop
  PROVE  TunnelInv'
<1>1. proc' \in Procs /\ proc'.url = proc.url
      /\ proc'.unread = proc.unread /\ proc'.printed = proc.printed
  BY ProcFacts DEF Stop, Procs
<1>2. TunnelTypeOK'
  <2>1. tm' \in [enabled : BOOLEAN, status : Statuses, url : Urls \cup {NoUrl}]
    BY DEF Stop, Statuses
  <2> QED
    BY <1>1, <2>1 DEF Stop, TunnelInv, TunnelTypeOK, Procs
<1>3. ProcInv'
  BY <1>1 DEF Stop, TunnelInv, ProcInv
<1>4. UrlOfThisTunnel'
  BY TunnelAssumption DEF TunnelAssumption, Stop, UrlOfThisTunnel
<1> QED
  BY <1>2, <1>3, <1>4 DEF TunnelInv

\* Every step of runLoop.
LEMMA LoopStep ==
  ASSUME TunnelInv
  PROVE  LoopNext => TunnelInv'
<1> DEFINE Tms == [enabled : BOOLEAN, status : Statuses, url : Urls \cup {NoUrl}]
<1>0. /\ tm \in Tms /\ named \in BOOLEAN /\ context \in {"none", "live", "cancelled"}
      /\ pmUrl \in Urls \cup {NoUrl, TokenUrl} /\ loop \in LoopSteps /\ keep \subseteq KeepAlive
      /\ NoUrl \notin Urls /\ TokenUrl \notin Urls
  BY TunnelAssumption DEF TunnelAssumption, TunnelInv, TunnelTypeOK
<1>1. \A s \in Statuses : [tm EXCEPT !.status = s] \in Tms
  BY <1>0
<1>2. "error" \in Statuses /\ "active" \in Statuses
  BY DEF Statuses
<1>3. ASSUME LoopCheck PROVE TunnelInv'
  <2>1. CASE tm.enabled
    BY <1>0, <1>3, <2>1, LoopMoves DEF LoopCheck, LoopSteps
  <2>2. CASE ~tm.enabled
    BY <1>0, <1>3, <2>2, LoopMoves DEF LoopCheck, LoopSteps
  <2> QED
    BY <2>1, <2>2
<1>4. ASSUME Find PROVE TunnelInv'
  <2>1. CASE LoopTo("context") /\ UNCHANGED tm
    BY <1>0, <1>4, <2>1, LoopMoves DEF Find, LoopSteps
  <2>2. CASE LoopTo("sleep") /\ tm' = [tm EXCEPT !.status = "error"]
    BY <1>0, <1>1, <1>2, <1>4, <2>2, LoopMoves DEF Find, LoopSteps
  <2> QED
    BY <1>4, <2>1, <2>2 DEF Find
<1>5. ASSUME NewContext PROVE TunnelInv'
  <2>1. keep' \subseteq KeepAlive
    <3>1. \A k \in KeepAlive : [k EXCEPT !.fresh = FALSE] \in KeepAlive
      BY DEF KeepAlive
    <3>2. keep' = {[k EXCEPT !.fresh = FALSE] : k \in {j \in keep : Pings(j)}}
      BY <1>5 DEF NewContext
    <3>3. ASSUME NEW n \in keep' PROVE n \in KeepAlive
      <4>1. PICK k \in keep : n = [k EXCEPT !.fresh = FALSE]
        BY <3>2
      <4> QED
        BY <1>0, <3>1, <4>1
    <3> QED
      BY <3>3
  <2>2. CASE named
    <3>1. LoopTo("token")
      BY <1>5, <2>2 DEF NewContext
    <3> QED
      BY <1>0, <1>5, <2>1, <3>1, LoopMoves DEF NewContext, LoopSteps
  <2>3. CASE ~named
    <3>1. LoopTo("start")
      BY <1>5, <2>3 DEF NewContext
    <3> QED
      BY <1>0, <1>5, <2>1, <3>1, LoopMoves DEF NewContext, LoopSteps
  <2> QED
    BY <2>2, <2>3
<1>6. ASSUME AnnounceToken PROVE TunnelInv'
  <2>1. TunnelTypeOK'
    BY <1>0, <1>6 DEF AnnounceToken, LoopTo, TunnelInv, TunnelTypeOK, LoopSteps
  <2>2. ProcInv'
    BY <1>6 DEF AnnounceToken, LoopTo, TunnelInv, ProcInv
  <2>3. UrlOfThisTunnel'
    BY <1>0, <1>6 DEF AnnounceToken, LoopTo, TunnelInv, UrlOfThisTunnel
  <2> QED
    BY <2>1, <2>2, <2>3 DEF TunnelInv
<1>7. ASSUME StartProcess PROVE TunnelInv'
  <2>1. PICK u \in Urls : proc' = [alive |-> TRUE, url |-> u, printed |-> 0, unread |-> 0]
    BY <1>7 DEF StartProcess
  <2>2. 0 \in 0 .. MaxLines
    BY ProcFacts
  <2>3. TunnelTypeOK'
    BY <1>0, <1>7, <2>1, <2>2 DEF StartProcess, LoopTo, TunnelInv, TunnelTypeOK, LoopSteps
  <2>4. ProcInv'
    BY <1>7, <2>1 DEF StartProcess, LoopTo, ProcInv
  <2>5. UrlOfThisTunnel'
    BY <1>7 DEF StartProcess, TunnelInv, UrlOfThisTunnel
  <2> QED
    BY <2>3, <2>4, <2>5 DEF TunnelInv
<1>8. ASSUME StartFails PROVE TunnelInv'
  <2>1. tm' \in Tms
    BY <1>0, <1>1, <1>2, <1>8 DEF StartFails
  <2>2. LoopTo("sleep") /\ loop = "start"
    BY <1>8 DEF StartFails
  <2> QED
    BY <1>0, <1>8, <2>1, <2>2, LoopMoves DEF StartFails, LoopSteps
<1>9. ASSUME StoreCmd PROVE TunnelInv'
  BY <1>0, <1>9, LoopMoves DEF StoreCmd, LoopSteps
<1>10. ASSUME ReadLine PROVE TunnelInv'
  <2>1. proc.url \in Urls /\ tm' \in Tms
    BY <1>0, <1>2, <1>10 DEF ReadLine, TunnelInv, ProcInv
  <2>2. /\ proc' \in Procs /\ proc'.url = proc.url /\ proc'.printed = proc.printed
        /\ proc'.unread < proc'.printed
    <3>1. proc.unread - 1 \in 0 .. MaxLines /\ proc.unread - 1 < proc.printed
      BY <1>10, ProcFacts DEF ReadLine
    <3> QED
      BY <1>10, <3>1, ProcFacts DEF ReadLine, Procs
  <2>3. TunnelTypeOK'
    BY <1>0, <1>10, <2>1, <2>2 DEF ReadLine, LoopTo, TunnelInv, TunnelTypeOK, LoopSteps, Procs
  <2>4. ProcInv'
    <3>1. proc'.unread <= proc'.printed
      BY <2>2, ProcFacts DEF Procs
    <3> QED
      BY <1>10, <2>1, <2>2, <3>1 DEF ReadLine, LoopTo, ProcInv
  <2>5. UrlOfThisTunnel'
    BY <1>10, <2>2 DEF ReadLine, LoopTo, TunnelInv, UrlOfThisTunnel
  <2> QED
    BY <2>3, <2>4, <2>5 DEF TunnelInv
<1>11. ASSUME Announce PROVE TunnelInv'
  <2>1. proc.url \in Urls /\ proc.unread < proc.printed
    BY <1>11 DEF Announce, TunnelInv, ProcInv
  <2>2. proc.printed - proc.unread \in 1 .. MaxLines
    BY <2>1, ProcFacts
  <2>3. keep' \subseteq KeepAlive
    <3> DEFINE k == [url |-> proc.url, line |-> proc.printed - proc.unread, fresh |-> TRUE]
    <3>1. k \in KeepAlive
      BY <2>1, <2>2 DEF KeepAlive
    <3>2. keep' = keep \cup {k}
      BY <1>11 DEF Announce
    <3> QED
      BY <1>0, <3>1, <3>2
  <2>4. TunnelTypeOK'
    BY <1>0, <1>11, <2>1, <2>3 DEF Announce, LoopTo, TunnelInv, TunnelTypeOK, LoopSteps
  <2>5. ProcInv'
    BY <1>11, <2>1 DEF Announce, LoopTo, TunnelInv, ProcInv
  <2>6. UrlOfThisTunnel'
    BY <1>11 DEF Announce, LoopTo, UrlOfThisTunnel
  <2> QED
    BY <2>4, <2>5, <2>6 DEF TunnelInv
<1>12. ASSUME Disconnect PROVE TunnelInv'
  <2>1. tm' \in Tms
    BY <1>0, <1>12 DEF Disconnect, Statuses
  <2> QED
    BY <1>0, <1>12, <2>1, LoopMoves DEF Disconnect, LoopSteps
<1>13. ASSUME Lost PROVE TunnelInv'
  <2>1. TunnelTypeOK'
    BY <1>0, <1>13, NoProcType DEF Lost, LoopTo, TunnelInv, TunnelTypeOK, LoopSteps, Procs
  <2>2. ProcInv'
    BY <1>13 DEF Lost, LoopTo, ProcInv, NoProc
  <2>3. UrlOfThisTunnel'
    BY <1>0, <1>13 DEF Lost, UrlOfThisTunnel
  <2> QED
    BY <2>1, <2>2, <2>3 DEF TunnelInv
<1>14. ASSUME Wake PROVE TunnelInv'
  BY <1>0, <1>14, LoopMoves DEF Wake, LoopSteps
<1> QED
  BY <1>3, <1>4, <1>5, <1>6, <1>7, <1>8, <1>9, <1>10, <1>11, <1>12, <1>13, <1>14 DEF LoopNext

\* Start, from rest.
LEMMA StartInv ==
  ASSUME TunnelInv, AtRest, Start
  PROVE  TunnelInv'
<1>1. /\ tm' = [tm EXCEPT !.status = "starting"] /\ loop' = "check"
      /\ UNCHANGED <<named, context, pmUrl, proc, keep>>
  BY DEF AtRest, NewTm, Start, LoopTo
<1>2. tm' \in [enabled : BOOLEAN, status : Statuses, url : Urls \cup {NoUrl}]
  BY <1>1 DEF TunnelInv, TunnelTypeOK, Statuses
<1>3. TunnelTypeOK'
  BY <1>1, <1>2 DEF TunnelInv, TunnelTypeOK, LoopSteps
<1>4. ProcInv'
  BY <1>1 DEF TunnelInv, ProcInv
<1>5. UrlOfThisTunnel'
  BY <1>1, TunnelAssumption DEF TunnelAssumption, AtRest, UrlOfThisTunnel
<1> QED
  BY <1>3, <1>4, <1>5 DEF TunnelInv

\* Nothing of the tunnel moves while it is at rest.
LEMMA RestStays == AtRest /\ TunnelNext => AtRest'
<1> SUFFICES ASSUME AtRest, TunnelNext PROVE FALSE
  OBVIOUS
<1>1. loop = "none" /\ keep = {} /\ ~proc.alive
  BY DEF AtRest, NoProc
<1>2. ~LoopNext
  BY <1>1 DEF LoopNext, LoopCheck, Find, NewContext, AnnounceToken, StartProcess, StartFails,
              StoreCmd, ReadLine, Announce, Disconnect, Lost, Wake
<1>3. ~ProcPrints /\ ~ProcDies
  BY <1>1 DEF ProcPrints, ProcDies
<1> QED
  BY <1>1, <1>2, <1>3 DEF TunnelNext

LEMMA TunnelNextInv ==
  ASSUME TunnelInv
  PROVE  TunnelNext => TunnelInv'
  BY LoopStep, ProcStep, KeepStep DEF TunnelNext

-----------------------------------------------------------------------------
(* The certificate files                                                      *)

Steps == {"certs", "build"} \cup Generating \cup Running \cup {"exited", "dead"}
Contents == Pair \cup {Absent, Torn}

FilesTypeOK ==
    /\ mainPc \in Steps
    /\ certFile \in Contents /\ keyFile \in Contents
    /\ pairs \in 0 .. MaxPairs
    /\ torn \in BOOLEAN

\* What is known while main writes the two files.
Writing ==
    /\ mainPc \in {"openCert", "writeCert"} => pairs < MaxPairs
    /\ mainPc \in {"openKey", "writeKey"} => certFile = pairs /\ pairs \in Pair

\* A start that did not die between the two files left a key that fits.
Fits ==
    ~torn /\ certFile \in Pair /\ keyFile # Absent /\ mainPc \notin {"openKey", "writeKey"}
        => keyFile = certFile

\* Nobody gets past the certificates without both files.
Present == mainPc \in {"build"} \cup Running => certFile \in Pair /\ keyFile # Absent

FilesInv == FilesTypeOK /\ Writing /\ Fits /\ Present

LEMMA FilesServe == FilesInv => ServesUnlessTorn
  BY DEF FilesInv, Fits, Present, ServesUnlessTorn, Running

LEMMA PairFacts ==
  /\ MaxPairs \in Nat /\ 1 \in Pair /\ Absent \notin Pair /\ Torn \notin Pair /\ Torn # Absent
  /\ \A n \in 0 .. MaxPairs : n < MaxPairs => n + 1 \in Pair /\ n + 1 \in 0 .. MaxPairs
  BY LifecycleAssumption DEF LifecycleAssumption, Absent, Torn, Pair

\* A death of the process, wherever main is.
LEMMA DiesFiles ==
  ASSUME FilesInv, Dies
  PROVE  FilesInv'
<1>1. /\ mainPc' = "dead" /\ UNCHANGED <<certFile, keyFile, pairs>>
      /\ torn' = (torn \/ mainPc = "writeKey" \/ (mainPc = "openKey" /\ keyFile # Absent))
  BY DEF Dies, MainTo
<1>2. FilesTypeOK'
  BY <1>1 DEF FilesInv, FilesTypeOK, Steps
<1>3. Fits'
  BY <1>1 DEF FilesInv, FilesTypeOK, Fits
<1>4. Writing' /\ Present'
  BY <1>1 DEF Writing, Present, Running
<1> QED
  BY <1>2, <1>3, <1>4 DEF FilesInv

\* Steps of the program that leave the files alone.
LEMMA OtherFiles ==
  ASSUME FilesInv, mainPc' \in Steps, UNCHANGED <<certFile, keyFile, pairs, torn>>,
         mainPc' \in {"openCert", "writeCert"} => pairs < MaxPairs,
         mainPc \notin {"openKey", "writeKey"} \/ mainPc' = mainPc,
         mainPc' \in {"openKey", "writeKey"} => mainPc' = mainPc,
         mainPc' \in {"build"} \cup Running => certFile \in Pair /\ keyFile # Absent
  PROVE  FilesInv'
<1>1. FilesTypeOK'
  BY DEF FilesInv, FilesTypeOK
<1>2. Fits' /\ Writing' /\ Present'
  BY DEF FilesInv, Fits, Writing, Present
<1> QED
  BY <1>1, <1>2 DEF FilesInv

\* The steps that write the files.
LEMMA WritingFiles ==
  ASSUME FilesInv
  PROVE  (Certs \/ OpenCert \/ WriteCert \/ OpenKey \/ WriteKey) => FilesInv'
<1> USE DEF CertStep, MainTo, Generating
<1>1. ASSUME Certs PROVE FilesInv'
  <2>1. CASE Usable /\ MainStep("certs", "build")
    BY <2>1, OtherFiles DEF Usable, MainStep, files, Steps, FilesInv, Running
  <2>2. CASE pairs < MaxPairs /\ mainPc = "certs" /\ mainPc' = "openCert"
             /\ UNCHANGED <<certFile, keyFile, pairs, torn>>
    BY <2>2, OtherFiles DEF Steps, Running
  <2>3. CASE Dies
    BY <2>3, DiesFiles
  <2> QED
    BY <1>1, <2>1, <2>2, <2>3 DEF Certs
<1>2. ASSUME OpenCert PROVE FilesInv'
  <2>1. CASE mainPc = "openCert" /\ mainPc' = "writeCert" /\ certFile' = Torn
             /\ UNCHANGED <<keyFile, pairs, torn>>
    <3>1. FilesTypeOK'
      BY <2>1 DEF FilesInv, FilesTypeOK, Steps, Contents
    <3>2. Writing' /\ Fits' /\ Present'
      BY <2>1, PairFacts DEF FilesInv, Writing, Fits, Present, Running
    <3> QED
      BY <3>1, <3>2 DEF FilesInv
  <2> QED
    BY <1>2, <2>1, DiesFiles DEF OpenCert
<1>3. ASSUME WriteCert PROVE FilesInv'
  <2>1. CASE mainPc = "writeCert" /\ mainPc' = "openKey" /\ certFile' = pairs + 1
             /\ pairs' = pairs + 1 /\ UNCHANGED <<keyFile, torn>>
    <3>1. pairs + 1 \in Pair /\ pairs + 1 \in 0 .. MaxPairs
      BY <2>1, PairFacts DEF FilesInv, FilesTypeOK, Writing
    <3>2. FilesTypeOK'
      BY <2>1, <3>1 DEF FilesInv, FilesTypeOK, Steps, Contents
    <3>3. Writing' /\ Fits' /\ Present'
      BY <2>1, <3>1 DEF Writing, Fits, Present, Running
    <3> QED
      BY <3>2, <3>3 DEF FilesInv
  <2> QED
    BY <1>3, <2>1, DiesFiles DEF WriteCert
<1>4. ASSUME OpenKey PROVE FilesInv'
  <2>1. CASE mainPc = "openKey" /\ mainPc' = "writeKey" /\ keyFile' = Torn
             /\ UNCHANGED <<certFile, pairs, torn>>
    <3>1. FilesTypeOK'
      BY <2>1 DEF FilesInv, FilesTypeOK, Steps, Contents
    <3>2. Writing' /\ Fits' /\ Present'
      BY <2>1 DEF FilesInv, Writing, Fits, Present, Running
    <3> QED
      BY <3>1, <3>2 DEF FilesInv
  <2> QED
    BY <1>4, <2>1, DiesFiles DEF OpenKey
<1>5. ASSUME WriteKey PROVE FilesInv'
  <2>1. CASE mainPc = "writeKey" /\ mainPc' = "build" /\ keyFile' = pairs /\ torn' = FALSE
             /\ UNCHANGED <<certFile, pairs>>
    <3>1. certFile = pairs /\ pairs \in Pair
      BY <2>1 DEF FilesInv, Writing
    <3>2. FilesTypeOK'
      BY <2>1, <3>1 DEF FilesInv, FilesTypeOK, Steps, Contents
    <3>3. Writing' /\ Fits' /\ Present'
      BY <2>1, <3>1, PairFacts DEF Writing, Fits, Present, Running
    <3> QED
      BY <3>2, <3>3 DEF FilesInv
  <2> QED
    BY <1>5, <2>1, DiesFiles DEF WriteKey
<1> QED
  BY <1>1, <1>2, <1>3, <1>4, <1>5

-----------------------------------------------------------------------------
(* The program                                                                *)

ServerInv == FilesInv /\ TunnelInv /\ StartedOnce

AtStart == named \in BOOLEAN /\ AtRest

LEMMA AtStartInv == AtStart => TunnelInv
  BY RestInv DEF AtStart

LEMMA AtStartNext == AtStart' => TunnelInv'
  BY AtStartInv, PTL

LEMMA GoneInv ==
  ASSUME TunnelInv, TunnelGone
  PROVE  TunnelInv' /\ AtRest'
<1>1. named' \in BOOLEAN /\ AtRest'
  BY DEF TunnelInv, TunnelTypeOK, TunnelGone, AtRest
<1> QED
  BY <1>1, AtStartNext DEF AtStart

LEMMA SameTunnel ==
  ASSUME ServerInv, UNCHANGED tunnelVars,
         mainPc' \in {"certs", "build", "dead"} \cup Generating
            => mainPc \in {"certs", "build", "dead"} \cup Generating
  PROVE  TunnelInv' /\ StartedOnce'
<1>1. TunnelInv'
  BY DEF ServerInv, tunnelVars, TunnelInv, TunnelTypeOK, ProcInv, UrlOfThisTunnel
<1>2. AtRest => AtRest'
  BY DEF tunnelVars, AtRest
<1> QED
  BY <1>1, <1>2 DEF ServerInv, StartedOnce

LEMMA DiesInv ==
  ASSUME ServerInv, Dies
  PROVE  ServerInv'
<1>1. FilesInv'
  BY DiesFiles DEF ServerInv
<1>2. TunnelInv' /\ AtRest'
  BY GoneInv DEF Dies, ServerInv
<1> QED
  BY <1>1, <1>2 DEF ServerInv, StartedOnce

\* A step that changes only what the invariant does not speak of.
LEMMA SilentInv ==
  ASSUME ServerInv, UNCHANGED <<mainPc, certFile, keyFile, pairs, torn, tunnelVars>>
  PROVE  ServerInv'
<1>1. FilesInv'
  BY DEF ServerInv, FilesInv, FilesTypeOK, Writing, Fits, Present
<1>2. TunnelInv' /\ StartedOnce'
  BY SameTunnel
<1> QED
  BY <1>1, <1>2 DEF ServerInv

LEMMA WritingInv ==
  ASSUME ServerInv
  PROVE  (Certs \/ OpenCert \/ WriteCert \/ OpenKey \/ WriteKey) => ServerInv'
<1> SUFFICES ASSUME Certs \/ OpenCert \/ WriteCert \/ OpenKey \/ WriteKey PROVE ServerInv'
  OBVIOUS
<1>1. CASE Dies
  BY <1>1, DiesInv
<1>2. CASE ~Dies
  <2>1. FilesInv'
    BY WritingFiles DEF ServerInv
  <2>2. UNCHANGED tunnelVars /\ mainPc \in {"certs"} \cup Generating
    BY <1>2 DEF Certs, OpenCert, WriteCert, OpenKey, WriteKey, CertStep, MainStep, Generating
  <2>3. TunnelInv' /\ StartedOnce'
    BY <2>2, SameTunnel
  <2> QED
    BY <2>1, <2>3 DEF ServerInv
<1> QED
  BY <1>1, <1>2

\* Steps of main after the certificates.
LEMMA MainInv ==
  ASSUME ServerInv
  PROVE  (Build \/ Wait \/ Shutdown \/ StopTunnel \/ Exit \/ TrayReturns \/ Restart) => ServerInv'
<1> USE DEF MainStep, MainTo, files
<1>0. FilesInv /\ TunnelInv /\ StartedOnce
  BY DEF ServerInv
<1>1. ASSUME Build PROVE ServerInv'
  <2>1. AtRest /\ Start
    BY <1>0, <1>1 DEF Build, StartedOnce
  <2>2. TunnelInv'
    BY <1>0, <2>1, StartInv
  <2>3. FilesInv'
    BY <1>0, <1>1, OtherFiles DEF Build, Steps, Running, FilesInv, Present
  <2>4. StartedOnce'
    BY <1>1 DEF Build, StartedOnce, Generating
  <2> QED
    BY <2>2, <2>3, <2>4 DEF ServerInv
<1>2. ASSUME Wait \/ Shutdown \/ TrayReturns PROVE ServerInv'
  <2>1. FilesInv'
    BY <1>0, <1>2, OtherFiles DEF Wait, Shutdown, TrayReturns, Steps, Running, FilesInv, Present
  <2>2. TunnelInv' /\ StartedOnce'
    BY <1>2, SameTunnel DEF Wait, Shutdown, TrayReturns, Generating
  <2> QED
    BY <2>1, <2>2 DEF ServerInv
<1>3. ASSUME StopTunnel PROVE ServerInv'
  <2>1. FilesInv'
    BY <1>0, <1>3, OtherFiles DEF StopTunnel, Steps, Running
  <2>2. TunnelInv'
    BY <1>0, <1>3, StopInv DEF StopTunnel
  <2>3. StartedOnce'
    BY <1>3 DEF StopTunnel, StartedOnce, Generating
  <2> QED
    BY <2>1, <2>2, <2>3 DEF ServerInv
<1>4. ASSUME Exit PROVE ServerInv'
  <2>1. FilesInv'
    BY <1>0, <1>4, OtherFiles DEF Exit, Steps, Running
  <2>2. TunnelInv' /\ AtRest'
    BY <1>0, <1>4, GoneInv DEF Exit
  <2> QED
    BY <2>1, <2>2 DEF ServerInv, StartedOnce
<1>5. ASSUME Restart PROVE ServerInv'
  <2>1. FilesInv'
    BY <1>0, <1>5, OtherFiles DEF Restart, Steps, Running
  <2>2. TunnelInv' /\ StartedOnce'
    BY <1>5, SameTunnel DEF Restart
  <2> QED
    BY <2>1, <2>2 DEF ServerInv
<1> QED
  BY <1>1, <1>2, <1>3, <1>4, <1>5

\* Steps of the other goroutines.
LEMMA ThreadsInv ==
  ASSUME ServerInv
  PROVE  (Listen \/ ListenFails \/ TrayQuit \/ TrayExit \/ TrayCloses \/ SignalArrives
            \/ SignalCheck \/ SignalCloses \/ CertAges \/ Crash) => ServerInv'
<1> SUFFICES ASSUME Listen \/ ListenFails \/ TrayQuit \/ TrayExit \/ TrayCloses
                      \/ SignalArrives \/ SignalCheck \/ SignalCloses \/ CertAges \/ Crash
             PROVE  ServerInv'
  OBVIOUS
<1>1. CASE Dies
  BY <1>1, DiesInv
<1>2. CASE ~Dies
  <2>1. UNCHANGED <<mainPc, certFile, keyFile, pairs, torn, tunnelVars>>
    BY <1>2 DEF Listen, ListenFails, TrayQuit, TrayExit, TrayCloses, SignalArrives,
                SignalCheck, SignalCloses, CertAges, Crash, files
  <2> QED
    BY <2>1, SilentInv
<1> QED
  BY <1>1, <1>2

LEMMA TunnelStepInv ==
  ASSUME ServerInv, TunnelStep
  PROVE  ServerInv'
<1>1. TunnelInv'
  BY TunnelNextInv DEF TunnelStep, ServerInv
<1>2. UNCHANGED <<mainPc, certFile, keyFile, pairs, torn>>
  BY DEF TunnelStep, lifecycleVars
<1>3. FilesInv'
  BY <1>2 DEF ServerInv, FilesInv, FilesTypeOK, Writing, Fits, Present
<1>4. StartedOnce'
  BY <1>2, RestStays DEF TunnelStep, ServerInv, StartedOnce
<1> QED
  BY <1>1, <1>3, <1>4 DEF ServerInv

LEMMA LifecycleStep == ServerInv /\ [LifecycleNext]_serverVars => ServerInv'
<1> SUFFICES ASSUME ServerInv, [LifecycleNext]_serverVars PROVE ServerInv'
  OBVIOUS
<1>1. CASE UNCHANGED serverVars
  BY <1>1, SilentInv DEF serverVars, lifecycleVars
<1>2. CASE ServerNext
  BY <1>2, WritingInv, MainInv, ThreadsInv DEF ServerNext, MainNext, TrayNext, SignalNext
<1>3. CASE TunnelStep
  BY <1>3, TunnelStepInv
<1> QED
  BY <1>1, <1>2, <1>3 DEF LifecycleNext

LEMMA ServerInit == TunnelInit /\ LifecycleInit => ServerInv
<1> SUFFICES ASSUME TunnelInit, LifecycleInit PROVE ServerInv
  OBVIOUS
<1>1. AtStart
  BY DEF TunnelInit, AtStart, AtRest
<1>2. FilesInv
  <2>1. 0 \in 0 .. MaxPairs
    BY PairFacts
  <2> QED
    BY <2>1, PairFacts DEF LifecycleInit, FilesInv, FilesTypeOK, Steps, Contents, Writing, Fits,
       Present, Running
<1> QED
  BY <1>1, <1>2, AtStartInv DEF ServerInv, StartedOnce, AtStart

LEMMA ServerInvariant == LifecycleSpec => []ServerInv
  BY ServerInit, LifecycleStep, PTL DEF LifecycleSpec

\* The variables of the tunnel keep their types through starts, stops and
\* crashes (tunnel.go).
THEOREM TunnelTypes == LifecycleSpec => []TunnelTypeOK
<1>1. ServerInv => TunnelTypeOK
  BY DEF ServerInv, TunnelInv
<1> QED
  BY <1>1, ServerInvariant, PTL

\* The QR code carries a quick tunnel's URL only while runLoop reads from the
\* process that was given it (tunnel.go runLoop, Stop).
THEOREM TunnelUrl == LifecycleSpec => []UrlOfThisTunnel
<1>1. ServerInv => UrlOfThisTunnel
  BY DEF ServerInv, TunnelInv
<1> QED
  BY <1>1, ServerInvariant, PTL

\* A server past its certificates has a key that fits, unless an earlier start
\* died between the two files, however often it crashed elsewhere (certs.go
\* EnsureCertificates, generateCertificates).
THEOREM CertificatesServe == LifecycleSpec => []ServesUnlessTorn
<1>1. ServerInv => ServesUnlessTorn
  BY FilesServe DEF ServerInv
<1> QED
  BY <1>1, ServerInvariant, PTL

-----------------------------------------------------------------------------
(* The types of the rest of the program                                       *)

\* Only a certificate that was written comes near its end.
Aged == old \in 0 .. pairs /\ (certFile \in Pair => certFile <= pairs)

Goroutines ==
    /\ listener \in {"none", "starting", "serving", "closed"}
    /\ closed \in BOOLEAN
    /\ signal \in {"none", "waiting", "check", "close", "done"}
    /\ quit \in {"none", "asked", "check", "close", "done", "gone"}
    /\ starts \in 1 .. MaxStarts

ServerTyped == ServerInv /\ Aged /\ Goroutines

LEMMA TypesOfServer == ServerTyped => LifecycleTypeOK
  BY DEF ServerTyped, ServerInv, FilesInv, FilesTypeOK, Steps, Contents, Aged, Goroutines,
         LifecycleTypeOK

LEMMA AgedStep == FilesInv /\ Aged /\ [LifecycleNext]_serverVars => Aged'
<1> SUFFICES ASSUME FilesInv, Aged, [LifecycleNext]_serverVars PROVE Aged'
  OBVIOUS
<1>0. pairs \in Nat /\ pairs \in 0 .. MaxPairs
  BY PairFacts DEF FilesInv, FilesTypeOK
<1>1. CASE UNCHANGED <<certFile, pairs, old>>
  BY <1>1 DEF Aged
<1>2. CASE OpenCert
  <2>1. CASE certFile' = Torn /\ UNCHANGED <<pairs, old>>
    BY <2>1, PairFacts DEF Aged
  <2> QED
    BY <1>1, <1>2, <2>1 DEF OpenCert, CertStep, Dies
<1>3. CASE WriteCert
  <2>1. CASE certFile' = pairs + 1 /\ pairs' = pairs + 1 /\ UNCHANGED old
    BY <1>0, <2>1 DEF Aged
  <2> QED
    BY <1>1, <1>3, <2>1 DEF WriteCert, CertStep, Dies
<1>4. CASE CertAges
  <2>1. certFile \in Pair /\ certFile <= pairs /\ old' = certFile /\ UNCHANGED <<certFile, pairs>>
    BY <1>4 DEF CertAges, Aged
  <2>2. certFile \in 0 .. pairs
    BY <1>0, <2>1 DEF Pair
  <2> QED
    BY <2>1, <2>2 DEF Aged
<1>5. CASE \/ Certs \/ OpenKey \/ WriteKey \/ Build \/ Wait \/ Shutdown \/ StopTunnel \/ Exit
           \/ TrayNext \/ SignalNext \/ Listen \/ ListenFails \/ TrayQuit \/ TrayReturns
           \/ SignalArrives \/ Crash \/ Restart \/ TunnelStep
  <2>1. UNCHANGED <<certFile, pairs, old>>
    BY <1>5 DEF Certs, OpenKey, WriteKey, CertStep, MainStep, Build, Wait, Shutdown, StopTunnel,
                Exit, TrayNext, TrayExit, TrayCloses, SignalNext, SignalCheck, SignalCloses,
                Listen, ListenFails, TrayQuit, TrayReturns, SignalArrives, Crash, Restart,
                TunnelStep, lifecycleVars, Dies, files
  <2> QED
    BY <1>1, <2>1
<1>6. CASE UNCHANGED serverVars
  BY <1>1, <1>6 DEF serverVars, lifecycleVars
<1> QED
  BY <1>2, <1>3, <1>4, <1>5, <1>6 DEF LifecycleNext, ServerNext, MainNext

LEMMA DiesGoroutines == Goroutines /\ Dies => Goroutines'
  BY DEF Goroutines, Dies

LEMMA GoroutinesStep == Goroutines /\ [LifecycleNext]_serverVars => Goroutines'
<1> SUFFICES ASSUME Goroutines, [LifecycleNext]_serverVars PROVE Goroutines'
  OBVIOUS
<1>1. CASE Dies
  BY <1>1, DiesGoroutines
<1>2. CASE UNCHANGED <<listener, closed, signal, quit, starts>>
  BY <1>2 DEF Goroutines
<1>3. CASE (Certs \/ OpenCert \/ WriteCert \/ OpenKey \/ WriteKey) /\ ~Dies
  BY <1>2, <1>3 DEF Certs, OpenCert, WriteCert, OpenKey, WriteKey, CertStep, MainStep, threads
<1>4. CASE Build \/ Wait \/ Shutdown \/ StopTunnel \/ Exit
  BY <1>4 DEF Build, Wait, Shutdown, StopTunnel, Exit, MainStep, threads, Goroutines
<1>5. CASE (TrayNext \/ SignalNext) /\ ~Dies
  BY <1>5 DEF TrayNext, TrayExit, TrayCloses, TrayReturns, MainStep, SignalNext, SignalCheck,
              SignalCloses, Goroutines
<1>6. CASE (Listen \/ ListenFails \/ TrayQuit \/ TrayReturns \/ SignalArrives \/ Crash) /\ ~Dies
  BY <1>6 DEF Listen, ListenFails, TrayQuit, TrayReturns, MainStep, SignalArrives, Crash,
              Goroutines
<1>7. CASE Restart
  <2>1. starts' \in 1 .. MaxStarts
    BY <1>7, LifecycleAssumption DEF LifecycleAssumption, Restart, Goroutines
  <2> QED
    BY <1>7, <2>1 DEF Restart, threads, Goroutines
<1>8. CASE CertAges \/ TunnelStep \/ UNCHANGED serverVars
  BY <1>2, <1>8 DEF CertAges, TunnelStep, serverVars, lifecycleVars
<1> QED
  BY <1>1, <1>3, <1>4, <1>5, <1>6, <1>7, <1>8 DEF LifecycleNext, ServerNext, MainNext

LEMMA TypedStep == ServerTyped /\ [LifecycleNext]_serverVars => ServerTyped'
  BY LifecycleStep, AgedStep, GoroutinesStep DEF ServerTyped, ServerInv

LEMMA TypedInit == TunnelInit /\ LifecycleInit => ServerTyped
<1> SUFFICES ASSUME TunnelInit, LifecycleInit PROVE ServerTyped
  OBVIOUS
<1>1. Aged
  BY PairFacts DEF LifecycleInit, Aged
<1>2. Goroutines
  <2>1. 1 \in 1 .. MaxStarts
    BY LifecycleAssumption DEF LifecycleAssumption
  <2> QED
    BY <2>1 DEF LifecycleInit, Goroutines
<1> QED
  BY <1>1, <1>2, ServerInit DEF ServerTyped

\* main, its goroutines and the certificate files keep their types through
\* starts, deaths and shutdowns (main.go, certs.go, tray.go).
THEOREM LifecycleTypes == LifecycleSpec => []LifecycleTypeOK
  BY TypedInit, TypedStep, TypesOfServer, PTL DEF LifecycleSpec

=============================================================================
