---------------------------- MODULE Panel_proofs ----------------------------
(* What TLAPS proves of the panel and the scanner it composes, for every    *)
(* set of options, detectors, profiles and callers.                         *)
EXTENDS Panel, DataInduction, FiniteSetTheorems, TLAPS

-----------------------------------------------------------------------------
(* The inductive invariant of the scanner.                                  *)

Startable == {o \in Options : Valid(o)}
JobCount(o) == Len(expandCIDR(o)) * Len(ParsePorts(o.ports))

Over == {j \in JobIds : probe[j] = "over"}

\* The network has shown to this scan that there is a host at ip.
Heard(ip) ==
  \E j \in JobIds : answer[j] \in {"accepted", "refused"} /\ Plan[scan.options][j].ip = ip

\* scan is a record of seven fields; of its hosts a map from addresses.
ScanShape ==
  /\ DOMAIN scan = {"number", "running", "cancel", "options", "total", "done", "hosts"}
  /\ DOMAIN scan.hosts = Addrs
  /\ \A a \in Addrs : DOMAIN scan.hosts[a] = {"reachable", "ports"}

ScanTypes ==
  /\ scan.number \in Nat /\ scan.running \in BOOLEAN
  /\ scan.cancel = IF scan.running THEN scan.number ELSE 0
  /\ run \in [pc : {"none", "launch", "wait", "enrich", "end"}, next : Nat, cancelled : BOOLEAN]
  /\ probe \in [JobIds -> {"none", "dialling", "reported", "over"}]
  /\ answer \in [JobIds -> {"none", "silent", "refused", "accepted"}]
  /\ stopped \in BOOLEAN

\* Before the first scan there is none; later there is one, of options that
\* were accepted.
Asking ==
  IF scan.number = 0
  THEN /\ ~scan.running /\ scan.options = NoOptions /\ scan.total = 0
       /\ \A j \in JobIds : probe[j] = "none"
  ELSE scan.options \in Startable /\ scan.total = JobCount(scan.options)

\* How far run has come: the probes before next have been started, all of them
\* unless the scan was cancelled, and a scan is cancelled only if somebody
\* stopped it.
Progress ==
  /\ scan.running <=> run.pc # "none"
  /\ run.cancelled => stopped
  /\ scan.running =>
       /\ run.next \in 1..(scan.total + 1)
       /\ \A j \in JobIds : probe[j] # "none" <=> j < run.next
  /\ run.pc \in {"wait", "enrich", "end"} => stopped \/ run.next = scan.total + 1
  /\ run.pc \in {"none", "enrich", "end"} => InFlight = {}
  /\ ~scan.running =>
       /\ run = NoRun
       /\ \A j \in JobIds : probe[j] # "none" => j <= scan.total
       /\ scan.number # 0 /\ ~stopped => \A j \in JobIds : j <= scan.total => probe[j] = "over"

\* Answers are those of probes that have reported.
Answering == \A j \in JobIds : answer[j] = "none" <=> probe[j] \in {"none", "dialling"}

\* Probes are counted once, and no more are under way than were asked for.
ProbesAreCounted ==
  /\ scan.done = Cardinality(Over)
  /\ Cardinality(InFlight) <= scan.options.concurrency

\* A host is shown if and only if it has answered this scan.
HostsAreHeard ==
  \A a \in Addrs : /\ scan.hosts[a].reachable \in BOOLEAN
                   /\ scan.hosts[a].reachable <=> Heard(a)

ScanInv ==
  /\ ScanShape /\ ScanTypes /\ Asking /\ Progress /\ Answering
  /\ ProbesAreCounted /\ HostsAreHeard

-----------------------------------------------------------------------------
(* The inductive invariant of the requests.                                 *)

PanelTypes ==
  /\ engine \in Settings
  /\ memory \in [detection : Settings, scan : Remembered]
  /\ file \in [detection : Settings, scan : Remembered]
  /\ req \in [Callers ->
       [pc : {"idle", "apply", "configure", "notify", "setDetection", "rollback",
              "notifyRollback", "setScan", "cancel"},
        import : BOOLEAN, wanted : Settings, previous : Settings, options : Remembered,
        cancel : Nat, was : Settings, alone : BOOLEAN]]
  /\ calls \in 0..MaxCalls

\* A request that is about to stop a scan holds the cancel function of the
\* current scan, which it has marked as stopped, or of an earlier one.
StopsItsOwn ==
  \A c \in Callers :
    req[c].pc = "cancel" =>
      req[c].cancel <= scan.number /\ (req[c].cancel = scan.number => stopped)

\* Nobody else is at work beside a request that is alone.
Alone == \A c, d \in Callers : req[c].alone /\ c # d => req[d].pc = "idle"

\* How far a request that is alone has come.
Course(c) ==
  LET r == req[c]
  IN  /\ r.pc \in {"apply", "configure", "notifyRollback"} => engine = r.was
      /\ r.pc \in {"configure", "notify", "setDetection", "rollback"} => r.previous = r.was
      /\ r.pc \in {"notify", "setDetection"} => engine = r.wanted
      /\ r.pc = "setScan" /\ r.import => engine = r.wanted /\ memory.detection = r.wanted
                                         /\ file.detection = r.wanted
      /\ r.pc = "setScan" /\ ~r.import => scan.options = r.options

LoneCourse == \A c \in Callers : req[c].alone => Course(c)

IInv == ScanInv /\ PanelTypes /\ StopsItsOwn /\ Alone /\ LoneCourse

\* The part of ScanIsThorough that does not depend on how options are expanded:
\* a scan that has ended and that nobody stopped while it ran has tried every
\* job of its plan, and its progress says so; and at any time it shows just the
\* hosts that have answered it.
ScanTriesItsPlan ==
  scan.number > 0 =>
    /\ scan.done = Cardinality(Over)
    /\ Cardinality(InFlight) <= scan.options.concurrency
    /\ ~scan.running => InFlight = {}
    /\ ~scan.running /\ ~stopped => scan.done = scan.total /\ Over = DOMAIN Plan[scan.options]
    /\ \A ip \in Addrs : scan.hosts[ip].reachable <=> Heard(ip)

-----------------------------------------------------------------------------
(* Facts about plans and about sets of probes.                              *)

\* The plan of options that may be started has as many jobs as there are
\* addresses times ports, and no more than there are probes.
LEMMA PlanHasAllJobs ==
  ASSUME NEW o \in Startable
  PROVE  /\ JobCount(o) \in JobIds
         /\ DOMAIN Plan[o] = 1..JobCount(o) /\ Len(Plan[o]) = JobCount(o)
<1>1. JobCount(o) \in JobIds
  BY ScannerAssumption DEF Startable, JobCount
<1>2. Plan[o] = Jobs(o)
  BY DEF Plan, Startable
<1>3. DOMAIN Jobs(o) = 1..JobCount(o)
  BY DEF Jobs, JobCount
<1>4. JobCount(o) \in Nat
  BY <1>1, ScannerAssumption DEF JobIds
<1>5. Len(Jobs(o)) = JobCount(o)
  BY <1>4 DEF Jobs, JobCount
<1>6. QED
  BY <1>1, <1>2, <1>3, <1>5

\* Probes are finitely many.
LEMMA ProbesAreFinite ==
  ASSUME NEW S \in SUBSET JobIds
  PROVE  IsFiniteSet(S) /\ Cardinality(S) \in Nat
<1>1. IsFiniteSet(JobIds)
  BY ScannerAssumption, FS_Interval DEF JobIds
<1>2. IsFiniteSet(S)
  BY <1>1, FS_Subset
<1>3. QED
  BY <1>2, FS_CardinalityType

\* What one probe's change does to the sets of probes.
LEMMA ProbeMoves ==
  ASSUME probe \in [JobIds -> {"none", "dialling", "reported", "over"}],
         NEW j \in JobIds, NEW s \in {"dialling", "reported", "over"},
         probe' = [probe EXCEPT ![j] = s]
  PROVE  /\ InFlight' = IF s = "over" THEN InFlight \ {j} ELSE InFlight \cup {j}
         /\ probe[j] # "over" => Over' = IF s = "over" THEN Over \cup {j} ELSE Over
BY DEF InFlight, Over

-----------------------------------------------------------------------------
(* The scanner keeps its invariant.                                         *)

\* A new scan.
LEMMA StartKeeps ==
  ASSUME ScanInv, NEW o \in Options, Start(o)
  PROVE  ScanInv'
<1>1. /\ o \in Startable /\ scan.number \in Nat
      /\ scan'.number = scan.number + 1 /\ scan'.running = TRUE
      /\ scan'.cancel = scan.number + 1 /\ scan'.options = o /\ scan'.total = JobCount(o)
      /\ scan'.done = 0 /\ scan'.hosts = NoHosts
      /\ run' = [pc |-> "launch", next |-> 1, cancelled |-> FALSE]
      /\ probe' = [j \in JobIds |-> "none"] /\ answer' = [j \in JobIds |-> "none"]
      /\ stopped' = FALSE
  BY DEF Start, CanStart, ScanInv, ScanTypes, Startable, JobCount, NoRun
<1>2. scan'.number \in Nat /\ scan'.number # 0 /\ JobCount(o) \in Nat \ {0}
  BY <1>1, PlanHasAllJobs, ScannerAssumption DEF JobIds
<1>3. ScanShape'
  BY DEF Start, ScanShape, NoHosts, NoHost
<1>4. ScanTypes'
  BY <1>1, <1>2 DEF ScanTypes
<1>5. Asking'
  BY <1>1, <1>2 DEF Asking
<1>6. InFlight' = {} /\ Over' = {}
  BY <1>1 DEF InFlight, Over
<1>7. Progress'
  <2>1. \A j \in JobIds : probe'[j] = "none" /\ ~(j < 1)
    BY <1>1 DEF JobIds
  <2>2. QED
    BY <1>1, <1>2, <2>1 DEF Progress
<1>8. Answering'
  BY <1>1 DEF Answering
<1>9. ProbesAreCounted'
  <2>1. o.concurrency \in Nat
    BY ScannerAssumption
  <2>2. QED
    BY <1>1, <1>6, <2>1, FS_EmptySet DEF ProbesAreCounted
<1>10. HostsAreHeard'
  <2>1. \A a \in Addrs : scan'.hosts[a].reachable = FALSE
    BY <1>1 DEF NoHosts, NoHost
  <2>2. \A a \in Addrs : ~Heard(a)'
    BY <1>1 DEF Heard
  <2>3. QED
    BY <2>1, <2>2 DEF HostsAreHeard
<1>11. QED
  BY <1>3, <1>4, <1>5, <1>7, <1>8, <1>9, <1>10 DEF ScanInv

\* Only the goroutine and the flag of a stop change: the plan, the probes and
\* what has been seen stay.
LEMMA RunKeeps ==
  ASSUME ScanInv, UNCHANGED <<scan, probe, answer>>,
         run' \in [pc : {"none", "launch", "wait", "enrich", "end"}, next : Nat,
                   cancelled : BOOLEAN],
         stopped' \in BOOLEAN, Progress'
  PROVE  ScanInv'
BY DEF ScanInv, ScanShape, ScanTypes, Asking, Answering, ProbesAreCounted, InFlight, Over,
       HostsAreHeard, Heard

\* The cancel function is called: that of an earlier scan, or of this one, which
\* somebody has decided to stop.
LEMMA CancelKeeps ==
  ASSUME ScanInv, NEW n, Cancel(n), n = scan.number => stopped
  PROVE  ScanInv'
<1>1. /\ run \in [pc : {"none", "launch", "wait", "enrich", "end"}, next : Nat,
                  cancelled : BOOLEAN]
      /\ scan.running \in BOOLEAN /\ stopped \in BOOLEAN
  BY DEF ScanInv, ScanTypes
<1>2. /\ run' \in [pc : {"none", "launch", "wait", "enrich", "end"}, next : Nat,
                   cancelled : BOOLEAN]
      /\ run'.pc = run.pc /\ run'.next = run.next
      /\ ~scan.running => run' = run
      /\ run'.cancelled => run.cancelled \/ (scan.running /\ n = scan.number)
  BY <1>1 DEF Cancel
<1>3. UNCHANGED <<scan, probe, answer, stopped>>
  BY DEF Cancel
<1>4. Progress'
  BY <1>2, <1>3 DEF ScanInv, Progress, InFlight
<1>5. QED
  BY <1>1, <1>2, <1>3, <1>4, RunKeeps

\* A stop reads the cancel function.
LEMMA StopKeeps ==
  ASSUME ScanInv, scan.cancel # 0, stopped' = TRUE, UNCHANGED <<scan, run, probe, answer>>
  PROVE  ScanInv'
<1>1. Progress'
  BY DEF ScanInv, Progress, InFlight
<1>2. QED
  BY <1>1, RunKeeps DEF ScanInv, ScanTypes

\* The steps of run between the launches and the end.
LEMMA PhaseKeeps ==
  ASSUME ScanInv, LaunchCancelled \/ LaunchDone \/ Wait
  PROVE  ScanInv'
<1>1. /\ run \in [pc : {"none", "launch", "wait", "enrich", "end"}, next : Nat,
                  cancelled : BOOLEAN]
      /\ scan.number \in Nat /\ stopped \in BOOLEAN
  BY DEF ScanInv, ScanTypes
<1>2. PICK from \in {"launch", "wait"}, to \in {"wait", "enrich"} :
        /\ run.pc = from /\ run' = [run EXCEPT !.pc = to] /\ to # from
        /\ from = "launch" => to = "wait" /\ (run.cancelled \/ ~HasJob)
        /\ from = "wait" => to = "enrich" /\ InFlight = {}
  BY DEF LaunchCancelled, LaunchDone, Wait, RunProceeds
<1>3. UNCHANGED <<scan, probe, answer, stopped>>
  BY DEF LaunchCancelled, LaunchDone, Wait, RunProceeds
<1>4. /\ run' \in [pc : {"none", "launch", "wait", "enrich", "end"}, next : Nat,
                   cancelled : BOOLEAN]
      /\ run'.pc = to /\ run'.next = run.next /\ run'.cancelled = run.cancelled
  BY <1>1, <1>2
<1>5. scan.running
  BY <1>2 DEF ScanInv, Progress
<1>6. from = "launch" => stopped \/ run.next = scan.total + 1
  <2>1. scan.total = Len(Plan[scan.options]) /\ scan.total \in Nat
    BY <1>5, PlanHasAllJobs, ScannerAssumption DEF ScanInv, Asking, JobIds
  <2>2. run.next \in 1..(scan.total + 1) /\ (run.cancelled => stopped)
    BY <1>5 DEF ScanInv, Progress
  <2>3. QED
    BY <1>2, <2>1, <2>2 DEF HasJob
<1>7. Progress'
  BY <1>2, <1>3, <1>4, <1>5, <1>6 DEF ScanInv, Progress, InFlight
<1>8. QED
  BY <1>3, <1>4, <1>1, <1>7, RunKeeps

\* A probe is started.
LEMMA LaunchKeeps ==
  ASSUME ScanInv, Launch
  PROVE  ScanInv'
<1>1. /\ run \in [pc : {"none", "launch", "wait", "enrich", "end"}, next : Nat,
                  cancelled : BOOLEAN]
      /\ probe \in [JobIds -> {"none", "dialling", "reported", "over"}]
  BY DEF ScanInv, ScanTypes
<1>2. /\ run.pc = "launch" /\ run.next <= Len(Plan[scan.options])
      /\ probe' = [probe EXCEPT ![run.next] = "dialling"]
      /\ UNCHANGED <<scan, answer, stopped>>
      /\ Cardinality(InFlight) < scan.options.concurrency
  BY DEF Launch, HasJob
<1>3. /\ run' \in [pc : {"none", "launch", "wait", "enrich", "end"}, next : Nat,
                   cancelled : BOOLEAN]
      /\ run'.pc = "launch" /\ run'.next = run.next + 1 /\ run'.cancelled = run.cancelled
  BY <1>1, <1>2 DEF Launch
<1>4. scan.running
  BY <1>2 DEF ScanInv, Progress
<1>5. /\ scan.options \in Startable /\ scan.total = Len(Plan[scan.options])
      /\ scan.total \in JobIds /\ scan.total \in Nat
  BY <1>4, PlanHasAllJobs, ScannerAssumption DEF ScanInv, Asking, JobIds
<1>6. /\ run.next \in JobIds /\ run.next \in 1..scan.total
      /\ probe[run.next] = "none" /\ answer[run.next] = "none"
  <2>1. run.next \in JobIds /\ run.next \in 1..scan.total
    BY <1>2, <1>4, <1>5, ScannerAssumption DEF ScanInv, Progress, JobIds
  <2>2. QED
    BY <1>4, <2>1 DEF ScanInv, Progress, Answering
<1>7. InFlight' = InFlight \cup {run.next} /\ Over' = Over
  BY <1>1, <1>2, <1>6, ProbeMoves
<1>8. ScanTypes' /\ ScanShape' /\ Asking'
  <2>1. probe' \in [JobIds -> {"none", "dialling", "reported", "over"}]
    BY <1>1, <1>2
  <2>2. QED
    BY <1>2, <1>3, <1>4, <2>1 DEF ScanInv, ScanShape, ScanTypes, Asking
<1>9. Progress'
  <2>1. run'.next \in 1..(scan.total + 1)
    BY <1>3, <1>5, <1>6
  <2>2. \A j \in JobIds : probe'[j] # "none" <=> j < run'.next
    BY <1>1, <1>2, <1>3, <1>4, <1>6 DEF ScanInv, Progress, JobIds
  <2>3. QED
    BY <1>2, <1>3, <1>4, <2>1, <2>2 DEF ScanInv, Progress
<1>10. Answering'
  BY <1>1, <1>2, <1>6 DEF ScanInv, Answering
<1>11. ProbesAreCounted'
  <2>1. IsFiniteSet(InFlight) /\ Cardinality(InFlight) \in Nat
    BY ProbesAreFinite DEF InFlight
  <2>2. Cardinality(InFlight') <= Cardinality(InFlight) + 1
    BY <1>7, <2>1, FS_AddElement
  <2>3. Cardinality(InFlight') \in Nat
    BY <1>7, <2>1, FS_AddElement
  <2>4. scan.options.concurrency \in Nat
    BY <1>5, ScannerAssumption DEF Startable
  <2>5. QED
    BY <1>2, <1>7, <2>1, <2>2, <2>3, <2>4 DEF ScanInv, ProbesAreCounted
<1>12. HostsAreHeard'
  BY <1>2 DEF ScanInv, HostsAreHeard, Heard
<1>13. QED
  BY <1>8, <1>9, <1>10, <1>11, <1>12 DEF ScanInv

\* What stays when only the ports of hosts, or the flags of the scan, change.
LEMMA EnrichKeeps ==
  ASSUME ScanInv, Enrich
  PROVE  ScanInv'
<1>1. /\ run \in [pc : {"none", "launch", "wait", "enrich", "end"}, next : Nat,
                  cancelled : BOOLEAN]
      /\ ScanShape /\ run.pc = "enrich" /\ run' = [run EXCEPT !.pc = "end"]
      /\ UNCHANGED <<probe, answer, stopped>>
  BY DEF ScanInv, ScanTypes, Enrich, RunProceeds
<1>2. scan' = [scan EXCEPT !.hosts =
        [a \in Addrs |-> [scan.hosts[a] EXCEPT !.ports = Sorted(scan.hosts[a].ports)]]]
  BY DEF Enrich
<1>3. /\ scan'.number = scan.number /\ scan'.running = scan.running
      /\ scan'.cancel = scan.cancel /\ scan'.options = scan.options
      /\ scan'.total = scan.total /\ scan'.done = scan.done
      /\ scan'.hosts = [a \in Addrs |->
                         [scan.hosts[a] EXCEPT !.ports = Sorted(scan.hosts[a].ports)]]
  BY <1>1, <1>2 DEF ScanShape
<1>4. ScanShape'
  BY <1>1, <1>2 DEF ScanShape
<1>5. \A a \in Addrs : scan'.hosts[a].reachable = scan.hosts[a].reachable
  BY <1>1, <1>3 DEF ScanShape
<1>6. /\ run' \in [pc : {"none", "launch", "wait", "enrich", "end"}, next : Nat,
                   cancelled : BOOLEAN]
      /\ run'.pc = "end" /\ run'.next = run.next /\ run'.cancelled = run.cancelled
  BY <1>1
<1>7. ScanTypes' /\ Asking'
  BY <1>1, <1>3, <1>6 DEF ScanInv, ScanTypes, Asking
<1>8. Progress'
  BY <1>1, <1>3, <1>6 DEF ScanInv, Progress, InFlight
<1>9. Answering' /\ ProbesAreCounted' /\ HostsAreHeard'
  BY <1>1, <1>3, <1>5 DEF ScanInv, Answering, ProbesAreCounted, InFlight, Over, HostsAreHeard,
                          Heard
<1>10. QED
  BY <1>4, <1>7, <1>8, <1>9 DEF ScanInv

\* The end of a scan.
LEMMA EndKeeps ==
  ASSUME ScanInv, End
  PROVE  ScanInv'
<1>1. /\ ScanShape /\ run.pc = "end" /\ run' = NoRun
      /\ UNCHANGED <<probe, answer, stopped>> /\ scan.running /\ InFlight = {}
      /\ probe \in [JobIds -> {"none", "dialling", "reported", "over"}]
      /\ run.next \in 1..(scan.total + 1)
      /\ \A j \in JobIds : probe[j] # "none" <=> j < run.next
      /\ stopped \/ run.next = scan.total + 1
      /\ scan.number \in Nat
  BY DEF ScanInv, ScanTypes, Progress, End
<1>2. /\ scan'.number = scan.number /\ scan'.running = FALSE
      /\ scan'.cancel = 0 /\ scan'.options = scan.options
      /\ scan'.total = scan.total /\ scan'.done = scan.done /\ scan'.hosts = scan.hosts
      /\ ScanShape'
  BY <1>1 DEF End, ScanShape
<1>3. ScanTypes' /\ Asking'
  <2>1. run' \in [pc : {"none", "launch", "wait", "enrich", "end"}, next : Nat,
                  cancelled : BOOLEAN]
    BY <1>1 DEF NoRun
  <2>2. QED
    BY <1>1, <1>2, <2>1 DEF ScanInv, ScanTypes, Asking
<1>4. scan.total \in Nat
  BY <1>1, PlanHasAllJobs, ScannerAssumption DEF ScanInv, Asking, JobIds
<1>5. \A j \in JobIds : probe[j] # "none" => j <= scan.total
  BY <1>1, <1>4 DEF JobIds
<1>6. ~stopped => \A j \in JobIds : j <= scan.total => probe[j] = "over"
  BY <1>1, <1>4 DEF JobIds, InFlight
<1>7. Progress'
  BY <1>1, <1>2, <1>5, <1>6 DEF Progress, InFlight, NoRun
<1>8. Answering' /\ ProbesAreCounted' /\ HostsAreHeard'
  BY <1>1, <1>2 DEF ScanInv, Answering, ProbesAreCounted, InFlight, Over, HostsAreHeard, Heard
<1>9. QED
  BY <1>2, <1>3, <1>7, <1>8 DEF ScanInv

\* What is known of a scan while one of its probes is under way.
LEMMA ProbeRuns ==
  ASSUME ScanInv, NEW j \in InFlight
  PROVE  /\ scan.running /\ scan.number # 0 /\ run.pc \in {"launch", "wait"}
         /\ j \in JobIds /\ j < run.next
BY DEF ScanInv, ScanTypes, Progress, Asking, InFlight

\* A probe moves on: the state of the scan's fields other than hosts and done
\* stays, and so does how far run has come.
LEMMA ProbeKeeps ==
  ASSUME ScanInv, NEW j \in InFlight, NEW s \in {"reported", "over"},
         probe' = [probe EXCEPT ![j] = s], UNCHANGED <<run, stopped>>,
         answer' \in [JobIds -> {"none", "silent", "refused", "accepted"}],
         scan'.number = scan.number, scan'.running = scan.running,
         scan'.cancel = scan.cancel, scan'.options = scan.options, scan'.total = scan.total
  PROVE  ScanTypes' /\ Asking' /\ Progress'
<1>1. probe \in [JobIds -> {"none", "dialling", "reported", "over"}]
  BY DEF ScanInv, ScanTypes
<1>2. ScanTypes'
  <2>1. probe' \in [JobIds -> {"none", "dialling", "reported", "over"}]
    BY <1>1
  <2>2. QED
    BY <2>1 DEF ScanInv, ScanTypes
<1>3. scan.running /\ scan.number # 0 /\ run.pc \in {"launch", "wait"} /\ j \in JobIds
  BY ProbeRuns
<1>4. Asking'
  BY <1>3 DEF ScanInv, Asking
<1>5. \A k \in JobIds : probe'[k] # "none" <=> probe[k] # "none"
  BY <1>1, <1>3 DEF InFlight
<1>6. Progress'
  BY <1>3, <1>5 DEF ScanInv, Progress
<1>7. QED
  BY <1>2, <1>4, <1>6

\* A probe reports what the network has said.
LEMMA ReportKeeps ==
  ASSUME ScanInv, NEW j \in JobIds, NEW a \in {"silent", "refused", "accepted"}, Report(j, a)
  PROVE  ScanInv'
<1> DEFINE ip == Plan[scan.options][j].ip
<1>1. /\ ScanShape /\ probe[j] = "dialling" /\ probe' = [probe EXCEPT ![j] = "reported"]
      /\ answer' = [answer EXCEPT ![j] = a] /\ UNCHANGED <<run, stopped>>
      /\ probe \in [JobIds -> {"none", "dialling", "reported", "over"}]
      /\ answer \in [JobIds -> {"none", "silent", "refused", "accepted"}]
  BY DEF ScanInv, ScanTypes, Report
<1>2. j \in InFlight /\ answer[j] = "none"
  BY <1>1 DEF InFlight, ScanInv, Answering
<1>3. PICK h :
        /\ scan' = [scan EXCEPT !.hosts[ip] = h]
        /\ a = "silent" => h = scan.hosts[ip]
        /\ a # "silent" /\ ip \in Addrs =>
             h.reachable = TRUE /\ DOMAIN h = {"reachable", "ports"}
  <2>1. CASE a = "silent"
    BY <2>1 DEF Report
  <2>2. CASE a = "refused"
    <3>1. ip \in Addrs => /\ [scan.hosts[ip] EXCEPT !.reachable = TRUE].reachable = TRUE
                         /\ DOMAIN [scan.hosts[ip] EXCEPT !.reachable = TRUE]
                              = {"reachable", "ports"}
      BY <1>1 DEF ScanShape
    <3>2. scan' = [scan EXCEPT !.hosts[ip] = [scan.hosts[ip] EXCEPT !.reachable = TRUE]]
      BY <2>2 DEF Report
    <3>3. QED
      BY <2>2, <3>1, <3>2
  <2>3. CASE a = "accepted"
    <3>1. PICK ports : scan' = [scan EXCEPT !.hosts[ip] = [reachable |-> TRUE, ports |-> ports]]
      BY <2>3 DEF Report
    <3> DEFINE seen == [reachable |-> TRUE, ports |-> ports]
    <3>2. seen.reachable = TRUE /\ DOMAIN seen = {"reachable", "ports"}
      OBVIOUS
    <3>3. scan' = [scan EXCEPT !.hosts[ip] = seen]
      BY <3>1
    <3> HIDE DEF seen
    <3>4. QED
      BY <2>3, <3>2, <3>3
  <2>4. QED
    BY <2>1, <2>2, <2>3
<1> HIDE DEF ip
<1>4. /\ scan'.number = scan.number /\ scan'.running = scan.running
      /\ scan'.cancel = scan.cancel /\ scan'.options = scan.options
      /\ scan'.total = scan.total /\ scan'.done = scan.done
      /\ scan'.hosts = [scan.hosts EXCEPT ![ip] = h]
      /\ DOMAIN scan' = DOMAIN scan
  BY <1>1, <1>3 DEF ScanShape
<1>5. /\ DOMAIN scan'.hosts = Addrs
      /\ \A b \in Addrs : scan'.hosts[b] = IF b = ip THEN h ELSE scan.hosts[b]
  BY <1>1, <1>4 DEF ScanShape
<1>11. ScanShape'
  BY <1>1, <1>3, <1>4, <1>5 DEF ScanShape
<1>6. ScanTypes' /\ Asking' /\ Progress'
  <2>1. answer' \in [JobIds -> {"none", "silent", "refused", "accepted"}]
    BY <1>1
  <2>2. QED
    BY <1>1, <1>2, <1>4, <2>1, ProbeKeeps
<1>7. Answering'
  BY <1>1 DEF ScanInv, Answering
<1>8. ProbesAreCounted'
  <2>1. InFlight' = InFlight /\ Over' = Over
    <3>1. probe \in [JobIds -> {"none", "dialling", "reported", "over"}]
      BY <1>1 DEF ScanInv, ScanTypes
    <3>2. j \in JobIds /\ probe[j] = "dialling" /\ probe' = [probe EXCEPT ![j] = "reported"]
      BY <1>1
    <3>3. InFlight' = InFlight \cup {j} /\ Over' = Over
      BY <3>1, <3>2, ProbeMoves
    <3>4. j \in InFlight
      BY <3>2 DEF InFlight
    <3> QED
      BY <3>3, <3>4
  <2>2. QED
    BY <1>4, <2>1 DEF ScanInv, ProbesAreCounted
<1>9. HostsAreHeard'
  <2> SUFFICES ASSUME NEW b \in Addrs 
                  PROVE  /\ scan'.hosts[b].reachable \in BOOLEAN
                         /\ scan'.hosts[b].reachable <=> Heard(b)'
    BY DEF HostsAreHeard
  <2>1. scan.hosts[b].reachable \in BOOLEAN /\ (scan.hosts[b].reachable <=> Heard(b))
    BY DEF ScanInv, HostsAreHeard
  <2>2. Heard(b)' <=> Heard(b) \/ (b = ip /\ a # "silent")
    <3>1. \A k \in JobIds : answer'[k] = IF k = j THEN a ELSE answer[k]
      BY <1>1
    <3>2. QED
      BY <1>2, <1>4, <3>1 DEF Heard, ip
  <2>3. IF b = ip /\ a # "silent" THEN scan'.hosts[b].reachable = TRUE
                                   ELSE scan'.hosts[b].reachable = scan.hosts[b].reachable
    BY <1>3, <1>5
  <2>4. QED
    BY <2>1, <2>2, <2>3
<1>12. QED
  BY <1>6, <1>7, <1>8, <1>9, <1>11 DEF ScanInv

\* A probe is counted and gives its place back.
LEMMA LeaveKeeps ==
  ASSUME ScanInv, NEW j \in JobIds, Leave(j)
  PROVE  ScanInv'
<1>1. /\ ScanShape /\ probe[j] = "reported" /\ probe' = [probe EXCEPT ![j] = "over"]
      /\ UNCHANGED <<run, answer, stopped>>
      /\ probe \in [JobIds -> {"none", "dialling", "reported", "over"}]
      /\ answer \in [JobIds -> {"none", "silent", "refused", "accepted"}]
  BY DEF ScanInv, ScanTypes, Leave
<1>2. j \in InFlight /\ j \notin Over
  BY <1>1 DEF InFlight, Over
<1>3. /\ scan'.number = scan.number /\ scan'.running = scan.running
      /\ scan'.cancel = scan.cancel /\ scan'.options = scan.options
      /\ scan'.total = scan.total /\ scan'.hosts = scan.hosts
      /\ scan'.done = scan.done + 1 /\ ScanShape'
  BY <1>1 DEF Leave, ScanShape
<1>4. ScanTypes' /\ Asking' /\ Progress'
  BY <1>1, <1>2, <1>3, ProbeKeeps
<1>5. Answering'
  BY <1>1 DEF ScanInv, Answering
<1>6. ProbesAreCounted'
  <2>1. InFlight' = InFlight \ {j} /\ Over' = Over \cup {j}
    BY <1>1, ProbeMoves
  <2>2. /\ IsFiniteSet(InFlight) /\ IsFiniteSet(Over)
        /\ Cardinality(InFlight) \in Nat /\ Cardinality(Over) \in Nat
    BY ProbesAreFinite DEF InFlight, Over
  <2>3. Cardinality(InFlight') = Cardinality(InFlight) - 1
    BY <1>2, <2>1, <2>2, FS_RemoveElement
  <2>4. Cardinality(Over') = Cardinality(Over) + 1
    BY <1>2, <2>1, <2>2, FS_AddElement
  <2>5. scan.options.concurrency \in Nat
    <3>1. scan.options \in Options
      BY <1>2, ProbeRuns DEF ScanInv, Asking, Startable
    <3>2. QED
      BY <3>1, ScannerAssumption
  <2>6. QED
    BY <1>3, <2>2, <2>3, <2>4, <2>5 DEF ScanInv, ProbesAreCounted
<1>7. HostsAreHeard'
  BY <1>1, <1>3 DEF ScanInv, HostsAreHeard, Heard
<1>8. QED
  BY <1>3, <1>4, <1>5, <1>6, <1>7 DEF ScanInv

-----------------------------------------------------------------------------
(* The requests keep their types.                                           *)

ReqType ==
  [pc : {"idle", "apply", "configure", "notify", "setDetection", "rollback",
         "notifyRollback", "setScan", "cancel"},
   import : BOOLEAN, wanted : Settings, previous : Settings, options : Remembered,
   cancel : Nat, was : Settings, alone : BOOLEAN]

\* No setting at all is a setting.
LEMMA NoneIsASetting == {} \in Settings
BY DEF Settings

\* A request in any of its steps is one again with one of its fields changed.
LEMMA RequestFields ==
  ASSUME NEW r \in ReqType
  PROVE  /\ \A ds \in Settings : [r EXCEPT !.previous = ds] \in ReqType
         /\ \A ds \in Settings : \A b \in BOOLEAN :
              [r EXCEPT !.alone = b, !.was = ds] \in ReqType
         /\ \A pc \in {"idle", "apply", "configure", "notify", "setDetection", "rollback",
                       "notifyRollback", "setScan", "cancel"} :
              [r EXCEPT !.pc = pc] \in ReqType
BY DEF ReqType

\* No request, and what the handlers begin with, are requests.
LEMMA RequestKinds ==
  /\ NoRequest \in ReqType
  /\ \A ds \in Settings : Apply(ds) \in ReqType
  /\ \A ds \in Settings : \A o \in Options :
       [Apply(ds) EXCEPT !.import = TRUE, !.options = o] \in ReqType
  /\ \A o \in Options : [NoRequest EXCEPT !.pc = "setScan", !.options = o] \in ReqType
  /\ \A n \in Nat : [NoRequest EXCEPT !.pc = "cancel", !.cancel = n] \in ReqType
<1>1. NoRequest \in ReqType
  BY NoneIsASetting DEF NoRequest, ReqType, Remembered
<1>2. ASSUME NEW ds \in Settings PROVE Apply(ds) \in ReqType
  BY <1>1, <1>2 DEF Apply, ReqType
<1>3. \A r \in ReqType : \A o \in Options :
        /\ [r EXCEPT !.import = TRUE, !.options = o] \in ReqType
        /\ [r EXCEPT !.pc = "setScan", !.options = o] \in ReqType
  BY DEF ReqType, Remembered
<1>4. \A r \in ReqType : \A n \in Nat : [r EXCEPT !.pc = "cancel", !.cancel = n] \in ReqType
  BY DEF ReqType
<1>5. QED
  BY <1>1, <1>2, <1>3, <1>4

\* A change of one detector leaves one version of each.
LEMMA OneDetectorChanges ==
  ASSUME NEW ds \in Settings, NEW x \in Detectors, NEW old \in ds
  PROVE  ds \ {x} \in Settings /\ (old.id = x.id => (ds \ {old}) \cup {x} \in Settings)
BY DEF Settings

\* What every handler's beginning does to the requests.
LEMMA BeginEffect ==
  ASSUME PanelTypes, NEW c \in Callers, NEW r \in ReqType, Begin(c, r)
  PROVE  /\ req' \in [Callers -> ReqType]
         /\ req[c].pc = "idle" /\ req'[c].pc = r.pc
         /\ UNCHANGED <<engine, memory, file>>
         /\ \A f \in {"import", "wanted", "previous", "options", "cancel"} : req'[c][f] = r[f]
         /\ req'[c].alone => req'[c].was = engine /\ \A d \in Callers : req[d].pc = "idle"
         /\ \A d \in Callers \ {c} : req'[d] = [req[d] EXCEPT !.alone = FALSE, !.was = {}]
<1> DEFINE busy == \E d \in Callers : req[d].pc # "idle"
<1>1. /\ req' = [d \in Callers |->
                   IF d = c THEN [r EXCEPT !.alone = ~busy, !.was = IF busy THEN {} ELSE engine]
                            ELSE [req[d] EXCEPT !.alone = FALSE, !.was = {}]]
      /\ req[c].pc = "idle" /\ UNCHANGED <<engine, memory, file>>
  BY DEF Begin
<1>2. engine \in Settings /\ req \in [Callers -> ReqType]
  BY DEF PanelTypes, ReqType
<1> DEFINE was == IF busy THEN {} ELSE engine
           alone == ~busy
<1>3. was \in Settings
  <2>1. CASE busy
    BY <2>1, NoneIsASetting
  <2>2. CASE ~busy
    BY <1>2, <2>2
  <2>3. QED
    BY <2>1, <2>2
<1>4. req'[c] = [r EXCEPT !.alone = alone, !.was = was] /\ alone \in BOOLEAN
  BY <1>1
<1>5. req'[c] \in ReqType
  <2> HIDE DEF was, alone
  <2>1. [r EXCEPT !.alone = alone, !.was = was] \in ReqType
    BY <1>3, <1>4, RequestFields, Zenon
  <2>2. QED
    BY <1>4, <2>1
<1>6. \A d \in Callers \ {c} : /\ req'[d] = [req[d] EXCEPT !.alone = FALSE, !.was = {}]
                               /\ req'[d] \in ReqType
  BY <1>1, <1>2, NoneIsASetting, RequestFields
<1>7. req' \in [Callers -> ReqType]
  BY <1>1, <1>5, <1>6
<1>8. /\ req'[c].alone = alone /\ req'[c].was = was /\ req'[c].pc = r.pc
      /\ \A f \in {"import", "wanted", "previous", "options", "cancel"} : req'[c][f] = r[f]
  <2> HIDE DEF was, alone
  <2>1. QED
    BY <1>4 DEF ReqType
<1>9. QED
  BY <1>1, <1>6, <1>7, <1>8

\* A request begins with one of three things to do, and what it does to the
\* scanner at once fits it.
LEMMA RequestEffect ==
  ASSUME ScanInv, PanelTypes, NEW c \in Callers, Request(c)
  PROVE  /\ calls' \in 0..MaxCalls
         /\ \E r \in ReqType :
              /\ Begin(c, r)
              /\ \/ r.pc = "apply" /\ UNCHANGED scanVars
                 \/ r.pc = "setScan" /\ ~r.import /\ r.options \in Options /\ Start(r.options)
                 \/ /\ r.pc = "cancel" /\ r.cancel = scan.cancel /\ scan.cancel # 0
                    /\ stopped' = TRUE /\ UNCHANGED <<scan, run, probe, answer>>
<1>1. calls' \in 0..MaxCalls
  BY PanelAssumption DEF Request, PanelTypes
<1>2. engine \in Settings
  BY DEF PanelTypes
<1>3. \A ds \in Settings : Apply(ds).pc = "apply"
  BY DEF Apply, NoRequest
<1>4. ASSUME NEW ds \in Settings, Begin(c, Apply(ds)), UNCHANGED scanVars
      PROVE  \E r \in ReqType : Begin(c, r) /\ r.pc = "apply" /\ UNCHANGED scanVars
  BY <1>3, <1>4, RequestKinds
<1>5. ASSUME NEW ds \in Settings, PutDetectors(c, ds)
      PROVE  \E r \in ReqType : Begin(c, r) /\ r.pc = "apply" /\ UNCHANGED scanVars
  BY <1>4, <1>5 DEF PutDetectors
<1>6. ASSUME NEW x \in Detectors, PostDetector(c, x)
      PROVE  \E r \in ReqType : Begin(c, r) /\ r.pc = "apply" /\ UNCHANGED scanVars
  BY <1>4, <1>6 DEF PostDetector
<1>7. ASSUME NEW x \in Detectors, PutDetector(c, x)
      PROVE  \E r \in ReqType : Begin(c, r) /\ r.pc = "apply" /\ UNCHANGED scanVars
  <2>1. PICK old \in engine : /\ old.id = x.id
                              /\ Begin(c, Apply((engine \ {old}) \cup {x}))
                              /\ UNCHANGED scanVars
    BY <1>7 DEF PutDetector
  <2>2. (engine \ {old}) \cup {x} \in Settings
    BY <1>2, <2>1, OneDetectorChanges
  <2>3. QED
    BY <1>4, <2>1, <2>2
<1>8. ASSUME NEW x \in Detectors, DeleteDetector(c, x)
      PROVE  \E r \in ReqType : Begin(c, r) /\ r.pc = "apply" /\ UNCHANGED scanVars
  <2>1. engine \ {x} \in Settings
    BY <1>2, <1>8, OneDetectorChanges DEF DeleteDetector
  <2>2. QED
    BY <1>4, <1>8, <2>1 DEF DeleteDetector
<1>9. ASSUME NEW p \in Profiles, ImportProfile(c, p)
      PROVE  \E r \in ReqType : Begin(c, r) /\ r.pc = "apply" /\ UNCHANGED scanVars
  <2>1. p.detection \in Settings /\ p.scan \in Options
    BY PanelAssumption
  <2> DEFINE r == [Apply(p.detection) EXCEPT !.import = TRUE, !.options = p.scan]
  <2>2. r \in ReqType /\ r.pc = "apply"
    BY <2>1, RequestKinds DEF Apply, NoRequest
  <2>3. Begin(c, r) /\ UNCHANGED scanVars
    BY <1>9 DEF ImportProfile
  <2> HIDE DEF r
  <2>4. QED
    BY <2>2, <2>3
<1>10. ASSUME NEW o \in Options, PostScan(c, o)
       PROVE  \E r \in ReqType : /\ Begin(c, r) /\ r.pc = "setScan" /\ ~r.import
                                 /\ r.options \in Options /\ Start(r.options)
  <2> DEFINE r == [NoRequest EXCEPT !.pc = "setScan", !.options = o]
  <2>1. r \in ReqType /\ r.pc = "setScan" /\ ~r.import /\ r.options = o
    BY RequestKinds DEF NoRequest
  <2>2. Begin(c, r) /\ Start(o)
    BY <1>10 DEF PostScan
  <2> HIDE DEF r
  <2>3. QED
    BY <2>1, <2>2
<1>11. ASSUME DeleteScan(c)
       PROVE  \E r \in ReqType : /\ Begin(c, r) /\ r.pc = "cancel" /\ r.cancel = scan.cancel
                                 /\ scan.cancel # 0 /\ stopped' = TRUE
                                 /\ UNCHANGED <<scan, run, probe, answer>>
  <2> DEFINE r == [NoRequest EXCEPT !.pc = "cancel", !.cancel = scan.cancel]
  <2>1. scan.cancel \in Nat
    BY DEF ScanInv, ScanTypes
  <2>2. r \in ReqType /\ r.pc = "cancel" /\ r.cancel = scan.cancel
    BY <2>1, RequestKinds DEF NoRequest
  <2>3. /\ Begin(c, r) /\ scan.cancel # 0 /\ stopped' = TRUE
        /\ UNCHANGED <<scan, run, probe, answer>>
    BY <1>11 DEF DeleteScan
  <2> HIDE DEF r
  <2>4. QED
    BY <2>2, <2>3
<1>12. QED
  BY <1>1, <1>5, <1>6, <1>7, <1>8, <1>9, <1>10, <1>11 DEF Request

\* A step of a request that is under way changes that request only, which keeps
\* what it wants, and leaves settings in engine, memory and file.
LEMMA HandleEffect ==
  ASSUME PanelTypes, NEW c \in Callers, Handle(c)
  PROVE  /\ req' \in [Callers -> ReqType]
         /\ \A d \in Callers \ {c} : req'[d] = req[d]
         /\ req[c].pc # "idle" /\ req'[c].pc # "cancel"
         /\ req'[c].alone =>
              /\ req[c].alone /\ req'[c].was = req[c].was
              /\ req'[c].wanted = req[c].wanted /\ req'[c].import = req[c].import
         /\ engine' \in Settings /\ calls' = calls
         /\ memory' \in [detection : Settings, scan : Remembered]
         /\ file' \in [detection : Settings, scan : Remembered]
<1>1. /\ req \in [Callers -> ReqType] /\ req[c] \in ReqType
      /\ engine \in Settings
      /\ memory \in [detection : Settings, scan : Remembered]
      /\ file \in [detection : Settings, scan : Remembered]
  BY DEF PanelTypes, ReqType
<1>2. /\ req[c].wanted \in Settings /\ req[c].previous \in Settings
      /\ req[c].options \in Remembered
  BY <1>1 DEF ReqType
<1>3. ASSUME NEW r \in ReqType, Proceed(c, r), req[c].pc # "idle", r.pc # "cancel",
             r.alone => /\ req[c].alone /\ r.was = req[c].was
                        /\ r.wanted = req[c].wanted /\ r.import = req[c].import
      PROVE  /\ req' \in [Callers -> ReqType]
             /\ \A d \in Callers \ {c} : req'[d] = req[d]
             /\ req[c].pc # "idle" /\ req'[c].pc # "cancel" /\ calls' = calls
             /\ req'[c].alone =>
                  /\ req[c].alone /\ req'[c].was = req[c].was
                  /\ req'[c].wanted = req[c].wanted /\ req'[c].import = req[c].import
  BY <1>1, <1>3 DEF Proceed
<1>4. NoRequest \in ReqType /\ ~NoRequest.alone /\ NoRequest.pc = "idle"
  BY RequestKinds DEF NoRequest
<1>5. ASSUME NEW pc \in {"notify", "setDetection", "rollback", "notifyRollback", "setScan"}
      PROVE  /\ To(c, pc) \in ReqType /\ To(c, pc).pc # "cancel"
             /\ To(c, pc).was = req[c].was /\ To(c, pc).alone = req[c].alone
             /\ To(c, pc).wanted = req[c].wanted /\ To(c, pc).import = req[c].import
  BY <1>1 DEF To, ReqType
<1>6. CASE StopScan(c)
  BY <1>1, <1>3, <1>4, <1>6 DEF StopScan
<1>7. CASE ReadPrevious(c)
  <2> DEFINE r == [To(c, "configure") EXCEPT !.previous = engine]
  <2>1. /\ r \in ReqType /\ r.pc # "cancel" /\ r.alone = req[c].alone
        /\ r.was = req[c].was /\ r.wanted = req[c].wanted /\ r.import = req[c].import
    BY <1>1 DEF To, ReqType
  <2>2. Proceed(c, r) /\ req[c].pc # "idle" /\ UNCHANGED <<engine, memory, file>>
    BY <1>7 DEF ReadPrevious
  <2> HIDE DEF r
  <2>3. QED
    BY <1>1, <1>3, <2>1, <2>2
<1>8. CASE Configure(c)
  <2>1. Proceed(c, To(c, "notify")) /\ req[c].pc # "idle" /\ engine' = req[c].wanted
        /\ UNCHANGED <<memory, file>>
    BY <1>8 DEF Configure
  <2>2. QED
    BY <1>1, <1>2, <1>3, <1>5, <2>1
<1>9. CASE Notify(c)
  <2>1. Proceed(c, To(c, "setDetection")) /\ req[c].pc # "idle" /\ file' \in {file, memory}
        /\ UNCHANGED <<engine, memory>>
    BY <1>9 DEF Notify
  <2>2. QED
    BY <1>1, <1>3, <1>5, <2>1
<1>10. CASE SetDetection(c)
  <2>1. /\ req[c].pc # "idle" /\ file' \in {file, memory'} /\ UNCHANGED engine
        /\ memory' = [memory EXCEPT !.detection = req[c].wanted]
        /\ \/ Proceed(c, To(c, "setScan")) \/ Proceed(c, To(c, "rollback"))
           \/ Proceed(c, NoRequest)
    BY <1>10 DEF SetDetection
  <2>2. memory' \in [detection : Settings, scan : Remembered]
    BY <1>1, <1>2, <2>1
  <2>3. QED
    BY <1>1, <1>3, <1>4, <1>5, <2>1, <2>2
<1>11. CASE Rollback(c)
  <2>1. Proceed(c, To(c, "notifyRollback")) /\ req[c].pc # "idle" /\ engine' = req[c].previous
        /\ UNCHANGED <<memory, file>>
    BY <1>11 DEF Rollback
  <2>2. QED
    BY <1>1, <1>2, <1>3, <1>5, <2>1
<1>12. CASE NotifyRollback(c)
  BY <1>1, <1>3, <1>4, <1>12 DEF NotifyRollback
<1>13. CASE SetScan(c)
  <2>1. /\ req[c].pc # "idle" /\ file' \in {file, memory'} /\ UNCHANGED engine
        /\ memory' = [memory EXCEPT !.scan = req[c].options] /\ Proceed(c, NoRequest)
    BY <1>13 DEF SetScan
  <2>2. memory' \in [detection : Settings, scan : Remembered]
    BY <1>1, <1>2, <2>1
  <2>3. QED
    BY <1>1, <1>3, <1>4, <2>1, <2>2
<1>14. QED
  BY <1>6, <1>7, <1>8, <1>9, <1>10, <1>11, <1>12, <1>13 DEF Handle

-----------------------------------------------------------------------------
(* The steps of the whole.                                                  *)

\* The goroutines of a scan keep the invariant; which scan it is, its options
\* and whether somebody has stopped it are not for them to change.
LEMMA ScannerStep ==
  ASSUME ScanInv, RunStep \/ \E j \in JobIds : ProbeStep(j)
  PROVE  /\ ScanInv' /\ scan'.number = scan.number /\ scan'.options = scan.options
         /\ stopped' = stopped
<1>1. DOMAIN scan = {"number", "running", "cancel", "options", "total", "done", "hosts"}
  BY DEF ScanInv, ScanShape
<1>2. CASE LaunchCancelled \/ LaunchDone \/ Wait
  BY <1>2, PhaseKeeps DEF LaunchCancelled, LaunchDone, Wait, RunProceeds
<1>3. CASE Launch
  BY <1>3, LaunchKeeps DEF Launch
<1>4. CASE Enrich
  BY <1>1, <1>4, EnrichKeeps DEF Enrich, RunProceeds
<1>5. CASE End
  BY <1>1, <1>5, EndKeeps DEF End
<1>6. ASSUME NEW j \in JobIds, NEW a \in {"silent", "refused", "accepted"}, Report(j, a)
      PROVE  /\ ScanInv' /\ scan'.number = scan.number /\ scan'.options = scan.options
             /\ stopped' = stopped
  <2>1. \E h : scan' = [scan EXCEPT !.hosts[Plan[scan.options][j].ip] = h]
    BY <1>6 DEF Report
  <2>2. stopped' = stopped
    BY <1>6 DEF Report
  <2>3. QED
    BY <1>1, <1>6, <2>1, <2>2, ReportKeeps
<1>7. ASSUME NEW j \in JobIds, Leave(j)
      PROVE  /\ ScanInv' /\ scan'.number = scan.number /\ scan'.options = scan.options
             /\ stopped' = stopped
  BY <1>1, <1>7, LeaveKeeps DEF Leave
<1>8. QED
  BY <1>2, <1>3, <1>4, <1>5, <1>6, <1>7 DEF RunStep, ProbeStep

\* A step of a request that is under way may call a cancel function it holds,
\* and touches the scanner in no other way.
LEMMA HandleLeavesScans ==
  ASSUME IInv, NEW c \in Callers, Handle(c)
  PROVE  ScanInv' /\ UNCHANGED <<scan, stopped>>
<1>1. CASE StopScan(c)
  <2>1. req[c].pc = "cancel" /\ Cancel(req[c].cancel)
    BY <1>1 DEF StopScan
  <2>2. req[c].cancel = scan.number => stopped
    BY <2>1 DEF IInv, StopsItsOwn
  <2>3. QED
    BY <2>1, <2>2, CancelKeeps DEF IInv, Cancel
<1>2. CASE UNCHANGED scanVars
  BY <1>2 DEF scanVars, IInv, ScanInv, ScanShape, ScanTypes, Asking, Progress, Answering,
              ProbesAreCounted, HostsAreHeard, InFlight, Over, Heard
<1>3. QED
  BY <1>1, <1>2 DEF Handle, ReadPrevious, Configure, Notify, SetDetection, Rollback,
                    NotifyRollback, SetScan

\* A request that is alone goes its way: what has to hold at its next step is
\* what this step brings about.
LEMMA LoneStep ==
  ASSUME PanelTypes, NEW c \in Callers, Handle(c), req'[c].alone, Course(c), UNCHANGED scan
  PROVE  Course(c)'
<1>1. /\ req \in [Callers -> ReqType] /\ req[c] \in ReqType
      /\ memory \in [detection : Settings, scan : Remembered]
  BY DEF PanelTypes, ReqType
<1>2. \A r : Proceed(c, r) => req'[c] = r
  BY <1>1 DEF Proceed
<1>3. ~NoRequest.alone
  BY DEF NoRequest
<1>4. \A pc : /\ To(c, pc).pc = pc
              /\ \A f \in {"was", "wanted", "previous", "import", "options"} :
                   To(c, pc)[f] = req[c][f]
  BY <1>1 DEF To, ReqType
<1>5. CASE StopScan(c) \/ NotifyRollback(c) \/ SetScan(c)
  BY <1>2, <1>3, <1>5 DEF StopScan, NotifyRollback, SetScan
<1>6. CASE ReadPrevious(c)
  <2>1. /\ req'[c] = [To(c, "configure") EXCEPT !.previous = engine]
        /\ req[c].pc = "apply" /\ engine' = engine
    BY <1>2, <1>6 DEF ReadPrevious
  <2>2. /\ req'[c].pc = "configure" /\ req'[c].previous = engine
        /\ req'[c].was = req[c].was
    BY <1>1, <2>1 DEF To, ReqType
  <2>3. QED
    BY <2>1, <2>2 DEF Course
<1>7. CASE Configure(c)
  <2>1. req'[c] = To(c, "notify") /\ req[c].pc = "configure" /\ engine' = req[c].wanted
    BY <1>2, <1>7 DEF Configure
  <2>2. QED
    BY <1>4, <2>1 DEF Course
<1>8. CASE Notify(c)
  <2>1. req'[c] = To(c, "setDetection") /\ req[c].pc = "notify" /\ engine' = engine
    BY <1>2, <1>8 DEF Notify
  <2>2. QED
    BY <1>4, <2>1 DEF Course
<1>9. CASE SetDetection(c)
  <2>1. /\ req[c].pc = "setDetection" /\ engine' = engine
        /\ memory' = [memory EXCEPT !.detection = req[c].wanted]
    BY <1>9 DEF SetDetection
  <2>2. memory'.detection = req[c].wanted
    BY <1>1, <2>1
  <2>3. \/ req'[c] = To(c, "setScan") /\ file' = memory' /\ req[c].import
        \/ req'[c] = To(c, "rollback")
    BY <1>2, <1>3, <1>9 DEF SetDetection
  <2>4. engine = req[c].wanted /\ req[c].previous = req[c].was
    BY <2>1 DEF Course
  <2>5. CASE req'[c] = To(c, "setScan") /\ file' = memory' /\ req[c].import
    <3>1. /\ req'[c].pc = "setScan" /\ req'[c].import = req[c].import
          /\ req'[c].wanted = req[c].wanted
      BY <1>4, <2>5
    <3>2. /\ req'[c].import /\ engine' = req'[c].wanted
          /\ memory'.detection = req'[c].wanted /\ file'.detection = req'[c].wanted
      BY <2>1, <2>2, <2>4, <2>5, <3>1
    <3>3. QED
      BY <3>1, <3>2 DEF Course
  <2>6. CASE req'[c] = To(c, "rollback")
    <3>1. /\ req'[c].pc = "rollback" /\ req'[c].previous = req[c].previous
          /\ req'[c].was = req[c].was
      BY <1>4, <2>6
    <3>2. QED
      BY <2>4, <3>1 DEF Course
  <2>7. QED
    BY <2>3, <2>5, <2>6
<1>10. CASE Rollback(c)
  <2>1. /\ req'[c] = To(c, "notifyRollback") /\ req[c].pc = "rollback"
        /\ engine' = req[c].previous
    BY <1>2, <1>10 DEF Rollback
  <2>2. QED
    BY <1>4, <2>1 DEF Course
<1>11. QED
  BY <1>5, <1>6, <1>7, <1>8, <1>9, <1>10 DEF Handle

\* The beginning of a request.
LEMMA RequestStep ==
  ASSUME IInv, NEW c \in Callers, Request(c)
  PROVE  IInv'
<1>1. ScanInv /\ PanelTypes /\ req \in [Callers -> ReqType]
  BY DEF IInv, PanelTypes, ReqType
<1>2. PICK r \in ReqType :
        /\ Begin(c, r)
        /\ \/ r.pc = "apply" /\ UNCHANGED scanVars
           \/ r.pc = "setScan" /\ ~r.import /\ r.options \in Options /\ Start(r.options)
           \/ /\ r.pc = "cancel" /\ r.cancel = scan.cancel /\ scan.cancel # 0
              /\ stopped' = TRUE /\ UNCHANGED <<scan, run, probe, answer>>
  BY <1>1, RequestEffect
<1>3. /\ req' \in [Callers -> ReqType]
      /\ req[c].pc = "idle" /\ req'[c].pc = r.pc
      /\ UNCHANGED <<engine, memory, file>>
      /\ req'[c].import = r.import /\ req'[c].options = r.options /\ req'[c].cancel = r.cancel
      /\ req'[c].alone => req'[c].was = engine /\ \A d \in Callers : req[d].pc = "idle"
      /\ \A d \in Callers \ {c} : req'[d] = [req[d] EXCEPT !.alone = FALSE, !.was = {}]
  BY <1>1, <1>2, BeginEffect
<1>4. \A d \in Callers \ {c} :
        ~req'[d].alone /\ req'[d].pc = req[d].pc /\ req'[d].cancel = req[d].cancel
  <2>1. \A q \in ReqType : /\ [q EXCEPT !.alone = FALSE, !.was = {}].alone = FALSE
                           /\ [q EXCEPT !.alone = FALSE, !.was = {}].pc = q.pc
                           /\ [q EXCEPT !.alone = FALSE, !.was = {}].cancel = q.cancel
    BY DEF ReqType
  <2>2. ASSUME NEW d \in Callers \ {c}
        PROVE  ~req'[d].alone /\ req'[d].pc = req[d].pc /\ req'[d].cancel = req[d].cancel
    <3>1. req[d] \in ReqType /\ req'[d] = [req[d] EXCEPT !.alone = FALSE, !.was = {}]
      BY <1>1, <1>3
    <3> QED
      BY <2>1, <3>1, Zenon
  <2>3. QED
    BY <2>2
<1>5. PanelTypes'
  <2>1. calls' \in 0..MaxCalls
    BY <1>1, RequestEffect
  <2>2. QED
    BY <1>1, <1>3, <2>1 DEF PanelTypes, ReqType
<1>6. scan.number \in Nat /\ (scan.cancel # 0 => scan.cancel = scan.number)
  BY <1>1 DEF ScanInv, ScanTypes
<1>7. ScanInv' /\ StopsItsOwn'
  <2>1. CASE r.pc = "apply" /\ UNCHANGED scanVars
    <3>1. ScanInv'
      BY <1>1, <2>1 DEF scanVars, ScanInv, ScanShape, ScanTypes, Asking, Progress, Answering,
                        ProbesAreCounted, HostsAreHeard, InFlight, Over, Heard
    <3>2. StopsItsOwn'
      BY <1>3, <1>4, <2>1 DEF scanVars, IInv, StopsItsOwn
    <3>3. QED
      BY <3>1, <3>2
  <2>2. CASE r.pc = "setScan" /\ r.options \in Options /\ Start(r.options)
    <3>1. ScanInv' /\ scan'.number = scan.number + 1
      BY <1>1, <2>2, StartKeeps DEF Start
    <3>2. \A d \in Callers : req[d].cancel \in Nat
      BY <1>1 DEF ReqType
    <3>3. StopsItsOwn'
      <4>1. \A d \in Callers : req'[d].pc = "cancel" => req'[d].cancel <= scan.number
        <5> SUFFICES ASSUME NEW d \in Callers, req'[d].pc = "cancel"
                     PROVE  req'[d].cancel <= scan.number
          OBVIOUS
        <5>1. d # c
          BY <1>3, <2>2
        <5>2. req[d].pc = "cancel" /\ req'[d].cancel = req[d].cancel
          BY <1>4, <5>1
        <5>3. QED
          BY <5>2 DEF IInv, StopsItsOwn
      <4>2. \A d \in Callers : req'[d].pc = "cancel" => req'[d].cancel \in Nat
        BY <1>3 DEF ReqType
      <4>3. QED
        BY <1>6, <3>1, <4>1, <4>2 DEF StopsItsOwn
    <3>4. QED
      BY <3>1, <3>3
  <2>3. CASE /\ r.pc = "cancel" /\ r.cancel = scan.cancel /\ scan.cancel # 0
             /\ stopped' = TRUE /\ UNCHANGED <<scan, run, probe, answer>>
    <3>1. ScanInv'
      BY <1>1, <2>3, StopKeeps
    <3>2. StopsItsOwn'
      <4> SUFFICES ASSUME NEW d \in Callers, req'[d].pc = "cancel"
                   PROVE  req'[d].cancel <= scan.number
        BY <2>3 DEF StopsItsOwn
      <4>1. CASE d = c
        <5>1. req'[c].cancel = scan.number
          BY <1>3, <1>6, <2>3
        <5>2. QED
          BY <1>6, <4>1, <5>1
      <4>2. CASE d # c
        BY <1>4, <4>2 DEF IInv, StopsItsOwn
      <4>3. QED
        BY <4>1, <4>2
    <3>3. QED
      BY <3>1, <3>2
  <2>4. QED
    BY <1>2, <2>1, <2>2, <2>3
<1>8. Alone'
  BY <1>3, <1>4 DEF Alone
<1>9. LoneCourse'
  <2>1. ASSUME req'[c].alone PROVE Course(c)'
    <3>1. r.pc = "setScan" => ~r.import /\ scan'.options = r.options
      BY <1>2 DEF Start
    <3>2. r.pc \in {"apply", "setScan", "cancel"}
      BY <1>2
    <3>3. QED
      BY <1>3, <2>1, <3>1, <3>2 DEF Course
  <2>2. QED
    BY <1>4, <2>1 DEF LoneCourse
<1>10. QED
  BY <1>5, <1>7, <1>8, <1>9 DEF IInv

\* A later step of one.
LEMMA HandleStep ==
  ASSUME IInv, NEW c \in Callers, Handle(c)
  PROVE  IInv'
<1>1. PanelTypes /\ ScanInv' /\ UNCHANGED <<scan, stopped>>
  BY HandleLeavesScans DEF IInv
<1>2. /\ req' \in [Callers -> ReqType]
      /\ \A d \in Callers \ {c} : req'[d] = req[d]
      /\ req[c].pc # "idle" /\ req'[c].pc # "cancel"
      /\ req'[c].alone => req[c].alone
      /\ engine' \in Settings /\ calls' = calls
      /\ memory' \in [detection : Settings, scan : Remembered]
      /\ file' \in [detection : Settings, scan : Remembered]
  BY <1>1, HandleEffect
<1>3. PanelTypes'
  BY <1>1, <1>2 DEF PanelTypes, ReqType
<1>4. StopsItsOwn'
  BY <1>1, <1>2 DEF IInv, StopsItsOwn
<1>5. \A d \in Callers \ {c} : ~req'[d].alone
  BY <1>2 DEF IInv, Alone
<1>6. Alone'
  BY <1>2, <1>5 DEF IInv, Alone
<1>7. LoneCourse'
  <2>1. ASSUME req'[c].alone PROVE Course(c)'
    BY <1>1, <1>2, <2>1, LoneStep DEF IInv, LoneCourse
  <2>2. QED
    BY <1>5, <2>1 DEF LoneCourse
<1>8. QED
  BY <1>1, <1>3, <1>4, <1>6, <1>7 DEF IInv

\* A step that leaves the requests and the settings alone.
LEMMA ScanStep ==
  ASSUME IInv, ScanInv', UNCHANGED panelVars, scan'.number = scan.number,
         scan'.options = scan.options, stopped' = stopped
  PROVE  IInv'
<1>1. PanelTypes' /\ Alone'
  BY DEF IInv, PanelTypes, Alone, panelVars
<1>2. StopsItsOwn'
  BY DEF IInv, StopsItsOwn, panelVars
<1>3. LoneCourse'
  BY DEF IInv, LoneCourse, Course, panelVars
<1>4. QED
  BY <1>1, <1>2, <1>3 DEF IInv

\* The program has just begun: no scan, no request.
AtRest ==
  /\ probe = [j \in JobIds |-> "none"] /\ answer = [j \in JobIds |-> "none"]
  /\ run = NoRun /\ stopped \in BOOLEAN /\ ~stopped /\ ScanShape
  /\ scan.running \in BOOLEAN /\ ~scan.running
  /\ scan.number = 0 /\ scan.cancel = 0 /\ scan.options = NoOptions
  /\ scan.total = 0 /\ scan.done = 0 /\ scan.hosts = NoHosts
  /\ req = [c \in Callers |-> NoRequest] /\ PanelTypes

\* That is a beginning.
LEMMA Beginning == AtRest => IInv
<1> SUFFICES ASSUME AtRest PROVE IInv
  OBVIOUS
<1> USE DEF AtRest
<1>1. ScanTypes
  <2>1. run \in [pc : {"none", "launch", "wait", "enrich", "end"}, next : Nat,
                 cancelled : BOOLEAN]
    BY DEF NoRun
  <2>2. /\ scan.number \in Nat /\ scan.running \in BOOLEAN /\ stopped \in BOOLEAN
    OBVIOUS
  <2>5. ~scan.running /\ scan.cancel = 0
    OBVIOUS
  <2>6. scan.cancel = IF scan.running THEN scan.number ELSE 0
    BY <2>5
  <2>3. /\ probe \in [JobIds -> {"none", "dialling", "reported", "over"}]
        /\ answer \in [JobIds -> {"none", "silent", "refused", "accepted"}]
    OBVIOUS
  <2>4. QED
    BY <2>1, <2>2, <2>3, <2>6 DEF ScanTypes
<1>2. InFlight = {} /\ Over = {}
  BY DEF InFlight, Over
<1>3. Asking /\ Progress /\ Answering
  BY <1>2 DEF Asking, Progress, Answering, NoRun
<1>4. ProbesAreCounted
  BY <1>2, FS_EmptySet DEF ProbesAreCounted, NoOptions
<1>5. HostsAreHeard
  <2>1. \A a \in Addrs : scan.hosts[a].reachable = FALSE
    BY DEF NoHosts, NoHost
  <2>2. \A a \in Addrs : ~Heard(a)
    BY DEF Heard
  <2>3. QED
    BY <2>1, <2>2 DEF HostsAreHeard
<1>6. StopsItsOwn /\ Alone /\ LoneCourse
  BY DEF StopsItsOwn, Alone, LoneCourse, NoRequest
<1>7. QED
  BY <1>1, <1>3, <1>4, <1>5, <1>6 DEF IInv, ScanInv

\* The process is killed and boots again.
LEMMA RestartStep ==
  ASSUME IInv, Restart
  PROVE  IInv'
<1>1. /\ ScanShape /\ PanelTypes
      /\ DOMAIN scan = {"number", "running", "cancel", "options", "total", "done", "hosts"}
  BY DEF IInv, ScanInv, ScanShape
<1>2. /\ scan'.number = 0 /\ scan'.running = FALSE /\ scan'.cancel = 0
      /\ scan'.options = NoOptions /\ scan'.total = 0 /\ scan'.done = 0
      /\ scan'.hosts = NoHosts /\ DOMAIN scan' = DOMAIN scan
  BY <1>1 DEF Restart
<1>3. ScanShape'
  BY <1>1, <1>2 DEF ScanShape, NoHosts, NoHost
<1>4. PanelTypes'
  <2>1. req' \in [Callers -> ReqType]
    BY RequestKinds DEF Restart
  <2>2. engine' \in Settings /\ memory' = file /\ file' = file /\ calls' = calls
    BY <1>1 DEF Restart, PanelTypes
  <2>3. QED
    BY <1>1, <2>1, <2>2 DEF PanelTypes, ReqType
<1>5. /\ probe' = [j \in JobIds |-> "none"] /\ answer' = [j \in JobIds |-> "none"]
      /\ run' = NoRun /\ stopped' = FALSE /\ req' = [c \in Callers |-> NoRequest]
  BY DEF Restart
<1>6. AtRest'
  BY <1>2, <1>3, <1>4, <1>5 DEF AtRest
<1>7. (AtRest => IInv)'
  BY Beginning, PTL
<1>8. QED
  BY <1>6, <1>7

\* IInv holds in every reachable state.
LEMMA Inductive == Spec => []IInv
<1>1. Init => IInv
  <2> SUFFICES ASSUME Init PROVE IInv
    OBVIOUS
  <2>1. ScanShape
    BY DEF Init, ScanInit, ScanShape, NoHosts, NoHost
  <2>2. PanelTypes
    <3>1. req \in [Callers -> ReqType]
      BY RequestKinds DEF Init
    <3>2. calls \in 0..MaxCalls
      BY PanelAssumption DEF Init
    <3>3. QED
      BY <3>1, <3>2 DEF Init, PanelTypes, ReqType, Remembered
  <2>3. QED
    BY <2>1, <2>2, Beginning DEF Init, ScanInit, AtRest
<1>2. IInv /\ [Next]_vars => IInv'
  <2> SUFFICES ASSUME IInv, [Next]_vars PROVE IInv'
    OBVIOUS
  <2>1. ASSUME NEW c \in Callers, Request(c) \/ Handle(c) PROVE IInv'
    BY <2>1, RequestStep, HandleStep
  <2>2. CASE (RunStep \/ \E j \in JobIds : ProbeStep(j)) /\ UNCHANGED panelVars
    <3>1. ScanInv
      BY DEF IInv
    <3>2. QED
      BY <2>2, <3>1, ScannerStep, ScanStep
  <2>3. CASE Restart
    BY <2>3, RestartStep
  <2>4. CASE UNCHANGED vars
    <3>1. ScanInv'
      BY <2>4 DEF vars, scanVars, IInv, ScanInv, ScanShape, ScanTypes, Asking, Progress,
                  Answering, ProbesAreCounted, HostsAreHeard, InFlight, Over, Heard
    <3>2. QED
      BY <2>4, <3>1, ScanStep DEF vars, scanVars
  <2>5. QED
    BY <2>1, <2>2, <2>3, <2>4 DEF Next
<1>3. QED
  BY <1>1, <1>2, PTL DEF Spec

-----------------------------------------------------------------------------
(* The theorems.                                                            *)

\* Progress never exceeds the total, because the probes that are over are among
\* those that have been started, and these are jobs of the plan.
LEMMA ProgressIsBounded ==
  ASSUME ScanInv
  PROVE  /\ scan.total \in Nat /\ scan.done \in 0..scan.total
         /\ Over \subseteq 1..scan.total
<1>1. scan.total \in Nat
  BY PlanHasAllJobs, ScannerAssumption DEF ScanInv, Asking, JobIds
<1>2. Over \subseteq 1..scan.total
  <2>1. ASSUME NEW j \in Over PROVE j \in JobIds /\ j <= scan.total
    <3>1. j \in JobIds /\ probe[j] # "none"
      BY <2>1 DEF Over
    <3>2. CASE scan.running
      BY <1>1, <3>1, <3>2 DEF ScanInv, Progress, JobIds
    <3>3. CASE ~scan.running
      BY <3>1, <3>3 DEF ScanInv, Progress
    <3>4. QED
      BY <3>1, <3>2, <3>3
  <2>2. QED
    BY <1>1, <2>1 DEF JobIds
<1>3. IsFiniteSet(1..scan.total) /\ Cardinality(1..scan.total) = scan.total
  <2>1. scan.total \in Int /\ 1 \in Int /\ (1 > scan.total <=> scan.total = 0)
    BY <1>1
  <2>2. /\ IsFiniteSet(1..scan.total)
        /\ Cardinality(1..scan.total) = IF 1 > scan.total THEN 0 ELSE scan.total - 1 + 1
    BY <2>1, FS_Interval, Zenon
  <2> QED
    BY <1>1, <2>1, <2>2
<1>4. Cardinality(Over) <= scan.total
  BY <1>2, <1>3, FS_Subset
<1>5. Cardinality(Over) \in Nat
  BY ProbesAreFinite DEF Over
<1>6. QED
  BY <1>1, <1>2, <1>4, <1>5 DEF ScanInv, ProbesAreCounted

\* Every variable has its type, for all options that the assumptions allow, and
\* the progress that is shown does not exceed the total.
THEOREM TypeCorrect == Spec => []TypeOK
<1>1. IInv => TypeOK
  <2> SUFFICES ASSUME IInv PROVE TypeOK
    OBVIOUS
  <2>1. ScanInv /\ PanelTypes
    BY DEF IInv
  <2>2. ScanTypeOK
    <3>1. scan.cancel \in 0..scan.number /\ scan.running \in BOOLEAN
      BY <2>1 DEF ScanInv, ScanTypes
    <3>2. scan.total \in Nat /\ scan.done \in 0..scan.total
      BY <2>1, ProgressIsBounded
    <3>3. \A a \in Addrs : scan.hosts[a].reachable \in BOOLEAN
      BY <2>1 DEF ScanInv, HostsAreHeard
    <3>4. QED
      BY <2>1, <3>1, <3>2, <3>3 DEF ScanInv, ScanTypes, ScanTypeOK
  <2>3. QED
    BY <2>1, <2>2 DEF TypeOK, PanelTypes
<1>2. QED
  BY <1>1, Inductive, PTL

\* A scan that has ended has tried every job of its plan, each once, unless
\* somebody stopped it while it ran: neither a stop that was read under an
\* earlier scan nor a late answer of one disturbs it; and it shows the hosts
\* that have answered it and no others (Scanner.run, Scanner.Stop, probe).
LEMMA ScansTryTheirPlan == Spec => []ScanTriesItsPlan
<1>1. IInv => ScanTriesItsPlan
  <2> SUFFICES ASSUME IInv, scan.number > 0 PROVE
           /\ scan.done = Cardinality(Over)
           /\ Cardinality(InFlight) <= scan.options.concurrency
           /\ ~scan.running => InFlight = {}
           /\ ~scan.running /\ ~stopped =>
                scan.done = scan.total /\ Over = DOMAIN Plan[scan.options]
           /\ \A ip \in Addrs : scan.hosts[ip].reachable <=> Heard(ip)
    BY DEF ScanTriesItsPlan
  <2>1. ScanInv /\ scan.number # 0
    BY DEF IInv, ScanInv, ScanTypes
  <2>2. /\ scan.done = Cardinality(Over)
        /\ Cardinality(InFlight) <= scan.options.concurrency
        /\ \A ip \in Addrs : scan.hosts[ip].reachable <=> Heard(ip)
    BY <2>1 DEF ScanInv, ProbesAreCounted, HostsAreHeard
  <2>3. ASSUME ~scan.running PROVE InFlight = {}
    BY <2>1, <2>3 DEF ScanInv, Progress
  <2>4. ASSUME ~scan.running, ~stopped
        PROVE  scan.done = scan.total /\ Over = DOMAIN Plan[scan.options]
    <3>1. /\ scan.total = JobCount(scan.options) /\ scan.total \in JobIds
          /\ DOMAIN Plan[scan.options] = 1..scan.total
      BY <2>1, PlanHasAllJobs DEF ScanInv, Asking
    <3>2. \A j \in JobIds : j <= scan.total => probe[j] = "over"
      BY <2>1, <2>4 DEF ScanInv, Progress
    <3>3. scan.total \in Nat /\ 1..scan.total \subseteq JobIds
      BY <3>1, ScannerAssumption DEF JobIds
    <3>4. 1..scan.total \subseteq Over
      BY <3>2, <3>3 DEF Over
    <3>5. Over = 1..scan.total
      BY <2>1, <3>4, ProgressIsBounded
    <3>6. Cardinality(1..scan.total) = scan.total
      BY <3>3, FS_Interval
    <3>7. QED
      BY <2>2, <3>1, <3>5, <3>6
  <2>5. QED
    BY <2>2, <2>3, <2>4
<1>2. QED
  BY <1>1, Inductive, PTL

\* A change of settings that no other request overlaps is whole: engine, memory
\* and file have it, or, when it could not be saved, the engine has what it had
\* when the request came; the options remembered are those of the scan that was
\* started (applyDetectionConfig, handleProfile, handleScan).
THEOREM LoneChangesAreWhole == Spec => LoneChangeIsWhole
<1>1. ASSUME IInv, NEW c \in Callers
      PROVE  /\ Returns(c, "notifyRollback") => engine' = req[c].was
             /\ Returns(c, "setDetection") \/ (Returns(c, "setScan") /\ req[c].import) =>
                  {engine', memory'.detection, file'.detection} = {req[c].wanted}
             /\ Returns(c, "setScan") =>
                  /\ memory'.scan = req[c].options
                  /\ ~req[c].import => scan'.options = req[c].options
  <2>1. /\ PanelTypes /\ req \in [Callers -> ReqType] /\ req[c] \in ReqType
        /\ memory \in [detection : Settings, scan : Remembered]
    BY <1>1 DEF IInv, PanelTypes, ReqType
  <2>2. \A r : Proceed(c, r) => req'[c] = r
    BY <2>1 DEF Proceed
  <2>3. \A pc : To(c, pc).pc = pc
    BY <2>1 DEF To, ReqType
  <2>4. req[c].alone => Course(c)
    BY <1>1 DEF IInv, LoneCourse
  <2>5. ASSUME Returns(c, "notifyRollback") PROVE engine' = req[c].was
    <3>1. /\ req[c].pc = "notifyRollback" /\ engine' = engine
          /\ Course(c)
      BY <2>4, <2>5 DEF Returns, Handle, StopScan, ReadPrevious, Configure, Notify,
                        SetDetection, Rollback, NotifyRollback, SetScan
    <3>2. QED
      BY <3>1 DEF Course
  <2>6. ASSUME Returns(c, "setDetection")
        PROVE  {engine', memory'.detection, file'.detection} = {req[c].wanted}
    <3>1. req[c].pc = "setDetection" /\ req'[c].pc = "idle" /\ SetDetection(c) /\ Course(c)
      BY <2>4, <2>6 DEF Returns, Handle, StopScan, ReadPrevious, Configure, Notify,
                        SetDetection, Rollback, NotifyRollback, SetScan
    <3>2. /\ engine' = engine /\ file' = memory'
          /\ memory' = [memory EXCEPT !.detection = req[c].wanted]
      BY <2>2, <2>3, <3>1 DEF SetDetection
    <3>3. memory'.detection = req[c].wanted /\ engine = req[c].wanted
      BY <2>1, <3>1, <3>2 DEF Course
    <3>4. QED
      BY <3>2, <3>3
  <2>7. ASSUME Returns(c, "setScan")
        PROVE  /\ req[c].import =>
                    {engine', memory'.detection, file'.detection} = {req[c].wanted}
               /\ memory'.scan = req[c].options
               /\ ~req[c].import => scan'.options = req[c].options
    <3>1. req[c].pc = "setScan" /\ SetScan(c) /\ Course(c)
      BY <2>4, <2>7 DEF Returns, Handle, StopScan, ReadPrevious, Configure, Notify,
                        SetDetection, Rollback, NotifyRollback, SetScan
    <3>2. /\ engine' = engine /\ scan' = scan /\ file' \in {file, memory'}
          /\ memory' = [memory EXCEPT !.scan = req[c].options]
      BY <3>1 DEF SetScan, scanVars
    <3>3. memory'.scan = req[c].options /\ memory'.detection = memory.detection
      BY <2>1, <3>2
    <3>4. QED
      BY <3>1, <3>2, <3>3 DEF Course
  <2>8. QED
    BY <2>5, <2>6, <2>7
<1>2. IInv =>
        [\A c \in Callers :
           /\ Returns(c, "notifyRollback") => engine' = req[c].was
           /\ Returns(c, "setDetection") \/ (Returns(c, "setScan") /\ req[c].import) =>
                {engine', memory'.detection, file'.detection} = {req[c].wanted}
           /\ Returns(c, "setScan") =>
                /\ memory'.scan = req[c].options
                /\ ~req[c].import => scan'.options = req[c].options]_vars
  BY <1>1
<1>3. QED
  BY <1>2, Inductive, PTL DEF LoneChangeIsWhole

-----------------------------------------------------------------------------
(* Powers of two.                                                           *)

\* TwoTo is what its recursion says.
LEMMA TwoToDoubles ==
  /\ TwoTo \in [0..AddrBits -> Nat \ {0}]
  /\ \A n \in 1..AddrBits : TwoTo[n] = 2 * TwoTo[n - 1]
<1> DEFINE Y == Nat \ {0}
           op == [p \in Y \X {0} |-> 2 * p[1]]
           s == [i \in 1..AddrBits |-> 0]
           R(g) == [n \in 0..AddrBits |-> IF n = 0 THEN 1 ELSE 2 * g[n - 1]]
<1>1. AddrBits \in Nat
  BY ScannerAssumption
<1>2. s \in Seq({0}) /\ Len(s) = AddrBits /\ \A i \in 1..AddrBits : s[i] = 0
  BY <1>1
<1>3. op \in Steps({0}, Y) /\ \A y \in Y : op[<<y, 0>>] = 2 * y
  BY DEF Steps
<1> HIDE DEF op, s
<1>4. PICK f \in [0..AddrBits -> Y] : IsFold(f, 1, op, s)
  <2>1. 1 \in Y
    OBVIOUS
  <2> QED
    BY <1>2, <1>3, <2>1, FoldExists
<1>5. f[0] = 1 /\ \A n \in 1..AddrBits : f[n] = 2 * f[n - 1]
  <2>1. f[0] = 1
    BY <1>4 DEF IsFold
  <2>2. ASSUME NEW n \in 1..AddrBits PROVE f[n] = 2 * f[n - 1]
    <3>1. n - 1 \in 0..AddrBits
      BY <1>1
    <3>2. f[n - 1] \in Y
      BY <1>4, <3>1
    <3>3. f[n] = op[<<f[n - 1], 0>>]
      BY <1>2, <1>4 DEF IsFold
    <3> QED
      BY <1>3, <3>2, <3>3
  <2> QED
    BY <2>1, <2>2
<1>6. f = R(f)
  <2>1. ASSUME NEW n \in 0..AddrBits PROVE f[n] = IF n = 0 THEN 1 ELSE 2 * f[n - 1]
    <3>1. n = 0 \/ n \in 1..AddrBits
      BY <1>1
    <3> QED
      BY <1>5, <3>1
  <2> QED
    BY <1>4, <2>1
<1>7. TwoTo = R(TwoTo)
  BY <1>6, Zenon DEF TwoTo
<1>8. TwoTo[0] = 1 /\ \A n \in 1..AddrBits : TwoTo[n] = 2 * TwoTo[n - 1]
  <2>1. \A n \in 0..AddrBits : TwoTo[n] = IF n = 0 THEN 1 ELSE 2 * TwoTo[n - 1]
    BY <1>7, Zenon
  <2> QED
    BY <1>1, <2>1
<1> DEFINE T == {n \in 0..AddrBits : TwoTo[n] \in Y}
<1>9. 0 \in T
  BY <1>1, <1>8
<1>10. ASSUME NEW n \in 1..AddrBits, n - 1 \in T PROVE n \in T
  <2>1. PICK y \in Y : TwoTo[n - 1] = y
    BY <1>10
  <2>2. TwoTo[n] = 2 * y
    BY <1>8, <2>1
  <2> QED
    BY <1>1, <2>2
<1> HIDE DEF T
<1>11. \A n \in 0..AddrBits : n \in T
  BY <1>1, <1>9, <1>10, UpTo
<1>12. \A n \in 0..AddrBits : TwoTo[n] \in Y
  BY <1>11 DEF T
<1>13. TwoTo = [n \in 0..AddrBits |-> TwoTo[n]]
  <2>1. DOMAIN TwoTo = 0..AddrBits /\ TwoTo = [n \in 0..AddrBits |-> R(TwoTo)[n]]
    BY <1>7
  <2> QED
    BY <1>7, <2>1
<1> QED
  BY <1>8, <1>12, <1>13

\* A smaller power of two divides a larger one.
LEMMA TwoToDivides ==
  ASSUME NEW m \in 0..AddrBits
  PROVE  \E q \in Nat \ {0} : TwoTo[AddrBits] = q * TwoTo[m]
<1>1. PICK bits \in Nat : bits = AddrBits
  BY ScannerAssumption
<1>2. PICK size \in Nat \ {0} : size = TwoTo[m]
  BY <1>1, TwoToDoubles
<1> DEFINE T == {d \in 0..(bits - m) : \E q \in Nat \ {0} : TwoTo[m + d] = q * size}
<1>3. m \in 0..bits /\ bits - m \in Nat
  BY <1>1
<1>4. 0 \in T
  <2>1. m + 0 = m /\ 1 * size = size
    BY <1>3
  <2> QED
    BY <1>2, <1>3, <2>1
<1>5. ASSUME NEW d \in 1..(bits - m), d - 1 \in T PROVE d \in T
  <2>1. PICK q \in Nat \ {0} : TwoTo[m + (d - 1)] = q * size
    BY <1>5
  <2>2. m + d \in 1..AddrBits /\ m + d - 1 = m + (d - 1)
    BY <1>1, <1>3
  <2>3. TwoTo[m + d] = 2 * (q * size)
    BY <2>1, <2>2, TwoToDoubles
  <2>4. PICK p \in Nat \ {0} : p = 2 * q
    OBVIOUS
  <2>5. 2 * (q * size) = p * size
    BY <2>4
  <2>6. d \in 0..(bits - m)
    BY <1>3
  <2> QED
    BY <2>3, <2>5, <2>6
<1> HIDE DEF T
<1>6. bits - m \in T
  <2>1. \A d \in 0..(bits - m) : d \in T
    BY <1>3, <1>4, <1>5, UpTo
  <2> QED
    BY <1>3, <2>1
<1>7. m + (bits - m) = AddrBits
  BY <1>1, <1>3
<1> QED
  BY <1>2, <1>6, <1>7 DEF T

\* Numbers with the same quotient are neighbours.
LEMMA SameQuotient ==
  ASSUME NEW size \in Nat \ {0}, NEW a \in Nat, NEW b \in Nat
  PROVE  \E base \in Nat :
           /\ base = a - (a % size)
           /\ (b \div size = a \div size) <=> b \in base..(base + size - 1)
           /\ \E q \in Nat : base = q * size
<1>1. PICK q \in Nat, r \in 0..(size - 1) : a = q * size + r /\ a \div size = q /\ a % size = r
  OBVIOUS
<1>2. PICK p \in Nat, t \in 0..(size - 1) : b = p * size + t /\ b \div size = p /\ b % size = t
  OBVIOUS
<1>3. PICK base \in Nat : base = q * size
  OBVIOUS
<1>4. base = a - (a % size)
  <2>1. PICK m \in Int : m = a % size
    BY <1>1
  <2>2. m = r /\ a = base + r
    BY <1>1, <1>3, <2>1
  <2>3. base = a - m
    BY <2>2
  <2> QED
    BY <2>1, <2>3
<1>5. (p = q) <=> b \in base..(base + size - 1)
  BY <1>2, <1>3
<1> QED
  BY <1>1, <1>2, <1>3, <1>4, <1>5

-----------------------------------------------------------------------------
(* What the options of a scan ask for.                                      *)

\* The two parts of Asked.
AskedAddrs(o) ==
  LET subnet == {a \in Addrs : a \div SubnetSize(o) = o.addr \div SubnetSize(o)}
      outer == {a \in subnet : (\A b \in subnet : b <= a) \/ (\A b \in subnet : a <= b)}
  IN  IF Cardinality(subnet) > 2 THEN subnet \ outer ELSE subnet

AskedPorts(o) ==
  IF o.ports = <<>> THEN DefaultPorts
  ELSE {n \in 1..MaxPort : \E k \in DOMAIN o.ports : n \in InRange(o.ports[k])}

\* Every address is asked for with every port.
LEMMA AskedIsBoth == \A o : Asked(o) = AskedAddrs(o) \X AskedPorts(o)
BY DEF Asked, AskedAddrs, AskedPorts

\* The addresses that expandCIDR lists are those asked for, each once.
LEMMA AddressesAreAsked ==
  ASSUME NEW o \in Options
  PROVE  /\ expandCIDR(o) \in Seq(Addrs) /\ IsInjective(expandCIDR(o))
         /\ {expandCIDR(o)[i] : i \in DOMAIN expandCIDR(o)} = AskedAddrs(o)
<1>1. AddrBits \in Nat /\ o.ones \in 0..AddrBits /\ o.addr \in Addrs
  BY ScannerAssumption
<1>2. PICK m \in 0..AddrBits : m = AddrBits - o.ones
  BY <1>1
<1>3. PICK size \in Nat \ {0} : size = SubnetSize(o)
  BY <1>2, TwoToDoubles DEF SubnetSize
<1>4. PICK q \in Nat \ {0} : TwoTo[AddrBits] = q * size
  BY <1>2, <1>3, TwoToDivides DEF SubnetSize
<1>5. PICK all \in Nat \ {0} : all = TwoTo[AddrBits] /\ all = q * size
  BY <1>1, <1>4, TwoToDoubles
<1>6. Addrs = 0..(all - 1)
  BY <1>5 DEF Addrs
<1>7. PICK addr \in Nat : addr = o.addr
  BY <1>1, <1>6
<1>8. PICK base \in Nat : base = addr - (addr % size)
  BY SameQuotient
<1>9. base + size - 1 \in Addrs
  <2>1. PICK p \in Nat : base = p * size
    BY <1>8, SameQuotient
  <2>2. base <= addr
    <3>1. addr % size \in Nat
      OBVIOUS
    <3> QED
      BY <1>8, <3>1
  <2>3. addr <= all - 1
    BY <1>1, <1>6, <1>7
  <2>4. p * size <= q * size - 1
    BY <1>5, <2>1, <2>2, <2>3
  <2>5. p + 1 <= q
    <3>1. SUFFICES ASSUME p >= q PROVE FALSE
      OBVIOUS
    <3>2. PICK d \in Nat : p = q + d
      BY <3>1
    <3>3. p * size = q * size + d * size /\ d * size \in Nat
      BY <3>2
    <3> QED
      BY <2>4, <3>3
  <2>6. PICK d \in Nat : q = p + 1 + d
    BY <2>5
  <2>7. q * size = p * size + size + d * size /\ d * size \in Nat
    BY <2>6
  <2> QED
    BY <1>5, <1>6, <2>1, <2>7
<1> DEFINE subnet == {a \in Addrs : a \div size = addr \div size}
           last == base + size - 1
<1>10. subnet = base..last
  <2>1. ASSUME NEW a \in Addrs PROVE (a \div size = addr \div size) <=> a \in base..last
    <3>1. PICK b \in Nat : b = a
      BY <1>6
    <3>2. (b \div size = addr \div size) <=> b \in base..last
      BY <1>8, SameQuotient
    <3> QED
      BY <3>1, <3>2
  <2>2. base..last \subseteq Addrs
    BY <1>6, <1>9
  <2> QED
    BY <2>1, <2>2
<1>11. Cardinality(subnet) = size
  <2>1. last \in Int /\ last - base + 1 = size /\ base <= last
    OBVIOUS
  <2> HIDE DEF subnet, last
  <2> QED
    BY <1>10, <2>1, FS_Interval
<1> DEFINE outer == {a \in subnet : (\A b \in subnet : b <= a) \/ (\A b \in subnet : a <= b)}
<1>12. AskedAddrs(o) = IF size > 2 THEN subnet \ outer ELSE subnet
  BY <1>3, <1>7, <1>11 DEF AskedAddrs
<1>13. expandCIDR(o) = IF size > 2 THEN [i \in 1..(size - 2) |-> base + i]
                                   ELSE [i \in 1..size |-> base + i - 1]
  BY <1>3, <1>7, <1>8 DEF expandCIDR
<1>14. CASE size > 2
  <2>1. outer = {base, last}
    <3>1. base \in base..last /\ last \in base..last
          /\ \A b \in base..last : base <= b /\ b <= last
      OBVIOUS
    <3>2. base \in subnet /\ last \in subnet /\ \A b \in subnet : base <= b /\ b <= last
      BY <1>10, <3>1, Zenon
    <3>3. base \in outer /\ last \in outer
      BY <3>2
    <3>4. ASSUME NEW a \in outer PROVE a \in {base, last}
      <4>1. a \in subnet /\ a \in Nat /\ last \in Nat
        BY <1>6, <3>2, <3>4
      <4>2. (last <= a) \/ (a <= base)
        BY <3>2, <3>4
      <4> QED
        BY <3>2, <4>1, <4>2
    <3> QED
      BY <3>3, <3>4
  <2>2. AskedAddrs(o) = (base + 1)..(base + size - 2)
    BY <1>10, <1>12, <1>14, <2>1
  <2>3. PICK n \in Nat : n = size - 2
    BY <1>14
  <2>4. PICK ips : ips = [i \in 1..n |-> base + i]
    OBVIOUS
  <2>5. expandCIDR(o) = ips
    BY <1>13, <1>14, <2>3, <2>4
  <2>6. DOMAIN ips = 1..n /\ \A i \in 1..n : ips[i] = base + i
    BY <2>4
  <2>7. \A i \in 1..n : ips[i] \in Addrs
    BY <1>6, <1>9, <2>3, <2>6
  <2>8. ips \in Seq(Addrs) /\ IsInjective(ips)
    BY <2>3, <2>4, <2>6, <2>7 DEF IsInjective
  <2>9. {ips[i] : i \in DOMAIN ips} = AskedAddrs(o)
    <3>1. \A i \in 1..n : ips[i] \in AskedAddrs(o)
      BY <2>2, <2>3, <2>6
    <3>2. ASSUME NEW a \in AskedAddrs(o) PROVE \E i \in 1..n : ips[i] = a
      <4>1. PICK i \in 1..n : a = base + i
        <5>1. a \in (base + 1)..(base + size - 2) /\ a - base \in 1..n /\ a = base + (a - base)
          BY <2>2, <2>3, <3>2
        <5> QED
          BY <5>1
      <4> QED
        BY <2>6, <4>1
    <3> QED
      BY <2>6, <3>1, <3>2
  <2> QED
    BY <2>5, <2>8, <2>9
<1>15. CASE ~(size > 2)
  <2>1. AskedAddrs(o) = base..(base + size - 1)
    BY <1>10, <1>12, <1>15
  <2>2. PICK ips : ips = [i \in 1..size |-> base + i - 1]
    OBVIOUS
  <2>3. expandCIDR(o) = ips
    BY <1>13, <1>15, <2>2
  <2>4. DOMAIN ips = 1..size /\ \A i \in 1..size : ips[i] = base + i - 1
    BY <2>2
  <2>5. \A i \in 1..size : ips[i] \in Addrs
    BY <1>6, <1>9, <2>4
  <2>6. ips \in Seq(Addrs) /\ IsInjective(ips)
    BY <2>2, <2>4, <2>5 DEF IsInjective
  <2>7. {ips[i] : i \in DOMAIN ips} = AskedAddrs(o)
    <3>1. \A i \in 1..size : ips[i] \in AskedAddrs(o)
      BY <2>1, <2>4
    <3>2. ASSUME NEW a \in AskedAddrs(o) PROVE \E i \in 1..size : ips[i] = a
      <4>1. PICK i \in 1..size : a = base + i - 1
        <5>1. a \in base..(base + size - 1) /\ a - base + 1 \in 1..size
              /\ a = base + (a - base + 1) - 1
          BY <2>1, <3>2
        <5> QED
          BY <5>1
      <4> QED
        BY <2>4, <4>1
    <3> QED
      BY <2>4, <3>1, <3>2
  <2> QED
    BY <2>3, <2>6, <2>7
<1> QED
  BY <1>14, <1>15

-----------------------------------------------------------------------------
(* Sorting.                                                                 *)

\* p puts the first n elements of s in ascending order.
Sorts(p, s, n) ==
  p \in Bijection(1..n, 1..n) /\ \A i, k \in 1..n : i < k => s[p[i]] <= s[p[k]]

\* One of n numbers is the largest.
LEMMA LargestExists ==
  ASSUME NEW M \in Nat, NEW n \in Nat \ {0}, NEW s \in [1..n -> 0..M]
  PROVE  \E k \in 1..n : \A i \in 1..n : s[i] <= s[k]
<1> DEFINE T == {M - s[k] : k \in 1..n}
<1>1. \A k \in 1..n : s[k] \in 0..M /\ M - s[k] \in T
  OBVIOUS
<1>2. T \subseteq Nat /\ T # {}
  <2>1. ASSUME NEW d \in T PROVE d \in Nat
    <3>1. PICK k \in 1..n : d = M - s[k]
      OBVIOUS
    <3>2. PICK x \in 0..M : x = s[k]
      BY <1>1
    <3> QED
      BY <3>1, <3>2
  <2>2. 1 \in 1..n
    OBVIOUS
  <2> QED
    BY <1>1, <2>1, <2>2
<1>3. PICK d \in T : \A e \in T : d <= e
  BY <1>2, LeastNat
<1>4. PICK k \in 1..n : d = M - s[k]
  BY <1>3
<1>5. ASSUME NEW i \in 1..n PROVE s[i] <= s[k]
  <2>1. PICK x \in 0..M, y \in 0..M : x = s[i] /\ y = s[k]
    BY <1>1
  <2>2. d <= M - x
    BY <1>1, <1>3, <2>1
  <2> QED
    BY <1>4, <2>1, <2>2
<1> QED
  BY <1>5

\* With the largest last, and the others sorted, all are sorted.
LEMMA OneMoreSorted ==
  ASSUME NEW M \in Nat, NEW n \in Nat \ {0}, NEW s \in [1..n -> 0..M],
         \A t \in [1..(n - 1) -> 0..M] : \E p : Sorts(p, t, n - 1)
  PROVE  \E p : Sorts(p, s, n)
<1>1. PICK big \in 1..n : \A i \in 1..n : s[i] <= s[big]
  BY LargestExists
<1>2. PICK m \in Nat : m = n - 1
  OBVIOUS
<1>3. 1..m \subseteq 1..n /\ n \notin 1..m /\ n \in 1..n /\ \A i \in 1..n : i # n => i \in 1..m
  BY <1>2
<1> DEFINE at(i) == IF i = big THEN n ELSE i
           t == [i \in 1..m |-> s[at(i)]]
<1>4. \A i \in 1..m : at(i) \in 1..n /\ at(i) # big
  BY <1>3
<1>5. t \in [1..m -> 0..M]
  BY <1>4
<1>6. PICK q : Sorts(q, t, m)
  BY <1>2, <1>5
<1>7. /\ q \in [1..m -> 1..m]
      /\ \A a, b \in 1..m : q[a] = q[b] => a = b
      /\ \A b \in 1..m : \E a \in 1..m : q[a] = b
      /\ \A i, k \in 1..m : i < k => t[q[i]] <= t[q[k]]
  BY <1>6 DEF Sorts, Bijection, Injection, Surjection, IsInjective
<1> DEFINE p == [i \in 1..n |-> IF i = n THEN big ELSE at(q[i])]
<1>8. \A i \in 1..m : q[i] \in 1..m /\ p[i] = at(q[i]) /\ s[p[i]] = t[q[i]]
  BY <1>3, <1>7
<1>9. p \in [1..n -> 1..n] /\ p[n] = big
  BY <1>3, <1>4, <1>7
<1>10. \A a, b \in 1..m : at(a) = at(b) => a = b
  BY <1>3
<1>11. ASSUME NEW a \in 1..n, NEW b \in 1..n, p[a] = p[b] PROVE a = b
  <2>1. CASE a = n /\ b = n
    BY <2>1
  <2>2. CASE a = n /\ b # n
    <3>1. b \in 1..m
      BY <1>3, <2>2
    <3>2. p[b] # big
      BY <1>4, <1>8, <3>1
    <3> QED
      BY <1>9, <1>11, <2>2, <3>2
  <2>3. CASE a # n /\ b = n
    <3>1. a \in 1..m
      BY <1>3, <2>3
    <3>2. p[a] # big
      BY <1>4, <1>8, <3>1
    <3> QED
      BY <1>9, <1>11, <2>3, <3>2
  <2>4. CASE a # n /\ b # n
    <3>1. a \in 1..m /\ b \in 1..m
      BY <1>3, <2>4
    <3>2. at(q[a]) = at(q[b])
      BY <1>8, <1>11, <3>1
    <3> HIDE DEF at, p
    <3>3. q[a] = q[b]
      BY <1>8, <1>10, <3>1, <3>2
    <3> QED
      BY <1>7, <3>1, <3>3
  <2> QED
    BY <2>1, <2>2, <2>3, <2>4
<1>12. ASSUME NEW b \in 1..n PROVE \E a \in 1..n : p[a] = b
  <2>1. CASE b = big
    BY <1>3, <1>9, <2>1
  <2>2. CASE b # big
    <3>1. PICK c \in 1..m : at(c) = b
      <4>1. CASE b = n
        <5>1. big \in 1..m
          BY <1>3, <2>2, <4>1
        <5> QED
          BY <4>1, <5>1
      <4>2. CASE b # n
        BY <1>3, <2>2, <4>2
      <4> QED
        BY <4>1, <4>2
    <3>2. PICK a \in 1..m : q[a] = c
      BY <1>7
    <3>3. a \in 1..n /\ p[a] = b
      BY <1>3, <1>8, <3>1, <3>2
    <3> QED
      BY <3>3
  <2> QED
    BY <2>1, <2>2
<1>13. ASSUME NEW i \in 1..n, NEW k \in 1..n, i < k PROVE s[p[i]] <= s[p[k]]
  <2>1. i \in 1..m
    BY <1>2, <1>13
  <2>2. CASE k = n
    <3>1. p[i] \in 1..n
      BY <1>9
    <3> HIDE DEF p
    <3> QED
      BY <1>1, <1>9, <2>2, <3>1
  <2>3. CASE k # n
    <3>1. k \in 1..m
      BY <1>3, <2>3
    <3> HIDE DEF p, t, at
    <3> QED
      BY <1>7, <1>8, <1>13, <2>1, <3>1
  <2> QED
    BY <2>2, <2>3
<1> HIDE DEF p
<1>14. p \in Bijection(1..n, 1..n)
  BY <1>9, <1>11, <1>12 DEF Bijection, Injection, Surjection, IsInjective
<1> QED
  BY <1>13, <1>14 DEF Sorts

\* Numbers can be put in ascending order.
LEMMA SortingExists ==
  ASSUME NEW M \in Nat, NEW n \in Nat, NEW s \in [1..n -> 0..M]
  PROVE  \E p : Sorts(p, s, n)
<1> DEFINE T == {k \in 0..n : \A t \in [1..k -> 0..M] : \E p : Sorts(p, t, k)}
<1>1. 0 \in T
  <2>1. ASSUME NEW t \in [1..0 -> 0..M] PROVE Sorts(<<>>, t, 0)
    <3>1. 1..0 = {} /\ DOMAIN <<>> = {} /\ <<>> \in [{} -> {}]
      OBVIOUS
    <3> QED
      BY <3>1 DEF Sorts, Bijection, Injection, Surjection, IsInjective
  <2> QED
    BY <2>1
<1>2. ASSUME NEW k \in 1..n, k - 1 \in T PROVE k \in T
  <2>1. k \in Nat \ {0} /\ k \in 0..n
    OBVIOUS
  <2>2. \A t \in [1..(k - 1) -> 0..M] : \E p : Sorts(p, t, k - 1)
    BY <1>2
  <2>3. \A t \in [1..k -> 0..M] : \E p : Sorts(p, t, k)
    BY <2>1, <2>2, OneMoreSorted
  <2> QED
    BY <2>1, <2>3
<1> HIDE DEF T
<1>3. \A k \in 0..n : k \in T
  BY <1>1, <1>2, UpTo
<1>4. n \in T
  BY <1>3
<1> QED
  BY <1>4 DEF T

\* What Sorted returns: the same numbers, as often, in ascending order.
LEMMA SortedOrders ==
  ASSUME NEW M \in Nat, NEW s \in Seq(0..M)
  PROVE  /\ Sorted(s) \in Seq(0..M) /\ Len(Sorted(s)) = Len(s)
         /\ \A k \in 0..M : k \in ToSet(Sorted(s)) <=> k \in ToSet(s)
         /\ IsInjective(s) =>
              /\ IsInjective(Sorted(s))
              /\ \A i, k \in DOMAIN Sorted(s) : i < k => Sorted(s)[i] < Sorted(s)[k]
<1> DEFINE D == DOMAIN s
           Ok(p) == \A i, k \in D : i < k => s[p[i]] <= s[p[k]]
           order == CHOOSE p \in Bijection(D, D) : Ok(p)
<1>1. PICK n \in Nat : n = Len(s)
  OBVIOUS
<1>2. D = 1..n /\ s \in [1..n -> 0..M]
  BY <1>1
<1>3. order \in Bijection(D, D) /\ Ok(order)
  <2>1. \E p \in Bijection(D, D) : Ok(p)
    BY <1>2, SortingExists DEF Sorts
  <2> HIDE DEF Ok, D
  <2> QED
    BY <2>1, Zenon
<1>4. Sorted(s) = [k \in D |-> s[order[k]]]
  BY Zenon DEF Sorted
<1> HIDE DEF order
<1>5. PICK p : p = order
  OBVIOUS
<1>6. /\ p \in [1..n -> 1..n]
      /\ \A a, b \in 1..n : p[a] = p[b] => a = b
      /\ \A b \in 1..n : \E a \in 1..n : p[a] = b
      /\ \A i, k \in 1..n : i < k => s[p[i]] <= s[p[k]]
  BY <1>2, <1>3, <1>5 DEF Bijection, Injection, Surjection, IsInjective
<1>7. PICK t : t = [k \in 1..n |-> s[p[k]]]
  OBVIOUS
<1>8. Sorted(s) = t
  BY <1>2, <1>4, <1>5, <1>7
<1> HIDE DEF D, Ok
<1>9. \A k \in 1..n : t[k] = s[p[k]] /\ t[k] \in 0..M /\ p[k] \in 1..n
  BY <1>2, <1>6, <1>7
<1>10. t \in Seq(0..M) /\ Len(t) = Len(s) /\ DOMAIN t = 1..n /\ DOMAIN s = 1..n
  BY <1>1, <1>7, <1>9
<1>11. \A x : x \in ToSet(t) <=> x \in ToSet(s)
  <2>1. ASSUME NEW k \in 1..n PROVE t[k] \in ToSet(s)
    BY <1>9, <1>10 DEF ToSet
  <2>2. ASSUME NEW k \in 1..n PROVE s[k] \in ToSet(t)
    <3>1. PICK a \in 1..n : p[a] = k
      BY <1>6
    <3>2. t[a] = s[k]
      BY <1>9, <3>1
    <3> QED
      BY <1>10, <3>2 DEF ToSet
  <2> QED
    BY <1>10, <2>1, <2>2 DEF ToSet
<1>12. ASSUME IsInjective(s)
       PROVE  IsInjective(t) /\ \A i, k \in DOMAIN t : i < k => t[i] < t[k]
  <2>1. \A a, b \in 1..n : s[a] = s[b] => a = b
    BY <1>10, <1>12 DEF IsInjective
  <2>2. ASSUME NEW a \in 1..n, NEW b \in 1..n, t[a] = t[b] PROVE a = b
    <3>1. p[a] = p[b]
      BY <1>9, <2>1, <2>2
    <3> QED
      BY <1>6, <3>1
  <2>3. ASSUME NEW i \in 1..n, NEW k \in 1..n, i < k PROVE t[i] < t[k]
    <3>1. PICK x \in 0..M, y \in 0..M : x = t[i] /\ y = t[k]
      BY <1>9
    <3>2. x <= y
      BY <1>6, <1>9, <2>3, <3>1
    <3>3. x # y
      BY <2>2, <2>3, <3>1
    <3> QED
      BY <3>1, <3>2, <3>3
  <2> QED
    BY <1>10, <2>2, <2>3 DEF IsInjective
<1> QED
  BY <1>8, <1>10, <1>11, <1>12

\* A finite set as a sequence: each element once.
LEMMA SetAsSequence ==
  ASSUME NEW S, IsFiniteSet(S)
  PROVE  /\ SetToSeq(S) \in Seq(S) /\ IsInjective(SetToSeq(S))
         /\ ToSet(SetToSeq(S)) = S
<1>1. PICK n \in Nat : n = Cardinality(S)
  BY FS_CardinalityType
<1>2. \E f \in [1..n -> S] : IsInjective(f)
  <2>1. ExistsBijection(1..n, S)
    BY <1>1, FS_CardinalityType
  <2> QED
    BY <2>1 DEF ExistsBijection, Bijection, Injection
<1>3. SetToSeq(S) = CHOOSE f \in [1..n -> S] : IsInjective(f)
  BY <1>1 DEF SetToSeq
<1>4. PICK f : f = SetToSeq(S)
  OBVIOUS
<1>5. f \in [1..n -> S] /\ IsInjective(f)
  BY <1>2, <1>3, <1>4, Zenon
<1>6. f \in Surjection(1..n, S)
  <2>1. f \in Injection(1..n, S)
    BY <1>5 DEF Injection
  <2>2. Cardinality(1..n) = n
    BY FS_Interval
  <2> QED
    BY <1>1, <2>1, <2>2, FS_Injection
<1>7. f \in Seq(S) /\ DOMAIN f = 1..n
  BY <1>5
<1>8. ToSet(f) = S
  BY <1>5, <1>6, <1>7 DEF ToSet, Surjection
<1> QED
  BY <1>4, <1>5, <1>7, <1>8

\* The ports that ParsePorts lists are those asked for, each once.
LEMMA PortsAreAsked ==
  ASSUME NEW o \in Options, Valid(o)
  PROVE  /\ ParsePorts(o.ports) \in Seq(1..MaxPort) /\ IsInjective(ParsePorts(o.ports))
         /\ ToSet(ParsePorts(o.ports)) = AskedPorts(o)
<1>1. MaxPort \in Nat /\ DefaultPorts \subseteq 1..MaxPort
  BY ScannerAssumption
<1>2. AskedPorts(o) = IF o.ports = <<>> THEN DefaultPorts
                      ELSE UNION {InRange(o.ports[k]) : k \in DOMAIN o.ports}
  <2>1. \A k \in DOMAIN o.ports : InRange(o.ports[k]) \subseteq 1..MaxPort
    BY DEF Valid
  <2> QED
    BY <2>1 DEF AskedPorts
<1>3. AskedPorts(o) \subseteq 1..MaxPort
  BY <1>1 DEF AskedPorts
<1>4. IsFiniteSet(AskedPorts(o))
  <2>1. IsFiniteSet(1..MaxPort)
    BY <1>1, FS_Interval
  <2> QED
    BY <1>3, <2>1, FS_Subset
<1>5. PICK s : s = SetToSeq(AskedPorts(o))
  OBVIOUS
<1>6. s \in Seq(AskedPorts(o)) /\ IsInjective(s) /\ ToSet(s) = AskedPorts(o)
  BY <1>4, <1>5, SetAsSequence
<1>7. ParsePorts(o.ports) = Sorted(s)
  BY <1>2, <1>5 DEF ParsePorts
<1>8. s \in Seq(0..MaxPort)
  BY <1>1, <1>3, <1>6
<1>9. PICK t : t = Sorted(s)
  OBVIOUS
<1>10. /\ t \in Seq(0..MaxPort) /\ IsInjective(t)
       /\ \A k \in 0..MaxPort : k \in ToSet(t) <=> k \in ToSet(s)
  BY <1>1, <1>6, <1>8, <1>9, SortedOrders
<1>11. PICK n \in Nat : n = Len(t) /\ DOMAIN t = 1..n /\ t \in [1..n -> 0..MaxPort]
  <2>1. t \in Seq(0..MaxPort)
    BY <1>10
  <2> QED
    BY <1>1, <2>1
<1>12. \A k \in ToSet(t) : k \in 0..MaxPort
  BY <1>11 DEF ToSet
<1>13. ToSet(t) = AskedPorts(o)
  <2>1. AskedPorts(o) \subseteq 0..MaxPort
    BY <1>1, <1>3
  <2> QED
    BY <1>6, <1>10, <1>12, <2>1
<1>14. t \in Seq(1..MaxPort)
  <2>1. \A k \in DOMAIN t : t[k] \in 1..MaxPort
    BY <1>3, <1>13 DEF ToSet
  <2>2. t \in [1..n -> 1..MaxPort]
    BY <1>11, <2>1
  <2> QED
    BY <1>1, <2>2
<1> QED
  BY <1>7, <1>9, <1>10, <1>13, <1>14

\* The numbers from 1 to i * n, counted in rows of n: each falls on a place of
\* its own, and every place has one.
LEMMA RowsAndColumns ==
  ASSUME NEW i \in Nat \ {0}, NEW n \in Nat \ {0}
  PROVE  /\ \A k \in 1..(i * n) : /\ 1 + ((k - 1) \div n) \in 1..i
                                  /\ 1 + ((k - 1) % n) \in 1..n
         /\ \A k, l \in 1..(i * n) :
              (k - 1) \div n = (l - 1) \div n /\ (k - 1) % n = (l - 1) % n => k = l
         /\ \A a \in 1..i : \A b \in 1..n :
              \E k \in 1..(i * n) : 1 + ((k - 1) \div n) = a /\ 1 + ((k - 1) % n) = b
<1>1. PICK all \in Nat : all = i * n
  OBVIOUS
<1>2. ASSUME NEW k \in 1..all
      PROVE  \E q \in 0..(i - 1), r \in 0..(n - 1) :
               k - 1 = q * n + r /\ (k - 1) \div n = q /\ (k - 1) % n = r
  <2>1. PICK m \in Nat : m = k - 1
    OBVIOUS
  <2>2. PICK q \in Nat, r \in 0..(n - 1) : m = q * n + r /\ m \div n = q /\ m % n = r
    OBVIOUS
  <2>3. q * n <= i * n - 1
    <3>1. PICK x \in Nat : x = q * n
      OBVIOUS
    <3>2. m = x + r /\ m <= all - 1
      BY <2>1, <2>2, <3>1
    <3>3. x <= all - 1
      BY <3>1, <3>2
    <3> QED
      BY <1>1, <3>1, <3>3
  <2>4. q < i
    <3>1. SUFFICES ASSUME q >= i PROVE FALSE
      OBVIOUS
    <3>2. PICK d \in Nat : q = i + d
      BY <3>1
    <3>3. q * n = i * n + d * n /\ d * n \in Nat
      BY <3>2
    <3> QED
      BY <2>3, <3>3
  <2> QED
    BY <2>1, <2>2, <2>4
<1>3. ASSUME NEW k \in 1..all
      PROVE  1 + ((k - 1) \div n) \in 1..i /\ 1 + ((k - 1) % n) \in 1..n
  <2>1. PICK q \in 0..(i - 1), r \in 0..(n - 1) : (k - 1) \div n = q /\ (k - 1) % n = r
    BY <1>2
  <2> QED
    BY <2>1
<1>4. ASSUME NEW k \in 1..all, NEW l \in 1..all,
             (k - 1) \div n = (l - 1) \div n, (k - 1) % n = (l - 1) % n
      PROVE  k = l
  <2>1. PICK q \in 0..(i - 1), r \in 0..(n - 1) :
          k - 1 = q * n + r /\ (k - 1) \div n = q /\ (k - 1) % n = r
    BY <1>2
  <2>2. PICK p \in 0..(i - 1), t \in 0..(n - 1) :
          l - 1 = p * n + t /\ (l - 1) \div n = p /\ (l - 1) % n = t
    BY <1>2
  <2>3. p = q /\ t = r
    BY <1>4, <2>1, <2>2
  <2>4. k - 1 = l - 1
    BY <2>1, <2>2, <2>3
  <2> QED
    BY <2>4
<1>5. ASSUME NEW a \in 1..i, NEW b \in 1..n
      PROVE  \E k \in 1..all : 1 + ((k - 1) \div n) = a /\ 1 + ((k - 1) % n) = b
  <2>1. PICK q \in Nat, d \in Nat, r \in 0..(n - 1) : a = q + 1 /\ i = q + 1 + d /\ b = r + 1
    <3>1. a - 1 \in Nat /\ i - a \in Nat /\ b - 1 \in 0..(n - 1)
      OBVIOUS
    <3>2. a = (a - 1) + 1 /\ i = (a - 1) + 1 + (i - a) /\ b = (b - 1) + 1
      OBVIOUS
    <3> QED
      BY <3>1, <3>2
  <2>2. PICK m \in Nat : m = q * n + r
    OBVIOUS
  <2>3. m \div n = q /\ m % n = r
    BY <2>2
  <2>4. m + 1 <= all
    <3>1. all = q * n + n + d * n /\ d * n \in Nat
      BY <1>1, <2>1
    <3> QED
      BY <2>2, <3>1
  <2>5. PICK k \in 1..all : k = m + 1
    BY <2>4
  <2>6. k - 1 = m
    BY <2>5
  <2>7. 1 + (m \div n) = a /\ 1 + (m % n) = b
    BY <2>1, <2>3
  <2> QED
    BY <2>6, <2>7
<1> QED
  BY <1>1, <1>3, <1>4, <1>5

\* The jobs of a plan are the addresses and ports that were asked for, each
\* address and port once.
LEMMA JobsAreAsked ==
  ASSUME NEW o \in Startable
  PROVE  /\ \A j \in 1..JobCount(o) : Plan[o][j].ip \in Addrs /\ Plan[o][j].port \in 1..MaxPort
         /\ \A j, k \in 1..JobCount(o) :
              Plan[o][j].ip = Plan[o][k].ip /\ Plan[o][j].port = Plan[o][k].port => j = k
         /\ {<<Plan[o][j].ip, Plan[o][j].port>> : j \in 1..JobCount(o)} = Asked(o)
<1>1. o \in Options /\ Valid(o)
  BY DEF Startable
<1>2. PICK ips \in Seq(Addrs) : /\ ips = expandCIDR(o) /\ IsInjective(ips)
                                /\ {ips[i] : i \in DOMAIN ips} = AskedAddrs(o)
  BY <1>1, AddressesAreAsked
<1>3. PICK ports \in Seq(1..MaxPort) : /\ ports = ParsePorts(o.ports) /\ IsInjective(ports)
                                       /\ ToSet(ports) = AskedPorts(o)
  BY <1>1, PortsAreAsked
<1>4. PICK i \in Nat, n \in Nat : /\ i = Len(ips) /\ DOMAIN ips = 1..i
                                  /\ n = Len(ports) /\ DOMAIN ports = 1..n
  OBVIOUS
<1>5. JobCount(o) = i * n /\ i # 0 /\ n # 0
  <2>1. JobCount(o) = i * n /\ JobCount(o) \in Nat /\ JobCount(o) # 0
    BY <1>2, <1>3, <1>4, PlanHasAllJobs, ScannerAssumption DEF JobCount, JobIds
  <2>2. i = 0 \/ n = 0 => i * n = 0
    OBVIOUS
  <2> QED
    BY <2>1, <2>2
<1>6. PICK all \in Nat : all = i * n
  OBVIOUS
<1>7. /\ \A a, b \in 1..i : ips[a] = ips[b] => a = b
      /\ {ips[a] : a \in 1..i} = AskedAddrs(o)
  BY <1>2, <1>4 DEF IsInjective
<1>8. /\ \A a, b \in 1..n : ports[a] = ports[b] => a = b
      /\ {ports[b] : b \in 1..n} = AskedPorts(o)
  BY <1>3, <1>4 DEF IsInjective, ToSet
<1> DEFINE row(j) == 1 + ((j - 1) \div n)
           col(j) == 1 + ((j - 1) % n)
<1>9. /\ \A j \in 1..all : row(j) \in 1..i /\ col(j) \in 1..n
      /\ \A j, k \in 1..all : row(j) = row(k) /\ col(j) = col(k) => j = k
      /\ \A a \in 1..i : \A b \in 1..n : \E j \in 1..all : row(j) = a /\ col(j) = b
  <2>1. \A j \in 1..all : row(j) \in 1..i /\ col(j) \in 1..n
    BY <1>5, <1>6, RowsAndColumns
  <2>2. i \in Nat \ {0} /\ n \in Nat \ {0}
    BY <1>5
  <2>3. \A a \in 1..i : \A b \in 1..n :
          \E j \in 1..(i * n) : 1 + ((j - 1) \div n) = a /\ 1 + ((j - 1) % n) = b
    BY <2>2, RowsAndColumns, Zenon
  <2>4. \A a \in 1..i : \A b \in 1..n : \E j \in 1..all : row(j) = a /\ col(j) = b
    BY <1>6, <2>3, Zenon
  <2>5. ASSUME NEW j \in 1..all, NEW k \in 1..all, row(j) = row(k), col(j) = col(k)
        PROVE  j = k
    <3>1. (j - 1) \div n = (k - 1) \div n /\ (j - 1) % n = (k - 1) % n
      BY <1>5, <2>5
    <3> QED
      BY <1>5, <1>6, <3>1, RowsAndColumns
  <2> QED
    BY <2>1, <2>4, <2>5
<1>10. Plan[o] = [j \in 1..all |-> [ip |-> ips[row(j)], port |-> ports[col(j)]]]
  BY <1>2, <1>3, <1>4, <1>6 DEF Plan, Startable, Jobs
<1> HIDE DEF row, col
<1>11. \A j \in 1..all : Plan[o][j].ip = ips[row(j)] /\ Plan[o][j].port = ports[col(j)]
  BY <1>10
<1>12. ASSUME NEW j \in 1..all PROVE Plan[o][j].ip \in Addrs /\ Plan[o][j].port \in 1..MaxPort
  <2>1. \A a \in 1..i : ips[a] \in Addrs
    BY <1>4
  <2>2. \A b \in 1..n : ports[b] \in 1..MaxPort
    BY <1>4, ScannerAssumption
  <2> QED
    BY <1>9, <1>11, <2>1, <2>2
<1>13. ASSUME NEW j \in 1..all, NEW k \in 1..all,
              Plan[o][j].ip = Plan[o][k].ip, Plan[o][j].port = Plan[o][k].port
       PROVE  j = k
  <2>1. row(j) = row(k)
    BY <1>7, <1>9, <1>11, <1>13
  <2>2. col(j) = col(k)
    BY <1>8, <1>9, <1>11, <1>13
  <2> QED
    BY <1>9, <2>1, <2>2
<1>14. {<<Plan[o][j].ip, Plan[o][j].port>> : j \in 1..all} = AskedAddrs(o) \X AskedPorts(o)
  <2> DEFINE pairs == {<<Plan[o][j].ip, Plan[o][j].port>> : j \in 1..all}
  <2>1. ASSUME NEW j \in 1..all
        PROVE  <<Plan[o][j].ip, Plan[o][j].port>> \in AskedAddrs(o) \X AskedPorts(o)
    <3>1. ips[row(j)] \in AskedAddrs(o)
      BY <1>7, <1>9
    <3>2. ports[col(j)] \in AskedPorts(o)
      BY <1>8, <1>9
    <3> QED
      BY <1>11, <3>1, <3>2
  <2>2. ASSUME NEW x \in AskedAddrs(o), NEW p \in AskedPorts(o) PROVE <<x, p>> \in pairs
    <3>1. PICK a \in 1..i : ips[a] = x
      BY <1>7
    <3>2. PICK b \in 1..n : ports[b] = p
      BY <1>8
    <3>3. PICK j \in 1..all : row(j) = a /\ col(j) = b
      BY <1>9
    <3>4. Plan[o][j].ip = x /\ Plan[o][j].port = p
      BY <1>11, <3>1, <3>2, <3>3
    <3> QED
      BY <3>4
  <2> QED
    BY <2>1, <2>2
<1> QED
  BY <1>5, <1>6, <1>12, <1>13, <1>14, AskedIsBoth

-----------------------------------------------------------------------------
(* Open ports.                                                              *)

\* A host shows the ports that were accepted in this scan, each once, and in
\* order before enrich is over it in the order in which the answers came.
PortsOf(ip, ports) ==
  /\ ports \in Seq(1..MaxPort)
  /\ \A p \in 1..MaxPort : p \in ToSet(ports) <=> Said("accepted", ip, {p})
  /\ IsInjective(ports)

\* In ascending order.
InOrder(ports) == \A m, n \in DOMAIN ports : m < n => ports[m] < ports[n]

PortsAreHeard ==
  \A ip \in Addrs :
    /\ PortsOf(ip, scan.hosts[ip].ports)
    /\ run.pc \in {"none", "end"} => InOrder(scan.hosts[ip].ports)

\* A probe that has been started is one of the plan of the current scan.
LEMMA StartedIsPlanned ==
  ASSUME ScanInv, NEW j \in JobIds, probe[j] # "none"
  PROVE  /\ scan.number # 0 /\ scan.options \in Startable
         /\ j \in 1..JobCount(scan.options)
<1>1. scan.number # 0
  BY DEF ScanInv, Asking
<1>2. scan.options \in Startable /\ scan.total = JobCount(scan.options)
  BY <1>1 DEF ScanInv, Asking
<1>3. PICK t \in Nat : t = scan.total
  BY <1>2, PlanHasAllJobs, ScannerAssumption DEF JobIds
<1>4. j <= t
  <2>1. CASE scan.running
    <3>1. j < run.next /\ run.next \in 1..(t + 1)
      BY <1>3, <2>1 DEF ScanInv, Progress
    <3> QED
      BY <1>3, <3>1 DEF JobIds
  <2>2. CASE ~scan.running
    BY <1>3, <2>2 DEF ScanInv, Progress
  <2> QED
    BY <2>1, <2>2
<1> QED
  BY <1>1, <1>2, <1>3, <1>4 DEF JobIds

\* Two probes that have been started try different addresses or ports.
LEMMA ProbesDiffer ==
  ASSUME ScanInv, NEW j \in JobIds, NEW k \in JobIds, probe[j] # "none", probe[k] # "none",
         Plan[scan.options][j].ip = Plan[scan.options][k].ip,
         Plan[scan.options][j].port = Plan[scan.options][k].port
  PROVE  j = k
<1>1. /\ scan.options \in Startable
      /\ j \in 1..JobCount(scan.options) /\ k \in 1..JobCount(scan.options)
  BY StartedIsPlanned
<1>2. PICK o \in Startable : o = scan.options
  BY <1>1
<1> QED
  BY <1>1, <1>2, JobsAreAsked

\* Nothing has been said, and nothing is shown.
LEMMA NoneIsHeard ==
  ASSUME scan.hosts = NoHosts, \A j \in JobIds : answer[j] = "none"
  PROVE  PortsAreHeard
<1>1. ASSUME NEW ip \in Addrs PROVE scan.hosts[ip].ports = <<>>
  BY DEF NoHosts, NoHost
<1>2. \A ip \in Addrs : \A p \in 1..MaxPort : ~Said("accepted", ip, {p})
  BY DEF Said
<1>3. /\ <<>> \in Seq(1..MaxPort) /\ ToSet(<<>>) = {} /\ IsInjective(<<>>)
      /\ InOrder(<<>>)
  BY DEF ToSet, IsInjective, InOrder
<1> QED
  BY <1>1, <1>2, <1>3 DEF PortsAreHeard, PortsOf

\* Where neither the hosts nor the answers change.
LEMMA PortsStay ==
  ASSUME PortsAreHeard, scan'.hosts = scan.hosts, scan'.options = scan.options,
         answer' = answer, run'.pc \in {"none", "end"} => run.pc \in {"none", "end"}
  PROVE  PortsAreHeard'
BY DEF PortsAreHeard, PortsOf, Said

\* An answer other than that a port is open.
LEMMA ReportNoPort ==
  ASSUME ScanInv, PortsAreHeard, NEW j \in JobIds, NEW a \in {"silent", "refused"}, Report(j, a)
  PROVE  PortsAreHeard'
<1>1. /\ ScanShape /\ probe[j] = "dialling" /\ answer' = [answer EXCEPT ![j] = a]
      /\ answer \in [JobIds -> {"none", "silent", "refused", "accepted"}]
      /\ UNCHANGED run /\ answer[j] = "none"
  BY Zenon DEF ScanInv, ScanTypes, Answering, Report
<1>2. PICK ip : ip = Plan[scan.options][j].ip
  OBVIOUS
<1>3. PICK h : /\ scan' = [scan EXCEPT !.hosts[ip] = h]
               /\ ip \in Addrs => h.ports = scan.hosts[ip].ports
  <2>1. CASE a = "silent"
    BY <1>2, <2>1 DEF Report
  <2>2. CASE a = "refused"
    <3>1. PICK seen : seen = [scan.hosts[ip] EXCEPT !.reachable = TRUE]
      OBVIOUS
    <3>2. scan' = [scan EXCEPT !.hosts[ip] = seen]
      BY <1>2, <2>2, <3>1 DEF Report
    <3>3. ip \in Addrs => seen.ports = scan.hosts[ip].ports
      BY <1>1, <3>1 DEF ScanShape
    <3> QED
      BY <3>2, <3>3
  <2> QED
    BY <2>1, <2>2
<1>4. /\ scan'.options = scan.options
      /\ \A b \in Addrs : scan'.hosts[b].ports = scan.hosts[b].ports
  BY <1>1, <1>3 DEF ScanShape
<1>5. \A b \in Addrs : \A p \in 1..MaxPort :
        Said("accepted", b, {p})' <=> Said("accepted", b, {p})
  <2>1. \A k \in JobIds : answer'[k] = "accepted" <=> answer[k] = "accepted"
    BY <1>1
  <2> QED
    BY <1>4, <2>1 DEF Said
<1>6. ASSUME NEW b \in Addrs PROVE PortsOf(b, scan.hosts[b].ports)'
  <2>1. PICK shown : shown = scan.hosts[b].ports /\ shown = scan'.hosts[b].ports
    BY <1>4
  <2>2. PortsOf(b, shown)
    BY <2>1 DEF PortsAreHeard
  <2> QED
    BY <1>5, <2>1, <2>2 DEF PortsOf
<1>7. ASSUME NEW b \in Addrs, run.pc \in {"none", "end"} PROVE InOrder(scan.hosts[b].ports)'
  <2>1. InOrder(scan.hosts[b].ports)
    BY <1>7 DEF PortsAreHeard
  <2> QED
    BY <1>4, <2>1 DEF InOrder
<1> QED
  BY <1>1, <1>6, <1>7 DEF PortsAreHeard

\* A port is open: it is one that the host does not show yet.
LEMMA ReportPort ==
  ASSUME ScanInv, PortsAreHeard, NEW j \in JobIds, Report(j, "accepted")
  PROVE  PortsAreHeard'
<1>1. /\ ScanShape /\ probe[j] = "dialling" /\ answer' = [answer EXCEPT ![j] = "accepted"]
      /\ answer \in [JobIds -> {"none", "silent", "refused", "accepted"}]
      /\ UNCHANGED run /\ answer[j] = "none"
  BY Zenon DEF ScanInv, ScanTypes, Answering, Report
<1>2. PICK ip, port : ip = Plan[scan.options][j].ip /\ port = Plan[scan.options][j].port
  OBVIOUS
<1>3. ip \in Addrs /\ port \in 1..MaxPort
  <2>1. PICK o \in Startable : o = scan.options /\ j \in 1..JobCount(o)
    BY <1>1, StartedIsPlanned
  <2> QED
    BY <1>2, <2>1, JobsAreAsked
<1>4. run.pc \in {"launch", "wait"}
  BY <1>1, ProbeRuns DEF InFlight
<1>5. PICK ports : ports = scan.hosts[ip].ports
  OBVIOUS
<1>6. PICK more : more = Append(ports, port)
  BY Zenon
<1>7. scan' = [scan EXCEPT !.hosts[ip] = [reachable |-> TRUE, ports |-> more]]
  BY <1>2, <1>5, <1>6, Zenon DEF Report
<1>8. /\ scan'.options = scan.options
      /\ \A b \in Addrs : scan'.hosts[b].ports = IF b = ip THEN more ELSE scan.hosts[b].ports
  <2>1. PICK seen : seen = [reachable |-> TRUE, ports |-> more]
    OBVIOUS
  <2>2. scan' = [scan EXCEPT !.hosts[ip] = seen] /\ seen.ports = more
    BY <1>7, <2>1
  <2> QED
    BY <1>1, <2>2 DEF ScanShape
<1>9. PortsOf(ip, ports)
  BY <1>3, <1>5 DEF PortsAreHeard
<1>10. port \notin ToSet(ports)
  <2> SUFFICES ASSUME port \in ToSet(ports) PROVE FALSE
    OBVIOUS
  <2>1. Said("accepted", ip, {port})
    BY <1>3, <1>9 DEF PortsOf
  <2>2. PICK k \in JobIds : /\ answer[k] = "accepted" /\ Plan[scan.options][k].ip = ip
                            /\ Plan[scan.options][k].port = port
    BY <2>1 DEF Said
  <2>3. probe[k] # "none"
    BY <2>2 DEF ScanInv, Answering
  <2>4. k = j
    BY <1>1, <1>2, <2>2, <2>3, ProbesDiffer
  <2> QED
    BY <1>1, <2>2, <2>4
<1>11. /\ more \in Seq(1..MaxPort) /\ IsInjective(more)
       /\ ToSet(more) = ToSet(ports) \cup {port}
  <2>1. PICK n \in Nat : n = Len(ports) /\ DOMAIN ports = 1..n
    BY <1>9 DEF PortsOf
  <2>2. /\ more \in Seq(1..MaxPort) /\ DOMAIN more = 1..(n + 1)
        /\ more[n + 1] = port /\ \A i \in 1..n : more[i] = ports[i]
    BY <1>3, <1>6, <1>9, <2>1 DEF PortsOf
  <2>3. \A i \in 1..n : ports[i] # port
    BY <1>10, <2>1 DEF ToSet
  <2>4. \A a, b \in 1..n : ports[a] = ports[b] => a = b
    BY <1>9, <2>1 DEF PortsOf, IsInjective
  <2>5. \A a \in 1..(n + 1) : a \in 1..n \/ a = n + 1
    OBVIOUS
  <2>6. IsInjective(more)
    BY <2>2, <2>3, <2>4, <2>5 DEF IsInjective
  <2>7. ToSet(more) = ToSet(ports) \cup {port}
    <3>1. \A i \in 1..n : i \in 1..(n + 1)
      OBVIOUS
    <3>2. n + 1 \in 1..(n + 1)
      OBVIOUS
    <3> QED
      BY <2>1, <2>2, <2>5, <3>1, <3>2 DEF ToSet
  <2> QED
    BY <2>2, <2>6, <2>7
<1>12. ASSUME NEW b \in Addrs, NEW p \in 1..MaxPort
       PROVE  Said("accepted", b, {p})' <=> Said("accepted", b, {p}) \/ (b = ip /\ p = port)
  <2>1. \A k \in JobIds : answer'[k] = "accepted" <=> answer[k] = "accepted" \/ k = j
    BY <1>1
  <2> QED
    BY <1>2, <1>8, <2>1 DEF Said
<1>13. ASSUME NEW b \in Addrs PROVE PortsOf(b, scan.hosts[b].ports)'
  <2>1. PICK shown : shown = scan'.hosts[b].ports
    OBVIOUS
  <2>2. CASE b = ip
    <3>1. /\ shown \in Seq(1..MaxPort) /\ IsInjective(shown)
          /\ \A p : p \in ToSet(shown) <=> p \in ToSet(ports) \/ p = port
      BY <1>8, <1>11, <2>1, <2>2
    <3>2. \A p \in 1..MaxPort : p \in ToSet(shown) <=> Said("accepted", b, {p})'
      BY <1>9, <1>12, <2>2, <3>1 DEF PortsOf
    <3> QED
      BY <2>1, <3>1, <3>2 DEF PortsOf
  <2>3. CASE b # ip
    <3>1. PortsOf(b, shown)
      BY <1>8, <2>1, <2>3 DEF PortsAreHeard
    <3>2. \A p \in 1..MaxPort : p \in ToSet(shown) <=> Said("accepted", b, {p})'
      BY <1>12, <2>3, <3>1, Zenon DEF PortsOf
    <3> QED
      BY <2>1, <3>1, <3>2 DEF PortsOf
  <2> QED
    BY <2>2, <2>3
<1>14. ~(run'.pc \in {"none", "end"})
  BY <1>1, <1>4
<1> QED
  BY <1>13, <1>14 DEF PortsAreHeard

\* The ports of every host are put in order.
LEMMA EnrichOrders ==
  ASSUME ScanInv, PortsAreHeard, Enrich
  PROVE  PortsAreHeard'
<1>1. ScanShape /\ UNCHANGED answer
  BY DEF ScanInv, Enrich, RunProceeds
<1>2. scan' = [scan EXCEPT !.hosts =
        [a \in Addrs |-> [scan.hosts[a] EXCEPT !.ports = Sorted(scan.hosts[a].ports)]]]
  BY DEF Enrich
<1>3. /\ scan'.options = scan.options
      /\ \A a \in Addrs : scan'.hosts[a].ports = Sorted(scan.hosts[a].ports)
  BY <1>1, <1>2 DEF ScanShape
<1>4. ASSUME NEW a \in Addrs
      PROVE  PortsOf(a, scan.hosts[a].ports)' /\ InOrder(scan.hosts[a].ports)'
  <2>1. PICK ports : ports = scan.hosts[a].ports /\ PortsOf(a, ports)
    BY DEF PortsAreHeard
  <2>2. PICK sorted : sorted = Sorted(ports) /\ sorted = scan'.hosts[a].ports
    BY <1>3, <2>1
  <2>3. MaxPort \in Nat
    BY ScannerAssumption
  <2>4. ports \in Seq(1..MaxPort)
    BY <2>1 DEF PortsOf
  <2>5. PICK n \in Nat : n = Len(ports) /\ ports \in [1..n -> 1..MaxPort]
    BY <2>3, <2>4
  <2>6. ports \in Seq(0..MaxPort) /\ IsInjective(ports)
    BY <2>1, <2>3, <2>5 DEF PortsOf
  <2>7. /\ sorted \in Seq(0..MaxPort) /\ IsInjective(sorted) /\ InOrder(sorted)
        /\ \A k \in 0..MaxPort : k \in ToSet(sorted) <=> k \in ToSet(ports)
    BY <2>2, <2>3, <2>6, SortedOrders DEF InOrder
  <2>8. PICK m \in Nat : sorted \in [1..m -> 0..MaxPort]
    BY <2>3, <2>7
  <2>9. \A k \in ToSet(ports) : k \in 1..MaxPort
    BY <2>5 DEF ToSet
  <2>10. \A i \in 1..m : sorted[i] \in 1..MaxPort
    BY <2>7, <2>8, <2>9 DEF ToSet
  <2>11. sorted \in Seq(1..MaxPort)
    BY <2>3, <2>8, <2>10
  <2>12. \A p \in 1..MaxPort : p \in ToSet(sorted) <=> Said("accepted", a, {p})
    <3>1. \A p \in 1..MaxPort : p \in 0..MaxPort
      BY <2>3
    <3> QED
      BY <2>1, <2>7, <3>1 DEF PortsOf
  <2>13. \A p \in 1..MaxPort : Said("accepted", a, {p})' <=> Said("accepted", a, {p})
    BY <1>1, <1>3 DEF Said
  <2>14. PortsOf(a, scan.hosts[a].ports)'
    BY <2>2, <2>7, <2>11, <2>12, <2>13 DEF PortsOf
  <2>15. InOrder(scan.hosts[a].ports)'
    BY <2>2, <2>7 DEF InOrder
  <2> QED
    BY <2>14, <2>15
<1> QED
  BY <1>4 DEF PortsAreHeard

\* Every step leaves the hosts with the ports that were accepted.
LEMMA PortsStep ==
  ASSUME IInv, PortsAreHeard, [Next]_vars
  PROVE  PortsAreHeard'
<1>1. ScanInv /\ PanelTypes /\ ScanShape
  BY DEF IInv, ScanInv
<1>2. ASSUME NEW c \in Callers, Request(c) PROVE PortsAreHeard'
  <2>1. PICK r \in ReqType :
          \/ UNCHANGED scanVars
          \/ Start(r.options)
          \/ UNCHANGED <<scan, run, probe, answer>>
    BY <1>1, <1>2, RequestEffect
  <2>2. CASE Start(r.options)
    <3>1. scan'.hosts = NoHosts /\ \A j \in JobIds : answer'[j] = "none"
      BY <2>2 DEF Start
    <3>2. (scan.hosts = NoHosts /\ (\A j \in JobIds : answer[j] = "none") => PortsAreHeard)'
      BY NoneIsHeard, PTL
    <3> QED
      BY <3>1, <3>2
  <2>3. CASE UNCHANGED <<scan, run, answer>>
    BY <2>3, PortsStay
  <2> QED
    BY <2>1, <2>2, <2>3 DEF scanVars
<1>3. ASSUME NEW c \in Callers, Handle(c) PROVE PortsAreHeard'
  <2>1. scan' = scan /\ answer' = answer /\ run'.pc = run.pc
    <3>1. CASE StopScan(c)
      <4>1. run \in [pc : {"none", "launch", "wait", "enrich", "end"}, next : Nat,
                     cancelled : BOOLEAN]
        BY <1>1 DEF ScanInv, ScanTypes
      <4> QED
        BY <3>1, <4>1 DEF StopScan, Cancel
    <3>2. CASE UNCHANGED scanVars
      BY <3>2 DEF scanVars
    <3> QED
      BY <1>3, <3>1, <3>2 DEF Handle, ReadPrevious, Configure, Notify, SetDetection, Rollback,
                              NotifyRollback, SetScan
  <2> QED
    BY <2>1, PortsStay
<1>4. ASSUME RunStep PROVE PortsAreHeard'
  <2>1. run \in [pc : {"none", "launch", "wait", "enrich", "end"}, next : Nat,
                 cancelled : BOOLEAN]
    BY <1>1 DEF ScanInv, ScanTypes
  <2>2. CASE Launch
    BY <2>1, <2>2, PortsStay DEF Launch, HasJob
  <2>3. CASE LaunchCancelled \/ LaunchDone \/ Wait
    BY <2>1, <2>3, PortsStay DEF LaunchCancelled, LaunchDone, Wait, RunProceeds
  <2>4. CASE Enrich
    BY <1>1, <2>4, EnrichOrders
  <2>5. CASE End
    <3>1. scan'.hosts = scan.hosts /\ scan'.options = scan.options
      BY <1>1, <2>5 DEF End, ScanShape
    <3> QED
      BY <2>5, <3>1, PortsStay DEF End
  <2> QED
    BY <1>4, <2>2, <2>3, <2>4, <2>5 DEF RunStep
<1>5. ASSUME NEW j \in JobIds, ProbeStep(j) PROVE PortsAreHeard'
  <2>1. CASE Leave(j)
    <3>1. scan'.hosts = scan.hosts /\ scan'.options = scan.options
      BY <1>1, <2>1 DEF Leave, ScanShape
    <3> QED
      BY <2>1, <3>1, PortsStay DEF Leave
  <2>2. CASE \E a \in {"silent", "refused", "accepted"} : Report(j, a)
    <3>1. \/ Report(j, "accepted")
          \/ \E a \in {"silent", "refused"} : Report(j, a)
      BY <2>2
    <3> QED
      BY <1>1, <3>1, ReportPort, ReportNoPort
  <2> QED
    BY <1>5, <2>1, <2>2 DEF ProbeStep
<1>6. ASSUME Restart PROVE PortsAreHeard'
  <2>1. scan'.hosts = NoHosts /\ \A j \in JobIds : answer'[j] = "none"
    BY <1>1, <1>6 DEF Restart, ScanShape
  <2>2. (scan.hosts = NoHosts /\ (\A j \in JobIds : answer[j] = "none") => PortsAreHeard)'
    BY NoneIsHeard, PTL
  <2> QED
    BY <2>1, <2>2
<1>7. CASE UNCHANGED vars
  BY <1>7, PortsStay DEF vars, scanVars
<1> QED
  BY <1>2, <1>3, <1>4, <1>5, <1>6, <1>7 DEF Next

\* PortsAreHeard holds in every reachable state.
LEMMA PortsInductive == Spec => []PortsAreHeard
<1>1. Init => PortsAreHeard
  <2>1. ASSUME Init PROVE scan.hosts = NoHosts /\ \A j \in JobIds : answer[j] = "none"
    BY <2>1 DEF Init, ScanInit
  <2> QED
    BY <2>1, NoneIsHeard
<1>2. IInv /\ PortsAreHeard /\ [Next]_vars => PortsAreHeard'
  BY PortsStep
<1> QED
  BY <1>1, <1>2, Inductive, PTL DEF Spec

\* A scan that has ended, and that nobody stopped while it ran, has tried every
\* address and port that its options name, each once; at any time it shows the
\* hosts that have answered it, and of each the ports that were accepted, each
\* once and, when it has ended, in ascending order (Scanner.Start, run, probe,
\* enrich; expandCIDR and ParsePorts).
THEOREM ScansAreThorough == Spec => []ScanIsThorough
<1>1. ASSUME IInv, PortsAreHeard, ScanTriesItsPlan PROVE ScanIsThorough
  <2> SUFFICES ASSUME scan.number > 0 PROVE
         /\ scan.done = Cardinality(Over)
         /\ Cardinality(InFlight) <= scan.options.concurrency
         /\ ~scan.running => InFlight = {}
         /\ ~scan.running /\ ~stopped =>
              /\ scan.done = scan.total
              /\ {<<Plan[scan.options][j].ip, Plan[scan.options][j].port>> : j \in Over}
                   = AskedBy[scan.options]
         /\ \A ip \in Addrs :
              LET h == scan.hosts[ip]
              IN  /\ h.reachable <=> Said("accepted", ip, 1..MaxPort)
                                     \/ Said("refused", ip, 1..MaxPort)
                  /\ \A p \in 1..MaxPort : p \in ToSet(h.ports) <=> Said("accepted", ip, {p})
                  /\ IsInjective(h.ports)
                  /\ ~scan.running =>
                       \A m, n \in DOMAIN h.ports : m < n => h.ports[m] < h.ports[n]
    BY DEF ScanIsThorough, Over
  <2>1. ScanInv /\ scan.number # 0
    BY <1>1 DEF IInv, ScanInv, ScanTypes
  <2>2. PICK o \in Startable : o = scan.options
    BY <2>1 DEF ScanInv, Asking
  <2>3. /\ scan.done = Cardinality(Over)
        /\ Cardinality(InFlight) <= scan.options.concurrency
        /\ ~scan.running => InFlight = {}
        /\ ~scan.running /\ ~stopped => scan.done = scan.total /\ Over = DOMAIN Plan[o]
        /\ \A ip \in Addrs : scan.hosts[ip].reachable <=> Heard(ip)
    BY <1>1, <2>2 DEF ScanTriesItsPlan
  <2>4. DOMAIN Plan[o] = 1..JobCount(o)
    BY PlanHasAllJobs
  <2>5. AskedBy[o] = Asked(o)
    BY DEF AskedBy, Plan, Startable
  <2>6. ASSUME ~scan.running, ~stopped
        PROVE  {<<Plan[o][j].ip, Plan[o][j].port>> : j \in Over} = AskedBy[o]
    <3>1. Over = 1..JobCount(o)
      BY <2>3, <2>4, <2>6
    <3> QED
      BY <2>5, <3>1, JobsAreAsked
  <2>7. ASSUME NEW ip \in Addrs
        PROVE  Heard(ip) <=> Said("accepted", ip, 1..MaxPort) \/ Said("refused", ip, 1..MaxPort)
    <3>1. ASSUME NEW j \in JobIds, answer[j] \in {"accepted", "refused"}
          PROVE  Plan[scan.options][j].port \in 1..MaxPort
      <4>1. probe[j] # "none"
        BY <2>1, <3>1 DEF ScanInv, Answering
      <4>2. j \in 1..JobCount(o)
        BY <2>1, <2>2, <4>1, StartedIsPlanned
      <4> QED
        BY <2>2, <4>2, JobsAreAsked
    <3> QED
      BY <3>1 DEF Heard, Said
  <2>8. ASSUME NEW ip \in Addrs
        PROVE  /\ \A p \in 1..MaxPort :
                    p \in ToSet(scan.hosts[ip].ports) <=> Said("accepted", ip, {p})
               /\ IsInjective(scan.hosts[ip].ports)
               /\ ~scan.running => InOrder(scan.hosts[ip].ports)
    <3>1. ~scan.running => run.pc = "none"
      BY <2>1 DEF ScanInv, Progress
    <3> QED
      BY <1>1, <3>1 DEF PortsAreHeard, PortsOf
  <2> QED
    BY <2>2, <2>3, <2>6, <2>7, <2>8 DEF InOrder
<1> QED
  BY <1>1, Inductive, PortsInductive, ScansTryTheirPlan, PTL

=============================================================================
