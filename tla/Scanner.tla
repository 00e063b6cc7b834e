------------------------------ MODULE Scanner ------------------------------
(***************************************************************************)
(* The port scanner (src/internal/scan/scan.go, ports.go): what a scan is  *)
(* asked to try, the goroutine that starts a probe for each address and    *)
(* port, no more at a time than Concurrency, the probes, which the network *)
(* answers in any order, and Stop, which reads the cancel function and     *)
(* calls it only later.                                                    *)
(*                                                                         *)
(* Addresses have AddrBits bits.  Names, banners, MAC addresses and the    *)
(* texts the options are parsed from are not modelled.                     *)
(***************************************************************************)
EXTENDS Integers, SequencesExt

CONSTANTS
  AddrBits,     \* 32
  MaxHosts,     \* maxHosts
  MaxPort,      \* 65535
  MaxRange,     \* 10000, the width a range of ports may have
  DefaultPorts, \* what no ports at all stand for
  Options,      \* what a scan may be asked for: [addr, ones, ports, concurrency]
  MaxJobs       \* bound on the probes of one scan

VARIABLES
  scan,   \* the fields of Scanner: number (history), running, the scan that
          \* cancel cancels, options, total, done, hosts
  run,    \* Scanner.run: its step, the next probe, whether its context is done
  probe,  \* the goroutines of the current scan
  answer, \* what the network said to each
  stopped \* history: Stop has read the cancel function of the current scan

scanVars == <<scan, run, probe, answer, stopped>>

\* 1 << n.
TwoTo[n \in 0..AddrBits] == IF n = 0 THEN 1 ELSE 2 * TwoTo[n - 1]

Addrs == 0..(TwoTo[AddrBits] - 1)
JobIds == 1..MaxJobs

-----------------------------------------------------------------------------
(* What a scan tries.                                                       *)

SubnetSize(o) == TwoTo[AddrBits - o.ones]

\* Without the addresses of the network and of broadcast, if it has more than
\* two.
expandCIDR(o) ==
  LET size == SubnetSize(o)
      base == o.addr - (o.addr % size)
  IN  IF size > 2 THEN [i \in 1..(size - 2) |-> base + i]
                  ELSE [i \in 1..size |-> base + i - 1]

\* A range may be written from its end to its beginning.
InRange(p) == {n \in 0..(MaxPort + 1) : (p.lo <= n /\ n <= p.hi) \/ (p.hi <= n /\ n <= p.lo)}

Width(p) == IF p.lo <= p.hi THEN p.hi - p.lo ELSE p.lo - p.hi

\* The same numbers in ascending order.
Sorted(ports) ==
  LET order == CHOOSE p \in Bijection(DOMAIN ports, DOMAIN ports) :
                 \A m, n \in DOMAIN ports : m < n => ports[p[m]] <= ports[p[n]]
  IN  [k \in DOMAIN ports |-> ports[order[k]]]

\* Each port once, in ascending order.
ParsePorts(parts) ==
  Sorted(SetToSeq(IF parts = <<>> THEN DefaultPorts
                  ELSE UNION {InRange(parts[k]) : k \in DOMAIN parts}))

\* Neither expandCIDR nor ParsePorts returns an error.
Valid(o) ==
  /\ SubnetSize(o) <= MaxHosts
  /\ \A k \in DOMAIN o.ports :
       Width(o.ports[k]) <= MaxRange /\ InRange(o.ports[k]) \subseteq 1..MaxPort

\* All ports of an address, then those of the next.
Jobs(o) ==
  LET ips == expandCIDR(o)
      ports == ParsePorts(o.ports)
  IN  [k \in 1..(Len(ips) * Len(ports)) |->
         [ip |-> ips[1 + ((k - 1) \div Len(ports))], port |-> ports[1 + ((k - 1) % Len(ports))]]]

NoOptions == [addr |-> 0, ones |-> AddrBits, ports |-> <<>>, concurrency |-> 1]

\* The probes of each scan that may be started.
Plan == [o \in {p \in Options : Valid(p)} \cup {NoOptions} |-> Jobs(o)]

ASSUME ScannerAssumption ==
  /\ {AddrBits, MaxHosts, MaxPort, MaxRange, MaxJobs} \subseteq Nat
  /\ DefaultPorts \subseteq 1..MaxPort /\ DefaultPorts # {}
  /\ \A o \in Options :
       /\ o.addr \in Addrs /\ o.ones \in 0..AddrBits /\ o.concurrency \in Nat \ {0}
       /\ \A k \in DOMAIN o.ports : {o.ports[k].lo, o.ports[k].hi} \subseteq 0..(MaxPort + 1)
       /\ Valid(o) => Len(expandCIDR(o)) * Len(ParsePorts(o.ports)) \in JobIds

-----------------------------------------------------------------------------
NoHost == [reachable |-> FALSE, ports |-> <<>>]
NoHosts == [a \in Addrs |-> NoHost]
NoRun == [pc |-> "none", next |-> 1, cancelled |-> FALSE]
ScanInit ==
  /\ scan = [number |-> 0, running |-> FALSE, cancel |-> 0, options |-> NoOptions,
             total |-> 0, done |-> 0, hosts |-> NoHosts]
  /\ run = NoRun
  /\ probe = [j \in JobIds |-> "none"] /\ answer = [j \in JobIds |-> "none"]
  /\ stopped = FALSE

CanStart(o) == Valid(o) /\ ~scan.running

\* Faulty: goes on counting where the last scan ended.
StartKeepsDone(o) ==
  /\ CanStart(o)
  /\ scan' = [scan EXCEPT !.number = @ + 1, !.running = TRUE, !.cancel = scan.number + 1,
                          !.options = o, !.hosts = NoHosts,
                          !.total = Len(expandCIDR(o)) * Len(ParsePorts(o.ports))]
  /\ run' = [NoRun EXCEPT !.pc = "launch"]
  /\ probe' = [j \in JobIds |-> "none"] /\ answer' = [j \in JobIds |-> "none"]
  /\ stopped' = FALSE

Start(o) ==
  /\ CanStart(o)
  /\ scan' = [number |-> scan.number + 1, running |-> TRUE, cancel |-> scan.number + 1,
              options |-> o, total |-> Len(expandCIDR(o)) * Len(ParsePorts(o.ports)),
              done |-> 0, hosts |-> NoHosts]
  /\ run' = [NoRun EXCEPT !.pc = "launch"]
  /\ probe' = [j \in JobIds |-> "none"] /\ answer' = [j \in JobIds |-> "none"]
  /\ stopped' = FALSE

\* Faulty: stops the scan that runs by now.
CancelAny(n) ==
  /\ run' = [run EXCEPT !.cancelled = @ \/ scan.running]
  /\ UNCHANGED <<scan, probe, answer, stopped>>

\* The cancel function of scan n is called; that scan may be over.
Cancel(n) ==
  /\ run' = [run EXCEPT !.cancelled = @ \/ (scan.running /\ n = scan.number)]
  /\ UNCHANGED <<scan, probe, answer, stopped>>

InFlight == {j \in JobIds : probe[j] \in {"dialling", "reported"}}

HasJob == run.pc = "launch" /\ run.next <= Len(Plan[scan.options])

\* A place is free.  If the context is done too, select takes either case.
Launch ==
  /\ HasJob /\ Cardinality(InFlight) < scan.options.concurrency
  /\ probe' = [probe EXCEPT ![run.next] = "dialling"]
  /\ run' = [run EXCEPT !.next = @ + 1]
  /\ UNCHANGED <<scan, answer, stopped>>

RunProceeds(from, to) ==
  run.pc = from /\ run' = [run EXCEPT !.pc = to] /\ UNCHANGED <<probe, answer, stopped>>

LaunchCancelled == HasJob /\ run.cancelled /\ RunProceeds("launch", "wait") /\ UNCHANGED scan

LaunchDone == ~HasJob /\ RunProceeds("launch", "wait") /\ UNCHANGED scan

Wait == InFlight = {} /\ RunProceeds("wait", "enrich") /\ UNCHANGED scan

Enrich ==
  /\ RunProceeds("enrich", "end")
  /\ scan' = [scan EXCEPT !.hosts =
       [a \in Addrs |-> [scan.hosts[a] EXCEPT !.ports = Sorted(@)]]]

\* The deferred function of run.
End ==
  /\ run.pc = "end" /\ run' = NoRun
  /\ scan' = [scan EXCEPT !.running = FALSE, !.cancel = 0]
  /\ UNCHANGED <<probe, answer, stopped>>

\* A refusal shows that the host is there; silence shows nothing, and neither
\* does a dial that was cancelled.
Report(j, a) ==
  LET job == Plan[scan.options][j]
      h == scan.hosts[job.ip]
  IN  /\ probe[j] = "dialling"
      /\ probe' = [probe EXCEPT ![j] = "reported"]
      /\ answer' = [answer EXCEPT ![j] = a]
      /\ scan' = [scan EXCEPT !.hosts[job.ip] =
           CASE a = "silent"   -> h
             [] a = "refused"  -> [h EXCEPT !.reachable = TRUE]
             [] a = "accepted" -> [reachable |-> TRUE, ports |-> Append(h.ports, job.port)]]
      /\ UNCHANGED <<run, stopped>>

\* Faulty: the place is kept.
LeaveUncounted(j) ==
  /\ probe[j] = "reported" /\ answer[j] # "silent"
  /\ probe' = [probe EXCEPT ![j] = "over"]
  /\ scan' = [scan EXCEPT !.done = @ + 1]
  /\ UNCHANGED <<run, answer, stopped>>

\* The probe is counted; then the deferred functions give the place back.
Leave(j) ==
  /\ probe[j] = "reported"
  /\ probe' = [probe EXCEPT ![j] = "over"]
  /\ scan' = [scan EXCEPT !.done = @ + 1]
  /\ UNCHANGED <<run, answer, stopped>>

RunStep == Launch \/ LaunchCancelled \/ LaunchDone \/ Wait \/ Enrich \/ End

ProbeStep(j) == Leave(j) \/ \E a \in {"silent", "refused", "accepted"} : Report(j, a)

\* The run is a goroutine, and its probes have timeouts.
ScanFairness == WF_scanVars(RunStep) /\ \A j \in JobIds : WF_scanVars(ProbeStep(j))

-----------------------------------------------------------------------------
(* Properties.                                                              *)

ScanTypeOK ==
  /\ scan.running \in BOOLEAN /\ scan.cancel \in 0..scan.number
  /\ scan.total \in Nat /\ scan.done \in 0..scan.total
  /\ \A a \in Addrs : scan.hosts[a].reachable \in BOOLEAN
  /\ run.pc \in {"none", "launch", "wait", "enrich", "end"} /\ run.cancelled \in BOOLEAN
  /\ probe \in [JobIds -> {"none", "dialling", "reported", "over"}]
  /\ answer \in [JobIds -> {"none", "silent", "refused", "accepted"}]

\* The addresses and ports that the options name: those of the subnet, but not
\* its first and its last if it has more than two; every port of every range.
Asked(o) ==
  LET subnet == {a \in Addrs : a \div SubnetSize(o) = o.addr \div SubnetSize(o)}
      outer == {a \in subnet : (\A b \in subnet : b <= a) \/ (\A b \in subnet : a <= b)}
      ports == IF o.ports = <<>> THEN DefaultPorts
               ELSE {n \in 1..MaxPort : \E k \in DOMAIN o.ports : n \in InRange(o.ports[k])}
  IN  (IF Cardinality(subnet) > 2 THEN subnet \ outer ELSE subnet) \X ports

AskedBy == [o \in DOMAIN Plan |-> Asked(o)]

Said(a, ip, ports) ==
  \E j \in JobIds : /\ answer[j] = a /\ Plan[scan.options][j].ip = ip
                    /\ Plan[scan.options][j].port \in ports

\* A scan that has ended, and that nobody stopped while it ran, has tried
\* everything it was asked to, each port once, and its progress says so; and at
\* any time what it shows is what the network has said to this scan and to no
\* earlier one, every open port once and, at the end, in order
\* (README.md; scan.go:133, "what has been found stays").
ScanIsThorough ==
  scan.number > 0 =>
    LET over == {j \in JobIds : probe[j] = "over"}
    IN  /\ scan.done = Cardinality(over)
        /\ Cardinality(InFlight) <= scan.options.concurrency
        /\ ~scan.running => InFlight = {}
        /\ ~scan.running /\ ~stopped =>
             /\ scan.done = scan.total
             /\ {<<Plan[scan.options][j].ip, Plan[scan.options][j].port>> : j \in over}
                  = AskedBy[scan.options]
        /\ \A ip \in Addrs :
             LET h == scan.hosts[ip]
             IN  /\ h.reachable <=> Said("accepted", ip, 1..MaxPort)
                                    \/ Said("refused", ip, 1..MaxPort)
                 /\ \A p \in 1..MaxPort : p \in ToSet(h.ports) <=> Said("accepted", ip, {p})
                 /\ IsInjective(h.ports)
                 /\ ~scan.running => \A m, n \in DOMAIN h.ports : m < n => h.ports[m] < h.ports[n]

\* A scan ends: with every answer or its timeout, stopped or not.
ScanEnds == scan.running ~> ~scan.running

=============================================================================
