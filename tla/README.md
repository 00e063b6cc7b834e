# CTF-ProxyUtils: a TLA+ model of its forwarding core

CTF-ProxyUtils is one Go program: a set of forwarding rules (TCP and UDP), health
checks with failover, a store of captured traffic, a traffic detector, a network
scanner, and a web panel in front of them. These modules model the parts whose
correctness depends on the order in which goroutines run, check them with TLC on
small instances, and prove the most important invariants with TLAPS for every value
of the constants.

## Inventory

| Part (under `src/internal`) | State | Operations | What is hard | Correct means |
|---|---|---|---|---|
| Rule, TCP (`proxy/rule.go`, `proxy/manager.go`, `proxy/health.go`) | `running`, listener, context, `conns`, `activeConns`, two WaitGroups, health goroutine, `spec` | Start, Stop, update, accept, handle, pipe | Every goroutine may stand anywhere when a stop or an update comes; each step of an update can fail | Stop leaves nothing; updates are all or nothing; the counters are exact; no call hangs |
| Health and failover (`proxy/health.go`) | `targetUp`, `backupUp`, streaks, `usingBackup`, routing mode | probe, note an outcome, decide, set mode, update | Outcomes of checks and client dials share the streaks and come late | The route is what the rules ask for; manual choices hold; flips are earned |
| Capture store (`proxy/dump.go`) | captures, tokens of writers, limits, pins | Begin, Write, Finish, Resize, SetPinned, MarkFinding, Clear | Writers outlive captures; limits change below what is stored | Bounded; pins protect; what is stored is a gapless prefix |
| UDP forwarding (`proxy/udp.go`) | sessions by client address | datagram in, reply, idle expiry, failover | Expiry races a datagram; three paths change `activeConns` | Sessions, readers and counters agree |
| Manager (`proxy/manager.go`) | rules by ID, order | Add, Update, Delete, LoadSpecs, ReplaceSpecs, StopAll | Rollback that fails; notification outside the lock | Ports unique; nothing lost in a rollback |
| Configuration (`config/config.go`) | `config.json` | Load, save (temporary file, rename) | Two saves out of order; a crash between steps; boot with a busy port | The file holds the last state |
| Detector (`proxy/detect.go`) | queue of 1024 events, sessions, findings | Begin, Observe, End, Configure, cleanup | The queue drops events; cleanup forgets live sessions | Findings bounded, numbered without gaps, scored as the sum of their signals; no detector scores a connection twice; a text is found across chunks and only in its own connection; only deserving captures are rated and pinned |
| Journal (`proxy/events.go`) | ring of 200 events | add, list | the limit | newest 200, in order |
| Metrics (`web/metrics.go`) | previous counters per rule, 300 samples | observe | counters reset when a rule is replaced | no negative rate |
| Scanner (`scan/*.go`) | running scan, progress, hosts | Start, Stop, probe, enrich | Stop races workers; late answers | A scan tries exactly what was asked, shows its own answers only, and ends |
| Web API and panel (`web/*`) | none of its own that the core relies on | HTTP handlers | read-modify-write handlers (`handleProfile`, `applyDetectionConfig`), saves that fail | A change of settings is whole or taken back |
| `cmd/ctf-proxyutils/main.go` | - | boot, shutdown | order of load, save and serve | - |

How they interact: `main` loads the configuration and calls `Manager.LoadSpecs`; web
handlers call the manager, which serialises changes with `opMu` and then takes the
`lifeMu` of one rule; the goroutines of a rule share its state under `Rule.mu`; handlers
report dial outcomes to the failover logic and bytes to the capture store; the store's
writers hand the bytes to the detector's queue; the detector's hook marks and pins
captures; and the manager notifies the configuration after every change, which saves
the specs it finds at that time.

## Modules

- **RuleLifecycle** models one TCP rule as `startLocked`, `stopLocked`, `updateLocked`,
  `acceptLoop`, `handle`, `pipe` and the health goroutine run it. Each section the code
  runs under `Rule.mu`, and each blocking call, is one action; `life` is `lifeMu`.
  `pc[c]` and `op[c]` are a caller's next step and the locals of its call. A *generation*
  is one context with its listener: `sock[g]`, `acceptor[g]`, `cancelled`. `handler[k]`
  is a connection's goroutine with its two sockets, `pipe[k][d]` its two copying
  goroutines. `StopHealth`/`WaitHealth` are `stopHealthLocked`, called by `stopLocked`
  and by `updateLocked`. Binding may always fail (another program holds the port) and
  succeeds only on an address clear of the rule's own sockets, which is what makes
  `updateLocked` stop the old listener and try again. Operators whose comment begins
  with "Faulty" are variants that no specification uses; they show what each property
  would notice.
- **RuleService** is the abstract specification of the same component: a service that is
  up or down, has one configuration, and has members that join only while it is up and
  within the limit; it opens only when nothing of the last time is left, and its address
  never changes under its members. RuleLifecycle implements it with `up <- running`,
  `cfg <- spec`, `members <- conns`.
- **Failover** models `noteEndpointProbe`, `noteProbeLocked`, `decideFailoverLocked`,
  `setRoutingModeLocked`, the swap of `updateLocked`, the health worker's loop and the
  client dials that report to it. What an endpoint does with a connection (`service`) is
  the environment: refuses it, accepts it, or also gives the answer a check expects.
  `Update` is the swap together with the stop and start of the worker, which
  RuleLifecycle has step by step; `Restart` is a stop and a start.
- **FailoverHistory** adds two history variables that only observe: the run of equal
  outcomes counted for each endpoint, and the run of failed checks of the target.
- **FailoverTurns** adds to it a variable that changes at the steps of operators and at no
  other, and the fairness of the worker and of the dials. An update to the spec already in
  force can lead to the same state as the worker's next step (`Tick`): only a variable
  can say that operators rest.
- **Recorder** models the capture store; a byte is its connection, direction and position
  in the stream, so that a gap, a swap or a foreign byte is visible. `dumps` is a function
  of tokens: the code's list is ordered by token, because `BeginProtocol` appends with the
  next one and nothing moves an entry, so that "the oldest" is the least token.
- **UdpSessions** models a UDP rule: `loop` is `udpLoop` with the locals of
  `handleUDPDatagram`, `table` is `udpSessions`, `session[s].reader` the step of
  `readUDPReplies`. Time is in two bits of a session: `expired`, its read deadline has
  passed, and `recent`, the last packet is less than UDPIdleSec ago; a touch sets both,
  `Elapse` is that much time passing. The steps of `stopLocked` are those of
  RuleLifecycle; the route and the limit change at any time, as failover and updates do.
- **Manager** models the set of rules, `Config` with its file, and the process around
  them. `op[p]` is the call of a request (or of `main` while it boots): `todo` the specs
  `addLocked` has still to add, for one rule, for `LoadSpecs`, for `ReplaceSpecs` or for
  its rollback; `left` and `read` where `Specs` stands, which copies one rule after the
  other without `opMu`. Rule objects have an identity (`obj`), because a reader may hold
  one that has left the table. A failed listener, a failed save and the end of the
  process can come at any time. `alone` is a history flag.
- **Detector** models `DetectorEngine` with what feeds it and what it feeds. `conn` is
  the producers' side (`handle`, `handleUDPDatagram`, `readUDPReplies`, `connWriter`):
  it never waits for the queue. Connections begin in any order of their ids, because a
  TCP handler has its id before it dials, and a failed dial leaves its id without a
  begin. A session of datagrams (`Udp`) is closed beside the loop and its reply reader,
  so that after its end event one datagram of each direction may still come (`late`).
  `sessions` is the map the goroutine `run` keeps, by rule ID and connection id;
  `worker` is that goroutine inside `inspectChunk`: the signals still to add and the
  arguments of the hook it is about to call, because `addSignal` unlocks before the hook
  runs. One rule ID is modelled with all the rule objects that bear it, an `epoch` each,
  since an import replaces the object and the ids of connections begin at one again. A
  detector is a text looked for in one direction or in both, under an ID that another
  may bear too; `capture` is what the hook reads and writes of Recorder's state.
  `missed`, `lagged`, `sent` and `stream` are history.
- **Scanner** models `scan.go` and `ports.go`: `scan` is the Scanner's fields, `run` its
  goroutine, `probe[j]` the goroutine of the j-th address and port. `expandCIDR` and
  `ParsePorts` are operators on addresses of `AddrBits` bits and on ranges of ports;
  `Asked` says independently, by sets, what options ask for.
- **Panel** composes Scanner with the handlers of `api.go` that change settings, the
  engine's settings, the `Config` in memory and its file. `req[c]` is a request's next
  step and its locals: no handler holds a lock from its first read to its last save.
  Detection settings are whole values here; what they do is Detector's. The rules, which
  the same file holds, are Manager's. `alone` and `was` are history.
- **MCRuleLifecycle**, **MCManager**, **MCFailover**, **MCUdpSessions**, **MCRecorder**,
  **MCDetector** and **MCPanel** give the constants small values.
- **RuleLifecycle_proofs**, **Failover_proofs**, **UdpSessions_proofs**,
  **Manager_proofs**, **Panel_proofs**, **Recorder_proofs** and **Detector_proofs** hold
  the theorems; **DataInduction** has the lemmas on induction that the last three use.

## Runs

| Run | Question | Bounds and why they are enough |
|---|---|---|
| `lifecycle` (MCRuleLifecycle.cfg) | Do stops miss nobody, are updates all or nothing, are the counters exact, does the rule implement RuleService? | Two callers, two connections, two worker slots, a listener opened twice (`MaxGen`): a late goroutine of the first generation meets the second, MaxConns is 1 so that two connections compete for it. The specs differ in port, in the wildcard host that overlaps the first, in enabled, health, ACL and limit. Symmetric in callers, connections and workers; no liveness is checked here |
| `lifecycle_live` (MCRuleLifecycleLive.cfg) | Does every call return, and does a rule that goes down lose its members? | One caller and one connection: a call waits only for the goroutines of its own rule. No symmetry |
| `failover` (MCFailover.cfg) | Does the route always follow the rules, do manual choices hold, are flips earned, and do failover and failback happen? | Two endpoints, five specs (other thresholds and no failback, target and backup swapped, no checks, no backup), one client dial that may outlive updates; thresholds up to 2, and the counters of the history stop there. With fairness, so without symmetry |
| `checks_masked` (MCFailoverMasked.cfg) | "After `fail_after` errors the address counts as unavailable": violated | One spec, payload checks |
| `udp` (MCUdpSessions.cfg) | Do sessions, readers and counters agree, is a stop complete, do idle sessions end, and does Stop return? | Two clients and two session objects: one may be in its reader's last steps while its client, or the other, opens the next; two targets; MaxConns is 1, so that one client finds the place of the other taken. The theorems hold for every limit. With fairness, so without symmetry |
| `manager` (MCManager.cfg) | Do the table, the listeners and the file agree? | Two requests that may overlap each other and the boot, which finds two rules, none, or an ID used twice; addresses of which two overlap; a merge and a replacement that swaps addresses. Symmetric in requests |
| `saves_reordered` (MCManagerSaves.cfg) | "Any change of the rules goes to the disk at once": violated | Three requests; two of them overlap |
| `merge_forgets` (MCManagerMerge.cfg) | "The other local rules are kept": violated | As above |
| `recorder` (MCRecorder.cfg) | Do limits and pins hold, are captures prefixes? | Two connections (one UDP), at most two chunks, three bytes per direction, limits (1 place, 2 bytes) and (2 places, 1 byte), so that each change shrinks one and grows the other |
| `detector` (MCDetector.cfg) | Are findings sound, is inspection exact, are captures marked for what their own connection sent? | Two connections of two chunks, of one rule object or one of each of two; those of the first object are sessions of datagrams, so that after the end one of each direction may come, also when the second object's connection has the id (a TCP connection does no more than such a session that gets none late). A queue of two places, so that it overflows; a burst of two begins; a text of two bytes that two chunks of one direction have between them, one in one direction only, and a user's detector that bears the ID of another; a buffer of three bytes, which holds the text across chunks, and settings that cut it to two, shrink the list, turn detectors off, or disable detection; ids whose rule pins and ids whose rule does not. One eviction, idle cleanup, change of settings or clearing (`MaxChanges`) |
| `scored_twice` (MCDetectorTwice.cfg) | "Each detector adds points at most once per connection": violated | One TCP connection of two chunks, one idle cleanup |
| `panel` (MCPanel.cfg) | Does a scan try what was asked, show its own answers and end; is a change of settings whole? | Two requests at once, two of them changes or scans and any number that stop a scan: enough for a stop that holds the cancel function of an earlier scan. Subnets of four, two and one addresses, a range written backwards with a port named twice, and three scans that are refused; two probes each, one or two at a time. Two versions of one detector, an import. With fairness, so without symmetry |

What the properties say is in the comment above each. The runs that pass show the
following about the code.

- `StopIsComplete`, `OneGeneration`, `Accounting`, `WaitGroupNotReused`: the order in
  `handle` (check `running` and the context, register, then dial, then check the context
  again), the handlers' `wg.Add` made by an accept loop that is itself counted, and the
  watcher of each relay together make `Stop` complete.
- `UpdateAllOrNothing`, `RunningMeansListening`, `UpdateKeepsConnections`: every failure
  of `updateLocked` leaves the old spec, and either the old listener or, when it cannot
  be opened again, a rule that is stopped and marked disabled.
- `RouteSettled`, `FlipsAreEarned`: every path that changes an
  input of the routing decision takes it again, and no late outcome tips the balance.
- `RouteConverges`: the worker checks target and backup in turn, whichever of them is in
  use, so each of them is known in the end for what it is, and the route follows. Both of
  its parts have premises that fair behaviours meet: without the conclusion, TLC finds
  such a behaviour for each.
- `NoLeak`, and `StopIsComplete` of the run `udp`: `removeUDPSession` compares the session
  and not only its key, and the second look at `running` after the dial makes a stop
  independent of idle times.
- `Bounded`, `CapturesArePrefixes`, `CapturesAreKept`: once a
  direction has been cut it stays cut, also when the limit grows again.
- `NoConflicts`, `ListenersMatchRules`, `ReplaceAllOrNothing`: `opMu` makes the check for
  conflicts, the listener and the entry in the table one change, and an import ends with
  all of its rules or all of the old ones. When the rollback itself fails (a port of an
  old rule has been taken meanwhile) the old rules behind that one are gone:
  `ReplaceAllOrNothing` leaves the case out, and the code returns an error for it.
- `FileIsFaithful`: a boot does not touch the rules in the file,
  whatever could not be loaded, and a request that no other overlaps leaves the file as
  the table is, unless the save fails. Of requests that overlap it says nothing: their
  saves may be in the wrong order (`saves_reordered`). That a killed process leaves no
  torn file rests on the rename (`config.go:210`), which is one step of the model.
- `FindingsAreSound`: the list shares its findings with the sessions, and is cut by
  `addSignal` and by `Configure` under one lock; numbers stay consecutive whatever is
  cleared while a session holds a finding that has left the list. In one finding no
  detector scores twice; in the findings of one connection it may (`scored_twice`).
- `InspectionIsExact`: a begin replaces the session of its key, and each direction has a
  buffer; so as long as no event is lost, data of two connections is never joined, also
  when the reply reader and the loop pass datagrams on after the end event. What
  signals is an ID: a detector of the user's that bears the ID of a builtin is silent once
  the other has signalled, so the property is about IDs. A text
  is found across chunks provided the buffer holds it with the chunk that ends it; that
  is the precondition of the property, and larger chunks are cut before they are looked at
  (`detect.go:437`).
- `PinsAreDeserved`: the hook looks a capture up by rule ID and connection id when it runs.
  That is the right one unless an import has replaced the rule meanwhile. It pins only
  for a connection whose rule asked for it when the connection began.
- `ScanIsThorough`: the cancel function belongs to one context, so a late `Stop` cannot
  stop the next scan; `run` waits for its probes before it gives up `running`, so no late
  answer reaches the next scan's hosts.
- `LoneChangeIsWhole`: a request that no other overlaps leaves engine, memory and file
  equal, or gives the engine back what it had. It does not cover overlapping requests.

Some of what the model shows is neither promised nor denied by a document, and is listed
with the hazards in PROJECT.json. Two changes of detectors that overlap may leave the
engine with the one and memory and file with the other, until the next change. A change
that is refused because its save failed stays in memory (`config.go:150`) and reaches
the file with the next save, which the rollback itself asks for (`api.go:394`). After an
import a late finding marks the capture that the new rule has under the old connection's
id (`manager.go:29-31`). An event lost from the detector's queue can join two
connections in one session or split one in two; the documentation says that events may
be lost. An outcome of a dial counts for the address and not for the update it was made
under.

**Findings**. `saves_reordered`: `notify` runs after `opMu` is released, reads the rules
and saves them; of two requests that overlap, the one that read first may save last, and
the file keeps the older list until the next change, against the comment in
`main.go:82-83`. `merge_forgets`: the import of a profile computes the merge from rules
read before `ReplaceSpecs` takes `opMu`; a rule added in between is dropped, against
`docs/profiles.md:15`. `checks_masked`: every client connection the target accepts counts as a
success for the same streak as the checks (`rule.go:340`). A target that accepts
connections and fails its payload or HTTP check is not marked down as long as clients
connect between the checks, although `docs/health-checks.md:3` says that `fail_after`
errors suffice. `scored_twice`: what a connection has been scored for is kept in the
worker's session, which the idle cleanup takes after five minutes without a chunk
(`detect.go:370`) while the connection lives on; its next chunk begins a fresh session
(`detect.go:394`), and the same detector scores again, in a second finding, against
`docs/traffic-analysis.md:40`. A datagram after the end event does the same.

## Fairness

Weak fairness of a caller's steps, of the steps of handlers that only compute or close,
of dials, probes and the accept backoff, which end by their timers, and of what a closed
socket makes its readers and writers do. Accepting, reading data, receiving an end of
file, a reset and the ticker are never forced in `lifecycle_live`: clients, targets and
peers may do nothing for ever. The exit of a cancelled health worker has strong
fairness: the worker's `select` between `ctx.Done()` and the ticker picks at random when
both are ready, so that the exit is chosen in the end, although a tick may win now and
then. In `failover` the worker goroutine and the dials, which time out, are weakly fair
(`TLiveSpec`); the property assumes that operators leave the rule alone from some time
on (`turn` no longer changes), while the worker, clients and services go on. In `udp`
the loop and the readers take the steps that do not wait for a packet, and time passes
(`Elapse`). In `panel` the goroutine of a scan and its probes, which have timeouts, are
weakly fair; requests are not, a stop may come late or never. The detector's runs check
no liveness: the queue may be full for ever.

## Proofs

Assumed are the named assumptions on constants, which TLC evaluates in every run: finite
sets of connections, clients and workers, valid specs and options, limits that are
positive, `None` outside the sets it is added to (`ConstantsAssumption`,
`ConfigAssumption`, `MaxRunAssumption`, `UdpAssumption`, `ManagerAssumption`,
`ScannerAssumption`, `PanelAssumption`, `RecorderAssumption`, `DetectorAssumption`).
Each theorem holds for all constants that satisfy them, so for any number of callers,
connections, rules, clients or captures. Every inductive invariant was found by checking
it with TLC first.

**RuleLifecycle_proofs**, first part. The inductive invariant `IInv` has five parts.

1. `Types`: `TypeOK` with integers for the counters. That they are natural numbers is a
   consequence of `Counts`, and cannot be had without it.
2. `CallInv`: only the holder of `lifeMu` is in a call, a call that may open a listener
   has a generation left, a bound socket that is not installed belongs to such a call.
3. `Counts`: the counters are the cardinalities of what they count.
4. `GenInv`: everything alive belongs to the last generation, and the one connection
   without a handler is in the hands of its accept loop.
5. `QuietInv`: how much of the rule has been taken down at each step of a stop.

The argument: `Counts` and the waits of `stopLocked` give that nothing is left once they
have returned (`QuietInv`); a new generation begins only then, which gives `GenInv`; and
`GenInv` with the guards of `handle` gives that nothing old is admitted while the rule is
stopping. The theorems are `TypeCorrect`, `StopLeavesNothing`, `NoOldGeneration`,
`CountersAreExact`, `AddNeverRacesWait` and `AdmissionIsLimited`; the property of each
is also checked by `lifecycle`.

Second part. `UInv`, which rests on `IInv`, says of each step of an update
which of old and new address, spec and listener it stands between (`ProgressOK`), that a
running rule has its listener where its spec says, and which health goroutine there is at
each step (`HealthAt`). From it follow `RunningListens`, `UpdateIsAtomic`,
`HealthFollowsSpec` and `UpdatesKeepConnections`. `RuleImplementsService` is the refinement:
`IInv` and `UInv` turn each step into the step of RuleService it stands for, or into none.

**Failover_proofs.** `RouteDecided` (deciding again would change nothing) is inductive
because every action that changes an input of the decision ends with it and because the
decision is idempotent; `RouteIsSettled` and `ManualModeAlwaysHolds` follow.

The history part is about `HSpec` of FailoverHistory, which implements `Spec` because
its variables only observe, and which `TSpec` of FailoverTurns implements for the same
reason. A streak the rule keeps is part of the run of equal outcomes that was counted
for the endpoint the spec names (`StreaksAreReal`); late outcomes are dropped by
address, and a new endpoint begins a run and a streak together. With the thresholds this
gives `FlipsAreAlwaysEarned`.

**UdpSessions_proofs.** The invariant says who holds a session object (the loop, the table
or its reader), that the WaitGroup and `activeConns` are the cardinalities of what they
count, and that a stop knows every session that is in the table. The last part needs the
second look at `running` in `handleUDPDatagram`: without it a session is registered behind
the back of `stopLocked`. Theorems: `TypeCorrect`, `NothingLeaks`, `StopLeavesNothing`.

**Manager_proofs.** One call at most holds `opMu` and only it changes the table; list and
map hold the same rules; a rule that listens is in the table and enabled; and an import has
installed the specs before the one at hand, index by index (`Replacing`). `NoConflicts` is
inductive only as a statement about the map together with that progress, since `addLocked`
looks for conflicts in a table that is being filled. Theorems: `TypeCorrect`,
`AddressesAreDisjoint`, `EnabledRulesListen`, `ReplaceIsAtomic`. The second half is the
file: during the boot only `main` works, with the rules in memory equal to the file; a
request no other overlaps is the only one, so what it has read of the rules is what they
are. `FileFollowsRules` follows.

**Panel_proofs.** The progress of a scan: jobs below `run.next` have been given to probes,
those that are over are counted, the hosts shown are those that have answered. A stop may
hold an earlier scan's cancel function but none of a later one. `LoneChangesAreWhole`
follows the course of a request that is alone through its handler.

The second part is what options ask for. The size of a subnet is a power of two, defined by
recursion; a smaller one divides the larger, so that a subnet lies within the addresses
and is the set of those with the same quotient. `Sorted` is a permutation of the indices
that puts the numbers in order: that there is one is proved by induction on their number,
the largest last. Counting in rows and columns, the jobs of a plan are then the pairs that
`Asked` says, each once (`JobsAreAsked`). `PortsAreHeard`, inductive beside `IInv`, says
of the ports a host shows that they are the ones accepted: an answer brings a port that is
not there yet because two probes never try the same pair. Theorem: `ScansAreThorough`.

**Recorder_proofs.** `IInv` says that tokens belong to one connection each, that a writer's
token is the one its connection was given (`Owners`), and that each capture is *good*: what
it stores of a direction is the beginning of that stream, as long as its counter says and
no longer than the limit; an open one has counted every byte its connection sent; and a
direction that misses bytes is cut or the capture full, so that nothing is appended behind
a gap. `Trim` and `Stored` are recursive functions over the chunks. What they compute is
proved by induction from the library's `WFMin`, which is about sets and not about operators:
DataInduction derives a least element, induction up to a number, and the existence and the
step of a fold whose function is data. The theorems are `TypeCorrect`, `StoreIsBounded`,
`CapturesAreGapless` and `NothingKeptIsLost`.

**Detector_proofs.** `IInv` says that no two sessions hold the same finding, that a finding
the list shows is the one its session holds, that the numbers of the list are consecutive
up to the last one given, and that the signals the worker has yet to add are of different
detectors, none of which its session has matched. The last part carries what the loop over
the detectors has seen over the unlocks of `addSignal`, between which `Configure`,
`ClearFindings` and the connections run. Scores and signals are recursive functions again
(`Scored`, `Signalled`). Theorems: `TypeCorrect`, `FindingsAreAlwaysSound`.

The second part is about what the worker reads, while no event is lost (`XInv`). `Fresh`
says of every event in the queue, and of the next one of a connection that is not over,
that it will find no session but one of its own connection: if the key is another's by
then, a begin of its own comes first. That is why a late event of an earlier rule
object, or a datagram of either direction after the end, joins nothing. So what a
session was given is the end of what its connection sent, but for what is still queued
(`Reaches`), and its buffers are the end of that (`Ends`). `Exact` carries what is known
of each detector over a chunk: a text that has come now and had not before ends in this
chunk, so it lies in a buffer that holds the longest chunk besides. Theorem:
`InspectionIsAlwaysExact`.

The third part is about captures. A connection that has not begun has no event, session,
finding or capture (`BegunInv`), so a capture that is new is of a connection nobody has a
finding of. A pinned capture is of a connection whose rule said so (`PinnedInv`).
`SettledInv` says that
the capture shows what each finding asks for, except for the one finding the hook is about
to be called for, which `MarkInv` describes: this is the state between the unlock in
`addSignal` and the hook. `EarnedInv` says that what has signalled came on the session's
own connection, and `PromptInv` that while the worker keeps up the connection is of the
rule object the hook will find, so that no capture is rated for more than its own
connection sent. What detectors score together is defined by choosing one after the other;
that the order does not matter, and that more detectors score no less, is proved by
induction on finite sets. Theorem: `PinsAreAlwaysDeserved`. Both theorems assume of the
constants that there is a longest chunk (the pipes and the datagram loop read into buffers)
and that an operator chooses among finitely many settings.

Only model-checked are the liveness properties, and `ImplementsLiveService`, which has
fairness: both are out of the prover's reach. Every invariant and every action property
that a passing run checks is a theorem.

`ChangesAreSaved`, `MergeKeepsOthers`, `FailedChecksMarkDown` and
`ScoresOncePerConnection` are violated by the code.

## Plan

1. Done: RuleLifecycle, RuleService, Failover, Recorder, and the first theorems.
2. Done: UdpSessions.
3. Done: Manager, with the configuration file, crash and restart.
4. Done: Detector, with the hook that marks and pins captures.
5. Done: Scanner with the expansion of options, and Panel, which composes it with the
   settings.
6. Done: theorems about rules, updates and the refinement of RuleService, failover and its
   history, UDP sessions, the manager and its file, the panel and its scans, the capture
   store, and the findings of the detector.
7. Done: theorems about what the detector reads, about the captures it marks, and about
   what a scan tries.

## Not modelled

The event journal (a ring of 200 events behind one mutex) and the metrics (differences of
counters for a chart) keep no state another part relies on, and each is one critical
section. Of the detector: `Close`, regular expressions, HTTP scopes and the decoded form,
which are functions of the same buffer, excerpts and severities. Of the scanner: names,
MAC addresses, vendors, interfaces and banners. Further the panel's JavaScript, HTTP
routing, decoding and authentication, the validation and defaults of rules beyond what
routing relies on, the texts of events and errors, byte counters, and the searching and
copying of captures.
