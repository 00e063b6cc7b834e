--------------------------- MODULE RuleLifecycle ---------------------------
(***************************************************************************)
(* The life of one TCP forwarding rule (src/internal/proxy/rule.go, with   *)
(* the update transaction of manager.go and the health worker of           *)
(* health.go): its listener, the goroutines that accept and relay          *)
(* connections, the worker that probes the targets, and the callers that   *)
(* start, stop and reconfigure it.                                         *)
(*                                                                         *)
(* Every section the code runs under Rule.mu is one action.  Rule.lifeMu   *)
(* is the variable life: a caller holds it from its call to its return,    *)
(* while acceptors, handlers and workers run between any two of its steps. *)
(***************************************************************************)
EXTENDS Integers, FiniteSets

CONSTANTS
  Callers,   \* goroutines that call Start, Stop or Update (web requests, main)
  Conns,     \* slots for accepted client connections
  Workers,   \* slots for health goroutines
  Hosts, Ports, AnyHost,  \* listen addresses; AnyHost is 0.0.0.0 or ::
  Configs,   \* the specs a caller may pass to Update
  FirstSpec, \* the spec newRule was given
  MaxGen,    \* bound: how often the listener is opened in one behaviour
  None

Addrs == [host : Hosts, port : Ports]
Specs == [addr : Addrs, enabled : BOOLEAN, health : BOOLEAN, acl : BOOLEAN,
          maxConns : Nat]
Gens  == 1..MaxGen

ASSUME ConstantsAssumption ==
  /\ IsFiniteSet(Conns) /\ IsFiniteSet(Workers)
  /\ AnyHost \in Hosts
  /\ Configs \subseteq Specs
  /\ FirstSpec \in Specs
  /\ MaxGen \in Nat
  /\ None \notin Callers \cup Addrs \cup Workers

VARIABLES
  life,         \* lifeMu: the caller that holds it, or None
  pc, op,       \* per caller: the next step, and the locals of its call
  spec,         \* Rule.spec, reduced to what the lifecycle reads
  running,      \* Rule.running (Rule.ln is set exactly while it is TRUE)
  gen,          \* how many contexts startLocked has made; Rule.ctx is the last
  cancelled,    \* the generations whose context is cancelled
  sock,         \* generation -> address its open listener holds, or None
  wg,           \* Rule.wg, the counter of the WaitGroup
  acceptor,     \* generation -> where its acceptLoop stands
  handler,      \* connection -> its handle goroutine and its two sockets
  pipe,         \* connection -> direction -> where its pipe goroutine stands
  conns,        \* Rule.conns, the connections Stop must close
  active,       \* Rule.activeConns
  healthCancel, \* Rule.healthCancel: the worker it cancels, or None
  healthWG,     \* Rule.healthWG
  worker        \* health goroutine -> [pc, gen, stop, spec]

callerVars == <<life, pc, op>>
ruleVars   == <<spec, running, gen, cancelled, sock>>
loopVars   == <<wg, acceptor>>
connVars   == <<handler, pipe, conns, active>>
healthVars == <<healthCancel, healthWG, worker>>
vars == <<callerVars, ruleVars, loopVars, connVars, healthVars>>

-----------------------------------------------------------------------------
\* pipe(upstream, client, DirIn) and pipe(client, upstream, DirOut).
Dirs == {"in", "out"}
SrcOpen(k, d) == IF d = "in" THEN handler[k].client ELSE handler[k].upstream
DstOpen(k, d) == IF d = "in" THEN handler[k].upstream ELSE handler[k].client

\* Two listen addresses the kernel does not let one program hold at a time.
Overlap(a, b) ==
  a.port = b.port /\ (a.host = b.host \/ AnyHost \in {a.host, b.host})

Held == ({sock[g] : g \in Gens} \cup {op[c].cand : c \in Callers}) \ {None}

\* net.Listen succeeds only on an address clear of the rule's own sockets; it
\* may fail on any address, which another program can hold.
Bindable(a) == \A b \in Held : ~Overlap(a, b)

\* The locals of a call: the spec it was given, the spec and the running flag
\* it found, the socket it has bound but not installed, the connections it
\* must close, whether it has stopped the old listener, what follows
\* stopLocked, and whether it returns an error.
Frame(kind, s, after) ==
  [kind |-> kind, new |-> s, old |-> spec, was |-> running, cand |-> None,
   snap |-> {}, stopped |-> FALSE, after |-> after, failed |-> FALSE]

\* Faulty: forgets that the address may change.
NeedListenerIfStopped(o) == o.new.enabled /\ ~o.was
NeedListener(o) == o.new.enabled /\ (~o.was \/ o.old.addr # o.new.addr)

NoCall == [kind |-> "none", new |-> FirstSpec, old |-> FirstSpec, was |-> FALSE,
           cand |-> None, snap |-> {}, stopped |-> FALSE, after |-> "return",
           failed |-> FALSE]
NoConn == [pc |-> "none", gen |-> 0, client |-> FALSE, upstream |-> FALSE]
NoWorker == [pc |-> "none", gen |-> 0, stop |-> FALSE, spec |-> FirstSpec]

Init ==
  /\ life = None
  /\ pc = [c \in Callers |-> "idle"] /\ op = [c \in Callers |-> NoCall]
  /\ spec = FirstSpec /\ running = FALSE
  /\ gen = 0 /\ cancelled = {} /\ sock = [g \in Gens |-> None]
  /\ wg = 0 /\ acceptor = [g \in Gens |-> "none"]
  /\ handler = [k \in Conns |-> NoConn]
  /\ pipe = [k \in Conns |-> [d \in Dirs |-> "done"]]
  /\ conns = {} /\ active = 0
  /\ healthCancel = None /\ healthWG = 0
  /\ worker = [w \in Workers |-> NoWorker]

-----------------------------------------------------------------------------
(* Calls.  Each takes lifeMu first and gives it up when it returns.         *)

Goto(c, label) == pc' = [pc EXCEPT ![c] = label]

\* What a step of a caller that only moves on, or changes its locals, leaves.
CallerFrame == UNCHANGED <<life, ruleVars, loopVars, connVars, healthVars>>

Acquire(c, label, frame) ==
  /\ pc[c] = "idle" /\ Goto(c, label)
  /\ life = None /\ life' = c
  /\ op' = [op EXCEPT ![c] = frame]
  /\ UNCHANGED <<ruleVars, loopVars, connVars, healthVars>>

CallStart(c) == gen < MaxGen /\ Acquire(c, "start", Frame("start", spec, "return"))

CallStop(c) == Acquire(c, "stop", Frame("stop", spec, "return"))

CallUpdate(c, s) ==
  LET f == Frame("update", s, "pauseHealth")
  IN  /\ NeedListener(f) => gen < MaxGen
      /\ Acquire(c, IF NeedListener(f) THEN "bind" ELSE "resize", f)

Return(c) ==
  /\ pc[c] = "return" /\ Goto(c, "idle")
  /\ life' = None
  /\ op' = [op EXCEPT ![c] = [NoCall EXCEPT !.cand = op[c].cand]]
  /\ UNCHANGED <<ruleVars, loopVars, connVars, healthVars>>

-----------------------------------------------------------------------------
(* startLocked: bound is op[c].cand, None for a nil socket.                 *)

\* Already running: the bound socket is closed and nothing else happens.
StartAlready(c) ==
  /\ pc[c] = "start" /\ running /\ Goto(c, "return")
  /\ op' = [op EXCEPT ![c].cand = None]
  /\ CallerFrame

StartBind(c) ==
  /\ pc[c] = "start" /\ ~running /\ Goto(c, "run")
  /\ op[c].cand = None => Bindable(spec.addr)
  /\ op' = [op EXCEPT ![c].cand = IF @ = None THEN spec.addr ELSE @]
  /\ CallerFrame

\* addLocked and the restore of updateLocked clear Enabled when this fails.
StartBindFails(c) ==
  /\ pc[c] = "start" /\ ~running /\ op[c].cand = None /\ Goto(c, "return")
  /\ spec' = [spec EXCEPT !.enabled = FALSE]
  /\ op' = [op EXCEPT ![c].failed = TRUE]
  /\ UNCHANGED <<life, running, gen, cancelled, sock, loopVars, connVars, healthVars>>

\* Faulty: the accept loop is not counted.
StartRunUncounted(c) ==
  /\ pc[c] = "run" /\ Goto(c, "startHealth")
  /\ gen' = gen + 1
  /\ sock' = [sock EXCEPT ![gen + 1] = op[c].cand]
  /\ op' = [op EXCEPT ![c].cand = None]
  /\ running' = TRUE
  /\ acceptor' = [acceptor EXCEPT ![gen + 1] = "accept"]
  /\ UNCHANGED <<life, spec, cancelled, wg, connVars, healthVars>>

\* A new context, the listener installed, the accept loop spawned.
StartRun(c) ==
  /\ pc[c] = "run" /\ Goto(c, "startHealth")
  /\ gen' = gen + 1
  /\ sock' = [sock EXCEPT ![gen + 1] = op[c].cand]
  /\ op' = [op EXCEPT ![c].cand = None]
  /\ running' = TRUE
  /\ wg' = wg + 1
  /\ acceptor' = [acceptor EXCEPT ![gen + 1] = "accept"]
  /\ UNCHANGED <<life, spec, cancelled, connVars, healthVars>>

StartHealth(c) ==
  /\ pc[c] = "startHealth" /\ Goto(c, "return")
  /\ \/ /\ running /\ spec.health
        /\ \E w \in Workers :
             /\ worker[w].pc = "none"
             /\ worker' = [worker EXCEPT ![w] =
                  [pc |-> "probe", gen |-> gen, stop |-> FALSE, spec |-> spec]]
             /\ healthCancel' = w
        /\ healthWG' = healthWG + 1
     \/ ~(running /\ spec.health) /\ UNCHANGED healthVars
  /\ UNCHANGED <<life, op, ruleVars, loopVars, connVars>>

-----------------------------------------------------------------------------
(* stopLocked and stopHealthLocked.                                         *)

StopNotRunning(c) ==
  /\ pc[c] = "stop" /\ ~running /\ Goto(c, op[c].after)
  /\ CallerFrame /\ UNCHANGED op

StopBegin(c) ==
  /\ pc[c] = "stop" /\ running /\ Goto(c, "cancel")
  /\ running' = FALSE
  /\ op' = [op EXCEPT ![c].snap = conns]
  /\ UNCHANGED <<life, spec, gen, cancelled, sock, loopVars, connVars, healthVars>>

StopCancel(c) ==
  /\ pc[c] = "cancel" /\ Goto(c, "closeListener")
  /\ cancelled' = cancelled \cup {gen}
  /\ UNCHANGED <<life, op, spec, running, gen, sock, loopVars, connVars, healthVars>>

StopCloseListener(c) ==
  /\ pc[c] = "closeListener" /\ Goto(c, "closeConns")
  /\ sock' = [sock EXCEPT ![gen] = None]
  /\ UNCHANGED <<life, op, spec, running, gen, cancelled, loopVars, connVars, healthVars>>

\* Connections of the snapshot that have left conns meanwhile are closed by
\* their own handler.
StopCloseConns(c) ==
  /\ pc[c] = "closeConns" /\ Goto(c, "stopHealth")
  /\ handler' = [k \in Conns |-> IF k \in op[c].snap \cap conns
                                 THEN [handler[k] EXCEPT !.client = FALSE]
                                 ELSE handler[k]]
  /\ op' = [op EXCEPT ![c].snap = {}]
  /\ UNCHANGED <<life, ruleVars, loopVars, pipe, conns, active, healthVars>>

\* stopHealthLocked as stopLocked calls it (stopHealth, waitHealth) and as
\* updateLocked does (pauseHealth, awaitHealth).
StopHealth(c) ==
  /\ \/ pc[c] = "stopHealth" /\ Goto(c, "waitHealth")
     \/ pc[c] = "pauseHealth" /\ Goto(c, "awaitHealth")
  /\ worker' = [w \in Workers |-> IF w = healthCancel
                                  THEN [worker[w] EXCEPT !.stop = TRUE]
                                  ELSE worker[w]]
  /\ healthCancel' = None
  /\ UNCHANGED <<life, op, ruleVars, loopVars, connVars, healthWG>>

WaitHealth(c) ==
  /\ \/ pc[c] = "waitHealth" /\ Goto(c, "waitConns")
     \/ pc[c] = "awaitHealth" /\ Goto(c, "swap")
  /\ healthWG = 0
  /\ CallerFrame /\ UNCHANGED op

\* Faulty: does not wait for the handlers.
WaitConnsNot(c) ==
  /\ pc[c] = "waitConns" /\ Goto(c, op[c].after)
  /\ CallerFrame /\ UNCHANGED op

\* r.wg.Wait()
WaitConns(c) ==
  /\ pc[c] = "waitConns" /\ Goto(c, op[c].after)
  /\ wg = 0
  /\ CallerFrame /\ UNCHANGED op

-----------------------------------------------------------------------------
(* updateLocked.                                                            *)

\* The new socket is bound before anything is touched; a failure on the same
\* port stops the old listener and tries once more.
UpdateBind(c) ==
  /\ pc[c] \in {"bind", "rebind"} /\ Goto(c, "resize")
  /\ Bindable(op[c].new.addr)
  /\ op' = [op EXCEPT ![c].cand = op[c].new.addr]
  /\ CallerFrame

SamePort(o) == o.old.addr.port = o.new.addr.port

UpdateRetry(c) ==
  /\ pc[c] = "bind" /\ op[c].was /\ SamePort(op[c]) /\ Goto(c, "stop")
  /\ op' = [op EXCEPT ![c] = [@ EXCEPT !.stopped = TRUE, !.after = "rebind"]]
  /\ CallerFrame

UpdateBindFails(c) ==
  /\ \/ pc[c] = "bind" /\ ~(op[c].was /\ SamePort(op[c]))
     \/ pc[c] = "rebind"
  /\ Goto(c, "restore")
  /\ CallerFrame /\ UNCHANGED op

\* Faulty: every update of a running rule stops it.
UpdateResizeStops(c) ==
  /\ pc[c] = "resize" /\ Goto(c, IF op[c].was THEN "stop" ELSE "pauseHealth")
  /\ op' = [op EXCEPT ![c].after = "pauseHealth"]
  /\ CallerFrame

\* Recorder.Resize takes the new limits; then the old listener is stopped if
\* the update needs that and has not done it yet.
UpdateResize(c) ==
  LET o == op[c]
      stops == o.was /\ (~o.new.enabled \/ NeedListener(o)) /\ ~o.stopped
  IN  /\ pc[c] = "resize" /\ Goto(c, IF stops THEN "stop" ELSE "pauseHealth")
      /\ op' = [op EXCEPT ![c].after = "pauseHealth"]
      /\ CallerFrame

\* Resize refuses: more pinned captures than the new limits hold.
UpdateResizeFails(c) ==
  /\ pc[c] = "resize" /\ Goto(c, "restore")
  /\ CallerFrame /\ UNCHANGED op

\* Faulty: the old listener is not reopened.
UpdateRestoreNothing(c) ==
  /\ pc[c] = "restore" /\ Goto(c, "return")
  /\ op' = [op EXCEPT ![c] = [@ EXCEPT !.cand = None, !.failed = TRUE]]
  /\ CallerFrame

\* The restore closure: drop the new socket, reopen the old listener.
UpdateRestore(c) ==
  /\ pc[c] = "restore" /\ Goto(c, IF op[c].stopped THEN "start" ELSE "return")
  /\ op' = [op EXCEPT ![c] = [@ EXCEPT !.cand = None, !.failed = TRUE]]
  /\ CallerFrame

\* Faulty: does not start the checks again.
UpdateSwapUnchecked(c) ==
  /\ pc[c] = "swap" /\ Goto(c, IF NeedListener(op[c]) THEN "start" ELSE "return")
  /\ spec' = op[c].new
  /\ UNCHANGED <<life, op, running, gen, cancelled, sock, loopVars, connVars, healthVars>>

UpdateSwap(c) ==
  /\ pc[c] = "swap"
  /\ Goto(c, IF NeedListener(op[c]) THEN "start"
             ELSE IF op[c].new.enabled THEN "startHealth" ELSE "return")
  /\ spec' = op[c].new
  /\ UNCHANGED <<life, op, running, gen, cancelled, sock, loopVars, connVars, healthVars>>

-----------------------------------------------------------------------------
(* acceptLoop of generation g.                                              *)

LoopFrame == UNCHANGED <<callerVars, ruleVars, pipe, conns, active, healthVars>>

Accept(g, k) ==
  /\ acceptor[g] = "accept" /\ sock[g] # None
  /\ handler[k].pc = "none"
  /\ acceptor' = [acceptor EXCEPT ![g] = "spawn"]
  /\ handler' = [handler EXCEPT ![k] =
       [pc |-> "accepted", gen |-> g, client |-> TRUE, upstream |-> FALSE]]
  /\ LoopFrame /\ UNCHANGED wg

\* Faulty: the handler is not counted.
SpawnUncounted(g, k) ==
  /\ acceptor[g] = "spawn"
  /\ handler[k].pc = "accepted" /\ handler[k].gen = g
  /\ acceptor' = [acceptor EXCEPT ![g] = "accept"]
  /\ handler' = [handler EXCEPT ![k].pc = "enter"]
  /\ LoopFrame /\ UNCHANGED wg

\* r.wg.Add(1) and the handler goroutine.
Spawn(g, k) ==
  /\ acceptor[g] = "spawn"
  /\ handler[k].pc = "accepted" /\ handler[k].gen = g
  /\ wg' = wg + 1
  /\ acceptor' = [acceptor EXCEPT ![g] = "accept"]
  /\ handler' = [handler EXCEPT ![k].pc = "enter"]
  /\ LoopFrame

\* Accept fails while the context lives: the system is out of descriptors.
AcceptFails(g) ==
  /\ acceptor[g] = "accept" /\ g \notin cancelled
  /\ acceptor' = [acceptor EXCEPT ![g] = "backoff"]
  /\ LoopFrame /\ UNCHANGED <<wg, handler>>

BackoffEnds(g) ==
  /\ acceptor[g] = "backoff"
  /\ acceptor' = [acceptor EXCEPT ![g] = "accept"]
  /\ LoopFrame /\ UNCHANGED <<wg, handler>>

AcceptorExits(g) ==
  /\ acceptor[g] \in {"accept", "backoff"} /\ g \in cancelled
  /\ acceptor' = [acceptor EXCEPT ![g] = "none"]
  /\ wg' = wg - 1
  /\ LoopFrame /\ UNCHANGED handler

-----------------------------------------------------------------------------
(* handle.                                                                  *)

HandlerFrame == UNCHANGED <<callerVars, ruleVars, acceptor, healthVars>>

\* The handler only moves on.
Proceed(k, from, to) ==
  /\ handler[k].pc = from
  /\ handler' = [handler EXCEPT ![k].pc = to]
  /\ HandlerFrame /\ UNCHANGED <<wg, pipe, conns, active>>

\* Faulty: off by one.
HasRoomForOneMore == spec.maxConns = 0 \/ Cardinality(conns) <= spec.maxConns
HasRoom == spec.maxConns = 0 \/ Cardinality(conns) < spec.maxConns

\* Too late for this listener, denied by the ACL (which lets some clients in
\* and keeps others out), or over the limit.
Refuse(k) ==
  /\ ~running \/ handler[k].gen \in cancelled \/ spec.acl \/ ~HasRoom
  /\ Proceed(k, "enter", "leave")

\* Faulty: does not look whether the rule has been stopped meanwhile.
RegisterAnyway(k) ==
  /\ HasRoom
  /\ handler[k].pc = "enter"
  /\ handler' = [handler EXCEPT ![k].pc = "dial"]
  /\ conns' = conns \cup {k}
  /\ active' = active + 1
  /\ HandlerFrame /\ UNCHANGED <<wg, pipe>>

\* Registered for Stop and counted before the dial starts.
Register(k) ==
  /\ running /\ handler[k].gen \notin cancelled /\ HasRoom
  /\ handler[k].pc = "enter"
  /\ handler' = [handler EXCEPT ![k].pc = "dial"]
  /\ conns' = conns \cup {k}
  /\ active' = active + 1
  /\ HandlerFrame /\ UNCHANGED <<wg, pipe>>

\* dialContext answers, late answers of a cancelled context included.
Dial(k) ==
  /\ handler[k].pc = "dial"
  /\ handler' = [handler EXCEPT ![k] = [@ EXCEPT !.pc = "dialed", !.upstream = TRUE]]
  /\ HandlerFrame /\ UNCHANGED <<wg, pipe, conns, active>>

DialFails(k) == Proceed(k, "dial", "unregister")

DialTooLate(k) == handler[k].gen \in cancelled /\ Proceed(k, "dialed", "unregister")

BeginRelay(k) ==
  /\ handler[k].pc = "dialed" /\ handler[k].gen \notin cancelled
  /\ handler' = [handler EXCEPT ![k].pc = "relay"]
  /\ pipe' = [pipe EXCEPT ![k] = [d \in Dirs |-> "read"]]
  /\ HandlerFrame /\ UNCHANGED <<wg, conns, active>>

CloseBoth(k) ==
  /\ handler' = [handler EXCEPT ![k] = [@ EXCEPT !.client = FALSE, !.upstream = FALSE]]
  /\ HandlerFrame /\ UNCHANGED <<wg, conns, active>>

\* Faulty: leaves the upstream to the pipes.
WatchClient(k) ==
  /\ handler[k].pc = "relay" /\ handler[k].gen \in cancelled
  /\ handler[k].client
  /\ handler' = [handler EXCEPT ![k].client = FALSE]
  /\ HandlerFrame /\ UNCHANGED <<wg, pipe, conns, active>>

\* The goroutine that waits for ctx.Done().
Watch(k) ==
  /\ handler[k].pc = "relay" /\ handler[k].gen \in cancelled
  /\ handler[k].client \/ handler[k].upstream
  /\ CloseBoth(k) /\ UNCHANGED pipe

PipeGoto(k, d, from, to) ==
  /\ pipe[k][d] = from
  /\ pipe' = [pipe EXCEPT ![k][d] = to]

\* Data is read, then written: for as long as a slow peer does not take it.
PipeRead(k, d) ==
  /\ SrcOpen(k, d) /\ PipeGoto(k, d, "read", "write")
  /\ HandlerFrame /\ UNCHANGED <<wg, handler, conns, active>>

PipeWritten(k, d) ==
  /\ DstOpen(k, d) /\ PipeGoto(k, d, "write", "read")
  /\ HandlerFrame /\ UNCHANGED <<wg, handler, conns, active>>

\* The peer has finished sending: half-close and let the other half go on.
PipeEOF(k, d) ==
  /\ SrcOpen(k, d) /\ PipeGoto(k, d, "read", "done")
  /\ HandlerFrame /\ UNCHANGED <<wg, handler, conns, active>>

\* A reset, an idle deadline, or a socket this process has closed.
PipeFails(k, d) ==
  /\ PipeGoto(k, d, "read", "done") \/ PipeGoto(k, d, "write", "done")
  /\ CloseBoth(k)

\* A pipe cannot stay blocked on a socket that is closed.
PipeUnblocks(k, d) ==
  /\ \/ pipe[k][d] = "read" /\ ~SrcOpen(k, d)
     \/ pipe[k][d] = "write" /\ ~DstOpen(k, d)
  /\ PipeFails(k, d)

EndRelay(k) ==
  /\ \A d \in Dirs : pipe[k][d] = "done"
  /\ Proceed(k, "relay", "unregister")

\* The deferred calls: close the upstream, leave conns and the count ...
Unregister(k) ==
  /\ handler[k].pc = "unregister"
  /\ handler' = [handler EXCEPT ![k] = [@ EXCEPT !.pc = "leave", !.upstream = FALSE]]
  /\ conns' = conns \ {k}
  /\ active' = active - 1
  /\ HandlerFrame /\ UNCHANGED <<wg, pipe>>

\* ... close the client, r.wg.Done().
Leave(k) ==
  /\ handler[k].pc = "leave"
  /\ handler' = [handler EXCEPT ![k] = NoConn]
  /\ wg' = wg - 1
  /\ HandlerFrame /\ UNCHANGED <<pipe, conns, active>>

-----------------------------------------------------------------------------
(* The health worker.                                                       *)

WorkerFrame ==
  UNCHANGED <<callerVars, ruleVars, loopVars, connVars, healthCancel>>

WorkerProceeds(w, from, to) ==
  /\ worker[w].pc = from
  /\ worker' = [worker EXCEPT ![w].pc = to]
  /\ WorkerFrame /\ UNCHANGED healthWG

\* The context of a worker is derived from that of its generation.
WorkerCancelled(w) == worker[w].stop \/ worker[w].gen \in cancelled

\* A probe answers; the answer counts only if the context still lives.
Probe(w) == WorkerProceeds(w, "probe", IF WorkerCancelled(w) THEN "wait" ELSE "note")

\* noteEndpointProbe, then the backup's probe or the wait for the ticker.
Note(w) == \E next \in {"probe", "wait"} : WorkerProceeds(w, "note", next)

Tick(w) == WorkerProceeds(w, "wait", "probe")

WorkerExits(w) ==
  /\ worker[w].pc = "wait" /\ WorkerCancelled(w)
  /\ worker' = [worker EXCEPT ![w] = NoWorker]
  /\ healthWG' = healthWG - 1
  /\ WorkerFrame

-----------------------------------------------------------------------------
CallerStep(c) ==
  \/ StartAlready(c) \/ StartBind(c) \/ StartBindFails(c) \/ StartRun(c)
  \/ StartHealth(c)
  \/ StopNotRunning(c) \/ StopBegin(c) \/ StopCancel(c) \/ StopCloseListener(c)
  \/ StopCloseConns(c) \/ StopHealth(c) \/ WaitHealth(c) \/ WaitConns(c)
  \/ UpdateBind(c) \/ UpdateRetry(c) \/ UpdateBindFails(c)
  \/ UpdateResize(c) \/ UpdateResizeFails(c) \/ UpdateRestore(c)
  \/ UpdateSwap(c)
  \/ Return(c)

Call(c) == CallStart(c) \/ CallStop(c) \/ \E s \in Configs : CallUpdate(c, s)

AcceptorStep(g) ==
  \/ \E k \in Conns : Accept(g, k) \/ Spawn(g, k)
  \/ AcceptFails(g) \/ BackoffEnds(g) \/ AcceptorExits(g)

HandlerStep(k) ==
  \/ Refuse(k) \/ Register(k) \/ Dial(k) \/ DialFails(k) \/ DialTooLate(k)
  \/ BeginRelay(k) \/ Watch(k) \/ EndRelay(k) \/ Unregister(k) \/ Leave(k)
  \/ \E d \in Dirs :
       PipeRead(k, d) \/ PipeWritten(k, d) \/ PipeEOF(k, d) \/ PipeFails(k, d)

WorkerStep(w) == Probe(w) \/ Note(w) \/ Tick(w) \/ WorkerExits(w)

Next ==
  \/ \E c \in Callers : Call(c) \/ CallerStep(c)
  \/ \E g \in Gens : AcceptorStep(g)
  \/ \E k \in Conns : HandlerStep(k)
  \/ \E w \in Workers : WorkerStep(w)

Spec == Init /\ [][Next]_vars

-----------------------------------------------------------------------------
(* What the scheduler, the dial, probe and backoff timers, and the closing   *)
(* of sockets make happen.  Nothing obliges a client, a target or a peer to  *)
(* do anything.                                                              *)
Fairness ==
  /\ \A c \in Callers : WF_vars(CallerStep(c))
  /\ \A g \in Gens :
       /\ WF_vars(BackoffEnds(g))
       /\ WF_vars(sock[g] = None /\ AcceptorExits(g))
       /\ \A k \in Conns : WF_vars(Spawn(g, k))
  /\ \A k \in Conns :
       /\ WF_vars(Refuse(k) \/ Register(k))
       /\ WF_vars(Dial(k) \/ DialFails(k))
       /\ WF_vars(DialTooLate(k) \/ BeginRelay(k))
       /\ WF_vars(Watch(k))
       /\ \A d \in Dirs : WF_vars(PipeUnblocks(k, d))
       /\ WF_vars(EndRelay(k))
       /\ WF_vars(Unregister(k))
       /\ WF_vars(Leave(k))
  /\ \A w \in Workers : WF_vars(Probe(w)) /\ WF_vars(Note(w)) /\ SF_vars(WorkerExits(w))

LiveSpec == Spec /\ Fairness

-----------------------------------------------------------------------------
(* Properties.                                                              *)

CallerLabels ==
  {"idle", "start", "run", "startHealth", "stop", "cancel", "closeListener",
   "closeConns", "stopHealth", "waitHealth", "waitConns", "bind", "rebind",
   "resize", "restore", "pauseHealth", "awaitHealth", "swap", "return"}

Frames ==
  [kind : {"none", "start", "stop", "update"}, new : Specs, old : Specs,
   was : BOOLEAN, cand : Addrs \cup {None}, snap : SUBSET Conns,
   stopped : BOOLEAN, after : {"return", "rebind", "pauseHealth"},
   failed : BOOLEAN]

HandlerLabels ==
  {"none", "accepted", "enter", "dial", "dialed", "relay", "unregister", "leave"}

\* Every variable stays in its type; in particular the counters of
\* rule.go (wg, healthWG, activeConns) never go below zero.
TypeOK ==
  /\ life \in Callers \cup {None}
  /\ pc \in [Callers -> CallerLabels]
  /\ op \in [Callers -> Frames]
  /\ spec \in Specs
  /\ running \in BOOLEAN
  /\ gen \in 0..MaxGen
  /\ cancelled \subseteq Gens
  /\ sock \in [Gens -> Addrs \cup {None}]
  /\ wg \in Nat
  /\ acceptor \in [Gens -> {"none", "accept", "spawn", "backoff"}]
  /\ handler \in [Conns -> [pc : HandlerLabels, gen : 0..MaxGen,
                            client : BOOLEAN, upstream : BOOLEAN]]
  /\ pipe \in [Conns -> [Dirs -> {"read", "write", "done"}]]
  /\ conns \subseteq Conns
  /\ active \in Nat
  /\ healthCancel \in Workers \cup {None}
  /\ healthWG \in Nat
  /\ worker \in [Workers -> [pc : {"none", "probe", "note", "wait"},
                             gen : 0..MaxGen, stop : BOOLEAN, spec : Specs]]

\* The handlers that hold one of the rule's MaxConns places.
Admitted == {k \in Conns : handler[k].pc \in {"dial", "dialed", "relay", "unregister"}}
Running  == {k \in Conns : handler[k].pc \notin {"none", "accepted"}}
LiveAcceptors == {g \in Gens : acceptor[g] # "none"}
LiveWorkers == {w \in Workers : worker[w].pc # "none"}

\* When no lifecycle call is under way and the rule is not running, nothing of
\* it is left: no goroutine, no registered connection, no open socket, and the
\* counters are zero.  Stop must miss nobody, whoever was being accepted,
\* admitted or dialled when it came (stopLocked, rule.go:195-229).
StopIsComplete ==
  life = None /\ ~running =>
    /\ LiveAcceptors = {} /\ LiveWorkers = {}
    /\ \A k \in Conns : handler[k] = NoConn
    /\ conns = {} /\ active = 0 /\ wg = 0 /\ healthWG = 0
    /\ Held = {}

\* When no lifecycle call is under way, a running rule listens on the address
\* its spec names and nowhere else, and its accept loop lives
\* (updateLocked and its restore, manager.go:160-243).
RunningMeansListening ==
  life = None /\ running =>
    /\ sock[gen] = spec.addr /\ Held = {spec.addr}
    /\ LiveAcceptors = {gen}
    /\ gen \notin cancelled

\* No goroutine of one listener lives on beside the next listener: a handler
\* accepted before a restart never enters, dials or relays after it.
OneGeneration ==
  /\ LiveAcceptors \subseteq {gen}
  /\ \A k \in Conns : handler[k].pc # "none" => handler[k].gen = gen
  /\ \A w \in LiveWorkers : worker[w].gen = gen

\* conns, activeConns and the WaitGroup say exactly what runs: no connection
\* Stop would miss, no place of MaxConns leaked, no Done too many.
Accounting ==
  /\ conns = Admitted
  /\ active = Cardinality(Admitted)
  /\ wg = Cardinality(LiveAcceptors) + Cardinality(Running)
  /\ healthWG = Cardinality(LiveWorkers)

\* "acceptLoop itself remains in wg until no further Add can happen"
\* (rule.go:251): no Add raises a counter from zero under a waiting caller.
WaitGroupNotReused ==
  [][/\ wg = 0 /\ wg' > 0 => \A c \in Callers : pc[c] # "waitConns"
     /\ healthWG = 0 /\ healthWG' > 0 =>
          \A c \in Callers : pc[c] \notin {"waitHealth", "awaitHealth"}]_vars

\* A connection is admitted only by the running listener that accepted it,
\* and with it no more hold a place than MaxConns allows, pending dials and
\* connections still closing included (rule.go:295-303).
AdmissionWithinLimit ==
  [][Admitted' \subseteq Admitted \/
       /\ running
       /\ spec.maxConns = 0 \/ Cardinality(Admitted') <= spec.maxConns]_vars

\* An update either installs the new spec, and the rule runs exactly if that
\* enables it, or fails and leaves spec and listener as they were; only a
\* rollback that cannot reopen the old address leaves the rule stopped, and
\* then it is marked disabled (manager.go:187-243).
UpdateAllOrNothing ==
  \A c \in Callers :
    pc[c] = "return" /\ op[c].kind = "update" =>
      IF ~op[c].failed
      THEN spec = op[c].new /\ running = op[c].new.enabled
      ELSE \/ spec = op[c].old /\ running = op[c].was
           \/ /\ op[c].stopped /\ ~running
              /\ spec = [op[c].old EXCEPT !.enabled = FALSE]

\* An update cancels the connections of the rule only if it moves the listener
\* or disables the rule (docs/rule-lifecycle.svg); a health, ACL or limit
\* change keeps them, also when it fails.
UpdateKeepsConnections ==
  [][\A c \in Callers : op[c].kind = "update" /\ cancelled' # cancelled =>
       op[c].new.addr # op[c].old.addr \/ ~op[c].new.enabled]_vars

\* When no lifecycle call is under way there is exactly one health goroutine
\* if the rule runs with checks on, and it probes the targets of the current
\* spec; otherwise there is none (startHealthLocked, stopHealthLocked).  At no
\* time is a probe outcome counted against a spec other than the one it probed.
HealthWorkerIsCurrent ==
  /\ life = None =>
       IF running /\ spec.health
       THEN \E w \in Workers :
              /\ LiveWorkers = {w} /\ healthCancel = w
              /\ worker[w].spec = spec /\ ~WorkerCancelled(w)
       ELSE LiveWorkers = {}
  /\ \A w \in Workers : worker[w].pc = "note" => worker[w].spec = spec

\* Every lifecycle call returns: no handler, pipe, dial or probe can hold
\* stopLocked for ever, not even a peer that stops reading.
CallsReturn == \A c \in Callers : (pc[c] # "idle") ~> (pc[c] = "idle")

\* The rule implements the service it promises (RuleService).
Service == INSTANCE RuleService
             WITH up <- running, cfg <- spec, members <- conns
ImplementsService == Service!Spec
ImplementsLiveService == Service!LiveSpec

=============================================================================
