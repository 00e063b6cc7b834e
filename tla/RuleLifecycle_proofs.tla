------------------------ MODULE RuleLifecycle_proofs ------------------------
(* What TLAPS proves of RuleLifecycle, for every number of callers,         *)
(* connections, workers, specs and restarts: first of a stop and of the     *)
(* counters, then of an update, of the listener and of the health           *)
(* goroutine, and last that RuleLifecycle implements RuleService.           *)
EXTENDS RuleLifecycle, FiniteSetTheorems, TLAPS

-----------------------------------------------------------------------------
(* The inductive invariant.                                                 *)

Handlers ==
  [pc : HandlerLabels, gen : 0..MaxGen, client : BOOLEAN, upstream : BOOLEAN]
HealthWorkers ==
  [pc : {"none", "probe", "note", "wait"}, gen : 0..MaxGen, stop : BOOLEAN, spec : Specs]

\* TypeOK without the claim that the counters stay above zero, which only
\* follows from Counts.
Types ==
  /\ life \in Callers \cup {None}
  /\ pc \in [Callers -> CallerLabels]
  /\ op \in [Callers -> Frames]
  /\ spec \in Specs
  /\ running \in BOOLEAN
  /\ gen \in 0..MaxGen
  /\ cancelled \subseteq Gens
  /\ sock \in [Gens -> Addrs \cup {None}]
  /\ wg \in Int
  /\ acceptor \in [Gens -> {"none", "accept", "spawn", "backoff"}]
  /\ handler \in [Conns -> Handlers]
  /\ pipe \in [Conns -> [Dirs -> {"read", "write", "done"}]]
  /\ conns \subseteq Conns
  /\ active \in Int
  /\ healthCancel \in Workers \cup {None}
  /\ healthWG \in Int
  /\ worker \in [Workers -> HealthWorkers]

StopLabels == {"stop", "cancel", "closeListener", "closeConns", "stopHealth",
               "waitHealth", "waitConns"}

\* The call of c may still open a listener.
Opens(c) ==
  op[c].kind = "start" \/ (op[c].kind = "update" /\ NeedListener(op[c]))

\* Only the holder of lifeMu is in a call; a call that may open a listener has
\* a generation left for it; a socket it has bound is never forgotten.
CallOK(c) ==
  /\ pc[c] # "idle" <=> life = c
  /\ op[c].kind = "none" <=> pc[c] = "idle"
  /\ op[c].after = "return" <=> op[c].kind # "update"
  /\ op[c].kind = "start" => pc[c] \in {"start", "run", "startHealth", "return"}
  /\ op[c].kind = "stop" => pc[c] \in StopLabels \cup {"return"}
  /\ pc[c] \in {"bind", "rebind", "start", "run"} => Opens(c)
  /\ op[c].stopped => Opens(c)
  /\ pc[c] = "rebind" => op[c].stopped
  /\ pc[c] \in StopLabels /\ op[c].after = "rebind" => op[c].stopped /\ op[c].cand = None
  /\ Opens(c) /\ pc[c] \notin {"idle", "startHealth", "return"} => gen < MaxGen
  /\ pc[c] \in StopLabels \ {"stop"} => gen # 0
  /\ op[c].cand # None =>
       Opens(c) /\ pc[c] \notin {"idle", "bind", "rebind", "startHealth", "return"}

CallInv == \A c \in Callers : CallOK(c)

\* The counters count what there is to count.
Counts ==
  /\ conns = Admitted
  /\ active = Cardinality(Admitted)
  /\ wg = Cardinality(LiveAcceptors) + Cardinality(Running)
  /\ healthWG = Cardinality(LiveWorkers)

\* Everything alive belongs to the last generation; a connection that has no
\* handler yet is held by its accept loop, which holds no other.
GenInv ==
  /\ cancelled \subseteq 1..gen
  /\ running => gen # 0 /\ gen \notin cancelled
  /\ \A g \in Gens : sock[g] # None \/ acceptor[g] # "none" => g = gen
  /\ \A k \in Conns :
       /\ handler[k].pc # "none" => handler[k].gen = gen /\ gen # 0
       /\ handler[k].pc = "none" => handler[k] = NoConn
       /\ handler[k].pc = "accepted" => acceptor[gen] = "spawn"
  /\ \A j, k \in Conns : handler[j].pc = "accepted" /\ handler[k].pc = "accepted" => j = k
  /\ \A w \in Workers : worker[w].pc # "none" => worker[w].gen = gen

\* How far the rule has been taken down, when the call under way is at l:
\* nothing lives when the rule is stopped and no stop is under way.
QuietAt(l) ==
  /\ ~running /\ l \notin StopLabels \ {"stop"} => wg = 0
  /\ ~running /\ l \notin {"cancel", "closeListener"} => \A g \in Gens : sock[g] = None
  /\ ~running /\ l \notin {"cancel", "closeListener", "closeConns", "stopHealth", "waitHealth"}
       => healthWG = 0
  /\ l \in (StopLabels \ {"stop"}) \cup {"run"} => ~running

QuietInv ==
  /\ life = None => QuietAt("idle")
  /\ \A c \in Callers : life = c => QuietAt(pc[c])

IInv == Types /\ CallInv /\ Counts /\ GenInv /\ QuietInv

-----------------------------------------------------------------------------
(* Types.                                                                   *)

\* The empty records and a fresh frame are of their types.
LEMMA RecordTypes ==
  /\ NoCall \in Frames
  /\ NoConn \in Handlers
  /\ NoWorker \in HealthWorkers
  /\ Types => \A s \in Specs, kind \in {"start", "stop", "update"},
                 after \in {"return", "rebind", "pauseHealth"} :
                Frame(kind, s, after) \in Frames
<1> USE ConstantsAssumption
<1>1. NoCall \in Frames
  BY DEF NoCall, Frames
<1>2. NoConn \in Handlers
  BY DEF NoConn, Handlers, HandlerLabels
<1>3. NoWorker \in HealthWorkers
  BY DEF NoWorker, HealthWorkers
<1>4. ASSUME Types, NEW s \in Specs, NEW kind \in {"start", "stop", "update"},
             NEW after \in {"return", "rebind", "pauseHealth"}
      PROVE  Frame(kind, s, after) \in Frames
  BY <1>4 DEF Frame, Frames, Types
<1> QED
  BY <1>1, <1>2, <1>3, <1>4

\* A frame stays a frame when one of its fields is assigned.
LEMMA FrameUpdate ==
  ASSUME NEW f \in Frames
  PROVE  /\ \A a \in Addrs \cup {None} : [f EXCEPT !.cand = a] \in Frames
         /\ \A b \in BOOLEAN : [f EXCEPT !.failed = b] \in Frames
         /\ \A b \in BOOLEAN : [f EXCEPT !.stopped = b] \in Frames
         /\ \A ks \in SUBSET Conns : [f EXCEPT !.snap = ks] \in Frames
         /\ \A l \in {"return", "rebind", "pauseHealth"} :
              /\ [f EXCEPT !.after = l] \in Frames
              /\ \A b \in BOOLEAN : [f EXCEPT !.stopped = b, !.after = l] \in Frames
         /\ \A a \in Addrs \cup {None}, b \in BOOLEAN :
              [f EXCEPT !.cand = a, !.failed = b] \in Frames
BY DEF Frames

\* What the fields of a frame are.
LEMMA FrameFields ==
  ASSUME NEW f \in Frames
  PROVE  /\ f.cand \in Addrs \cup {None}
         /\ f.new \in Specs /\ f.old \in Specs
         /\ f.was \in BOOLEAN /\ f.stopped \in BOOLEAN /\ f.failed \in BOOLEAN
         /\ f.snap \in SUBSET Conns
         /\ f.after \in {"return", "rebind", "pauseHealth"}
         /\ f.kind \in {"none", "start", "stop", "update"}
BY DEF Frames

\* So does the record of a handler.
LEMMA HandlerUpdate ==
  ASSUME NEW h \in Handlers
  PROVE  /\ \A l \in HandlerLabels : [h EXCEPT !.pc = l] \in Handlers
         /\ \A b \in BOOLEAN : [h EXCEPT !.client = b] \in Handlers
         /\ \A l \in HandlerLabels, b \in BOOLEAN :
              [h EXCEPT !.pc = l, !.upstream = b] \in Handlers
         /\ \A a, b \in BOOLEAN : [h EXCEPT !.client = a, !.upstream = b] \in Handlers
         /\ h.client = FALSE /\ h.upstream = FALSE => [h EXCEPT !.client = FALSE, !.upstream = FALSE] = h
BY DEF Handlers

\* And that of a health goroutine.
LEMMA WorkerUpdate ==
  ASSUME NEW w \in HealthWorkers
  PROVE  /\ \A l \in {"none", "probe", "note", "wait"} : [w EXCEPT !.pc = l] \in HealthWorkers
         /\ \A b \in BOOLEAN : [w EXCEPT !.stop = b] \in HealthWorkers
BY DEF HealthWorkers

\* A caller about to open a listener has a generation left.
LEMMA GenerationLeft ==
  ASSUME IInv, NEW c \in Callers, pc[c] = "run"
  PROVE  gen + 1 \in Gens
<1>1. gen < MaxGen
  BY DEF IInv, CallInv, CallOK, Opens
<1> QED
  BY <1>1, ConstantsAssumption DEF IInv, Types, Gens

\* A stop takes down a generation that has been started.
LEMMA StopHasGeneration ==
  ASSUME IInv, NEW c \in Callers, pc[c] \in StopLabels \ {"stop"}
  PROVE  gen \in Gens
<1>1. gen # 0
  BY DEF IInv, CallInv, CallOK
<1> QED
  BY <1>1, ConstantsAssumption DEF IInv, Types, Gens

\* Every step keeps the types, apart from the sign of the counters.
LEMMA TypesStep ==
  ASSUME IInv, [Next]_vars
  PROVE  Types'
<1> USE ConstantsAssumption DEF IInv, Types, Goto, CallerFrame, CallerLabels,
        LoopFrame, HandlerFrame, WorkerFrame, Proceed, PipeGoto, WorkerProceeds,
        HandlerLabels,
        callerVars, ruleVars, loopVars, connVars, healthVars
<1>1. ASSUME NEW c \in Callers, CallStart(c) PROVE Types'
  BY <1>1, RecordTypes DEF CallStart, Acquire
<1>2. ASSUME NEW c \in Callers, CallStop(c) PROVE Types'
  BY <1>2, RecordTypes DEF CallStop, Acquire
<1>3. ASSUME NEW c \in Callers, Return(c) PROVE Types'
  <2>1. [NoCall EXCEPT !.cand = op[c].cand] \in Frames
    BY RecordTypes, FrameUpdate, FrameFields
  <2> QED
    BY <1>3, <2>1 DEF Return
<1>4. ASSUME NEW c \in Callers, StartAlready(c) PROVE Types'
  BY <1>4, FrameUpdate, FrameFields DEF StartAlready
<1>5. ASSUME NEW c \in Callers, StartBind(c) PROVE Types'
  <2>1. spec.addr \in Addrs
    BY DEF Specs
  <2>2. [op[c] EXCEPT !.cand = IF op[c].cand = None THEN spec.addr ELSE op[c].cand] \in Frames
    BY <2>1, FrameUpdate, FrameFields
  <2> QED
    BY <1>5, <2>2 DEF StartBind
<1>6. ASSUME NEW c \in Callers, StartBindFails(c) PROVE Types'
  <2>1. [spec EXCEPT !.enabled = FALSE] \in Specs
    BY DEF Specs
  <2>2. [op[c] EXCEPT !.failed = TRUE] \in Frames
    BY FrameUpdate
  <2> QED
    BY <1>6, <2>1, <2>2 DEF StartBindFails
<1>7. ASSUME NEW c \in Callers, StartRun(c) PROVE Types'
  <2>1. gen + 1 \in Gens
    BY <1>7, GenerationLeft DEF StartRun
  <2>2. [op[c] EXCEPT !.cand = None] \in Frames /\ op[c].cand \in Addrs \cup {None}
    BY FrameUpdate, FrameFields
  <2> QED
    BY <1>7, <2>1, <2>2 DEF StartRun, Gens
<1>8. ASSUME NEW c \in Callers, StartHealth(c) PROVE Types'
  <2>1. CASE running /\ spec.health
    <3>1. PICK w \in Workers :
             /\ healthCancel' = w
             /\ worker' = [worker EXCEPT ![w] =
                  [pc |-> "probe", gen |-> gen, stop |-> FALSE, spec |-> spec]]
      BY <1>8, <2>1 DEF StartHealth
    <3>2. [pc |-> "probe", gen |-> gen, stop |-> FALSE, spec |-> spec] \in HealthWorkers
      BY DEF HealthWorkers
    <3> QED
      BY <1>8, <2>1, <3>1, <3>2 DEF StartHealth
  <2>2. CASE ~(running /\ spec.health)
    BY <1>8, <2>2 DEF StartHealth
  <2> QED
    BY <2>1, <2>2
<1>9. ASSUME NEW c \in Callers, StopNotRunning(c) PROVE Types'
  BY <1>9, FrameUpdate, FrameFields DEF StopNotRunning
<1>10. ASSUME NEW c \in Callers, StopBegin(c) PROVE Types'
  BY <1>10, FrameUpdate, FrameFields DEF StopBegin
<1>11. ASSUME NEW c \in Callers, StopCancel(c) PROVE Types'
  <2>1. gen \in Gens
    BY <1>11, StopHasGeneration DEF StopCancel, StopLabels
  <2>2. cancelled' \subseteq Gens
    BY <1>11, <2>1 DEF StopCancel
  <2> QED
    BY <1>11, <2>2 DEF StopCancel
<1>12. ASSUME NEW c \in Callers, StopCloseListener(c) PROVE Types'
  BY <1>12, FrameUpdate, FrameFields DEF StopCloseListener
<1>13. ASSUME NEW c \in Callers, StopCloseConns(c) PROVE Types'
  <2>1. [op[c] EXCEPT !.snap = {}] \in Frames
    BY FrameUpdate
  <2>2. handler' \in [Conns -> Handlers]
    BY <1>13, HandlerUpdate DEF StopCloseConns
  <2> QED
    BY <1>13, <2>1, <2>2 DEF StopCloseConns
<1>14. ASSUME NEW c \in Callers, StopHealth(c) PROVE Types'
  <2>1. worker' \in [Workers -> HealthWorkers]
    BY <1>14, WorkerUpdate DEF StopHealth
  <2> QED
    BY <1>14, <2>1 DEF StopHealth
<1>15. ASSUME NEW c \in Callers, WaitHealth(c) PROVE Types'
  BY <1>15, FrameUpdate, FrameFields DEF WaitHealth
<1>16. ASSUME NEW c \in Callers, WaitConns(c) PROVE Types'
  BY <1>16, FrameUpdate, FrameFields DEF WaitConns
<1>17. ASSUME NEW c \in Callers, UpdateBind(c) PROVE Types'
  <2>1. op[c].new.addr \in Addrs
    BY FrameFields DEF Specs
  <2>2. [op[c] EXCEPT !.cand = op[c].new.addr] \in Frames
    BY <2>1, FrameUpdate
  <2> QED
    BY <1>17, <2>2 DEF UpdateBind
<1>18. ASSUME NEW c \in Callers, UpdateRetry(c) PROVE Types'
  BY <1>18, FrameUpdate, FrameFields DEF UpdateRetry
<1>19. ASSUME NEW c \in Callers, UpdateBindFails(c) PROVE Types'
  BY <1>19, FrameUpdate, FrameFields DEF UpdateBindFails
<1>20. ASSUME NEW c \in Callers, UpdateResize(c) PROVE Types'
  BY <1>20, FrameUpdate, FrameFields DEF UpdateResize
<1>21. ASSUME NEW c \in Callers, UpdateResizeFails(c) PROVE Types'
  BY <1>21, FrameUpdate, FrameFields DEF UpdateResizeFails
<1>22. ASSUME NEW c \in Callers, UpdateRestore(c) PROVE Types'
  BY <1>22, FrameUpdate, FrameFields DEF UpdateRestore
<1>23. ASSUME NEW c \in Callers, UpdateSwap(c) PROVE Types'
  BY <1>23, FrameUpdate, FrameFields DEF UpdateSwap
<1>24. ASSUME NEW c \in Callers, NEW s \in Configs, CallUpdate(c, s) PROVE Types'
  BY <1>24, RecordTypes DEF CallUpdate, Acquire
<1>25. ASSUME NEW g \in Gens, NEW k \in Conns, Accept(g, k) PROVE Types'
  <2>1. [pc |-> "accepted", gen |-> g, client |-> TRUE, upstream |-> FALSE] \in Handlers
    BY DEF Handlers, Gens
  <2> QED
    BY <1>25, <2>1 DEF Accept
<1>26. ASSUME NEW g \in Gens, NEW k \in Conns, Spawn(g, k) PROVE Types'
  <2>1. [handler[k] EXCEPT !.pc = "enter"] \in Handlers
    BY HandlerUpdate
  <2>2. handler' \in [Conns -> Handlers]
    BY <1>26, <2>1 DEF Spawn
  <2> QED
    BY <1>26, <2>2 DEF Spawn
<1>27. ASSUME NEW g \in Gens, AcceptFails(g) PROVE Types'
  BY <1>27 DEF AcceptFails, Gens
<1>28. ASSUME NEW g \in Gens, BackoffEnds(g) PROVE Types'
  BY <1>28 DEF BackoffEnds, Gens
<1>29. ASSUME NEW g \in Gens, AcceptorExits(g) PROVE Types'
  BY <1>29 DEF AcceptorExits, Gens
<1>30. ASSUME NEW k \in Conns, Refuse(k) PROVE Types'
  BY <1>30, HandlerUpdate DEF Refuse
<1>31. ASSUME NEW k \in Conns, Register(k) PROVE Types'
  <2>1. [handler[k] EXCEPT !.pc = "dial"] \in Handlers
    BY HandlerUpdate
  <2>2. handler' \in [Conns -> Handlers]
    BY <1>31, <2>1 DEF Register
  <2> QED
    BY <1>31, <2>2 DEF Register
<1>32. ASSUME NEW k \in Conns, Dial(k) PROVE Types'
  BY <1>32, HandlerUpdate DEF Dial
<1>33. ASSUME NEW k \in Conns, DialFails(k) PROVE Types'
  BY <1>33, HandlerUpdate DEF DialFails
<1>34. ASSUME NEW k \in Conns, DialTooLate(k) PROVE Types'
  BY <1>34, HandlerUpdate DEF DialTooLate
<1>35. ASSUME NEW k \in Conns, BeginRelay(k) PROVE Types'
  BY <1>35, HandlerUpdate DEF BeginRelay
<1>36. ASSUME NEW k \in Conns, Watch(k) PROVE Types'
  BY <1>36, HandlerUpdate DEF Watch, CloseBoth
<1>37. ASSUME NEW k \in Conns, EndRelay(k) PROVE Types'
  BY <1>37, HandlerUpdate DEF EndRelay
<1>38. ASSUME NEW k \in Conns, Unregister(k) PROVE Types'
  <2>1. [handler[k] EXCEPT !.pc = "leave", !.upstream = FALSE] \in Handlers
    BY HandlerUpdate
  <2>2. handler' \in [Conns -> Handlers]
    BY <1>38, <2>1 DEF Unregister
  <2> QED
    BY <1>38, <2>2 DEF Unregister
<1>39. ASSUME NEW k \in Conns, Leave(k) PROVE Types'
  BY <1>39, RecordTypes DEF Leave
<1>40. ASSUME NEW k \in Conns, NEW d \in Dirs, PipeRead(k, d) PROVE Types'
  BY <1>40 DEF PipeRead
<1>41. ASSUME NEW k \in Conns, NEW d \in Dirs, PipeWritten(k, d) PROVE Types'
  BY <1>41 DEF PipeWritten
<1>42. ASSUME NEW k \in Conns, NEW d \in Dirs, PipeEOF(k, d) PROVE Types'
  BY <1>42 DEF PipeEOF
<1>43. ASSUME NEW k \in Conns, NEW d \in Dirs, PipeFails(k, d) PROVE Types'
  <2>1. [handler[k] EXCEPT !.client = FALSE, !.upstream = FALSE] \in Handlers
    BY HandlerUpdate
  <2>2. handler' \in [Conns -> Handlers]
    BY <1>43, <2>1 DEF PipeFails, CloseBoth
  <2>3. pipe' \in [Conns -> [Dirs -> {"read", "write", "done"}]]
    <3>1. CASE PipeGoto(k, d, "read", "done")
      BY <3>1
    <3>2. CASE PipeGoto(k, d, "write", "done")
      BY <3>2
    <3> QED
      BY <1>43, <3>1, <3>2 DEF PipeFails
  <2> QED
    BY <1>43, <2>2, <2>3 DEF PipeFails, CloseBoth
<1>44. ASSUME NEW w \in Workers, Probe(w) PROVE Types'
  BY <1>44, WorkerUpdate DEF Probe
<1>45. ASSUME NEW w \in Workers, Note(w) PROVE Types'
  <2>1. PICK next \in {"probe", "wait"} : WorkerProceeds(w, "note", next)
    BY <1>45 DEF Note
  <2> QED
    BY <2>1, WorkerUpdate
<1>46. ASSUME NEW w \in Workers, Tick(w) PROVE Types'
  BY <1>46, WorkerUpdate DEF Tick
<1>47. ASSUME NEW w \in Workers, WorkerExits(w) PROVE Types'
  BY <1>47, RecordTypes DEF WorkerExits
<1>48. CASE UNCHANGED vars
  BY <1>48 DEF vars, callerVars, ruleVars, loopVars, connVars, healthVars
<1> QED
  BY <1>1, <1>2, <1>3, <1>4, <1>5, <1>6, <1>7, <1>8, <1>9, <1>10, <1>11,
     <1>12, <1>13, <1>14, <1>15, <1>16, <1>17, <1>18, <1>19, <1>20, <1>21,
     <1>22, <1>23, <1>24, <1>25, <1>26, <1>27, <1>28, <1>29, <1>30, <1>31,
     <1>32, <1>33, <1>34, <1>35, <1>36, <1>37, <1>38, <1>39, <1>40, <1>41,
     <1>42, <1>43, <1>44, <1>45, <1>46, <1>47, <1>48
  DEF Next, Call, CallerStep, AcceptorStep, HandlerStep, WorkerStep

-----------------------------------------------------------------------------
(* Calls.                                                                   *)

\* While a call of c makes a step no other caller is in a call, and the step
\* leaves the others alone.
LEMMA CallerAlone ==
  ASSUME IInv, NEW c \in Callers, Call(c) \/ CallerStep(c), NEW x \in Callers \ {c}
  PROVE  /\ pc[x] = "idle" /\ pc'[x] = "idle"
         /\ op'[x] = op[x]
         /\ life' # x
<1>1. pc \in [Callers -> CallerLabels] /\ op \in [Callers -> Frames]
  BY DEF IInv, Types
<1>2. None \notin Callers
  BY ConstantsAssumption
<1>3. /\ pc[x] # "idle" <=> life = x
      /\ pc[c] # "idle" <=> life = c
  BY DEF IInv, CallInv, CallOK
<1>4. CASE Call(c)
  BY <1>1, <1>2, <1>3, <1>4 DEF Call, CallStart, CallStop, CallUpdate, Acquire, Goto
<1>5. CASE CallerStep(c)
  <2> DEFINE Alone == pc[c] # "idle" /\ pc'[x] = pc[x] /\ op'[x] = op[x] /\ life' \in {life, None}
  <2> USE <1>1 DEF Goto, CallerFrame
  <2>1. ASSUME StartAlready(c) \/ StartBind(c) \/ StartBindFails(c) \/ StartRun(c)
              \/ StartHealth(c)
       PROVE  Alone
    BY <2>1 DEF StartAlready, StartBind, StartBindFails, StartRun, StartHealth
  <2>2. ASSUME StopNotRunning(c) \/ StopBegin(c) \/ StopCancel(c) \/ StopCloseListener(c)
              \/ StopCloseConns(c)
       PROVE  Alone
    BY <2>2 DEF StopNotRunning, StopBegin, StopCancel, StopCloseListener, StopCloseConns
  <2>3. ASSUME StopHealth(c) \/ WaitHealth(c) \/ WaitConns(c) \/ Return(c)
       PROVE  Alone
    BY <2>3 DEF StopHealth, WaitHealth, WaitConns, Return
  <2>4. ASSUME UpdateBind(c) \/ UpdateRetry(c) \/ UpdateBindFails(c) \/ UpdateResize(c)
              \/ UpdateResizeFails(c) \/ UpdateRestore(c) \/ UpdateSwap(c)
       PROVE  Alone
    BY <2>4 DEF UpdateBind, UpdateRetry, UpdateBindFails, UpdateResize, UpdateResizeFails, UpdateRestore, UpdateSwap
  <2>5. Alone
    BY <1>5, <2>1, <2>2, <2>3, <2>4 DEF CallerStep
  <2> QED
    BY <1>2, <1>3, <2>5
<1> QED
  BY <1>4, <1>5

\* Every step of a call keeps what is known of it.
LEMMA CallStep ==
  ASSUME IInv, [Next]_vars
  PROVE  CallInv'
<1> USE ConstantsAssumption
<1>1. /\ pc \in [Callers -> CallerLabels] /\ op \in [Callers -> Frames]
      /\ life \in Callers \cup {None} /\ gen \in 0..MaxGen /\ MaxGen \in Nat
      /\ None \notin Callers
      /\ \A c \in Callers : CallOK(c)
  BY DEF IInv, Types, CallInv
<1>2. ASSUME NEW c \in Callers, Call(c) \/ CallerStep(c), CallOK(c)' PROVE CallInv'
  <2>1. ASSUME NEW x \in Callers \ {c} PROVE CallOK(x)'
    BY <1>1, <1>2, <2>1, CallerAlone DEF CallOK, Opens, StopLabels
  <2> QED
    BY <1>2, <2>1 DEF CallInv
<1>3. ASSUME UNCHANGED <<life, pc, op, gen>> PROVE CallInv'
  BY <1>1, <1>3 DEF CallInv, CallOK, Opens
<1>4. ASSUME NEW c \in Callers, StartAlready(c) PROVE CallOK(c)'
  BY <1>1, <1>4 DEF StartAlready, Goto, CallerFrame, CallOK, Opens, NeedListener, StopLabels, Frames, ruleVars
<1>5. ASSUME NEW c \in Callers, StartBind(c) PROVE CallOK(c)'
  BY <1>1, <1>5 DEF StartBind, Goto, CallerFrame, CallOK, Opens, NeedListener, StopLabels, Frames, ruleVars
<1>6. ASSUME NEW c \in Callers, StartBindFails(c) PROVE CallOK(c)'
  BY <1>1, <1>6 DEF StartBindFails, Goto, CallerFrame, CallOK, Opens, NeedListener, StopLabels, Frames, ruleVars
<1>7. ASSUME NEW c \in Callers, StartRun(c) PROVE CallOK(c)'
  BY <1>1, <1>7 DEF StartRun, Goto, CallerFrame, CallOK, Opens, NeedListener, StopLabels, Frames, ruleVars
<1>8. ASSUME NEW c \in Callers, StartHealth(c) PROVE CallOK(c)'
  BY <1>1, <1>8 DEF StartHealth, Goto, CallerFrame, CallOK, Opens, NeedListener, StopLabels, Frames, ruleVars
<1>9. ASSUME NEW c \in Callers, StopNotRunning(c) PROVE CallOK(c)'
  BY <1>1, <1>9 DEF StopNotRunning, Goto, CallerFrame, CallOK, Opens, NeedListener, StopLabels, Frames, ruleVars
<1>10. ASSUME NEW c \in Callers, StopBegin(c) PROVE CallOK(c)'
  <2>1. running => gen # 0
    BY DEF IInv, GenInv
  <2> QED
    BY <1>1, <1>10, <2>1 DEF StopBegin, Goto, CallerFrame, CallOK, Opens, NeedListener, StopLabels, Frames, ruleVars
<1>11. ASSUME NEW c \in Callers, StopCancel(c) PROVE CallOK(c)'
  BY <1>1, <1>11 DEF StopCancel, Goto, CallerFrame, CallOK, Opens, NeedListener, StopLabels, Frames, ruleVars
<1>12. ASSUME NEW c \in Callers, StopCloseListener(c) PROVE CallOK(c)'
  BY <1>1, <1>12 DEF StopCloseListener, Goto, CallerFrame, CallOK, Opens, NeedListener, StopLabels, Frames, ruleVars
<1>13. ASSUME NEW c \in Callers, StopCloseConns(c) PROVE CallOK(c)'
  BY <1>1, <1>13 DEF StopCloseConns, Goto, CallerFrame, CallOK, Opens, NeedListener, StopLabels, Frames, ruleVars
<1>14. ASSUME NEW c \in Callers, StopHealth(c) PROVE CallOK(c)'
  BY <1>1, <1>14 DEF StopHealth, Goto, CallerFrame, CallOK, Opens, NeedListener, StopLabels, Frames, ruleVars
<1>15. ASSUME NEW c \in Callers, WaitHealth(c) PROVE CallOK(c)'
  BY <1>1, <1>15 DEF WaitHealth, Goto, CallerFrame, CallOK, Opens, NeedListener, StopLabels, Frames, ruleVars
<1>16. ASSUME NEW c \in Callers, WaitConns(c) PROVE CallOK(c)'
  BY <1>1, <1>16 DEF WaitConns, Goto, CallerFrame, CallOK, Opens, NeedListener, StopLabels, Frames, ruleVars
<1>17. ASSUME NEW c \in Callers, UpdateBind(c) PROVE CallOK(c)'
  BY <1>1, <1>17 DEF UpdateBind, Goto, CallerFrame, CallOK, Opens, NeedListener, StopLabels, Frames, ruleVars
<1>18. ASSUME NEW c \in Callers, UpdateRetry(c) PROVE CallOK(c)'
  BY <1>1, <1>18 DEF UpdateRetry, Goto, CallerFrame, CallOK, Opens, NeedListener, StopLabels, Frames, ruleVars, SamePort
<1>19. ASSUME NEW c \in Callers, UpdateBindFails(c) PROVE CallOK(c)'
  BY <1>1, <1>19 DEF UpdateBindFails, Goto, CallerFrame, CallOK, Opens, NeedListener, StopLabels, Frames, ruleVars, SamePort
<1>20. ASSUME NEW c \in Callers, UpdateResize(c) PROVE CallOK(c)'
  BY <1>1, <1>20 DEF UpdateResize, Goto, CallerFrame, CallOK, Opens, NeedListener, StopLabels, Frames, ruleVars
<1>21. ASSUME NEW c \in Callers, UpdateResizeFails(c) PROVE CallOK(c)'
  BY <1>1, <1>21 DEF UpdateResizeFails, Goto, CallerFrame, CallOK, Opens, NeedListener, StopLabels, Frames, ruleVars
<1>22. ASSUME NEW c \in Callers, UpdateRestore(c) PROVE CallOK(c)'
  BY <1>1, <1>22 DEF UpdateRestore, Goto, CallerFrame, CallOK, Opens, NeedListener, StopLabels, Frames, ruleVars
<1>23. ASSUME NEW c \in Callers, UpdateSwap(c) PROVE CallOK(c)'
  BY <1>1, <1>23 DEF UpdateSwap, Goto, CallerFrame, CallOK, Opens, NeedListener, StopLabels, Frames, ruleVars
<1>24. ASSUME NEW c \in Callers, Return(c) PROVE CallOK(c)'
  BY <1>1, <1>24 DEF Return, Goto, CallerFrame, CallOK, Opens, NeedListener, StopLabels, Frames, ruleVars, NoCall
<1>25. ASSUME NEW c \in Callers, CallStart(c) PROVE CallOK(c)'
  BY <1>1, <1>25 DEF CallStart, Goto, CallerFrame, CallOK, Opens, NeedListener, StopLabels, Frames, ruleVars, Acquire, Frame
<1>26. ASSUME NEW c \in Callers, CallStop(c) PROVE CallOK(c)'
  BY <1>1, <1>26 DEF CallStop, Goto, CallerFrame, CallOK, Opens, NeedListener, StopLabels, Frames, ruleVars, Acquire, Frame
<1>27. ASSUME NEW c \in Callers, NEW s \in Configs, CallUpdate(c, s) PROVE CallOK(c)'
  BY <1>1, <1>27 DEF CallUpdate, Goto, CallOK, Opens, NeedListener, StopLabels, Frames, ruleVars, Acquire, Frame
<1>28. CASE \E c \in Callers : Call(c) \/ CallerStep(c)
  <2>1. PICK c \in Callers : Call(c) \/ CallerStep(c)
    BY <1>28
  <2>2. CallOK(c)'
    BY <2>1, <1>4, <1>5, <1>6, <1>7, <1>8, <1>9, <1>10, <1>11, <1>12, <1>13,
       <1>14, <1>15, <1>16, <1>17, <1>18, <1>19, <1>20, <1>21, <1>22, <1>23,
       <1>24, <1>25, <1>26, <1>27
    DEF Call, CallerStep
  <2> QED
    BY <1>2, <2>1, <2>2
<1>29. CASE \E g \in Gens : AcceptorStep(g)
  BY <1>3, <1>29 DEF AcceptorStep, Accept, Spawn, AcceptFails, BackoffEnds, AcceptorExits,
     LoopFrame, callerVars, ruleVars
<1>30. CASE \E k \in Conns : HandlerStep(k)
  BY <1>3, <1>30 DEF HandlerStep, Refuse, Register, Dial, DialFails, DialTooLate, BeginRelay,
     Watch, EndRelay, Unregister, Leave, PipeRead, PipeWritten, PipeEOF, PipeFails, CloseBoth,
     Proceed, HandlerFrame, callerVars, ruleVars
<1>31. CASE \E w \in Workers : WorkerStep(w)
  BY <1>3, <1>31 DEF WorkerStep, Probe, Note, Tick, WorkerExits, WorkerProceeds, WorkerFrame,
     callerVars, ruleVars
<1>32. CASE UNCHANGED vars
  BY <1>3, <1>32 DEF vars, callerVars, ruleVars
<1> QED
  BY <1>28, <1>29, <1>30, <1>31, <1>32 DEF Next

-----------------------------------------------------------------------------
(* Counters.                                                                *)

\* What is counted is finite.
LEMMA CountedIsFinite ==
  ASSUME IInv
  PROVE  /\ IsFiniteSet(Admitted) /\ IsFiniteSet(Running)
         /\ IsFiniteSet(LiveAcceptors) /\ IsFiniteSet(LiveWorkers)
<1>1. IsFiniteSet(Gens)
  BY FS_Interval, ConstantsAssumption DEF Gens
<1>2. Admitted \subseteq Conns /\ Running \subseteq Conns
  BY DEF Admitted, Running
<1>3. LiveAcceptors \subseteq Gens /\ LiveWorkers \subseteq Workers
  BY DEF LiveAcceptors, LiveWorkers
<1> QED
  BY <1>1, <1>2, <1>3, FS_Subset, ConstantsAssumption

\* A generation has no accept loop before it is the last one.
LEMMA NoFutureAcceptor ==
  ASSUME IInv, NEW c \in Callers, StartRun(c)
  PROVE  gen + 1 \in Gens \ LiveAcceptors
<1>1. gen + 1 \in Gens
  BY GenerationLeft DEF StartRun
<1>2. acceptor[gen + 1] = "none"
  BY <1>1, ConstantsAssumption DEF IInv, Types, GenInv
<1> QED
  BY <1>1, <1>2 DEF LiveAcceptors

\* Every step that changes what is counted changes the counter with it.
LEMMA CountsStep ==
  ASSUME IInv, [Next]_vars
  PROVE  Counts'
<1>1. /\ Counts
      /\ acceptor \in [Gens -> {"none", "accept", "spawn", "backoff"}]
      /\ handler \in [Conns -> Handlers]
      /\ worker \in [Workers -> HealthWorkers]
      /\ Cardinality(Admitted) \in Nat /\ Cardinality(Running) \in Nat
      /\ Cardinality(LiveAcceptors) \in Nat /\ Cardinality(LiveWorkers) \in Nat
  BY CountedIsFinite, FS_CardinalityType DEF IInv, Types
<1>2. ASSUME UNCHANGED <<wg, conns, active, healthWG>>,
             Admitted' = Admitted, Running' = Running,
             LiveAcceptors' = LiveAcceptors, LiveWorkers' = LiveWorkers
      PROVE  Counts'
  BY <1>1, <1>2 DEF Counts
<1>3. ASSUME UNCHANGED <<loopVars, connVars, healthVars>> PROVE Counts'
  BY <1>1, <1>3 DEF Counts, loopVars, connVars, healthVars, Admitted, Running, LiveAcceptors, LiveWorkers
<1>4. ASSUME NEW c \in Callers, Call(c) PROVE Counts'
  BY <1>3, <1>4 DEF Call, CallStart, CallStop, CallUpdate, Acquire
<1>5. ASSUME NEW c \in Callers, StartRun(c) PROVE Counts'
  <2>1. LiveAcceptors' = LiveAcceptors \cup {gen + 1}
    BY <1>1, <1>5, NoFutureAcceptor DEF StartRun, LiveAcceptors
  <2>2. Cardinality(LiveAcceptors') = Cardinality(LiveAcceptors) + 1
    BY <1>5, <2>1, NoFutureAcceptor, CountedIsFinite, FS_AddElement
  <2>3. Admitted' = Admitted /\ Running' = Running /\ LiveWorkers' = LiveWorkers
    BY <1>5 DEF StartRun, connVars, healthVars, Admitted, Running, LiveWorkers
  <2>4. wg' = wg + 1 /\ UNCHANGED <<conns, active, healthWG>>
    BY <1>5 DEF StartRun, connVars, healthVars
  <2> QED
    BY <1>1, <2>2, <2>3, <2>4 DEF Counts
<1>6. ASSUME NEW c \in Callers, StartHealth(c) PROVE Counts'
  <2>1. CASE ~(running /\ spec.health)
    BY <1>3, <1>6, <2>1 DEF StartHealth
  <2>2. CASE running /\ spec.health
    <3>1. PICK w \in Workers :
             /\ worker[w].pc = "none"
             /\ worker' = [worker EXCEPT ![w] =
                  [pc |-> "probe", gen |-> gen, stop |-> FALSE, spec |-> spec]]
      BY <1>6, <2>2 DEF StartHealth
    <3>2. LiveWorkers' = LiveWorkers \cup {w} /\ w \notin LiveWorkers
      BY <1>1, <3>1 DEF LiveWorkers
    <3>3. Cardinality(LiveWorkers') = Cardinality(LiveWorkers) + 1
      BY <3>2, CountedIsFinite, FS_AddElement
    <3>4. Admitted' = Admitted /\ Running' = Running /\ LiveAcceptors' = LiveAcceptors
      BY <1>6 DEF StartHealth, loopVars, connVars, Admitted, Running, LiveAcceptors
    <3>5. healthWG' = healthWG + 1 /\ UNCHANGED <<conns, active, wg>>
      BY <1>6, <2>2 DEF StartHealth, loopVars, connVars
    <3> QED
      BY <1>1, <3>3, <3>4, <3>5 DEF Counts
  <2> QED
    BY <2>1, <2>2
<1>7. ASSUME NEW c \in Callers, StopCloseConns(c) PROVE Counts'
  <2>1. \A k \in Conns : handler'[k].pc = handler[k].pc
    BY <1>1, <1>7 DEF StopCloseConns, Handlers
  <2> QED
    BY <1>2, <1>7, <2>1
    DEF StopCloseConns, loopVars, healthVars, Admitted, Running, LiveAcceptors, LiveWorkers
<1>8. ASSUME NEW c \in Callers, StopHealth(c) PROVE Counts'
  <2>1. \A w \in Workers : worker'[w].pc = worker[w].pc
    BY <1>1, <1>8 DEF StopHealth, HealthWorkers
  <2> QED
    BY <1>2, <1>8, <2>1
    DEF StopHealth, loopVars, connVars, Admitted, Running, LiveAcceptors, LiveWorkers
<1>9. ASSUME NEW c \in Callers, CallerStep(c) PROVE Counts'
  BY <1>3, <1>5, <1>6, <1>7, <1>8, <1>9
  DEF CallerStep, StartAlready, StartBind, StartBindFails, StopNotRunning, StopBegin, StopCancel,
      StopCloseListener, WaitHealth, WaitConns, UpdateBind, UpdateRetry, UpdateBindFails,
      UpdateResize, UpdateResizeFails, UpdateRestore, UpdateSwap, Return, CallerFrame
<1>10. ASSUME NEW g \in Gens, NEW k \in Conns, Accept(g, k) PROVE Counts'
  <2>1. Admitted' = Admitted /\ Running' = Running
    BY <1>1, <1>10 DEF Accept, Admitted, Running
  <2>2. LiveAcceptors' = LiveAcceptors
    BY <1>1, <1>10 DEF Accept, LiveAcceptors
  <2> QED
    BY <1>2, <1>10, <2>1, <2>2 DEF Accept, LoopFrame, healthVars, LiveWorkers
<1>11. ASSUME NEW g \in Gens, NEW k \in Conns, Spawn(g, k) PROVE Counts'
  <2>1. handler'[k].pc = "enter"
    BY <1>1, <1>11 DEF Spawn, Handlers
  <2>2. \A j \in Conns \ {k} : handler'[j] = handler[j]
    BY <1>1, <1>11 DEF Spawn
  <2>3. handler[k].pc = "accepted"
    BY <1>11 DEF Spawn
  <2>4. Admitted' = Admitted /\ Running' = Running \cup {k} /\ k \notin Running
    BY <2>1, <2>2, <2>3 DEF Admitted, Running
  <2>5. Cardinality(Running') = Cardinality(Running) + 1
    BY <2>4, CountedIsFinite, FS_AddElement
  <2>6. LiveAcceptors' = LiveAcceptors
    BY <1>1, <1>11 DEF Spawn, LiveAcceptors
  <2>7. wg' = wg + 1 /\ UNCHANGED <<conns, active, healthWG>> /\ LiveWorkers' = LiveWorkers
    BY <1>11 DEF Spawn, LoopFrame, healthVars, LiveWorkers
  <2> QED
    BY <1>1, <2>4, <2>5, <2>6, <2>7 DEF Counts
<1>12. ASSUME NEW g \in Gens, AcceptFails(g) \/ BackoffEnds(g) PROVE Counts'
  <2>1. LiveAcceptors' = LiveAcceptors
    BY <1>1, <1>12 DEF AcceptFails, BackoffEnds, LiveAcceptors
  <2> QED
    BY <1>2, <1>12, <2>1
    DEF AcceptFails, BackoffEnds, LoopFrame, healthVars, Admitted, Running, LiveWorkers
<1>13. ASSUME NEW g \in Gens, AcceptorExits(g) PROVE Counts'
  <2>1. LiveAcceptors' = LiveAcceptors \ {g} /\ g \in LiveAcceptors
    BY <1>1, <1>13 DEF AcceptorExits, LiveAcceptors
  <2>2. Cardinality(LiveAcceptors') = Cardinality(LiveAcceptors) - 1
    BY <2>1, CountedIsFinite, FS_RemoveElement
  <2>3. Admitted' = Admitted /\ Running' = Running /\ LiveWorkers' = LiveWorkers
    BY <1>13 DEF AcceptorExits, LoopFrame, healthVars, Admitted, Running, LiveWorkers
  <2>4. wg' = wg - 1 /\ UNCHANGED <<conns, active, healthWG>>
    BY <1>13 DEF AcceptorExits, LoopFrame, healthVars
  <2> QED
    BY <1>1, <2>2, <2>3, <2>4 DEF Counts
<1>14. ASSUME NEW g \in Gens, AcceptorStep(g) PROVE Counts'
  BY <1>10, <1>11, <1>12, <1>13, <1>14 DEF AcceptorStep
<1>15. ASSUME NEW k \in Conns,
              \/ Refuse(k) \/ Dial(k) \/ DialFails(k) \/ DialTooLate(k) \/ BeginRelay(k)
              \/ Watch(k) \/ EndRelay(k)
              \/ \E d \in Dirs :
                   PipeRead(k, d) \/ PipeWritten(k, d) \/ PipeEOF(k, d) \/ PipeFails(k, d)
       PROVE  Counts'
  <2>1. /\ \A j \in Conns \ {k} : handler'[j] = handler[j]
        /\ handler'[k].pc \in {"dial", "dialed", "relay", "unregister"} <=>
             handler[k].pc \in {"dial", "dialed", "relay", "unregister"}
        /\ handler'[k].pc \in {"none", "accepted"} <=> handler[k].pc \in {"none", "accepted"}
    <3>1. CASE Refuse(k) \/ DialFails(k) \/ DialTooLate(k) \/ EndRelay(k)
      BY <1>1, <3>1 DEF Refuse, DialFails, DialTooLate, EndRelay, Proceed, Handlers
    <3>2. CASE Dial(k) \/ BeginRelay(k)
      <4>1. handler[k] \in Handlers
        BY <1>1
      <4>2. CASE Dial(k)
        BY <1>1, <4>1, <4>2 DEF Dial, Handlers
      <4>3. CASE BeginRelay(k)
        BY <1>1, <4>1, <4>3 DEF BeginRelay, Handlers
      <4> QED
        BY <3>2, <4>2, <4>3
    <3>3. CASE Watch(k) \/ \E d \in Dirs : PipeFails(k, d)
      <4>1. handler' = [handler EXCEPT ![k] = [@ EXCEPT !.client = FALSE, !.upstream = FALSE]]
        BY <3>3 DEF Watch, PipeFails, CloseBoth
      <4>2. handler[k] \in Handlers
        BY <1>1
      <4>3. [handler[k] EXCEPT !.client = FALSE, !.upstream = FALSE].pc = handler[k].pc
        BY <4>2 DEF Handlers
      <4> QED
        BY <1>1, <4>1, <4>3
    <3>4. CASE \E d \in Dirs : PipeRead(k, d) \/ PipeWritten(k, d) \/ PipeEOF(k, d)
      BY <1>1, <3>4 DEF PipeRead, PipeWritten, PipeEOF
    <3> QED
      BY <1>15, <3>1, <3>2, <3>3, <3>4
  <2>2. Admitted' = Admitted /\ Running' = Running
    BY <2>1 DEF Admitted, Running
  <2>3. UNCHANGED <<wg, acceptor, conns, active, healthVars>>
    BY <1>15
    DEF Refuse, Dial, DialFails, DialTooLate, BeginRelay, Watch, EndRelay, PipeRead, PipeWritten,
        PipeEOF, PipeFails, CloseBoth, Proceed, HandlerFrame
  <2> QED
    BY <1>2, <2>2, <2>3 DEF healthVars, LiveAcceptors, LiveWorkers
<1>16. ASSUME NEW k \in Conns, Register(k) PROVE Counts'
  <2>1. /\ handler[k].pc = "enter" /\ handler'[k].pc = "dial"
        /\ \A j \in Conns \ {k} : handler'[j] = handler[j]
    BY <1>1, <1>16 DEF Register, Handlers
  <2>2. Admitted' = Admitted \cup {k} /\ k \notin Admitted /\ Running' = Running
    BY <2>1 DEF Admitted, Running
  <2>3. Cardinality(Admitted') = Cardinality(Admitted) + 1
    BY <2>2, CountedIsFinite, FS_AddElement
  <2>4. /\ conns' = conns \cup {k} /\ active' = active + 1
        /\ UNCHANGED <<wg, acceptor, healthVars>>
    BY <1>16 DEF Register, HandlerFrame
  <2> QED
    BY <1>1, <2>2, <2>3, <2>4 DEF Counts, healthVars, LiveAcceptors, LiveWorkers
<1>17. ASSUME NEW k \in Conns, Unregister(k) PROVE Counts'
  <2>1. /\ handler[k].pc = "unregister" /\ handler'[k].pc = "leave"
        /\ \A j \in Conns \ {k} : handler'[j] = handler[j]
    BY <1>1, <1>17 DEF Unregister, Handlers
  <2>2. Admitted' = Admitted \ {k} /\ k \in Admitted /\ Running' = Running
    BY <2>1 DEF Admitted, Running
  <2>3. Cardinality(Admitted') = Cardinality(Admitted) - 1
    BY <2>2, CountedIsFinite, FS_RemoveElement
  <2>4. /\ conns' = conns \ {k} /\ active' = active - 1
        /\ UNCHANGED <<wg, acceptor, healthVars>>
    BY <1>17 DEF Unregister, HandlerFrame
  <2> QED
    BY <1>1, <2>2, <2>3, <2>4 DEF Counts, healthVars, LiveAcceptors, LiveWorkers
<1>18. ASSUME NEW k \in Conns, Leave(k) PROVE Counts'
  <2>1. /\ handler[k].pc = "leave" /\ handler'[k].pc = "none"
        /\ \A j \in Conns \ {k} : handler'[j] = handler[j]
    BY <1>1, <1>18 DEF Leave, NoConn
  <2>2. Admitted' = Admitted /\ Running' = Running \ {k} /\ k \in Running
    BY <2>1 DEF Admitted, Running
  <2>3. Cardinality(Running') = Cardinality(Running) - 1
    BY <2>2, CountedIsFinite, FS_RemoveElement
  <2>4. wg' = wg - 1 /\ UNCHANGED <<acceptor, conns, active, healthVars>>
    BY <1>18 DEF Leave, HandlerFrame
  <2> QED
    BY <1>1, <2>2, <2>3, <2>4 DEF Counts, healthVars, LiveAcceptors, LiveWorkers
<1>19. ASSUME NEW k \in Conns, HandlerStep(k) PROVE Counts'
  BY <1>15, <1>16, <1>17, <1>18, <1>19 DEF HandlerStep
<1>20. ASSUME NEW w \in Workers, WorkerExits(w) PROVE Counts'
  <2>1. LiveWorkers' = LiveWorkers \ {w} /\ w \in LiveWorkers
    BY <1>1, <1>20 DEF WorkerExits, NoWorker, LiveWorkers
  <2>2. Cardinality(LiveWorkers') = Cardinality(LiveWorkers) - 1
    BY <2>1, CountedIsFinite, FS_RemoveElement
  <2>3. Admitted' = Admitted /\ Running' = Running /\ LiveAcceptors' = LiveAcceptors
    BY <1>20 DEF WorkerExits, WorkerFrame, loopVars, connVars, Admitted, Running, LiveAcceptors
  <2>4. healthWG' = healthWG - 1 /\ UNCHANGED <<wg, conns, active>>
    BY <1>20 DEF WorkerExits, WorkerFrame, loopVars, connVars
  <2> QED
    BY <1>1, <2>2, <2>3, <2>4 DEF Counts
<1>21. ASSUME NEW w \in Workers, Probe(w) \/ Note(w) \/ Tick(w) PROVE Counts'
  <2>1. LiveWorkers' = LiveWorkers
    BY <1>1, <1>21 DEF Probe, Note, Tick, WorkerProceeds, HealthWorkers, LiveWorkers
  <2> QED
    BY <1>2, <1>21, <2>1
    DEF Probe, Note, Tick, WorkerProceeds, WorkerFrame, loopVars, connVars, Admitted, Running,
        LiveAcceptors
<1>22. CASE UNCHANGED vars
  BY <1>3, <1>22 DEF vars
<1> QED
  BY <1>4, <1>9, <1>14, <1>19, <1>20, <1>21, <1>22 DEF Next, WorkerStep

-----------------------------------------------------------------------------
(* Generations.                                                             *)

\* A counter at zero means that nothing it counts is left.
LEMMA NothingCounted ==
  ASSUME IInv
  PROVE  /\ wg = 0 => LiveAcceptors = {} /\ Running = {}
         /\ healthWG = 0 => LiveWorkers = {}
         /\ active = 0 => Admitted = {}
<1>1. /\ wg = Cardinality(LiveAcceptors) + Cardinality(Running)
      /\ healthWG = Cardinality(LiveWorkers) /\ active = Cardinality(Admitted)
  BY DEF IInv, Counts
<1>2. /\ Cardinality(Running) \in Nat /\ Cardinality(LiveAcceptors) \in Nat
  BY CountedIsFinite, FS_CardinalityType
<1> QED
  BY <1>1, <1>2, CountedIsFinite, FS_EmptySet

\* When a caller is about to open the listener nothing of the last one is left.
LEMMA QuietBeforeRun ==
  ASSUME IInv, NEW c \in Callers, pc[c] = "run"
  PROVE  /\ ~running
         /\ \A g \in Gens : sock[g] = None /\ acceptor[g] = "none"
         /\ \A k \in Conns : handler[k] = NoConn
         /\ \A w \in Workers : worker[w].pc = "none"
<1>1. life = c
  BY DEF IInv, CallInv, CallOK
<1>2. QuietAt("run")
  BY <1>1 DEF IInv, QuietInv
<1>3. ~running
  BY <1>2 DEF QuietAt
<1>4. wg = 0
  BY <1>2, <1>3 DEF QuietAt, StopLabels
<1>5. healthWG = 0 /\ \A g \in Gens : sock[g] = None
  BY <1>2, <1>3 DEF QuietAt
<1>6. /\ \A g \in Gens : acceptor[g] = "none"
      /\ \A k \in Conns : handler[k].pc \in {"none", "accepted"}
      /\ \A w \in Workers : worker[w].pc = "none"
  BY <1>4, <1>5, NothingCounted DEF LiveAcceptors, Running, LiveWorkers
<1>7. \A k \in Conns : handler[k] = NoConn
  <2>1. ASSUME NEW k \in Conns, handler[k].pc = "accepted" PROVE FALSE
    <3>1. acceptor[gen] = "spawn" /\ gen # 0
      BY <2>1 DEF IInv, GenInv
    <3>2. gen \in Gens
      BY <3>1, ConstantsAssumption DEF IInv, Types, Gens
    <3> QED
      BY <1>6, <3>1, <3>2
  <2> QED
    BY <1>6, <2>1 DEF IInv, GenInv
<1> QED
  BY <1>3, <1>5, <1>6, <1>7

\* A stop has cleared Rule.running before it does anything else.
LEMMA StoppingMeansStopped ==
  ASSUME IInv, NEW c \in Callers, pc[c] \in StopLabels \ {"stop"}
  PROVE  ~running
<1>1. life = c
  BY DEF IInv, CallInv, CallOK, StopLabels
<1> QED
  BY <1>1 DEF IInv, QuietInv, QuietAt

\* Nothing outlives its generation.
LEMMA GenStep ==
  ASSUME IInv, [Next]_vars
  PROVE  GenInv'
<1>1. /\ GenInv /\ gen \in 0..MaxGen /\ MaxGen \in Nat
      /\ sock \in [Gens -> Addrs \cup {None}] /\ None \notin Addrs
      /\ acceptor \in [Gens -> {"none", "accept", "spawn", "backoff"}]
      /\ handler \in [Conns -> Handlers]
      /\ worker \in [Workers -> HealthWorkers]
  BY ConstantsAssumption DEF IInv, Types
<1>2. ASSUME UNCHANGED <<running, gen, cancelled, sock, acceptor, handler, worker>> PROVE GenInv'
  BY <1>1, <1>2 DEF GenInv
<1>3. ASSUME NEW c \in Callers, Call(c) PROVE GenInv'
  BY <1>2, <1>3
  DEF Call, CallStart, CallStop, CallUpdate, Acquire, ruleVars, loopVars, connVars, healthVars
<1>4. ASSUME NEW c \in Callers, StartRun(c) PROVE GenInv'
  <2>1. /\ gen' = gen + 1 /\ gen + 1 \in Gens
        /\ cancelled' = cancelled /\ running'
        /\ sock' = [sock EXCEPT ![gen + 1] = op[c].cand]
        /\ acceptor' = [acceptor EXCEPT ![gen + 1] = "accept"]
        /\ handler' = handler /\ worker' = worker
    BY <1>4, GenerationLeft DEF StartRun, connVars, healthVars
  <2>2. /\ \A g \in Gens : sock[g] = None /\ acceptor[g] = "none"
        /\ \A k \in Conns : handler[k] = NoConn
        /\ \A w \in Workers : worker[w].pc = "none"
    BY <1>4, QuietBeforeRun DEF StartRun
  <2>3. cancelled' \subseteq 1..gen' /\ gen' # 0 /\ gen' \notin cancelled'
    BY <1>1, <2>1 DEF GenInv
  <2>4. \A g \in Gens : sock'[g] # None \/ acceptor'[g] # "none" => g = gen'
    BY <1>1, <2>1, <2>2
  <2> QED
    BY <2>1, <2>2, <2>3, <2>4 DEF GenInv, NoConn
<1>5. ASSUME NEW c \in Callers, StartHealth(c) PROVE GenInv'
  <2>1. UNCHANGED <<running, gen, cancelled, sock, acceptor, handler>>
    BY <1>5 DEF StartHealth, ruleVars, loopVars, connVars
  <2>2. \A w \in Workers : worker'[w].pc # "none" => worker'[w].gen = gen
    BY <1>1, <1>5 DEF StartHealth, GenInv, healthVars
  <2> QED
    BY <1>1, <2>1, <2>2 DEF GenInv
<1>6. ASSUME NEW c \in Callers, StopBegin(c) PROVE GenInv'
  BY <1>1, <1>6 DEF StopBegin, GenInv, loopVars, connVars, healthVars
<1>7. ASSUME NEW c \in Callers, StopCancel(c) PROVE GenInv'
  <2>1. gen \in Gens /\ ~running
    BY <1>7, StopHasGeneration, StoppingMeansStopped DEF StopCancel, StopLabels
  <2>2. cancelled' \subseteq 1..gen
    BY <1>1, <1>7, <2>1 DEF StopCancel, GenInv, Gens
  <2> QED
    BY <1>1, <1>7, <2>1, <2>2 DEF StopCancel, GenInv, loopVars, connVars, healthVars
<1>8. ASSUME NEW c \in Callers, StopCloseListener(c) PROVE GenInv'
  BY <1>1, <1>8 DEF StopCloseListener, GenInv, loopVars, connVars, healthVars
<1>9. ASSUME NEW c \in Callers, StopCloseConns(c) PROVE GenInv'
  <2>1. /\ \A k \in Conns : handler'[k].pc = handler[k].pc /\ handler'[k].gen = handler[k].gen
        /\ \A k \in Conns \ conns : handler'[k] = handler[k]
    BY <1>1, <1>9 DEF StopCloseConns, Handlers
  <2>2. \A k \in Conns : handler[k].pc = "none" => k \notin conns
    BY DEF IInv, Counts, Admitted
  <2>3. UNCHANGED <<running, gen, cancelled, sock, acceptor, worker>>
    BY <1>9 DEF StopCloseConns, ruleVars, loopVars, healthVars
  <2> QED
    BY <1>1, <2>1, <2>2, <2>3 DEF GenInv
<1>10. ASSUME NEW c \in Callers, StopHealth(c) PROVE GenInv'
  <2>1. \A w \in Workers : worker'[w].pc = worker[w].pc /\ worker'[w].gen = worker[w].gen
    BY <1>1, <1>10 DEF StopHealth, HealthWorkers
  <2> QED
    BY <1>1, <1>10, <2>1 DEF StopHealth, GenInv, ruleVars, loopVars, connVars
<1>11. ASSUME NEW c \in Callers, CallerStep(c) PROVE GenInv'
  BY <1>2, <1>4, <1>5, <1>6, <1>7, <1>8, <1>9, <1>10, <1>11
  DEF CallerStep, StartAlready, StartBind, StartBindFails, StopNotRunning,
      WaitHealth, WaitConns, UpdateBind, UpdateRetry, UpdateBindFails,
      UpdateResize, UpdateResizeFails, UpdateRestore, UpdateSwap, Return, CallerFrame,
      ruleVars, loopVars, connVars, healthVars
<1>12. ASSUME NEW g \in Gens, NEW k \in Conns, Accept(g, k) PROVE GenInv'
  <2>1. /\ g = gen /\ gen # 0
    BY <1>1, <1>12, ConstantsAssumption DEF Accept, GenInv, Gens
  <2>2. \A j \in Conns : handler[j].pc # "accepted"
    BY <1>1, <1>12, <2>1 DEF Accept, GenInv
  <2>3. /\ \A j \in Conns \ {k} : handler'[j] = handler[j]
        /\ handler'[k].pc = "accepted" /\ handler'[k].gen = gen
        /\ acceptor'[gen] = "spawn" /\ \A h \in Gens \ {gen} : acceptor'[h] = acceptor[h]
    BY <1>1, <1>12, <2>1 DEF Accept
  <2>4. UNCHANGED <<running, gen, cancelled, sock, worker>>
    BY <1>12 DEF Accept, LoopFrame, ruleVars, healthVars
  <2> QED
    BY <1>1, <2>1, <2>2, <2>3, <2>4 DEF GenInv
<1>13. ASSUME NEW g \in Gens, NEW k \in Conns, Spawn(g, k) PROVE GenInv'
  <2>1. g = gen /\ gen # 0
    BY <1>1, <1>13 DEF Spawn, GenInv
  <2>2. \A j \in Conns \ {k} : handler[j].pc # "accepted"
    BY <1>1, <1>13 DEF Spawn, GenInv
  <2>3. /\ \A j \in Conns \ {k} : handler'[j] = handler[j]
        /\ handler'[k].pc = "enter" /\ handler'[k].gen = gen
        /\ \A h \in Gens \ {gen} : acceptor'[h] = acceptor[h]
    BY <1>1, <1>13, <2>1 DEF Spawn, Handlers
  <2>4. UNCHANGED <<running, gen, cancelled, sock, worker>>
    BY <1>13 DEF Spawn, LoopFrame, ruleVars, healthVars
  <2> QED
    BY <1>1, <2>1, <2>2, <2>3, <2>4 DEF GenInv
<1>14. ASSUME NEW g \in Gens, AcceptFails(g) \/ BackoffEnds(g) \/ AcceptorExits(g) PROVE GenInv'
  <2>1. /\ acceptor[g] \in {"accept", "backoff"}
        /\ \A h \in Gens \ {g} : acceptor'[h] = acceptor[h]
    BY <1>1, <1>14 DEF AcceptFails, BackoffEnds, AcceptorExits
  <2>2. g = gen
    BY <1>1, <2>1 DEF GenInv
  <2>3. \A k \in Conns : handler[k].pc # "accepted"
    BY <1>1, <2>1, <2>2 DEF GenInv
  <2>4. UNCHANGED <<running, gen, cancelled, sock, handler, worker>>
    BY <1>14 DEF AcceptFails, BackoffEnds, AcceptorExits, LoopFrame, ruleVars, healthVars
  <2> QED
    BY <1>1, <2>1, <2>2, <2>3, <2>4 DEF GenInv
<1>15. ASSUME NEW g \in Gens, AcceptorStep(g) PROVE GenInv'
  BY <1>12, <1>13, <1>14, <1>15 DEF AcceptorStep
<1>16. ASSUME NEW k \in Conns, HandlerStep(k) PROVE GenInv'
  <2> DEFINE Moves == /\ handler[k].pc # "none" /\ handler'[k].pc # "none"
                      /\ handler'[k].gen = handler[k].gen
                      /\ handler'[k].pc = "accepted" => handler[k].pc = "accepted"
             Others == \A j \in Conns \ {k} : handler'[j] = handler[j]
             Frame0 == UNCHANGED <<running, gen, cancelled, sock, acceptor, worker>>
  <2>0. ASSUME Moves \/ handler'[k] = NoConn, Others, Frame0 PROVE GenInv'
    <3>0. NoConn.pc = "none"
      BY DEF NoConn
    <3>1. \A j \in Conns : handler'[j].pc = "accepted" => handler[j].pc = "accepted"
      BY <2>0, <3>0
    <3>2. \A j \in Conns : /\ handler'[j].pc # "none" => handler'[j].gen = gen /\ gen # 0
                           /\ handler'[j].pc = "none" => handler'[j] = NoConn
      BY <1>1, <2>0, <3>0 DEF GenInv
    <3>3. \A j \in Conns : handler'[j].pc = "accepted" => acceptor[gen] = "spawn"
      BY <1>1, <3>1 DEF GenInv
    <3>4. \A i, j \in Conns : handler'[i].pc = "accepted" /\ handler'[j].pc = "accepted" => i = j
      BY <1>1, <3>1 DEF GenInv
    <3> QED
      BY <1>1, <2>0, <3>2, <3>3, <3>4 DEF GenInv
  <2>1. CASE Refuse(k) \/ DialFails(k) \/ DialTooLate(k) \/ EndRelay(k)
    <3>1. PICK l \in {"leave", "unregister"} :
             handler' = [handler EXCEPT ![k].pc = l] /\ handler[k].pc \in {"enter", "dial", "dialed", "relay"}
      BY <2>1 DEF Refuse, DialFails, DialTooLate, EndRelay, Proceed
    <3>2. Moves /\ Others
      BY <1>1, <3>1 DEF Handlers
    <3>3. Frame0
      BY <2>1 DEF Refuse, DialFails, DialTooLate, EndRelay, Proceed, HandlerFrame, ruleVars, healthVars
    <3> QED
      BY <2>0, <3>2, <3>3
  <2>2. CASE Register(k) \/ Dial(k) \/ BeginRelay(k) \/ Unregister(k) \/ Leave(k)
    <3>1. (Moves \/ handler'[k] = NoConn) /\ Others
      <4>1. CASE Register(k) \/ Dial(k)
        <5>1. handler[k] \in Handlers
          BY <1>1
        <5>2. CASE Register(k)
          BY <1>1, <5>1, <5>2 DEF Register, Handlers
        <5>3. CASE Dial(k)
          BY <1>1, <5>1, <5>3 DEF Dial, Handlers
        <5> QED
          BY <4>1, <5>2, <5>3
      <4>2. CASE BeginRelay(k)
        BY <1>1, <4>2 DEF BeginRelay, Handlers
      <4>3. CASE Unregister(k)
        BY <1>1, <4>3 DEF Unregister, Handlers
      <4>4. CASE Leave(k)
        BY <1>1, <4>4 DEF Leave
      <4> QED
        BY <2>2, <4>1, <4>2, <4>3, <4>4
    <3>2. Frame0
      BY <2>2 DEF Register, Dial, BeginRelay, Unregister, Leave, HandlerFrame, ruleVars, healthVars
    <3> QED
      BY <2>0, <3>1, <3>2
  <2>3. CASE Watch(k) \/ \E d \in Dirs : PipeFails(k, d)
    <3>1. handler' = [handler EXCEPT ![k] = [@ EXCEPT !.client = FALSE, !.upstream = FALSE]]
      BY <2>3 DEF Watch, PipeFails, CloseBoth
    <3>2. handler[k].pc = "none" => handler'[k] = NoConn
      <4>1. SUFFICES ASSUME handler[k].pc = "none" PROVE handler'[k] = NoConn
        OBVIOUS
      <4>2. handler[k] = NoConn
        BY <1>1, <4>1 DEF GenInv
      <4>3. NoConn.client = FALSE /\ NoConn.upstream = FALSE
        BY DEF NoConn
      <4>4. handler[k] \in Handlers
        BY <1>1
      <4>5. [handler[k] EXCEPT !.client = FALSE, !.upstream = FALSE] = handler[k]
        BY <4>2, <4>3, <4>4, HandlerUpdate
      <4> QED
        BY <1>1, <3>1, <4>2, <4>5
    <3>3. handler[k].pc # "none" => Moves
      BY <1>1, <3>1 DEF Handlers
    <3>4. Others
      BY <1>1, <3>1
    <3>5. Frame0
      BY <2>3 DEF Watch, PipeFails, CloseBoth, HandlerFrame, ruleVars, healthVars
    <3> QED
      BY <2>0, <3>2, <3>3, <3>4, <3>5
  <2>4. CASE \E d \in Dirs : PipeRead(k, d) \/ PipeWritten(k, d) \/ PipeEOF(k, d)
    BY <1>2, <2>4 DEF PipeRead, PipeWritten, PipeEOF, HandlerFrame, ruleVars, healthVars
  <2> QED
    BY <1>16, <2>1, <2>2, <2>3, <2>4 DEF HandlerStep
<1>17. ASSUME NEW w \in Workers, WorkerStep(w) PROVE GenInv'
  <2>1. /\ \A v \in Workers \ {w} : worker'[v] = worker[v]
        /\ worker'[w].pc # "none" => worker[w].pc # "none" /\ worker'[w].gen = worker[w].gen
    <3>1. CASE Probe(w) \/ Note(w) \/ Tick(w)
      BY <1>1, <3>1 DEF Probe, Note, Tick, WorkerProceeds, HealthWorkers
    <3>2. CASE WorkerExits(w)
      BY <1>1, <3>2 DEF WorkerExits, NoWorker
    <3> QED
      BY <1>17, <3>1, <3>2 DEF WorkerStep
  <2>2. UNCHANGED <<running, gen, cancelled, sock, acceptor, handler>>
    BY <1>17 DEF WorkerStep, Probe, Note, Tick, WorkerExits, WorkerProceeds, WorkerFrame,
       ruleVars, loopVars, connVars
  <2> QED
    BY <1>1, <2>1, <2>2 DEF GenInv
<1>18. CASE UNCHANGED vars
  BY <1>2, <1>18 DEF vars, ruleVars, loopVars, connVars, healthVars
<1> QED
  BY <1>3, <1>11, <1>15, <1>16, <1>17, <1>18 DEF Next

-----------------------------------------------------------------------------
(* How far the rule has been taken down.                                    *)

\* What is at rest stays at rest until a call starts the rule again.
LEMMA QuietStep ==
  ASSUME IInv, [Next]_vars
  PROVE  QuietInv'
<1>1. /\ QuietInv /\ CallInv /\ None \notin Callers
      /\ pc \in [Callers -> CallerLabels]
      /\ sock \in [Gens -> Addrs \cup {None}]
  BY ConstantsAssumption DEF IInv, Types
<1>2. ASSUME UNCHANGED <<life, pc, running, sock>>, wg = 0 => wg' = 0, healthWG = 0 => healthWG' = 0
      PROVE  QuietInv'
  BY <1>1, <1>2 DEF QuietInv, QuietAt
<1>3. ASSUME NEW c \in Callers, Call(c) \/ CallerStep(c), QuietAt(pc[c])' PROVE QuietInv'
  <2>1. \A x \in Callers \ {c} : life' # x
    BY <1>3, CallerAlone
  <2>2. life' = c <=> pc'[c] # "idle"
    BY CallStep DEF CallInv, CallOK
  <2>3. life' = None => QuietAt("idle")'
    BY <1>1, <1>3, <2>2 DEF QuietAt
  <2> QED
    BY <1>3, <2>1, <2>3 DEF QuietInv
<1>4. ASSUME NEW c \in Callers, pc[c] # "idle" PROVE QuietAt(pc[c])
  BY <1>1, <1>4 DEF CallInv, CallOK, QuietInv
<1>5. ASSUME NEW c \in Callers, Call(c) PROVE QuietAt(pc[c])'
  <2>1. QuietAt("idle")
    BY <1>1, <1>5 DEF Call, CallStart, CallStop, CallUpdate, Acquire, QuietInv
  <2>2. pc'[c] \in {"start", "stop", "bind", "resize"}
    BY <1>1, <1>5 DEF Call, CallStart, CallStop, CallUpdate, Acquire, Goto
  <2>3. UNCHANGED <<running, sock, wg, healthWG>>
    BY <1>5 DEF Call, CallStart, CallStop, CallUpdate, Acquire, ruleVars, loopVars, healthVars
  <2> QED
    BY <2>1, <2>2, <2>3 DEF QuietAt, StopLabels
<1>6. ASSUME NEW c \in Callers, StartAlready(c) \/ StartBind(c) \/ StartBindFails(c) PROVE QuietAt(pc[c])'
  BY <1>1, <1>4, <1>6
  DEF StartAlready, StartBind, StartBindFails, Goto, CallerFrame, QuietAt, StopLabels,
      ruleVars, loopVars, healthVars
<1>7. ASSUME NEW c \in Callers, StartRun(c) PROVE QuietAt(pc[c])'
  BY <1>1, <1>4, <1>7
  DEF StartRun, Goto, CallerFrame, QuietAt, StopLabels,
      ruleVars, loopVars, healthVars
<1>8. ASSUME NEW c \in Callers, StartHealth(c) PROVE QuietAt(pc[c])'
  BY <1>1, <1>4, <1>8
  DEF StartHealth, Goto, CallerFrame, QuietAt, StopLabels,
      ruleVars, loopVars, healthVars
<1>9. ASSUME NEW c \in Callers, StopNotRunning(c) \/ WaitConns(c) PROVE QuietAt(pc[c])'
  <2>1. op[c].after \in {"return", "rebind", "pauseHealth"}
    BY FrameFields DEF IInv, Types
  <2> QED
    BY <1>1, <1>4, <1>9, <2>1
    DEF StopNotRunning, WaitConns, Goto, CallerFrame, QuietAt, StopLabels, ruleVars, loopVars, healthVars
<1>10. ASSUME NEW c \in Callers, StopBegin(c) \/ StopCancel(c) \/ StopCloseConns(c) PROVE QuietAt(pc[c])'
  BY <1>1, <1>4, <1>10
  DEF StopBegin, StopCancel, StopCloseConns, Goto, CallerFrame, QuietAt, StopLabels,
      ruleVars, loopVars, healthVars
<1>11. ASSUME NEW c \in Callers, StopCloseListener(c) PROVE QuietAt(pc[c])'
  <2>1. \A g \in Gens : sock[g] # None => g = gen
    BY DEF IInv, GenInv
  <2> QED
    BY <1>1, <1>4, <1>11, <2>1
    DEF StopCloseListener, Goto, QuietAt, StopLabels, loopVars, healthVars
<1>12. ASSUME NEW c \in Callers, StopHealth(c) \/ WaitHealth(c) PROVE QuietAt(pc[c])'
  BY <1>1, <1>4, <1>12
  DEF StopHealth, WaitHealth, Goto, CallerFrame, QuietAt, StopLabels,
      ruleVars, loopVars, healthVars
<1>13. ASSUME NEW c \in Callers, UpdateBind(c) \/ UpdateRetry(c) \/ UpdateBindFails(c) PROVE QuietAt(pc[c])'
  BY <1>1, <1>4, <1>13
  DEF UpdateBind, UpdateRetry, UpdateBindFails, Goto, CallerFrame, QuietAt, StopLabels,
      ruleVars, loopVars, healthVars
<1>14. ASSUME NEW c \in Callers, UpdateResize(c) \/ UpdateResizeFails(c) \/ UpdateRestore(c) \/ UpdateSwap(c) PROVE QuietAt(pc[c])'
  BY <1>1, <1>4, <1>14
  DEF UpdateResize, UpdateResizeFails, UpdateRestore, UpdateSwap, Goto, CallerFrame, QuietAt, StopLabels,
      ruleVars, loopVars, healthVars
<1>15. ASSUME NEW c \in Callers, Return(c) PROVE QuietAt(pc[c])'
  BY <1>1, <1>4, <1>15
  DEF Return, Goto, CallerFrame, QuietAt, StopLabels,
      ruleVars, loopVars, healthVars
<1>16. ASSUME NEW c \in Callers, Call(c) \/ CallerStep(c) PROVE QuietInv'
  BY <1>3, <1>5, <1>6, <1>7, <1>8, <1>9, <1>10, <1>11, <1>12, <1>13, <1>14, <1>15, <1>16 DEF CallerStep
<1>17. ASSUME NEW g \in Gens, AcceptorStep(g) PROVE QuietInv'
  <2>1. acceptor[g] # "none"
    BY <1>17 DEF AcceptorStep, Accept, Spawn, AcceptFails, BackoffEnds, AcceptorExits
  <2>2. wg # 0
    BY <2>1, NothingCounted DEF LiveAcceptors
  <2> QED
    BY <1>2, <1>17, <2>2
    DEF AcceptorStep, Accept, Spawn, AcceptFails, BackoffEnds, AcceptorExits, LoopFrame,
        callerVars, ruleVars, healthVars
<1>18. ASSUME NEW k \in Conns, HandlerStep(k) PROVE QuietInv'
  <2>1. CASE Leave(k)
    <3>1. wg # 0
      BY <2>1, NothingCounted DEF Leave, Running
    <3> QED
      BY <1>2, <2>1, <3>1 DEF Leave, HandlerFrame, callerVars, ruleVars, healthVars
  <2>2. CASE ~Leave(k)
    BY <1>2, <1>18, <2>2
    DEF HandlerStep, Refuse, Register, Dial, DialFails, DialTooLate, BeginRelay,
        Watch, EndRelay, Unregister, PipeRead, PipeWritten, PipeEOF, PipeFails, CloseBoth,
        Proceed, HandlerFrame, callerVars, ruleVars, healthVars
  <2> QED
    BY <2>1, <2>2
<1>19. ASSUME NEW w \in Workers, WorkerStep(w) PROVE QuietInv'
  <2>1. worker[w].pc # "none"
    BY <1>19 DEF WorkerStep, Probe, Note, Tick, WorkerExits, WorkerProceeds
  <2>2. healthWG # 0
    BY <2>1, NothingCounted DEF LiveWorkers
  <2> QED
    BY <1>2, <1>19, <2>2
    DEF WorkerStep, Probe, Note, Tick, WorkerExits, WorkerProceeds, WorkerFrame,
        callerVars, ruleVars, loopVars
<1>20. CASE UNCHANGED vars
  BY <1>2, <1>20 DEF vars, callerVars, ruleVars, loopVars, healthVars
<1> QED
  BY <1>16, <1>17, <1>18, <1>19, <1>20 DEF Next

-----------------------------------------------------------------------------
(* The theorems.                                                            *)

\* The initial state satisfies the inductive invariant.
LEMMA InitInv == Init => IInv
<1> SUFFICES ASSUME Init PROVE IInv
  OBVIOUS
<1> USE ConstantsAssumption
<1>1. Types
  <2>1. gen \in 0..MaxGen /\ cancelled \subseteq Gens
    BY DEF Init
  <2>2. spec \in Specs /\ running \in BOOLEAN
    BY DEF Init
  <2>3. pipe \in [Conns -> [Dirs -> {"read", "write", "done"}]] /\ conns \subseteq Conns
    BY DEF Init
  <2>4. pc \in [Callers -> CallerLabels] /\ op \in [Callers -> Frames]
    BY RecordTypes DEF Init, CallerLabels
  <2>5. handler \in [Conns -> Handlers] /\ worker \in [Workers -> HealthWorkers]
    BY RecordTypes DEF Init
  <2>6. /\ life \in Callers \cup {None} /\ healthCancel \in Workers \cup {None}
        /\ wg \in Int /\ active \in Int /\ healthWG \in Int
    BY DEF Init
  <2>7. /\ sock \in [Gens -> Addrs \cup {None}]
        /\ acceptor \in [Gens -> {"none", "accept", "spawn", "backoff"}]
    BY DEF Init
  <2> QED
    BY <2>1, <2>2, <2>3, <2>4, <2>5, <2>6, <2>7 DEF Types
<1>2. CallInv
  BY DEF Init, CallInv, CallOK, NoCall, Opens, StopLabels
<1>3. Counts
  <2>1. Admitted = {} /\ Running = {} /\ LiveAcceptors = {} /\ LiveWorkers = {}
    BY DEF Init, Admitted, Running, LiveAcceptors, LiveWorkers, NoConn, NoWorker
  <2> QED
    BY <2>1, FS_EmptySet DEF Init, Counts
<1>4. GenInv
  BY DEF Init, GenInv, NoConn, NoWorker
<1>5. QuietInv
  BY DEF Init, QuietInv, QuietAt, StopLabels
<1> QED
  BY <1>1, <1>2, <1>3, <1>4, <1>5 DEF IInv

\* Every step keeps the inductive invariant.
LEMMA NextInv == IInv /\ [Next]_vars => IInv'
BY TypesStep, CallStep, CountsStep, GenStep, QuietStep DEF IInv

\* The inductive invariant holds throughout.
LEMMA Invariance == Spec => []IInv
BY InitInv, NextInv, PTL DEF Spec

\* The counters are never negative: with the types this is TypeOK.
LEMMA TypesAndCounts == IInv => TypeOK
<1> SUFFICES ASSUME IInv PROVE TypeOK
  OBVIOUS
<1>1. wg \in Nat /\ active \in Nat /\ healthWG \in Nat
  BY CountedIsFinite, FS_CardinalityType DEF IInv, Counts
<1> QED
  BY <1>1 DEF IInv, Types, TypeOK, Handlers, HealthWorkers

\* Type correctness of the lifecycle: in particular no WaitGroup and no
\* connection counter of rule.go ever goes below zero.
THEOREM TypeCorrect == Spec => []TypeOK
BY Invariance, TypesAndCounts, PTL

\* Stop misses nobody: a rule that is stopped, with no lifecycle call under
\* way, has no goroutine, connection, socket or count left, however accepts,
\* admissions and dials raced with the stop (rule.go:195-229).
THEOREM StopLeavesNothing == Spec => []StopIsComplete
<1>1. ASSUME IInv PROVE StopIsComplete
  <2> SUFFICES ASSUME life = None, ~running
               PROVE  /\ LiveAcceptors = {} /\ LiveWorkers = {}
                      /\ \A k \in Conns : handler[k] = NoConn
                      /\ conns = {} /\ active = 0 /\ wg = 0 /\ healthWG = 0
                      /\ Held = {}
    BY DEF StopIsComplete
  <2>1. wg = 0 /\ healthWG = 0 /\ \A g \in Gens : sock[g] = None
    BY <1>1 DEF IInv, QuietInv, QuietAt, StopLabels
  <2>2. LiveAcceptors = {} /\ Running = {} /\ LiveWorkers = {}
    BY <1>1, <2>1, NothingCounted
  <2>3. \A k \in Conns : handler[k] = NoConn
    <3>1. \A k \in Conns : handler[k].pc = "accepted" => gen \in LiveAcceptors
      BY <1>1, ConstantsAssumption DEF IInv, GenInv, LiveAcceptors, Types, Gens
    <3>2. \A k \in Conns : handler[k].pc \in {"none", "accepted"}
      BY <2>2 DEF Running
    <3> QED
      BY <1>1, <2>2, <3>1, <3>2 DEF IInv, GenInv
  <2>4. Admitted = {}
    BY <2>2 DEF Admitted, Running
  <2>5. conns = {} /\ active = 0
    BY <1>1, <2>4, FS_EmptySet DEF IInv, Counts
  <2>6. \A c \in Callers : op[c].cand = None
    BY <1>1, ConstantsAssumption DEF IInv, CallInv, CallOK
  <2> QED
    BY <2>1, <2>2, <2>3, <2>5, <2>6 DEF Held
<1> QED
  BY <1>1, Invariance, PTL

\* No goroutine of a listener lives on beside the next listener
\* (the guards of handle, rule.go:290-298, and the waits of stopLocked).
THEOREM NoOldGeneration == Spec => []OneGeneration
<1>1. IInv => OneGeneration
  BY DEF IInv, GenInv, OneGeneration, LiveAcceptors, LiveWorkers
<1> QED
  BY <1>1, Invariance, PTL

\* conns, activeConns and the two WaitGroups count exactly what runs.
THEOREM CountersAreExact == Spec => []Accounting
<1>1. IInv => Accounting
  BY DEF IInv, Counts, Accounting
<1> QED
  BY <1>1, Invariance, PTL

\* No WaitGroup is raised from zero while a caller waits for it (rule.go:251).
THEOREM AddNeverRacesWait == Spec => WaitGroupNotReused
<1> DEFINE Reuse ==
      /\ wg = 0 /\ wg' > 0 => \A c \in Callers : pc[c] # "waitConns"
      /\ healthWG = 0 /\ healthWG' > 0 =>
           \A c \in Callers : pc[c] \notin {"waitHealth", "awaitHealth"}
<1>1. ASSUME IInv, [Next]_vars PROVE [Reuse]_vars
  <2>1. ASSUME wg = 0, wg' > 0 PROVE \E c \in Callers : pc[c] = "run"
    <3>1. LiveAcceptors = {} /\ Running = {}
      BY <1>1, <2>1, NothingCounted
    <3>2. ASSUME NEW g \in Gens, AcceptorStep(g) PROVE FALSE
      BY <3>1, <3>2
      DEF AcceptorStep, Accept, Spawn, AcceptFails, BackoffEnds, AcceptorExits, LiveAcceptors
    <3>3. ASSUME NEW k \in Conns, HandlerStep(k) PROVE wg' = wg \/ Leave(k)
      BY <3>3
      DEF HandlerStep, Refuse, Register, Dial, DialFails, DialTooLate, BeginRelay, Watch, EndRelay,
          Unregister, PipeRead, PipeWritten, PipeEOF, PipeFails, CloseBoth, Proceed
    <3>4. ASSUME NEW k \in Conns, Leave(k) PROVE FALSE
      BY <3>1, <3>4 DEF Leave, Running
    <3>5. ASSUME NEW w \in Workers, WorkerStep(w) PROVE wg' = wg
      BY <3>5 DEF WorkerStep, Probe, Note, Tick, WorkerExits, WorkerProceeds, WorkerFrame, loopVars
    <3>6. ASSUME NEW c \in Callers, Call(c) \/ CallerStep(c), pc[c] # "run" PROVE wg' = wg
      BY <3>6
      DEF Call, CallStart, CallStop, CallUpdate, Acquire, CallerStep, StartAlready, StartBind,
          StartBindFails, StartRun, StartHealth, StopNotRunning, StopBegin, StopCancel,
          StopCloseListener, StopCloseConns, StopHealth, WaitHealth, WaitConns, UpdateBind,
          UpdateRetry, UpdateBindFails, UpdateResize, UpdateResizeFails, UpdateRestore, UpdateSwap,
          Return, CallerFrame, loopVars
    <3>7. wg' # wg
      BY <2>1
    <3>8. UNCHANGED vars => wg' = wg
      BY DEF vars, loopVars
    <3> QED
      BY <1>1, <3>2, <3>3, <3>4, <3>5, <3>6, <3>7, <3>8 DEF Next
  <2>2. ASSUME healthWG = 0, healthWG' > 0 PROVE \E c \in Callers : pc[c] = "startHealth"
    <3>1. LiveWorkers = {}
      BY <1>1, <2>2, NothingCounted
    <3>2. ASSUME NEW g \in Gens, AcceptorStep(g) PROVE healthWG' = healthWG
      BY <3>2
      DEF AcceptorStep, Accept, Spawn, AcceptFails, BackoffEnds, AcceptorExits, LoopFrame, healthVars
    <3>3. ASSUME NEW k \in Conns, HandlerStep(k) PROVE healthWG' = healthWG
      BY <3>3
      DEF HandlerStep, Refuse, Register, Dial, DialFails, DialTooLate, BeginRelay, Watch, EndRelay,
          Unregister, Leave, PipeRead, PipeWritten, PipeEOF, PipeFails, CloseBoth, Proceed,
          HandlerFrame, healthVars
    <3>4. ASSUME NEW w \in Workers, WorkerStep(w) PROVE FALSE
      BY <3>1, <3>4 DEF WorkerStep, Probe, Note, Tick, WorkerExits, WorkerProceeds, LiveWorkers
    <3>5. ASSUME NEW c \in Callers, Call(c) \/ CallerStep(c), pc[c] # "startHealth"
          PROVE  healthWG' = healthWG
      BY <3>5
      DEF Call, CallStart, CallStop, CallUpdate, Acquire, CallerStep, StartAlready, StartBind,
          StartBindFails, StartRun, StartHealth, StopNotRunning, StopBegin, StopCancel,
          StopCloseListener, StopCloseConns, StopHealth, WaitHealth, WaitConns, UpdateBind,
          UpdateRetry, UpdateBindFails, UpdateResize, UpdateResizeFails, UpdateRestore, UpdateSwap,
          Return, CallerFrame, healthVars
    <3>6. UNCHANGED vars => healthWG' = healthWG
      BY DEF vars, healthVars
    <3> QED
      BY <1>1, <2>2, <3>2, <3>3, <3>4, <3>5, <3>6 DEF Next
  <2>3. \A c, x \in Callers : pc[c] # "idle" /\ pc[x] # "idle" => c = x
    BY <1>1 DEF IInv, CallInv, CallOK
  <2> QED
    BY <2>1, <2>2, <2>3
<1>2. Spec => [][Reuse]_vars
  BY <1>1, Invariance, PTL DEF Spec
<1> QED
  BY <1>2 DEF WaitGroupNotReused

\* Nobody is admitted past MaxConns, or by a listener that has been stopped,
\* dials and closing connections counted (rule.go:290-306).
THEOREM AdmissionIsLimited == Spec => AdmissionWithinLimit
<1> DEFINE Limited ==
      Admitted' \subseteq Admitted \/
        /\ running
        /\ spec.maxConns = 0 \/ Cardinality(Admitted') <= spec.maxConns
<1>1. ASSUME IInv, [Next]_vars PROVE Limited
  <2>1. conns = Admitted /\ conns' = Admitted'
    BY <1>1, CountsStep DEF IInv, Counts
  <2>2. ASSUME NEW k \in Conns, Register(k) PROVE Limited
    <3>1. running /\ HasRoom /\ Admitted' = Admitted \cup {k}
      BY <2>1, <2>2 DEF Register
    <3>2. Cardinality(Admitted) \in Nat /\ spec.maxConns \in Nat
      BY <1>1, CountedIsFinite, FS_CardinalityType DEF IInv, Types, Specs
    <3>3. Cardinality(Admitted') \in {Cardinality(Admitted), Cardinality(Admitted) + 1}
      BY <1>1, <3>1, CountedIsFinite, FS_AddElement
    <3> QED
      BY <2>1, <3>1, <3>2, <3>3 DEF HasRoom
  <2>3. ASSUME NEW k \in Conns, HandlerStep(k), ~Register(k) PROVE conns' \subseteq conns
    BY <2>3
    DEF HandlerStep, Refuse, Dial, DialFails, DialTooLate, BeginRelay, Watch, EndRelay,
        Unregister, Leave, PipeRead, PipeWritten, PipeEOF, PipeFails, CloseBoth, Proceed
  <2>4. ASSUME NEW g \in Gens, AcceptorStep(g) PROVE conns' = conns
    BY <2>4 DEF AcceptorStep, Accept, Spawn, AcceptFails, BackoffEnds, AcceptorExits, LoopFrame
  <2>5. ASSUME NEW w \in Workers, WorkerStep(w) PROVE conns' = conns
    BY <2>5 DEF WorkerStep, Probe, Note, Tick, WorkerExits, WorkerProceeds, WorkerFrame, connVars
  <2>6. ASSUME NEW c \in Callers, Call(c) \/ CallerStep(c) PROVE conns' = conns
    BY <2>6
    DEF Call, CallStart, CallStop, CallUpdate, Acquire, CallerStep, StartAlready, StartBind,
        StartBindFails, StartRun, StartHealth, StopNotRunning, StopBegin, StopCancel,
        StopCloseListener, StopCloseConns, StopHealth, WaitHealth, WaitConns, UpdateBind,
        UpdateRetry, UpdateBindFails, UpdateResize, UpdateResizeFails, UpdateRestore, UpdateSwap,
        Return, CallerFrame, connVars
  <2>7. UNCHANGED vars => conns' = conns
    BY DEF vars, connVars
  <2> QED
    BY <1>1, <2>1, <2>2, <2>3, <2>4, <2>5, <2>6, <2>7 DEF Next
<1>2. Spec => [][Limited]_vars
  BY <1>1, Invariance, PTL DEF Spec
<1> QED
  BY <1>2 DEF AdmissionWithinLimit

-----------------------------------------------------------------------------
(* Updates, the listener and the health goroutine: an inductive invariant   *)
(* that rests on the one above.                                             *)

\* The update takes the old listener down.
TakesDown(o) == o.was /\ (~o.new.enabled \/ NeedListener(o))

\* The socket it has bound when it is about to install its spec.
FreshSocket(o) == IF NeedListener(o) THEN o.new.addr ELSE None

Undecided == {"bind", "rebind", "resize", "restore", "pauseHealth", "awaitHealth", "swap"}
             \cup StopLabels

\* What UpdateAllOrNothing says of the call of c.
Outcome(c) ==
  IF ~op[c].failed
  THEN spec = op[c].new /\ running = op[c].new.enabled
  ELSE \/ spec = op[c].old /\ running = op[c].was
       \/ /\ op[c].stopped /\ ~running
          /\ spec = [op[c].old EXCEPT !.enabled = FALSE]

\* How far the update of c has come: until the swap the old spec is in force,
\* and the rule runs unless it ran before and has been stopped for the update.
UpdateOK(c) ==
  LET o == op[c]
      l == pc[c]
  IN  /\ o.stopped => TakesDown(o)
      /\ l \in Undecided => spec = o.old /\ ~o.failed
      /\ l = "bind" => ~o.stopped /\ running = o.was
      /\ l = "rebind" => ~running
      /\ l \in {"resize", "restore"} => running = (o.was /\ ~o.stopped)
      /\ l \in {"pauseHealth", "awaitHealth", "swap"} => running = (o.was /\ ~TakesDown(o))
      /\ l \in StopLabels => TakesDown(o)
      /\ l = "stop" => running
      /\ \/ l \in {"resize", "pauseHealth", "awaitHealth", "swap"}
         \/ l \in StopLabels /\ o.after = "pauseHealth"
         => o.cand = FreshSocket(o)
      /\ l \in {"start", "run", "startHealth"} =>
           IF o.failed THEN spec = o.old /\ o.was /\ o.stopped
                       ELSE spec = o.new /\ o.new.enabled
      /\ l = "start" => ~running /\ o.cand = IF o.failed THEN None ELSE spec.addr
      /\ l = "return" => Outcome(c)

\* A listener is opened where the spec says, by a Start as by an update.
ProgressOK(c) ==
  /\ op[c].kind = "update" => UpdateOK(c)
  /\ op[c].kind = "start" /\ pc[c] = "start" => op[c].cand = None
  /\ pc[c] = "run" => op[c].cand = spec.addr
  /\ pc[c] = "startHealth" => running

UpdateInv == \A c \in Callers : ProgressOK(c)

\* A running rule has its listener where its spec says, and its accept loop.
ListenInv == running => sock[gen] = spec.addr /\ acceptor[gen] # "none"

\* The checks of a running rule, when the call under way is at l.
HealthAt(l) ==
  /\ l \in {"swap", "startHealth"} => healthWG = 0
  /\ running /\ l \notin {"awaitHealth", "swap", "startHealth"} =>
       IF spec.health
       THEN \E w \in Workers :
              LiveWorkers = {w} /\ healthCancel = w /\ ~worker[w].stop
       ELSE LiveWorkers = {}

HealthInv ==
  /\ life = None => HealthAt("idle")
  /\ \A c \in Callers : life = c => HealthAt(pc[c])
  /\ \A w \in LiveWorkers : worker[w].spec = spec

UInv == UpdateInv /\ ListenInv /\ HealthInv

-----------------------------------------------------------------------------
(* What the steps leave alone.                                              *)

\* Acceptors, handlers and health goroutines change nothing a call decides on.
LEMMA GoroutineFrame ==
  /\ \A g \in Gens : AcceptorStep(g) => UNCHANGED <<callerVars, ruleVars, conns, healthVars>>
  /\ \A k \in Conns : HandlerStep(k) => UNCHANGED <<callerVars, ruleVars, acceptor, healthVars>>
  /\ \A w \in Workers : WorkerStep(w) => UNCHANGED <<callerVars, ruleVars, loopVars, connVars, healthCancel>>
<1>1. ASSUME NEW g \in Gens, AcceptorStep(g)
      PROVE  UNCHANGED <<callerVars, ruleVars, conns, healthVars>>
  BY <1>1 DEF AcceptorStep, Accept, Spawn, AcceptFails, BackoffEnds, AcceptorExits, LoopFrame
<1>2. ASSUME NEW k \in Conns, HandlerStep(k)
      PROVE  UNCHANGED <<callerVars, ruleVars, acceptor, healthVars>>
  BY <1>2
  DEF HandlerStep, Refuse, Register, Dial, DialFails, DialTooLate, BeginRelay, Watch, EndRelay,
      Unregister, Leave, PipeRead, PipeWritten, PipeEOF, PipeFails, CloseBoth, Proceed, HandlerFrame
<1>3. ASSUME NEW w \in Workers, WorkerStep(w)
      PROVE  UNCHANGED <<callerVars, ruleVars, loopVars, connVars, healthCancel>>
  BY <1>3 DEF WorkerStep, Probe, Note, Tick, WorkerExits, WorkerProceeds, WorkerFrame
<1> QED
  BY <1>1, <1>2, <1>3

-----------------------------------------------------------------------------
(* The update transaction.                                                  *)

\* Every step of a call keeps what is known of its progress.
LEMMA UpdateStep ==
  ASSUME IInv, UInv, [Next]_vars
  PROVE  UpdateInv'
<1> USE ConstantsAssumption
<1>1. /\ pc \in [Callers -> CallerLabels] /\ op \in [Callers -> Frames]
      /\ spec \in Specs /\ running \in BOOLEAN
      /\ None \notin Callers /\ None \notin Addrs
      /\ \A c \in Callers : CallOK(c)
      /\ \A c \in Callers : ProgressOK(c)
      /\ \A c \in Callers : pc[c] # "idle" => QuietAt(pc[c])
  BY DEF IInv, Types, CallInv, UInv, UpdateInv, QuietInv, CallOK
<1>2. ASSUME NEW c \in Callers, Call(c) \/ CallerStep(c), ProgressOK(c)' PROVE UpdateInv'
  <2>1. ASSUME NEW x \in Callers \ {c} PROVE ProgressOK(x)'
    BY <1>1, <1>2, <2>1, CallerAlone DEF CallOK, ProgressOK
  <2> QED
    BY <1>2, <2>1 DEF UpdateInv
<1>3. ASSUME UNCHANGED <<callerVars, ruleVars>> PROVE UpdateInv'
  BY <1>1, <1>3 DEF UpdateInv, ProgressOK, UpdateOK, Outcome, callerVars, ruleVars
<1> USE DEF Goto, CallerFrame, CallOK, Opens, ProgressOK, UpdateOK, Undecided, TakesDown,
        FreshSocket, NeedListener, Outcome, StopLabels, QuietAt, Frames, Specs, ruleVars
<1>4. ASSUME NEW c \in Callers, StartAlready(c) PROVE ProgressOK(c)'
  <2>1. op[c].kind # "update"
    BY <1>1, <1>4 DEF StartAlready
  <2>2. pc'[c] = "return" /\ op'[c].kind = op[c].kind
    BY <1>1, <1>4 DEF StartAlready
  <2> QED
    BY <2>1, <2>2
<1>5. ASSUME NEW c \in Callers, StartBind(c) PROVE ProgressOK(c)'
  BY <1>1, <1>5 DEF StartBind
<1>6. ASSUME NEW c \in Callers, StartBindFails(c) PROVE ProgressOK(c)'
  <2>1. /\ pc'[c] = "return" /\ ~running /\ running' = running
        /\ spec' = [spec EXCEPT !.enabled = FALSE]
        /\ op'[c] = [op[c] EXCEPT !.failed = TRUE] /\ op[c] \in Frames
    BY <1>1, <1>6 DEF StartBindFails
  <2>2. /\ op'[c].failed /\ op'[c].kind = op[c].kind /\ op'[c].old = op[c].old
        /\ op'[c].stopped = op[c].stopped /\ op'[c].new = op[c].new
        /\ op'[c].was = op[c].was
    BY <2>1
  <2>3. ASSUME op[c].kind = "update"
        PROVE  spec = op[c].old /\ op[c].stopped /\ TakesDown(op[c])
    BY <1>1, <1>6, <2>3 DEF StartBindFails
  <2>4. ASSUME op[c].kind = "update" PROVE UpdateOK(c)'
    BY <2>1, <2>2, <2>3, <2>4
  <2> QED
    BY <2>1, <2>2, <2>4
<1>7. ASSUME NEW c \in Callers, StartRun(c) PROVE ProgressOK(c)'
  BY <1>1, <1>7 DEF StartRun
<1>8. ASSUME NEW c \in Callers, StartHealth(c) PROVE ProgressOK(c)'
  BY <1>1, <1>8 DEF StartHealth
<1>9. ASSUME NEW c \in Callers, StopNotRunning(c) PROVE ProgressOK(c)'
  BY <1>1, <1>9 DEF StopNotRunning
<1>10. ASSUME NEW c \in Callers, StopBegin(c) PROVE ProgressOK(c)'
  <2>1. /\ pc[c] = "stop" /\ pc'[c] = "cancel" /\ spec' = spec /\ ~running'
        /\ op'[c] = [op[c] EXCEPT !.snap = conns] /\ op[c] \in Frames
    BY <1>1, <1>10 DEF StopBegin
  <2>2. /\ op'[c].failed = op[c].failed /\ op'[c].kind = op[c].kind /\ op'[c].old = op[c].old
        /\ op'[c].stopped = op[c].stopped /\ op'[c].new = op[c].new
        /\ op'[c].was = op[c].was /\ op'[c].after = op[c].after /\ op'[c].cand = op[c].cand
    BY <2>1
  <2> QED
    BY <1>1, <2>1, <2>2
<1>11. ASSUME NEW c \in Callers, StopCancel(c) PROVE ProgressOK(c)'
  BY <1>1, <1>11 DEF StopCancel
<1>12. ASSUME NEW c \in Callers, StopCloseListener(c) PROVE ProgressOK(c)'
  BY <1>1, <1>12 DEF StopCloseListener
<1>13. ASSUME NEW c \in Callers, StopCloseConns(c) PROVE ProgressOK(c)'
  BY <1>1, <1>13 DEF StopCloseConns
<1>14. ASSUME NEW c \in Callers, StopHealth(c) PROVE ProgressOK(c)'
  BY <1>1, <1>14 DEF StopHealth
<1>15. ASSUME NEW c \in Callers, WaitHealth(c) PROVE ProgressOK(c)'
  BY <1>1, <1>15 DEF WaitHealth
<1>16. ASSUME NEW c \in Callers, WaitConns(c) PROVE ProgressOK(c)'
  BY <1>1, <1>16 DEF WaitConns
<1>17. ASSUME NEW c \in Callers, UpdateBind(c) PROVE ProgressOK(c)'
  BY <1>1, <1>17 DEF UpdateBind
<1>18. ASSUME NEW c \in Callers, UpdateRetry(c) PROVE ProgressOK(c)'
  BY <1>1, <1>18 DEF UpdateRetry, SamePort
<1>19. ASSUME NEW c \in Callers, UpdateBindFails(c) PROVE ProgressOK(c)'
  BY <1>1, <1>19 DEF UpdateBindFails, SamePort
<1>20. ASSUME NEW c \in Callers, UpdateResize(c) PROVE ProgressOK(c)'
  BY <1>1, <1>20 DEF UpdateResize
<1>21. ASSUME NEW c \in Callers, UpdateResizeFails(c) PROVE ProgressOK(c)'
  BY <1>1, <1>21 DEF UpdateResizeFails
<1>22. ASSUME NEW c \in Callers, UpdateRestore(c) PROVE ProgressOK(c)'
  BY <1>1, <1>22 DEF UpdateRestore
<1>23. ASSUME NEW c \in Callers, UpdateSwap(c) PROVE ProgressOK(c)'
  BY <1>1, <1>23 DEF UpdateSwap
<1>24. ASSUME NEW c \in Callers, Return(c) PROVE ProgressOK(c)'
  BY <1>1, <1>24 DEF Return, NoCall
<1>25. ASSUME NEW c \in Callers, CallStart(c) PROVE ProgressOK(c)'
  BY <1>1, <1>25 DEF CallStart, Acquire, Frame
<1>26. ASSUME NEW c \in Callers, CallStop(c) PROVE ProgressOK(c)'
  BY <1>1, <1>26 DEF CallStop, Acquire, Frame
<1>27. ASSUME NEW c \in Callers, NEW s \in Configs, CallUpdate(c, s) PROVE ProgressOK(c)'
  BY <1>1, <1>27 DEF CallUpdate, Acquire, Frame
<1> HIDE DEF ProgressOK
<1>28. CASE \E c \in Callers : Call(c) \/ CallerStep(c)
  <2>1. PICK c \in Callers : Call(c) \/ CallerStep(c)
    BY <1>28
  <2>2. ProgressOK(c)'
    BY <2>1, <1>4, <1>5, <1>6, <1>7, <1>8, <1>9, <1>10, <1>11, <1>12, <1>13, <1>14, <1>15, <1>16, <1>17, <1>18, <1>19, <1>20, <1>21, <1>22, <1>23, <1>24, <1>25, <1>26, <1>27
    DEF Call, CallerStep
  <2> QED
    BY <1>2, <2>1, <2>2
<1>29. CASE \E g \in Gens : AcceptorStep(g)
  BY <1>3, <1>29, GoroutineFrame
<1>30. CASE \E k \in Conns : HandlerStep(k)
  BY <1>3, <1>30, GoroutineFrame
<1>31. CASE \E w \in Workers : WorkerStep(w)
  BY <1>3, <1>31, GoroutineFrame
<1>32. CASE UNCHANGED vars
  BY <1>3, <1>32 DEF vars
<1> QED
  BY <1>28, <1>29, <1>30, <1>31, <1>32 DEF Next

-----------------------------------------------------------------------------
(* The listener.                                                            *)

\* Only an update reaches the steps of updateLocked.
LEMMA UpdateLabels ==
  ASSUME IInv, NEW c \in Callers,
         pc[c] \in {"bind", "rebind", "resize", "restore", "pauseHealth", "awaitHealth", "swap"}
  PROVE  op[c].kind = "update"
<1>1. CallOK(c) /\ op[c].kind \in {"none", "start", "stop", "update"}
  BY FrameFields DEF IInv, CallInv, Types
<1> QED
  BY <1>1 DEF CallOK, StopLabels

\* What a caller may do to the spec: only the swap replaces it, and a running
\* rule keeps its address; a failed reopening clears Enabled of a stopped one.
LEMMA SpecChange ==
  ASSUME IInv, UInv, NEW c \in Callers, Call(c) \/ CallerStep(c), spec' # spec
  PROVE  /\ running' = running /\ pc[c] \in {"start", "swap"}
         /\ spec' \in Specs
         /\ running => spec'.addr = spec.addr /\ spec'.enabled
<1>1. CASE StartBindFails(c)
  BY <1>1 DEF StartBindFails, IInv, Types, Specs
<1>2. CASE UpdateSwap(c)
  <2>1. op[c].kind = "update"
    BY <1>2, UpdateLabels DEF UpdateSwap
  <2>2. /\ op[c].old = spec /\ running = (op[c].was /\ ~TakesDown(op[c]))
    BY <1>2, <2>1 DEF UpdateSwap, UInv, UpdateInv, ProgressOK, UpdateOK, Undecided
  <2>3. op[c].new \in Specs /\ op[c].was \in BOOLEAN /\ op[c].new.enabled \in BOOLEAN
    BY FrameFields DEF IInv, Types, Specs
  <2> QED
    BY <1>2, <2>2, <2>3 DEF UpdateSwap, TakesDown, NeedListener
<1> QED
  BY <1>1, <1>2
  DEF Call, CallStart, CallStop, CallUpdate, Acquire, CallerStep, StartAlready, StartBind,
      StartRun, StartHealth, StopNotRunning, StopBegin, StopCancel,
      StopCloseListener, StopCloseConns, StopHealth, WaitHealth, WaitConns, UpdateBind,
      UpdateRetry, UpdateBindFails, UpdateResize, UpdateResizeFails, UpdateRestore,
      Return, CallerFrame, ruleVars

\* A rule keeps listening where its spec says for as long as it runs.
LEMMA ListenStep ==
  ASSUME IInv, UInv, [Next]_vars
  PROVE  ListenInv'
<1>1. /\ ListenInv /\ gen \in 0..MaxGen
      /\ sock \in [Gens -> Addrs \cup {None}]
      /\ acceptor \in [Gens -> {"none", "accept", "spawn", "backoff"}]
      /\ running => gen \in Gens /\ gen \notin cancelled
  BY ConstantsAssumption DEF UInv, IInv, Types, GenInv, Gens
<1>2. ASSUME NEW c \in Callers, StartRun(c) PROVE ListenInv'
  <2>1. gen + 1 \in Gens
    BY <1>2, GenerationLeft DEF StartRun
  <2>2. op[c].cand = spec.addr
    BY <1>2 DEF UInv, UpdateInv, ProgressOK, StartRun
  <2> QED
    BY <1>1, <1>2, <2>1, <2>2 DEF StartRun, ListenInv
<1>3. ASSUME NEW c \in Callers, Call(c) \/ CallerStep(c), ~StartRun(c) PROVE ListenInv'
  <2>1. running' => running /\ gen' = gen /\ sock'[gen] = sock[gen] /\ acceptor' = acceptor
    <3>1. ASSUME StopCloseListener(c) PROVE ~running'
      BY <3>1, StoppingMeansStopped DEF StopCloseListener, StopLabels
    <3> QED
      BY <1>3, <3>1
      DEF Call, CallStart, CallStop, CallUpdate, Acquire, CallerStep, StartAlready, StartBind,
          StartBindFails, StartHealth, StopNotRunning, StopBegin, StopCancel,
          StopCloseConns, StopHealth, WaitHealth, WaitConns, UpdateBind,
          UpdateRetry, UpdateBindFails, UpdateResize, UpdateResizeFails, UpdateRestore, UpdateSwap,
          Return, CallerFrame, ruleVars, loopVars
  <2>2. running => spec'.addr = spec.addr
    BY <1>3, SpecChange
  <2> QED
    BY <1>1, <2>1, <2>2 DEF ListenInv
<1>4. ASSUME NEW g \in Gens, AcceptorStep(g) PROVE ListenInv'
  <2>1. acceptor' = [acceptor EXCEPT ![g] = acceptor'[g]] /\ (acceptor'[g] = "none" => g \in cancelled)
    BY <1>1, <1>4 DEF AcceptorStep, Accept, Spawn, AcceptFails, BackoffEnds, AcceptorExits
  <2>2. UNCHANGED ruleVars
    BY <1>4, GoroutineFrame
  <2> QED
    BY <1>1, <2>1, <2>2 DEF ListenInv, ruleVars
<1>5. ASSUME UNCHANGED <<ruleVars, acceptor>> PROVE ListenInv'
  BY <1>1, <1>5 DEF ListenInv, ruleVars
<1> QED
  BY <1>2, <1>3, <1>4, <1>5, GoroutineFrame DEF Next, vars, loopVars

-----------------------------------------------------------------------------
(* The health goroutine.                                                    *)

\* No health goroutine lives when a caller replaces or edits the spec.
LEMMA NoWorkerAtSpecChange ==
  ASSUME IInv, UInv, NEW c \in Callers, Call(c) \/ CallerStep(c), spec' # spec
  PROVE  LiveWorkers = {}
<1>1. pc[c] \in {"start", "swap"} /\ life = c
  BY SpecChange DEF IInv, CallInv, CallOK
<1>2. CASE pc[c] = "swap"
  BY <1>1, <1>2, NothingCounted DEF UInv, HealthInv, HealthAt
<1>3. CASE pc[c] = "start"
  <2>1. ~running
    <3>1. StartBindFails(c)
      BY <1>3
      DEF Call, CallStart, CallStop, CallUpdate, Acquire, CallerStep, StartAlready, StartBind,
          StartRun, StartHealth, StopNotRunning, StopBegin, StopCancel,
          StopCloseListener, StopCloseConns, StopHealth, WaitHealth, WaitConns, UpdateBind,
          UpdateRetry, UpdateBindFails, UpdateResize, UpdateResizeFails, UpdateRestore,
          UpdateSwap, Return, CallerFrame, ruleVars
    <3> QED
      BY <3>1 DEF StartBindFails
  <2>2. healthWG = 0
    BY <1>1, <1>3, <2>1 DEF IInv, QuietInv, QuietAt
  <2> QED
    BY <2>2, NothingCounted
<1> QED
  BY <1>1, <1>2, <1>3

\* A running rule has the one health goroutine its spec asks for, except while
\* an update has paused it, and it probes what the spec names.
LEMMA HealthStep ==
  ASSUME IInv, UInv, [Next]_vars
  PROVE  HealthInv'
<1> USE ConstantsAssumption
<1>1. /\ HealthInv /\ None \notin Callers \cup Workers
      /\ pc \in [Callers -> CallerLabels]
      /\ worker \in [Workers -> HealthWorkers]
      /\ CallInv /\ CallInv'
      /\ \A c \in Callers : pc[c] # "idle" => HealthAt(pc[c]) /\ QuietAt(pc[c])
      /\ \A w \in LiveWorkers : worker[w].gen = gen
      /\ running => gen \notin cancelled
  BY CallStep DEF UInv, HealthInv, IInv, Types, CallInv, CallOK, QuietInv, GenInv, LiveWorkers
<1>2. ASSUME UNCHANGED <<callerVars, ruleVars, healthVars>> PROVE HealthInv'
  BY <1>1, <1>2 DEF HealthInv, HealthAt, LiveWorkers, callerVars, ruleVars, healthVars
\* The step of a caller: what holds at its next label, and of the goroutines.
<1>3. ASSUME NEW c \in Callers, Call(c) \/ CallerStep(c), HealthAt(pc[c])',
             \A w \in LiveWorkers' : worker'[w].spec = spec'
      PROVE  HealthInv'
  <2>1. \A x \in Callers \ {c} : life' # x
    BY <1>3, CallerAlone
  <2>2. life' = c <=> pc'[c] # "idle"
    BY <1>1 DEF CallInv, CallOK
  <2>3. life' = None => HealthAt("idle")'
    BY <1>1, <1>3, <2>2 DEF HealthAt
  <2> QED
    BY <1>3, <2>1, <2>3 DEF HealthInv
\* A step that leaves the goroutines alone.
<1>4. ASSUME NEW c \in Callers, Call(c) \/ CallerStep(c), UNCHANGED worker
      PROVE  \A w \in LiveWorkers' : worker'[w].spec = spec'
  <2>1. LiveWorkers' = LiveWorkers
    BY <1>4 DEF LiveWorkers
  <2> QED
    BY <1>1, <1>4, <2>1, NoWorkerAtSpecChange DEF HealthInv
<1>5. ASSUME NEW c \in Callers, Call(c) PROVE HealthInv'
  <2>1. HealthAt("idle") /\ pc'[c] \in {"start", "stop", "bind", "resize"} /\ UNCHANGED <<ruleVars, healthVars>>
    BY <1>1, <1>5 DEF Call, CallStart, CallStop, CallUpdate, Acquire, Goto, HealthInv
  <2>2. HealthAt(pc[c])'
    BY <2>1 DEF HealthAt, LiveWorkers, ruleVars, healthVars
  <2> QED
    BY <1>3, <1>4, <1>5, <2>1, <2>2 DEF healthVars
<1>6. ASSUME NEW c \in Callers, CallerStep(c), ~running', UNCHANGED worker,
             pc'[c] \notin {"swap", "startHealth"}
      PROVE  HealthInv'
  BY <1>3, <1>4, <1>6 DEF HealthAt
<1>7. ASSUME NEW c \in Callers, CallerStep(c), UNCHANGED <<running, spec, healthVars>>,
             pc[c] \notin {"idle", "awaitHealth", "swap", "startHealth"},
             pc'[c] \notin {"swap", "startHealth"}
      PROVE  HealthInv'
  <2>1. HealthAt(pc[c])'
    BY <1>1, <1>7 DEF HealthAt, LiveWorkers, healthVars
  <2> QED
    BY <1>3, <1>4, <1>7, <2>1 DEF healthVars
<1>8. ASSUME NEW c \in Callers,
             StartBind(c) \/ StartBindFails(c) \/ StopNotRunning(c) \/ StopBegin(c)
      PROVE  HealthInv'
  <2>1. op[c].after \in {"return", "rebind", "pauseHealth"}
    BY FrameFields DEF IInv, Types
  <2>2. UNCHANGED worker /\ ~running' /\ pc'[c] \notin {"swap", "startHealth"}
    BY <1>1, <1>8, <2>1
    DEF StartBind, StartBindFails, StopNotRunning, StopBegin, Goto, CallerFrame, ruleVars, healthVars
  <2> QED
    BY <1>6, <1>8, <2>2 DEF CallerStep
<1>9. ASSUME NEW c \in Callers, StartRun(c) PROVE HealthInv'
  <2>1. healthWG' = 0 /\ pc'[c] = "startHealth" /\ UNCHANGED worker
    BY <1>1, <1>9 DEF StartRun, Goto, QuietAt, healthVars
  <2> QED
    BY <1>3, <1>4, <1>9, <2>1 DEF HealthAt, CallerStep
<1>10. ASSUME NEW c \in Callers, StartHealth(c) PROVE HealthInv'
  <2>1. LiveWorkers = {}
    BY <1>1, <1>10, NothingCounted DEF StartHealth, HealthAt
  <2>2. pc'[c] = "return" /\ UNCHANGED <<running, spec>>
    BY <1>1, <1>10 DEF StartHealth, Goto, ruleVars
  <2>3. CASE ~(running /\ spec.health)
    <3>1. UNCHANGED worker
      BY <1>10, <2>3 DEF StartHealth, healthVars
    <3>2. LiveWorkers' = {}
      BY <2>1, <3>1 DEF LiveWorkers
    <3> QED
      BY <1>3, <1>10, <2>2, <2>3, <3>2 DEF HealthAt, CallerStep
  <2>4. CASE running /\ spec.health
    <3>1. PICK w \in Workers :
             /\ healthCancel' = w
             /\ worker' = [worker EXCEPT ![w] =
                  [pc |-> "probe", gen |-> gen, stop |-> FALSE, spec |-> spec]]
      BY <1>10, <2>4 DEF StartHealth
    <3>2. LiveWorkers' = {w} /\ ~worker'[w].stop /\ worker'[w].spec = spec
      BY <1>1, <2>1, <3>1 DEF LiveWorkers
    <3> QED
      BY <1>3, <1>10, <2>2, <2>4, <3>1, <3>2 DEF HealthAt, CallerStep
  <2> QED
    BY <2>3, <2>4
<1>11. ASSUME NEW c \in Callers,
              StopCancel(c) \/ StopCloseListener(c) \/ StopCloseConns(c) \/ WaitConns(c)
       PROVE  HealthInv'
  <2>1. ~running
    BY <1>11, StoppingMeansStopped
    DEF StopCancel, StopCloseListener, StopCloseConns, WaitConns, StopLabels
  <2>2. op[c].after \in {"return", "rebind", "pauseHealth"}
    BY FrameFields DEF IInv, Types
  <2>3. UNCHANGED worker /\ ~running' /\ pc'[c] \notin {"swap", "startHealth"}
    BY <1>1, <1>11, <2>1, <2>2
    DEF StopCancel, StopCloseListener, StopCloseConns, WaitConns, Goto, CallerFrame, ruleVars,
        healthVars
  <2> QED
    BY <1>6, <1>11, <2>3 DEF CallerStep
<1>12. ASSUME NEW c \in Callers, StopHealth(c) PROVE HealthInv'
  <2>1. pc[c] = "stopHealth" => ~running
    BY <1>12, StoppingMeansStopped DEF StopLabels
  <2>2. UNCHANGED <<running, spec>> /\ pc'[c] \in {"waitHealth", "awaitHealth"}
        /\ (pc'[c] = "waitHealth" => pc[c] = "stopHealth")
    BY <1>1, <1>12 DEF StopHealth, Goto, ruleVars
  <2>3. \A w \in Workers : worker'[w].pc = worker[w].pc /\ worker'[w].spec = worker[w].spec
    BY <1>1, <1>12 DEF StopHealth, HealthWorkers
  <2>4. \A w \in LiveWorkers' : worker'[w].spec = spec'
    BY <1>1, <2>2, <2>3 DEF LiveWorkers, HealthInv
  <2>5. HealthAt(pc[c])'
    BY <2>1, <2>2 DEF HealthAt
  <2> QED
    BY <1>3, <1>12, <2>4, <2>5 DEF CallerStep
<1>13. ASSUME NEW c \in Callers, WaitHealth(c) PROVE HealthInv'
  <2>1. pc[c] = "waitHealth" => ~running
    BY <1>13, StoppingMeansStopped DEF StopLabels
  <2>2. /\ UNCHANGED <<running, spec, worker, healthWG>> /\ healthWG = 0
        /\ pc'[c] = "swap" \/ (pc'[c] = "waitConns" /\ pc[c] = "waitHealth")
    BY <1>1, <1>13 DEF WaitHealth, Goto, CallerFrame, ruleVars, healthVars
  <2> QED
    BY <1>3, <1>4, <1>13, <2>1, <2>2 DEF CallerStep, HealthAt
<1>14. ASSUME NEW c \in Callers,
              \/ StartAlready(c) \/ UpdateBind(c) \/ UpdateRetry(c) \/ UpdateBindFails(c)
              \/ UpdateResize(c) \/ UpdateResizeFails(c) \/ UpdateRestore(c) \/ Return(c)
       PROVE  HealthInv'
  <2>1. /\ UNCHANGED <<running, spec, healthVars>>
        /\ pc[c] \in {"start", "bind", "rebind", "resize", "restore", "return"}
        /\ pc'[c] \in {"return", "resize", "stop", "restore", "pauseHealth", "start", "idle"}
    BY <1>1, <1>14
    DEF StartAlready, UpdateBind, UpdateRetry, UpdateBindFails, UpdateResize, UpdateResizeFails,
        UpdateRestore, Return, Goto, CallerFrame, ruleVars
  <2> QED
    BY <1>7, <1>14, <2>1 DEF CallerStep
<1>15. ASSUME NEW c \in Callers, UpdateSwap(c) PROVE HealthInv'
  <2>1. op[c].kind = "update"
    BY <1>15, UpdateLabels DEF UpdateSwap
  <2>2. running = (op[c].was /\ ~TakesDown(op[c]))
    BY <1>15, <2>1 DEF UpdateSwap, UInv, UpdateInv, ProgressOK, UpdateOK
  <2>3. op[c].new.enabled \in BOOLEAN /\ op[c].was \in BOOLEAN
    BY FrameFields DEF IInv, Types, Specs
  <2>4. /\ UNCHANGED <<running, worker, healthWG>>
        /\ pc'[c] = "startHealth" \/ (~running /\ pc'[c] \in {"start", "return"})
    BY <1>1, <1>15, <2>2, <2>3 DEF UpdateSwap, Goto, TakesDown, NeedListener, healthVars
  <2>5. healthWG = 0
    BY <1>1, <1>15 DEF UpdateSwap, HealthAt
  <2>6. HealthAt(pc[c])'
    BY <2>4, <2>5 DEF HealthAt
  <2> QED
    BY <1>3, <1>4, <1>15, <2>4, <2>6 DEF CallerStep
<1>16. ASSUME NEW c \in Callers, CallerStep(c) PROVE HealthInv'
  BY <1>8, <1>9, <1>10, <1>11, <1>12, <1>13, <1>14, <1>15, <1>16 DEF CallerStep
<1>17. ASSUME NEW w \in Workers, WorkerStep(w) PROVE HealthInv'
  <2>1. UNCHANGED <<life, pc, running, spec, gen, cancelled, healthCancel>>
    BY <1>17, GoroutineFrame DEF callerVars, ruleVars
  <2>2. w \in LiveWorkers
    BY <1>17 DEF WorkerStep, Probe, Note, Tick, WorkerExits, WorkerProceeds, LiveWorkers
  <2>3. healthWG # 0
    BY <2>2, NothingCounted
  <2>4. CASE Probe(w) \/ Note(w) \/ Tick(w)
    <3>1. /\ healthWG' = healthWG /\ LiveWorkers' = LiveWorkers
          /\ \A v \in Workers : worker'[v].stop = worker[v].stop /\ worker'[v].spec = worker[v].spec
      BY <1>1, <2>4 DEF Probe, Note, Tick, WorkerProceeds, LiveWorkers, HealthWorkers
    <3> QED
      BY <1>1, <2>1, <3>1 DEF HealthInv, HealthAt, LiveWorkers
  <2>5. CASE WorkerExits(w)
    <3>1. worker[w].stop \/ gen \in cancelled
      BY <1>1, <2>2, <2>5 DEF WorkerExits, WorkerCancelled
    <3>2. LiveWorkers' = LiveWorkers \ {w} /\ \A v \in Workers \ {w} : worker'[v] = worker[v]
      BY <1>1, <2>5 DEF WorkerExits, NoWorker, LiveWorkers
    <3>3. \A v \in LiveWorkers' : worker'[v].spec = spec'
      BY <1>1, <2>1, <3>2 DEF HealthInv, LiveWorkers
    <3>4. ASSUME NEW l, HealthAt(l), l \notin {"swap", "startHealth"} PROVE HealthAt(l)'
      BY <1>1, <2>1, <2>2, <3>1, <3>4 DEF HealthAt
    <3>5. \A c \in Callers : life = c => pc[c] \notin {"swap", "startHealth"}
      BY <1>1, <2>3 DEF HealthInv, HealthAt
    <3> QED
      BY <1>1, <2>1, <3>3, <3>4, <3>5 DEF HealthInv
  <2> QED
    BY <1>17, <2>4, <2>5 DEF WorkerStep
<1> QED
  BY <1>2, <1>5, <1>16, <1>17, GoroutineFrame DEF Next, vars

-----------------------------------------------------------------------------
(* The theorems.                                                            *)

\* The strengthened invariant holds throughout.
LEMMA UpdateInvariance == Spec => [](IInv /\ UInv)
<1>1. Init => UInv
  BY DEF Init, UInv, UpdateInv, ProgressOK, ListenInv, HealthInv, HealthAt, LiveWorkers,
         NoCall, NoWorker
<1>2. IInv /\ UInv /\ [Next]_vars => IInv' /\ UInv'
  BY NextInv, UpdateStep, ListenStep, HealthStep DEF UInv
<1> QED
  BY <1>1, <1>2, InitInv, PTL DEF Spec

\* A rule that runs listens where its spec says and nowhere else, and accepts,
\* whatever updates, failed updates and restarts came before
\* (updateLocked and its restore, manager.go:160-243).
THEOREM RunningListens == Spec => []RunningMeansListening
<1>1. ASSUME IInv, UInv PROVE RunningMeansListening
  <2> SUFFICES ASSUME life = None, running
               PROVE  /\ sock[gen] = spec.addr /\ Held = {spec.addr}
                      /\ LiveAcceptors = {gen} /\ gen \notin cancelled
    BY DEF RunningMeansListening
  <2>1. gen \in Gens /\ gen \notin cancelled
    BY <1>1, ConstantsAssumption DEF IInv, Types, GenInv, Gens
  <2>2. sock[gen] = spec.addr /\ acceptor[gen] # "none"
    BY <1>1 DEF UInv, ListenInv
  <2>3. \A g \in Gens \ {gen} : sock[g] = None /\ acceptor[g] = "none"
    BY <1>1 DEF IInv, GenInv
  <2>4. \A c \in Callers : op[c].cand = None
    BY <1>1, ConstantsAssumption DEF IInv, CallInv, CallOK
  <2>5. spec.addr # None
    BY <1>1, ConstantsAssumption DEF IInv, Types, Specs
  <2> QED
    BY <2>1, <2>2, <2>3, <2>4, <2>5 DEF Held, LiveAcceptors
<1> QED
  BY <1>1, UpdateInvariance, PTL

\* An update takes effect as a whole or leaves spec and listener as they were;
\* only a rollback that cannot reopen the old address stops and disables the
\* rule (manager.go:187-243).
THEOREM UpdateIsAtomic == Spec => []UpdateAllOrNothing
<1>1. IInv /\ UInv => UpdateAllOrNothing
  BY DEF UInv, UpdateInv, ProgressOK, UpdateOK, Outcome, UpdateAllOrNothing
<1> QED
  BY <1>1, UpdateInvariance, PTL

\* Between calls the rule has exactly the health goroutine its spec asks for,
\* and no outcome is ever counted against a spec it does not belong to
\* (startHealthLocked, stopHealthLocked).
THEOREM HealthFollowsSpec == Spec => []HealthWorkerIsCurrent
<1>1. ASSUME IInv, UInv PROVE HealthWorkerIsCurrent
  <2>1. \A w \in LiveWorkers : worker[w].spec = spec /\ worker[w].gen = gen
    BY <1>1 DEF IInv, GenInv, UInv, HealthInv, LiveWorkers
  <2>2. \A w \in Workers : worker[w].pc = "note" => worker[w].spec = spec
    BY <2>1 DEF LiveWorkers
  <2>3. ASSUME life = None, running, spec.health
        PROVE  \E w \in Workers :
                 /\ LiveWorkers = {w} /\ healthCancel = w
                 /\ worker[w].spec = spec /\ ~WorkerCancelled(w)
    <3>1. PICK w \in Workers : LiveWorkers = {w} /\ healthCancel = w /\ ~worker[w].stop
      BY <1>1, <2>3 DEF UInv, HealthInv, HealthAt
    <3>2. gen \notin cancelled
      BY <1>1, <2>3 DEF IInv, GenInv
    <3> QED
      BY <2>1, <3>1, <3>2 DEF WorkerCancelled
  <2>4. ASSUME life = None, ~(running /\ spec.health) PROVE LiveWorkers = {}
    <3>1. CASE running
      BY <1>1, <2>4, <3>1 DEF UInv, HealthInv, HealthAt
    <3>2. CASE ~running
      BY <1>1, <2>4, <3>2, NothingCounted DEF IInv, QuietInv, QuietAt
    <3> QED
      BY <3>1, <3>2
  <2> QED
    BY <2>2, <2>3, <2>4 DEF HealthWorkerIsCurrent
<1> QED
  BY <1>1, UpdateInvariance, PTL

\* What a caller may do to the contexts: the one step that cancels connections
\* is part of a stop.
LEMMA OnlyStopCancels ==
  ASSUME [Next]_vars, cancelled' # cancelled
  PROVE  \E c \in Callers : StopCancel(c)
<1>1. ASSUME NEW c \in Callers, Call(c) \/ CallerStep(c), ~StopCancel(c) PROVE cancelled' = cancelled
  BY <1>1
  DEF Call, CallStart, CallStop, CallUpdate, Acquire, CallerStep, StartAlready, StartBind,
      StartBindFails, StartRun, StartHealth, StopNotRunning, StopBegin,
      StopCloseListener, StopCloseConns, StopHealth, WaitHealth, WaitConns, UpdateBind,
      UpdateRetry, UpdateBindFails, UpdateResize, UpdateResizeFails, UpdateRestore, UpdateSwap,
      Return, CallerFrame, ruleVars
<1> QED
  BY <1>1, GoroutineFrame DEF Next, vars, ruleVars

\* An update cancels connections only if it moves the listener or disables the
\* rule (docs/rule-lifecycle.svg), also when it fails.
THEOREM UpdatesKeepConnections == Spec => UpdateKeepsConnections
<1> DEFINE Keeps ==
      \A c \in Callers : op[c].kind = "update" /\ cancelled' # cancelled =>
        op[c].new.addr # op[c].old.addr \/ ~op[c].new.enabled
<1>1. ASSUME IInv, UInv, [Next]_vars PROVE Keeps
  <2> SUFFICES ASSUME NEW c \in Callers, op[c].kind = "update", cancelled' # cancelled
               PROVE  op[c].new.addr # op[c].old.addr \/ ~op[c].new.enabled
    OBVIOUS
  <2>1. PICK x \in Callers : StopCancel(x)
    BY <1>1, OnlyStopCancels
  <2>2. x = c /\ pc[c] \in StopLabels
    BY <1>1, <2>1, ConstantsAssumption DEF IInv, CallInv, CallOK, StopCancel, StopLabels
  <2>3. TakesDown(op[c])
    BY <1>1, <2>2 DEF UInv, UpdateInv, ProgressOK, UpdateOK
  <2> QED
    BY <2>3 DEF TakesDown, NeedListener
<1>2. Spec => [][Keeps]_vars
  BY <1>1, UpdateInvariance, PTL DEF Spec
<1> QED
  BY <1>2 DEF UpdateKeepsConnections

-----------------------------------------------------------------------------
(* The refinement: every step of RuleLifecycle is a step of RuleService, or  *)
(* one the users of the service do not see.                                  *)

\* A caller opens, closes or configures the service, or does neither.
LEMMA CallerRefines ==
  ASSUME IInv, UInv, NEW c \in Callers, Call(c) \/ CallerStep(c)
  PROVE  Service!Open \/ Service!Close \/ Service!Configure \/ UNCHANGED Service!vars
<1>1. CASE StartRun(c)
  <2>1. ~running /\ Admitted = {}
    BY <1>1, QuietBeforeRun DEF StartRun, Admitted, NoConn
  <2>2. conns = {}
    BY <2>1 DEF IInv, Counts
  <2> QED
    BY <1>1, <2>1, <2>2 DEF StartRun, Service!Open, connVars
<1>2. CASE StopBegin(c)
  BY <1>2 DEF StopBegin, Service!Close, connVars
<1>3. CASE ~StartRun(c) /\ ~StopBegin(c)
  <2>1. UNCHANGED <<running, conns>>
    BY <1>3
    DEF Call, CallStart, CallStop, CallUpdate, Acquire, CallerStep, StartAlready, StartBind,
        StartBindFails, StartHealth, StopNotRunning, StopCancel,
        StopCloseListener, StopCloseConns, StopHealth, WaitHealth, WaitConns, UpdateBind,
        UpdateRetry, UpdateBindFails, UpdateResize, UpdateResizeFails, UpdateRestore, UpdateSwap,
        Return, CallerFrame, ruleVars, connVars
  <2>2. CASE spec' = spec
    BY <2>1, <2>2 DEF Service!vars
  <2>3. CASE spec' # spec
    BY <2>1, <2>3, SpecChange DEF Service!Configure
  <2> QED
    BY <2>2, <2>3
<1> QED
  BY <1>1, <1>2, <1>3

\* The instance counts as FiniteSets does.
LEMMA ServiceCardinality == Service!Cardinality(conns) = Cardinality(conns)
BY Zenon DEF Service!Cardinality, Cardinality

\* A handler joins or leaves the members, or does neither.
LEMMA HandlerRefines ==
  ASSUME IInv, NEW k \in Conns, HandlerStep(k)
  PROVE  Service!Join(k) \/ Service!Leave(k) \/ UNCHANGED Service!vars
<1>1. UNCHANGED <<running, spec>>
  BY GoroutineFrame DEF ruleVars
<1>2. conns = Admitted
  BY DEF IInv, Counts
<1>3. CASE Register(k)
  <2>1. k \notin conns /\ running /\ HasRoom
    BY <1>2, <1>3 DEF Register, Admitted
  <2> QED
    BY <1>1, <1>3, <2>1, ServiceCardinality DEF Register, HasRoom, Service!Join
<1>4. CASE Unregister(k)
  <2>1. k \in conns
    BY <1>2, <1>4 DEF Unregister, Admitted
  <2> QED
    BY <1>1, <1>4, <2>1 DEF Unregister, Service!Leave
<1>5. CASE ~Register(k) /\ ~Unregister(k)
  <2>1. UNCHANGED conns
    BY <1>5
    DEF HandlerStep, Refuse, Dial, DialFails, DialTooLate, BeginRelay, Watch, EndRelay,
        Leave, PipeRead, PipeWritten, PipeEOF, PipeFails, CloseBoth, Proceed
  <2> QED
    BY <1>1, <2>1 DEF Service!vars
<1> QED
  BY <1>3, <1>4, <1>5

\* The rule keeps the promise of RuleService: members join only while it is up
\* and within its limit, it comes up empty, and the address under its members
\* never changes.
THEOREM RuleImplementsService == Spec => ImplementsService
<1>1. Init => Service!Init
  BY ConstantsAssumption DEF Init, Service!Init
<1>2. ASSUME IInv, UInv, [Next]_vars PROVE [Service!Next]_(Service!vars)
  <2>1. ASSUME NEW c \in Callers, Call(c) \/ CallerStep(c) PROVE [Service!Next]_(Service!vars)
    BY <1>2, <2>1, CallerRefines DEF Service!Next
  <2>2. ASSUME NEW k \in Conns, HandlerStep(k) PROVE [Service!Next]_(Service!vars)
    BY <1>2, <2>2, HandlerRefines DEF Service!Next
  <2>3. ASSUME NEW g \in Gens, AcceptorStep(g) PROVE UNCHANGED Service!vars
    BY <2>3, GoroutineFrame DEF Service!vars, ruleVars
  <2>4. ASSUME NEW w \in Workers, WorkerStep(w) PROVE UNCHANGED Service!vars
    BY <2>4, GoroutineFrame DEF Service!vars, ruleVars, connVars
  <2>5. CASE UNCHANGED vars
    BY <2>5 DEF vars, ruleVars, connVars, Service!vars
  <2> QED
    BY <1>2, <2>1, <2>2, <2>3, <2>4, <2>5 DEF Next
<1> QED
  BY <1>1, <1>2, UpdateInvariance, PTL DEF Spec, ImplementsService, Service!Spec

=============================================================================
