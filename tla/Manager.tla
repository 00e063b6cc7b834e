------------------------------ MODULE Manager ------------------------------
(***************************************************************************)
(* The set of rules and the file that outlives the process: Manager        *)
(* (src/internal/proxy/manager.go), Config (src/internal/config/config.go) *)
(* and the order in which main and the handlers of the panel call them.    *)
(*                                                                         *)
(* opMu serialises the changes; the list and the specs of the rules are    *)
(* read without it, by the notification that follows each change and saves *)
(* them, and by the import of a profile.  A change that such a reader can  *)
(* see only done or not done is one step; adding and replacing rules show  *)
(* more.  The inside of one rule is the module RuleLifecycle: here a rule  *)
(* listens or not, and binding may fail, because another program holds the *)
(* port.                                                                   *)
(***************************************************************************)
EXTENDS Integers, Sequences, FiniteSets, Functions

CONSTANTS
  Callers,   \* requests to the panel that run at the same time
  Main,      \* the main goroutine, which boots
  Ids,       \* rule IDs
  Addrs,     \* [port, host] a rule may listen on
  Wild,       \* the unspecified host, 0.0.0.0 or ::
  Requests,  \* the specs a request may carry
  Profiles,  \* the profiles a request may import: [mode, rules]
  Files,     \* what config.json may hold at first, hand-edited as it may be
  MaxObject, \* rule objects are numbered up to this, and reused when unreachable
  MaxCalls,  \* bound on the requests of a behaviour
  None

Objects == 1..MaxObject
Procs == Callers \cup {Main}
Spec_ == [id : Ids, addr : Addrs, enabled : BOOLEAN]

ASSUME ManagerAssumption ==
  /\ Addrs \subseteq [port : Nat, host : {a.host : a \in Addrs}]
  /\ Requests \subseteq Spec_ /\ Files \subseteq Seq(Spec_)
  /\ \A f \in Profiles : f.mode \in {"merge", "replace"} /\ f.rules \in Seq(Spec_)
  /\ MaxObject \in Nat \ {0} /\ MaxCalls \in Nat
  /\ Main \notin Callers /\ None \notin Procs \cup Objects \cup Ids

VARIABLES
  phase,    \* "down", "boot", "up", or "stopping" once StopAll has run
  obj,      \* object -> its spec, and whether it listens
  rules,    \* Manager.rules: ID -> object, or None
  order,    \* Manager.order
  opMu,     \* the holder of Manager.opMu, or None
  op,       \* process -> its step, and the locals of its call
  cfgRules, \* Config.Rules
  cfgMu,    \* the holder of Config.mu, or None
  file,     \* the rules in config.json
  calls     \* requests so far

table == <<obj, rules, order>>
config == <<cfgRules, cfgMu, file>>
vars == <<phase, table, opMu, op, config, calls>>

\* todo: the specs still to add; old, wanted: what a replacement found and is
\* to install; left, read: the objects still to read, the specs read.  alone is
\* history: no other request has overlapped this one.
Idle == [pc |-> "idle", kind |-> None, profile |-> None, todo |-> <<>>,
         old |-> <<>>, wanted |-> <<>>, left |-> <<>>, read |-> <<>>, alone |-> FALSE]

NoObject == [spec |-> None, on |-> FALSE]

Init ==
  /\ phase = "down"
  /\ obj = [o \in Objects |-> NoObject]
  /\ rules = [i \in Ids |-> None] /\ order = <<>>
  /\ opMu = None /\ cfgMu = None
  /\ op = [p \in Procs |-> Idle]
  /\ cfgRules = <<>> /\ file \in Files
  /\ calls = 0

-----------------------------------------------------------------------------
(* Helpers.                                                                 *)

\* checkPortConflictLocked and NormalizeRuleSet; the operating system refuses
\* a second listener in the same cases.
Overlap(a, b) == a.port = b.port /\ (a.host = b.host \/ Wild \in {a.host, b.host})

\* The objects in the table.
Installed == {rules[i] : i \in Ids} \ {None}

Conflict(s, excludeID) ==
  \E i \in Ids \ {excludeID} :
    rules[i] # None /\ Overlap(obj[rules[i]].spec.addr, s.addr)

\* No listener of another rule object is in the way.
Bindable(a, o) == \A q \in Objects \ {o} : obj[q].on => ~Overlap(obj[q].spec.addr, a)

\* List and Specs, read in one step: only for the holder of opMu.
Specs == [n \in DOMAIN order |-> obj[rules[order[n]]].spec]

Objs == [n \in DOMAIN order |-> rules[order[n]]]

Referenced(o) ==
  o \in Installed \/ obj[o].on \/ \E p \in Procs : o \in Range(op[p].left)

\* The object newRule makes.
Fresh == CHOOSE o \in Objects : ~Referenced(o)

HasFresh == \E o \in Objects : ~Referenced(o)

\* NormalizeRuleSet accepts it: every rule is valid, none has the ID or takes the
\* address of another.
Normal(specs) ==
  specs \in Seq(Spec_) /\ \A m, n \in DOMAIN specs : m # n =>
    specs[m].id # specs[n].id /\ ~Overlap(specs[m].addr, specs[n].addr)

\* mergeProfileRules.
Merged(current, profile) ==
  LET new == profile.rules
      at(s) == {n \in DOMAIN new : new[n].id = s.id}
      known == {s.id : s \in Range(current)}
  IN  IF profile.mode = "replace" THEN new
      ELSE [n \in DOMAIN current |->
              IF at(current[n]) = {} THEN current[n]
              ELSE new[CHOOSE k \in at(current[n]) : \A j \in at(current[n]) : j <= k]]
           \o SelectSeq(new, LAMBDA s : s.id \notin known)

-----------------------------------------------------------------------------
(* The process, and the requests.                                           *)

\* main: Load, then LoadSpecs.
Boot ==
  /\ phase = "down" /\ phase' = "boot"
  /\ cfgRules' = file
  /\ opMu' = Main
  /\ op' = [op EXCEPT ![Main] = [Idle EXCEPT !.pc = "add", !.kind = "load", !.todo = file]]
  /\ UNCHANGED <<table, cfgMu, file, calls>>

\* The process is killed, or main returns; only the file is left.
Crash ==
  /\ phase # "down" /\ phase' = "down"
  /\ obj' = [o \in Objects |-> NoObject]
  /\ rules' = [i \in Ids |-> None] /\ order' = <<>>
  /\ opMu' = None /\ cfgMu' = None
  /\ op' = [p \in Procs |-> Idle]
  /\ cfgRules' = <<>>
  /\ UNCHANGED <<file, calls>>

\* After httpSrv.Shutdown, which waits for requests no longer than 5 s.
StopAll ==
  /\ phase = "up" /\ opMu = None /\ phase' = "stopping"
  /\ obj' = [o \in Objects |-> [obj[o] EXCEPT !.on = FALSE]]
  /\ UNCHANGED <<rules, order, opMu, op, config, calls>>

\* Request c begins with the locals o.
Begin(c, o) ==
  /\ phase = "up" /\ op[c].pc = "idle"
  /\ calls < MaxCalls /\ calls' = calls + 1
  /\ LET others == {p \in Callers \ {c} : op[p].pc # "idle"}
     IN  op' = [p \in Procs |->
                  IF p = c THEN [o EXCEPT !.alone = (others = {})]
                  ELSE IF p \in others THEN [op[p] EXCEPT !.alone = FALSE]
                  ELSE op[p]]

Notifying == [Idle EXCEPT !.pc = "list", !.kind = "change"]

Add(c, s) ==
  /\ opMu = None /\ opMu' = c
  /\ Begin(c, [Idle EXCEPT !.pc = "add", !.kind = "add", !.todo = <<s>>])
  /\ UNCHANGED <<phase, table, config>>

\* Update and SetEnabled refuse: no such rule, a conflict, a listener or captures
\* that cannot be had, and what had been stopped is started again.  They notify
\* all the same.  So does SetRoutingMode, whose mode is no part of the model.
UpdateRefused(c) ==
  /\ opMu = None
  /\ Begin(c, Notifying)
  /\ UNCHANGED <<phase, table, opMu, config>>

\* ... and the old listener cannot be opened again.
UpdateDisables(c, s) ==
  LET o == rules[s.id]
  IN  /\ opMu = None /\ o # None /\ ~Conflict(s, s.id)
      /\ obj[o].on /\ s.enabled
      /\ s.addr # obj[o].spec.addr /\ s.addr.port = obj[o].spec.addr.port
      /\ obj' = [obj EXCEPT ![o] = [on |-> FALSE, spec |-> [@.spec EXCEPT !.enabled = FALSE]]]
      /\ Begin(c, Notifying)
      /\ UNCHANGED <<phase, rules, order, opMu, config>>

\* Faulty: does not look for a conflict with a rule that is not enabled.
UpdateUnchecked(c, s) ==
  LET o == rules[s.id]
  IN  /\ opMu = None /\ o # None
      /\ s.enabled => Bindable(s.addr, o)
      /\ obj' = [obj EXCEPT ![o] = [spec |-> s, on |-> s.enabled]]
      /\ Begin(c, Notifying)
      /\ UNCHANGED <<phase, rules, order, opMu, config>>

\* The address of a running rule is bound anew only when it changes.
Update(c, s) ==
  LET o == rules[s.id]
  IN  /\ opMu = None /\ o # None /\ ~Conflict(s, s.id)
      /\ s.enabled => Bindable(s.addr, o)
      /\ obj' = [obj EXCEPT ![o] = [spec |-> s, on |-> s.enabled]]
      /\ Begin(c, Notifying)
      /\ UNCHANGED <<phase, rules, order, opMu, config>>

SetEnabled(c, i, b) ==
  rules[i] # None /\ Update(c, [obj[rules[i]].spec EXCEPT !.enabled = b])

\* Faulty: the ID stays in the list, which skips it until it is used again.
RemovedFromMap(i) == rules' = [rules EXCEPT ![i] = None] /\ UNCHANGED order

Removed(i) ==
  /\ rules' = [rules EXCEPT ![i] = None]
  /\ LET n == CHOOSE n \in DOMAIN order : order[n] = i
     IN  order' = SubSeq(order, 1, n - 1) \o SubSeq(order, n + 1, Len(order))

\* Faulty: notifies before it removes the rule.
DeleteAnnounced(c, i) ==
  /\ opMu = None /\ rules[i] # None
  /\ Removed(i)
  /\ obj' = [obj EXCEPT ![rules[i]].on = FALSE]
  /\ Begin(c, [Notifying EXCEPT !.pc = "read", !.left = Objs])
  /\ UNCHANGED <<phase, opMu, config>>

\* Faulty: the rule goes on listening.
DeleteOnly(c, i) ==
  /\ opMu = None /\ rules[i] # None
  /\ Removed(i)
  /\ Begin(c, Notifying)
  /\ UNCHANGED <<phase, obj, opMu, config>>

Delete(c, i) ==
  /\ opMu = None /\ rules[i] # None
  /\ Removed(i)
  /\ obj' = [obj EXCEPT ![rules[i]].on = FALSE]
  /\ Begin(c, Notifying)
  /\ UNCHANGED <<phase, opMu, config>>

\* SetDetectionConfig, which notifies without opMu.
SetDetectionConfig(c) ==
  /\ Begin(c, Notifying)
  /\ UNCHANGED <<phase, table, opMu, config>>

\* SetScan and SetDetection of Config: they save the rules they find there.
SetScan(c) ==
  /\ Begin(c, [Idle EXCEPT !.pc = "save", !.kind = "settings"])
  /\ UNCHANGED <<phase, table, opMu, config>>

Import(c, f) ==
  /\ Begin(c, [Idle EXCEPT !.pc = "list", !.kind = "import", !.profile = f])
  /\ UNCHANGED <<phase, table, opMu, config>>

-----------------------------------------------------------------------------
(* addLocked, for one rule or for a list of them.                           *)

Step(p, o) == op' = [op EXCEPT ![p] = o]

\* Faulty: an import goes on with the next rule, as LoadSpecs does.
AfterFailureGoOn(o) ==
  [o EXCEPT !.pc = "add", !.todo = IF o.kind = "add" THEN <<>> ELSE Tail(@)]

\* What the caller of addLocked does with its error: Add still notifies when
\* there is a rule, LoadSpecs goes on, ReplaceSpecs rolls back, and its rollback
\* gives up.
AfterFailure(o) ==
  CASE o.kind = "add"      -> [o EXCEPT !.pc = "add", !.todo = <<>>]
    [] o.kind = "load"     -> [o EXCEPT !.pc = "add", !.todo = Tail(@)]
    [] o.kind = "replace"  -> [o EXCEPT !.pc = "clear", !.kind = "rollback", !.todo = o.old]
    [] o.kind = "rollback" -> [o EXCEPT !.pc = "add", !.kind = "broken", !.todo = <<>>]

Adding(p) == op[p].pc = "add" /\ op[p].todo # <<>>

Acceptable(s) == rules[s.id] = None /\ ~Conflict(s, None)

Insert(p) ==
  LET s == Head(op[p].todo)
      o == Fresh
  IN  /\ Adding(p) /\ Acceptable(s) /\ HasFresh
      /\ obj' = [obj EXCEPT ![o] = [spec |-> s, on |-> FALSE]]
      /\ rules' = [rules EXCEPT ![s.id] = o]
      /\ order' = Append(order, s.id)
      /\ Step(p, IF s.enabled THEN [op[p] EXCEPT !.pc = "start"]
                  ELSE [op[p] EXCEPT !.todo = Tail(@)])
      /\ UNCHANGED <<phase, opMu, config, calls>>

\* Nothing has changed: Add returns without a notification.
AddRefused(p) ==
  /\ Adding(p) /\ op[p].kind = "add"
  /\ ~Acceptable(Head(op[p].todo))
  /\ opMu' = None /\ Step(p, Idle)
  /\ UNCHANGED <<phase, table, config, calls>>

SpecRefused(p) ==
  /\ Adding(p) /\ op[p].kind # "add"
  /\ ~Acceptable(Head(op[p].todo))
  /\ Step(p, AfterFailure(op[p]))
  /\ UNCHANGED <<phase, table, opMu, config, calls>>

Listen(p) ==
  LET s == Head(op[p].todo)
  IN  /\ op[p].pc = "start" /\ Bindable(s.addr, rules[s.id])
      /\ obj' = [obj EXCEPT ![rules[s.id]].on = TRUE]
      /\ Step(p, [op[p] EXCEPT !.pc = "add", !.todo = Tail(@)])
      /\ UNCHANGED <<phase, rules, order, opMu, config, calls>>

ListenFails(p) ==
  LET s == Head(op[p].todo)
  IN  /\ op[p].pc = "start"
      /\ obj' = [obj EXCEPT ![rules[s.id]].spec.enabled = FALSE]
      /\ Step(p, AfterFailure(op[p]))
      /\ UNCHANGED <<phase, rules, order, opMu, config, calls>>

\* LoadSpecs does not notify; main then saves the configuration as it was read.
AfterChange(o) ==
  [Idle EXCEPT !.pc = IF o.kind = "load" THEN "save" ELSE "list", !.kind = o.kind,
               !.alone = o.alone]

Unlock(p) ==
  /\ op[p].pc = "add" /\ op[p].todo = <<>>
  /\ opMu' = None
  /\ Step(p, AfterChange(op[p]))
  /\ UNCHANGED <<phase, table, config, calls>>

-----------------------------------------------------------------------------
(* Specs outside opMu, and what it is read for.                             *)

List(p) ==
  /\ op[p].pc = "list"
  /\ Step(p, [op[p] EXCEPT !.pc = "read", !.left = Objs])
  /\ UNCHANGED <<phase, table, opMu, config, calls>>

Read(p) ==
  /\ op[p].pc = "read" /\ op[p].left # <<>>
  /\ Step(p, [op[p] EXCEPT !.left = Tail(@), !.read = Append(@, obj[Head(op[p].left)].spec)])
  /\ UNCHANGED <<phase, table, opMu, config, calls>>

ReadAll(p) ==
  /\ op[p].pc = "read" /\ op[p].left = <<>>
  /\ Step(p, [op[p] EXCEPT !.pc = IF op[p].kind = "import" THEN "merge" ELSE "save"])
  /\ UNCHANGED <<phase, table, opMu, config, calls>>

ImportRefused(p) ==
  /\ op[p].pc = "merge" /\ ~Normal(Merged(op[p].read, op[p].profile))
  /\ Step(p, Idle)
  /\ UNCHANGED <<phase, table, opMu, config, calls>>

\* ReplaceSpecs locks opMu and takes down what it finds.
Replace(p) ==
  LET new == Merged(op[p].read, op[p].profile)
  IN  /\ op[p].pc = "merge" /\ Normal(new)
      /\ opMu = None /\ opMu' = p
      /\ Step(p, [op[p] EXCEPT !.pc = "clear", !.kind = "replace", !.read = <<>>,
                               !.old = Specs, !.wanted = new, !.todo = new])
      /\ UNCHANGED <<phase, table, config, calls>>

Clear(p) ==
  /\ op[p].pc = "clear"
  /\ obj' = [o \in Objects |-> [obj[o] EXCEPT !.on = @ /\ o \notin Installed]]
  /\ rules' = [i \in Ids |-> None] /\ order' = <<>>
  /\ Step(p, [op[p] EXCEPT !.pc = "add"])
  /\ UNCHANGED <<phase, opMu, config, calls>>

\* SetRules, and Save: the file is written beside the old one.
Save(p) ==
  /\ op[p].pc = "save" /\ cfgMu = None
  /\ cfgMu' = p
  /\ IF op[p].kind \in {"load", "settings"} THEN UNCHANGED cfgRules
                                            ELSE cfgRules' = op[p].read
  /\ Step(p, [op[p] EXCEPT !.pc = "rename", !.read = <<>>])
  /\ UNCHANGED <<phase, table, opMu, file, calls>>

Returns(p) ==
  /\ cfgMu' = None
  /\ Step(p, Idle)
  /\ phase' = IF p = Main THEN "up" ELSE phase
  /\ UNCHANGED <<table, opMu, cfgRules, calls>>

Rename(p) == op[p].pc = "rename" /\ file' = cfgRules /\ Returns(p)

\* The disk is full, say; the error is logged.
SaveFails(p) == op[p].pc = "rename" /\ UNCHANGED file /\ Returns(p)

-----------------------------------------------------------------------------
Request(c) ==
  \/ \E s \in Requests : Add(c, s) \/ Update(c, s) \/ UpdateDisables(c, s)
  \/ UpdateRefused(c)
  \/ \E i \in Ids : Delete(c, i) \/ \E b \in BOOLEAN : SetEnabled(c, i, b)
  \/ SetDetectionConfig(c) \/ SetScan(c)
  \/ \E f \in Profiles : Import(c, f)

Proceed(p) ==
  \/ Insert(p) \/ AddRefused(p) \/ SpecRefused(p)
  \/ Listen(p) \/ ListenFails(p) \/ Unlock(p)
  \/ List(p) \/ Read(p) \/ ReadAll(p)
  \/ ImportRefused(p) \/ Replace(p) \/ Clear(p)
  \/ Save(p) \/ Rename(p) \/ SaveFails(p)

Next ==
  \/ Boot \/ Crash \/ StopAll
  \/ \E c \in Callers : Request(c)
  \/ \E p \in Procs : Proceed(p)

Spec == Init /\ [][Next]_vars

-----------------------------------------------------------------------------
(* Properties.                                                              *)

Ops ==
  [pc : {"idle", "add", "start", "list", "read", "merge", "clear", "save", "rename"},
   kind : {None, "load", "add", "change", "settings", "import", "replace", "rollback", "broken"},
   profile : Profiles \cup {None},
   todo : Seq(Spec_), old : Seq(Spec_), wanted : Seq(Spec_),
   left : Seq(Objects), read : Seq(Spec_), alone : BOOLEAN]

\* Every variable has its type; the list and the map hold the same rules, each
\* once and under its ID.
TypeOK ==
  /\ phase \in {"down", "boot", "up", "stopping"}
  /\ obj \in [Objects -> [spec : Spec_ \cup {None}, on : BOOLEAN]]
  /\ rules \in [Ids -> Objects \cup {None}] /\ order \in Seq(Ids)
  /\ opMu \in Procs \cup {None} /\ cfgMu \in Procs \cup {None}
  /\ op \in [Procs -> Ops]
  /\ cfgRules \in Seq(Spec_) /\ file \in Seq(Spec_)
  /\ calls \in 0..MaxCalls
  /\ Range(order) = {i \in Ids : rules[i] # None} /\ Len(order) = Cardinality(Range(order))
  /\ \A i \in Range(order) : obj[rules[i]].spec.id = i

\* No two rules claim addresses that cannot be had together, whether they are
\* enabled or not: every path that changes an address looks at all the others
\* (checkPortConflictLocked, NormalizeRuleSet), and none looks too early.
NoConflicts ==
  \A i, j \in Range(order) : i # j =>
    ~Overlap(obj[rules[i]].spec.addr, obj[rules[j]].spec.addr)

\* When no change is under way, exactly the enabled rules listen: the
\* listeners of deleted and replaced rules are gone, and a rule that could not
\* be started says so by being disabled.
ListenersMatchRules ==
  phase = "up" /\ opMu = None =>
    {o \in Objects : obj[o].on} = {o \in Installed : obj[o].spec.enabled}

Replaced(p) == op[p].pc = "add" /\ op[p].todo = <<>>

\* An import ends with all of its rules, or with all the old ones: unless the
\* rollback itself fails (manager.go:395).
ReplaceAllOrNothing ==
  \A p \in Callers : Replaced(p) =>
    /\ op[p].kind = "replace" => Specs = op[p].wanted
    /\ op[p].kind = "rollback" => Specs = op[p].old

Saved(c) == op[c].pc = "rename" /\ op'[c].pc = "idle" /\ file' = cfgRules /\ phase' = phase

\* A request that no other overlaps has saved the rules as they are when it
\* returns: a process killed after it comes up with them (main.go:82).  And
\* "a save midway through loading must not overwrite the rest of the
\* configuration" (manager.go:349-350): nor does the save that ends the boot,
\* whichever rules were refused or could not be started.
FileIsFaithful ==
  [][/\ \A c \in Callers :
          op[c].alone /\ op[c].kind # "settings" /\ Saved(c) => file' = Specs'
     /\ phase = "boot" => file' = file]_vars

\* "Any change of the rules goes to the disk at once: if the program is killed,
\* the forwardings come up in the same form" (main.go:82-83): when the last
\* request returns, and its save has not failed.
ChangesAreSaved ==
  [][\A c \in Callers :
       op[c].kind # "settings" /\ Saved(c) /\ (\A p \in Callers : op'[p].pc = "idle")
         => file' = Specs']_vars

\* A merge keeps the other local rules (docs/profiles.md:15): those it finds
\* when it replaces the rules and that the profile does not name.
MergeKeepsOthers ==
  \A p \in Callers :
    Replaced(p) /\ op[p].kind = "replace" /\ op[p].profile.mode = "merge" =>
      \A s \in Range(op[p].old) :
        s \in Range(Specs) \/ s.id \in {q.id : q \in Range(op[p].profile.rules)}

=============================================================================
