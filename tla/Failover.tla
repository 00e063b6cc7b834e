------------------------------ MODULE Failover ------------------------------
(***************************************************************************)
(* Health checks and routing of a running rule (src/internal/proxy/        *)
(* health.go, and what manager.go and rule.go do to the same fields): the  *)
(* worker probes the target and the backup, every client dial reports its  *)
(* outcome too, streaks of outcomes move an endpoint between up and down,  *)
(* and decideFailoverLocked moves the route.  Operators change the spec    *)
(* and the routing mode meanwhile, and outcomes of dials to an endpoint    *)
(* the spec has left come in late.                                         *)
(*                                                                         *)
(* The rule runs throughout; how it is started and stopped is              *)
(* RuleLifecycle's.  A restart (Stop, then Start) is one step here.        *)
(***************************************************************************)
EXTENDS Integers

CONSTANTS
  Endpoints,   \* addresses of targets and backups
  Configs,     \* specs a caller may pass to Update
  FirstConfig, \* the spec newRule was given
  Dials,       \* slots for client connections being dialled
  None

Modes  == {"auto", "primary", "backup"}
Checks == {"tcp", "payload"}   \* "payload" stands for http as well

ConfigType ==
  [target : Endpoints, backup : Endpoints \cup {None}, mode : Modes,
   health : BOOLEAN, check : Checks, failAfter : Nat \ {0},
   riseAfter : Nat \ {0}, autoFail : BOOLEAN, autoBack : BOOLEAN]

\* RuleSpec.Validate and applyDefaults.
Valid(c) == c \in ConfigType /\ (c.mode = "backup" => c.backup # None)

ASSUME ConfigAssumption ==
  /\ None \notin Endpoints
  /\ \A c \in Configs \cup {FirstConfig} : Valid(c)

VARIABLES
  cfg,          \* Rule.spec, as far as routing reads it
  target,       \* targetUp, failStreak, riseStreak
  backup,       \* backupUp, bkFailStrk, bkRiseStrk
  usingBackup,
  worker,       \* the health goroutine: its step, the endpoints it was given,
                \* the answer it holds
  dial,         \* client dials: the route taken, the answer once there is one
  service       \* the environment: what each endpoint does with a connection

vars == <<cfg, target, backup, usingBackup, worker, dial, service>>

-----------------------------------------------------------------------------
\* noteProbeLocked on the three fields of one endpoint.
Count(c, s, ok) ==
  IF ok
  THEN LET rise == IF s.rise < c.riseAfter THEN s.rise + 1 ELSE s.rise
       IN  [up |-> s.up \/ rise >= c.riseAfter, fail |-> 0, rise |-> rise]
  ELSE LET fail == IF s.fail < c.failAfter THEN s.fail + 1 ELSE s.fail
       IN  [up |-> s.up /\ fail < c.failAfter, fail |-> fail, rise |-> 0]

\* decideFailoverLocked: the next route.
Decide(c, tgt, bak, using) ==
  /\ c.backup # None /\ c.mode # "primary"
  /\ \/ c.mode = "backup"
     \/ ~c.health /\ using
     \/ c.health /\ using /\ ~(tgt.up /\ (c.autoBack \/ ~bak.up))
     \/ c.health /\ ~using /\ ~tgt.up /\ bak.up /\ c.autoFail

Unknown == [up |-> TRUE, fail |-> 0, rise |-> 0]

Off == [pc |-> "off", target |-> None, backup |-> None, ok |-> FALSE]
NoDial == [pc |-> "none", primary |-> TRUE, to |-> None, ok |-> FALSE]

\* startHealthLocked.
Started(c) ==
  IF c.health THEN [Off EXCEPT !.pc = "target", !.target = c.target, !.backup = c.backup]
              ELSE Off

Init ==
  /\ cfg = FirstConfig
  /\ target = Unknown /\ backup = Unknown
  /\ usingBackup = (cfg.mode = "backup")
  /\ worker = Started(cfg)
  /\ dial = [d \in Dials |-> NoDial]
  /\ service \in [Endpoints -> {"down", "accepts", "serves"}]

-----------------------------------------------------------------------------
\* The state after an outcome of endpoint e; ignored if e is not, or no
\* longer, what the spec names (noteEndpointProbe).
NoteEndpointProbe(primary, e, ok) ==
  /\ target' = IF primary /\ cfg.target = e THEN Count(cfg, target, ok) ELSE target
  /\ backup' = IF ~primary /\ cfg.backup = e THEN Count(cfg, backup, ok) ELSE backup
  /\ usingBackup' = IF e = (IF primary THEN cfg.target ELSE cfg.backup)
                    THEN Decide(cfg, target', backup', usingBackup)
                    ELSE usingBackup

\* A TCP check asks for a connection, the others for the right answer on it.
Answers(check, e) ==
  IF check = "tcp" THEN service[e] # "down" ELSE service[e] = "serves"

\* The worker's probe of one endpoint returns.
Probe ==
  /\ worker.pc \in {"target", "backup"}
  /\ worker' = [worker EXCEPT
       !.ok = Answers(cfg.check, IF worker.pc = "target" THEN worker.target
                                                         ELSE worker.backup),
       !.pc = IF @ = "target" THEN "noteTarget" ELSE "noteBackup"]
  /\ UNCHANGED <<cfg, target, backup, usingBackup, dial, service>>

\* Faulty: the backup is checked only while it carries the connections.
ChecksBackupInUse ==
  /\ \/ /\ worker.pc = "noteTarget"
        /\ NoteEndpointProbe(TRUE, worker.target, worker.ok)
     \/ /\ worker.pc = "noteBackup"
        /\ NoteEndpointProbe(FALSE, worker.backup, worker.ok)
  /\ worker' = [worker EXCEPT
       !.ok = FALSE,
       !.pc = IF @ = "noteTarget" /\ usingBackup /\ worker.backup # None
              THEN "backup" ELSE "wait"]
  /\ UNCHANGED <<cfg, dial, service>>

\* The outcome is noted; after the target's comes the backup's probe.
NoteProbe ==
  /\ \/ /\ worker.pc = "noteTarget"
        /\ NoteEndpointProbe(TRUE, worker.target, worker.ok)
     \/ /\ worker.pc = "noteBackup"
        /\ NoteEndpointProbe(FALSE, worker.backup, worker.ok)
  /\ worker' = [worker EXCEPT
       !.ok = FALSE,
       !.pc = IF @ = "noteTarget" /\ worker.backup # None THEN "backup" ELSE "wait"]
  /\ UNCHANGED <<cfg, dial, service>>

Tick ==
  /\ worker.pc = "wait"
  /\ worker' = [worker EXCEPT !.pc = "target"]
  /\ UNCHANGED <<cfg, target, backup, usingBackup, dial, service>>

-----------------------------------------------------------------------------
\* handle picks the route of a new connection (currentTargetLocked) ...
Route ==
  IF usingBackup /\ cfg.backup # None
  THEN [pc |-> "dialling", primary |-> FALSE, to |-> cfg.backup, ok |-> FALSE]
  ELSE [pc |-> "dialling", primary |-> TRUE, to |-> cfg.target, ok |-> FALSE]

Connect(d) ==
  /\ dial[d].pc = "none"
  /\ dial' = [dial EXCEPT ![d] = Route]
  /\ UNCHANGED <<cfg, target, backup, usingBackup, worker, service>>

\* ... dials it ...
DialReturns(d) ==
  /\ dial[d].pc = "dialling"
  /\ dial' = [dial EXCEPT ![d] =
       [@ EXCEPT !.pc = "returned", !.ok = Answers("tcp", dial[d].to)]]
  /\ UNCHANGED <<cfg, target, backup, usingBackup, worker, service>>

\* ... and reports the outcome as the checks do.
NoteDial(d) ==
  /\ dial[d].pc = "returned"
  /\ NoteEndpointProbe(dial[d].primary, dial[d].to, dial[d].ok)
  /\ dial' = [dial EXCEPT ![d] = NoDial]
  /\ UNCHANGED <<cfg, worker, service>>

-----------------------------------------------------------------------------
\* Faulty: the route is not decided again.
UpdateOnly(c) ==
  /\ cfg' = c
  /\ target' = IF c.target # cfg.target THEN Unknown ELSE target
  /\ backup' = IF c.backup # cfg.backup THEN Unknown ELSE backup
  /\ worker' = Started(c)
  /\ UNCHANGED <<usingBackup, dial, service>>

\* Faulty: what was known of the old endpoints is held against the new ones.
UpdateKeepsRecords(c) ==
  /\ cfg' = c
  /\ usingBackup' = Decide(c, target, backup, usingBackup)
  /\ worker' = Started(c)
  /\ UNCHANGED <<target, backup, dial, service>>

\* updateLocked: the worker is stopped, waited for and started again; dials go
\* on.  An endpoint the update replaces starts with a clean record.
Update(c) ==
  /\ cfg' = c
  /\ target' = IF c.target # cfg.target THEN Unknown ELSE target
  /\ backup' = IF c.backup # cfg.backup THEN Unknown ELSE backup
  /\ usingBackup' = Decide(c, target', backup', usingBackup)
  /\ worker' = Started(c)
  /\ UNCHANGED <<dial, service>>

\* Faulty: accepts any mode.
SetAnyMode(m) ==
  /\ cfg' = [cfg EXCEPT !.mode = m]
  /\ usingBackup' = Decide(cfg', target, backup, usingBackup)
  /\ UNCHANGED <<target, backup, worker, dial, service>>

\* Faulty: the route is not decided again.
SetModeOnly(m) ==
  /\ m = "backup" => cfg.backup # None
  /\ cfg' = [cfg EXCEPT !.mode = m]
  /\ UNCHANGED <<target, backup, usingBackup, worker, dial, service>>

\* setRoutingModeLocked; it refuses the backup mode without a backup.
SetRoutingMode(m) ==
  /\ m = "backup" => cfg.backup # None
  /\ cfg' = [cfg EXCEPT !.mode = m]
  /\ usingBackup' = Decide(cfg', target, backup, usingBackup)
  /\ UNCHANGED <<target, backup, worker, dial, service>>

\* Stop cancels the dials, whose outcomes are dropped, and the worker; what is
\* known of the endpoints outlives it.
Restart ==
  /\ worker' = Started(cfg)
  /\ dial' = [d \in Dials |-> NoDial]
  /\ UNCHANGED <<cfg, target, backup, usingBackup, service>>

ServiceChanges(e, s) ==
  /\ service' = [service EXCEPT ![e] = s]
  /\ UNCHANGED <<cfg, target, backup, usingBackup, worker, dial>>

-----------------------------------------------------------------------------
WorkerStep == Probe \/ NoteProbe \/ Tick

Next ==
  \/ WorkerStep
  \/ \E d \in Dials : Connect(d) \/ DialReturns(d) \/ NoteDial(d)
  \/ \E c \in Configs : Update(c)
  \/ \E m \in Modes : SetRoutingMode(m)
  \/ Restart
  \/ \E e \in Endpoints, s \in {"down", "accepts", "serves"} : ServiceChanges(e, s)

Spec == Init /\ [][Next]_vars

-----------------------------------------------------------------------------
(* Properties.                                                              *)

Record == [up : BOOLEAN, fail : Nat, rise : Nat]

\* The fields keep their types and the spec stays one Validate accepts.
TypeOK ==
  /\ Valid(cfg)
  /\ target \in Record /\ backup \in Record
  /\ usingBackup \in BOOLEAN
  /\ worker \in [pc : {"off", "target", "noteTarget", "backup", "noteBackup", "wait"},
                 target : Endpoints \cup {None}, backup : Endpoints \cup {None},
                 ok : BOOLEAN]
  /\ dial \in [Dials -> [pc : {"none", "dialling", "returned"}, primary : BOOLEAN,
                         to : Endpoints \cup {None}, ok : BOOLEAN]]
  /\ service \in [Endpoints -> {"down", "accepts", "serves"}]

\* A manual choice holds whatever the checks say, and there is no route to a
\* backup that is not configured (core_test.go, ManualRoutingModeIsSticky).
ManualModeHolds ==
  /\ cfg.mode = "primary" \/ cfg.backup = None => ~usingBackup
  /\ cfg.mode = "backup" => usingBackup

\* The route is never one that the rules of automatic failover would leave:
\* with checks on, no connection goes to a target known to be down while the
\* backup is up and AutoFail is set, nor to the backup while the target is up
\* and either AutoBack is set or the backup is down.  Every path that changes
\* an input of the decision must take it again.
RouteSettled ==
  cfg.mode = "auto" /\ cfg.backup # None /\ cfg.health =>
    /\ ~target.up /\ backup.up /\ cfg.autoFail => usingBackup
    /\ target.up /\ (cfg.autoBack \/ ~backup.up) => ~usingBackup

=============================================================================
