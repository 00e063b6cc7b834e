-------------------------- MODULE Failover_proofs --------------------------
(* What TLAPS proves of Failover, and of Failover with its history, for     *)
(* every set of endpoints, specs and dials.                                 *)
EXTENDS FailoverHistory, TLAPS

-----------------------------------------------------------------------------
(* Facts about the operators of the model.                                  *)

\* One outcome makes a record of an endpoint a record again.
LEMMA CountType ==
  ASSUME NEW c \in ConfigType, NEW s \in Record, NEW ok \in BOOLEAN
  PROVE  Count(c, s, ok) \in Record
BY DEF Count, Record, ConfigType

\* The decision of decideFailoverLocked is stable: taken again with the same
\* inputs it does not move the route a second time.
LEMMA DecideStable ==
  ASSUME NEW c \in ConfigType, NEW tgt \in Record, NEW bak \in Record,
         NEW using \in BOOLEAN
  PROVE  Decide(c, tgt, bak, Decide(c, tgt, bak, using)) = Decide(c, tgt, bak, using)
BY DEF Decide, Record, ConfigType

\* The spec named by the configuration stays valid when its mode changes to
\* one setRoutingModeLocked accepts.
LEMMA ModeValid ==
  ASSUME NEW c, Valid(c), NEW m \in Modes, m = "backup" => c.backup # None
  PROVE  Valid([c EXCEPT !.mode = m])
BY DEF Valid, ConfigType

DialRecord ==
  [pc : {"none", "dialling", "returned"}, primary : BOOLEAN,
   to : Endpoints \cup {None}, ok : BOOLEAN]

\* A dial that returns stays in its type.
LEMMA DialType ==
  ASSUME NEW r \in DialRecord, NEW b \in BOOLEAN
  PROVE  [r EXCEPT !.pc = "returned", !.ok = b] \in DialRecord
BY DEF DialRecord

\* The worker starts in its type.
LEMMA StartedType ==
  ASSUME NEW c \in ConfigType
  PROVE  Started(c) \in [pc : {"off", "target", "noteTarget", "backup", "noteBackup", "wait"},
                         target : Endpoints \cup {None}, backup : Endpoints \cup {None},
                         ok : BOOLEAN]
BY DEF Started, Off, ConfigType

-----------------------------------------------------------------------------
(* Type correctness.                                                        *)

\* Every state has its type, and the spec in force is always one that
\* RuleSpec.Validate accepts, also after SetRoutingMode.
THEOREM TypeCorrect == Spec => []TypeOK
<1>1. Init => TypeOK
  BY ConfigAssumption, StartedType
  DEF Init, TypeOK, Valid, Record, Unknown, NoDial
<1>2. TypeOK /\ [Next]_vars => TypeOK'
  <2> SUFFICES ASSUME TypeOK, [Next]_vars PROVE TypeOK'
    OBVIOUS
  <2> USE DEF TypeOK
  <2>0. cfg \in ConfigType
    BY DEF Valid
  <2>1. ASSUME Probe PROVE TypeOK'
    BY <2>1 DEF Probe, Answers
  <2>2. ASSUME NoteProbe PROVE TypeOK'
    <3>1. /\ target' = target \/ target' = Count(cfg, target, worker.ok)
          /\ backup' = backup \/ backup' = Count(cfg, backup, worker.ok)
          /\ usingBackup' = usingBackup \/ usingBackup' = Decide(cfg, target', backup', usingBackup)
      BY <2>2 DEF NoteProbe, NoteEndpointProbe
    <3>2. worker.ok \in BOOLEAN
      OBVIOUS
    <3>3. target' \in Record /\ backup' \in Record
      BY <2>0, <3>1, <3>2, CountType
    <3>4. usingBackup' \in BOOLEAN
      BY <3>1 DEF Decide
    <3>5. QED
      BY <2>2, <3>3, <3>4 DEF NoteProbe
  <2>3. ASSUME Tick PROVE TypeOK'
    BY <2>3 DEF Tick
  <2>4. ASSUME NEW d \in Dials, Connect(d) PROVE TypeOK'
    BY <2>0, <2>4 DEF Connect, Route, ConfigType
  <2>5. ASSUME NEW d \in Dials, DialReturns(d) PROVE TypeOK'
    <3>1. Answers("tcp", dial[d].to) \in BOOLEAN
      BY DEF Answers
    <3>2. dial'[d] \in DialRecord
      BY <2>5, <3>1, DialType DEF DialReturns, DialRecord
    <3>3. dial' = [dial EXCEPT ![d] = dial'[d]]
      BY <2>5 DEF DialReturns
    <3>4. QED
      BY <2>5, <3>2, <3>3 DEF DialReturns, DialRecord
  <2>6. ASSUME NEW d \in Dials, NoteDial(d) PROVE TypeOK'
    <3>1. target' \in Record /\ backup' \in Record /\ usingBackup' \in BOOLEAN
      BY <2>0, <2>6, CountType DEF NoteDial, NoteEndpointProbe, Decide
    <3>2. QED
      BY <2>6, <3>1 DEF NoteDial, NoDial
  <2>7. ASSUME NEW c \in Configs, Update(c) PROVE TypeOK'
    <3>1. Valid(c) /\ c \in ConfigType
      BY ConfigAssumption DEF Valid
    <3>2. target' \in Record /\ backup' \in Record /\ usingBackup' \in BOOLEAN
      BY <2>7 DEF Update, Unknown, Record, Decide
    <3>3. QED
      BY <2>7, <3>1, <3>2, StartedType DEF Update
  <2>8. ASSUME NEW m \in Modes, SetRoutingMode(m) PROVE TypeOK'
    <3>1. Valid(cfg')
      BY <2>8, ModeValid DEF SetRoutingMode
    <3>2. QED
      BY <2>8, <3>1 DEF SetRoutingMode, Decide
  <2>9. ASSUME Restart PROVE TypeOK'
    BY <2>0, <2>9, StartedType DEF Restart, NoDial
  <2>10. ASSUME NEW e \in Endpoints, NEW s \in {"down", "accepts", "serves"},
                ServiceChanges(e, s)
         PROVE  TypeOK'
    BY <2>10 DEF ServiceChanges
  <2>11. CASE UNCHANGED vars
    BY <2>11 DEF vars
  <2>12. QED
    BY <2>1, <2>2, <2>3, <2>4, <2>5, <2>6, <2>7, <2>8, <2>9, <2>10, <2>11
    DEF Next, WorkerStep
<1>3. QED
  BY <1>1, <1>2, PTL DEF Spec

-----------------------------------------------------------------------------
(* The route.                                                               *)

\* The route is what decideFailoverLocked would decide once more: no step
\* that changes the spec, a record or the mode forgets to decide.
RouteDecided == usingBackup = Decide(cfg, target, backup, usingBackup)

\* RouteDecided is what the two properties of the route come to.
LEMMA RouteDecidedMeans ==
  ASSUME TypeOK, RouteDecided
  PROVE  RouteSettled /\ ManualModeHolds
BY DEF TypeOK, Valid, RouteDecided, RouteSettled, ManualModeHolds, Decide,
       ConfigType, Record, Modes

\* One outcome leaves the route decided, whether it counts or is ignored.
LEMMA NoteDecides ==
  ASSUME TypeOK, RouteDecided, NEW primary \in BOOLEAN, NEW e, NEW ok \in BOOLEAN,
         NoteEndpointProbe(primary, e, ok), cfg' = cfg
  PROVE  RouteDecided'
<1>1. cfg \in ConfigType /\ target \in Record /\ backup \in Record /\ usingBackup \in BOOLEAN
  BY DEF TypeOK, Valid
<1>2. target' \in Record /\ backup' \in Record
  BY <1>1, CountType DEF NoteEndpointProbe
<1>3. CASE e = IF primary THEN cfg.target ELSE cfg.backup
  <2>1. usingBackup' = Decide(cfg, target', backup', usingBackup)
    BY <1>3 DEF NoteEndpointProbe
  <2>2. QED
    BY <1>1, <1>2, <2>1, DecideStable DEF RouteDecided
<1>4. CASE e # IF primary THEN cfg.target ELSE cfg.backup
  <2>1. target' = target /\ backup' = backup /\ usingBackup' = usingBackup
    BY <1>4 DEF NoteEndpointProbe
  <2>2. QED
    BY <2>1 DEF RouteDecided
<1>5. QED
  BY <1>3, <1>4

\* The route is decided in every state.
THEOREM RouteAlwaysDecided == Spec => []RouteDecided
<1>1. Init => RouteDecided
  BY ConfigAssumption DEF Init, RouteDecided, Decide, Unknown, Valid, ConfigType, Modes
<1>2. TypeOK /\ TypeOK' /\ RouteDecided /\ [Next]_vars => RouteDecided'
  <2> SUFFICES ASSUME TypeOK, TypeOK', RouteDecided, [Next]_vars PROVE RouteDecided'
    OBVIOUS
  <2>0. /\ cfg' \in ConfigType /\ target' \in Record /\ backup' \in Record
        /\ usingBackup \in BOOLEAN
    BY DEF TypeOK, Valid
  <2>1. CASE UNCHANGED <<cfg, target, backup, usingBackup>>
    BY <2>1 DEF RouteDecided
  <2>2. ASSUME NoteProbe PROVE RouteDecided'
    <3>1. PICK p \in BOOLEAN, e \in Endpoints \cup {None} :
            NoteEndpointProbe(p, e, worker.ok)
      BY <2>2 DEF NoteProbe, TypeOK
    <3>2. worker.ok \in BOOLEAN /\ cfg' = cfg
      BY <2>2 DEF NoteProbe, TypeOK
    <3>3. QED
      BY <3>1, <3>2, NoteDecides
  <2>3. ASSUME NEW d \in Dials, NoteDial(d) PROVE RouteDecided'
    <3>1. dial[d].primary \in BOOLEAN /\ dial[d].ok \in BOOLEAN /\ cfg' = cfg
      BY <2>3 DEF NoteDial, TypeOK
    <3>2. QED
      BY <2>3, <3>1, NoteDecides DEF NoteDial
  <2>4. ASSUME NEW c \in Configs, Update(c) PROVE RouteDecided'
    <3>1. usingBackup' = Decide(cfg', target', backup', usingBackup)
      BY <2>4 DEF Update
    <3>2. QED
      BY <2>0, <3>1, DecideStable DEF RouteDecided
  <2>5. ASSUME NEW m \in Modes, SetRoutingMode(m) PROVE RouteDecided'
    <3>1. usingBackup' = Decide(cfg', target', backup', usingBackup)
      BY <2>5 DEF SetRoutingMode
    <3>2. QED
      BY <2>0, <3>1, DecideStable DEF RouteDecided
  <2>6. QED
    BY <2>1, <2>2, <2>3, <2>4, <2>5
    DEF Next, WorkerStep, Probe, Tick, Connect, DialReturns,
        Restart, ServiceChanges, vars
<1>3. QED
  BY <1>1, <1>2, TypeCorrect, PTL DEF Spec

\* No connection goes to a target known to be down while the backup is up and
\* failover is on, nor stays with the backup when the target is back.
THEOREM RouteIsSettled == Spec => []RouteSettled
<1>1. TypeOK /\ RouteDecided => RouteSettled
  BY RouteDecidedMeans
<1>2. QED
  BY <1>1, TypeCorrect, RouteAlwaysDecided, PTL

\* An operator's choice of the route holds until the operator changes it.
THEOREM ManualModeAlwaysHolds == Spec => []ManualModeHolds
<1>1. TypeOK /\ RouteDecided => ManualModeHolds
  BY RouteDecidedMeans
<1>2. QED
  BY <1>1, TypeCorrect, RouteAlwaysDecided, PTL

-----------------------------------------------------------------------------
(* The history: no endpoint is marked up or down without the outcomes that  *)
(* the thresholds ask for.  The inductive invariant of that.                *)

RunType == [ok : BOOLEAN, n : 0..MaxRun]

RecordOf(role) == IF role = "target" THEN target ELSE backup

\* A streak is no longer than the run it is part of, which is a run of the
\* same outcome; so at most one of the two streaks is not empty.
StreakInRun(s, r) ==
  /\ s.fail <= r.n /\ (s.fail > 0 => ~r.ok)
  /\ s.rise <= r.n /\ (s.rise > 0 => r.ok)

RunsCoverStreaks == \A role \in Roles : StreakInRun(RecordOf(role), run[role])

HistoryInv ==
  /\ run \in [Roles -> RunType]
  /\ cfg.failAfter <= MaxRun /\ cfg.riseAfter <= MaxRun
  /\ RunsCoverStreaks

-----------------------------------------------------------------------------
(* The history variables only observe.                                      *)

\* A step with history is a step without it.
LEMMA HistoryObserves == [HNext]_hvars => [Next]_vars
BY DEF HNext, hvars, HNoteProbe, HNoteDial, HUpdate, Next, WorkerStep

\* So what holds of Failover holds of it with history.
LEMMA HistoryImplements == HSpec => Spec
<1>1. HInit => Init
  BY DEF HInit
<1>2. QED
  BY <1>1, HistoryObserves, PTL DEF HSpec, Spec

-----------------------------------------------------------------------------
(* What one outcome does to a streak and to the run it is part of.          *)

Extended(r, ok) ==
  [ok |-> ok, n |-> IF r.ok = ok THEN Longer(r.n, MaxRun) ELSE 1]

\* The run stays in its type, covers the streaks, and a record that flips has
\* a streak, hence a run, of the length asked for.
LEMMA OutcomeEarns ==
  ASSUME NEW c \in ConfigType, NEW s \in Record, NEW r \in RunType, NEW ok \in BOOLEAN,
         c.failAfter <= MaxRun, c.riseAfter <= MaxRun, StreakInRun(s, r)
  PROVE  /\ Extended(r, ok) \in RunType
         /\ StreakInRun(Count(c, s, ok), Extended(r, ok))
         /\ s.up /\ ~Count(c, s, ok).up =>
              ~Extended(r, ok).ok /\ Extended(r, ok).n >= c.failAfter
         /\ ~s.up /\ Count(c, s, ok).up =>
              Extended(r, ok).ok /\ Extended(r, ok).n >= c.riseAfter
<1>1. /\ MaxRun \in Nat /\ c.failAfter \in Nat \ {0} /\ c.riseAfter \in Nat \ {0}
      /\ s.fail \in Nat /\ s.rise \in Nat /\ s.up \in BOOLEAN
      /\ r.ok \in BOOLEAN /\ r.n \in 0..MaxRun
  BY MaxRunAssumption DEF ConfigType, Record, RunType
<1>2. Extended(r, ok) \in RunType
  BY <1>1 DEF Extended, Longer, RunType
<1>3. CASE ok
  <2>1. Extended(r, ok).ok /\ Extended(r, ok).n = IF r.ok THEN Longer(r.n, MaxRun) ELSE 1
    BY <1>1, <1>3 DEF Extended
  <2> DEFINE rise == IF s.rise < c.riseAfter THEN s.rise + 1 ELSE s.rise
  <2>2. /\ Count(c, s, ok).up = (s.up \/ rise >= c.riseAfter)
        /\ Count(c, s, ok).fail = 0 /\ Count(c, s, ok).rise = rise
    BY <1>3 DEF Count
  <2>3. rise \in Nat /\ rise <= Extended(r, ok).n /\ 0 <= Extended(r, ok).n
    <3>1. rise \in Nat
      BY <1>1
    <3>2. CASE r.ok
      BY <1>1, <2>1, <3>2 DEF Longer, StreakInRun
    <3>3. CASE ~r.ok
      <4>1. s.rise = 0 /\ Extended(r, ok).n = 1
        BY <1>1, <2>1, <3>3 DEF StreakInRun
      <4>2. QED
        BY <1>1, <4>1
    <3>4. QED
      BY <3>1, <3>2, <3>3
  <2>4. Extended(r, ok).n \in Nat
    BY <1>2 DEF RunType
  <2> HIDE DEF rise
  <2>5. QED
    BY <1>1, <1>2, <2>1, <2>2, <2>3, <2>4 DEF StreakInRun
<1>4. CASE ~ok
  <2>1. ~Extended(r, ok).ok /\ Extended(r, ok).n = IF ~r.ok THEN Longer(r.n, MaxRun) ELSE 1
    BY <1>1, <1>4 DEF Extended
  <2> DEFINE fail == IF s.fail < c.failAfter THEN s.fail + 1 ELSE s.fail
  <2>2. /\ Count(c, s, ok).up = (s.up /\ fail < c.failAfter)
        /\ Count(c, s, ok).rise = 0 /\ Count(c, s, ok).fail = fail
    BY <1>4 DEF Count
  <2>3. fail \in Nat /\ fail <= Extended(r, ok).n /\ 0 <= Extended(r, ok).n
    BY <1>1, <1>4, <2>1 DEF Longer, StreakInRun
  <2>4. Extended(r, ok).n \in Nat
    BY <1>2 DEF RunType
  <2> HIDE DEF fail
  <2>5. QED
    BY <1>1, <1>2, <2>1, <2>2, <2>3, <2>4 DEF StreakInRun
<1>5. QED
  BY <1>2, <1>3, <1>4

-----------------------------------------------------------------------------
(* The steps with history.                                                  *)

\* What a flip of the record of role is owed.
Earned(role) ==
  /\ RecordOf(role).up /\ ~RecordOf(role)'.up =>
       ~run'[role].ok /\ run'[role].n >= cfg.failAfter
  /\ ~RecordOf(role).up /\ RecordOf(role)'.up =>
       \/ run'[role].ok /\ run'[role].n >= cfg.riseAfter
       \/ EndpointOf(cfg', role) # EndpointOf(cfg, role)

\* An outcome, whoever reports it.
LEMMA NoteEarns ==
  ASSUME TypeOK, HistoryInv, NEW role \in Roles, NEW e, NEW ok \in BOOLEAN,
         NoteEndpointProbe(role = "target", e, ok), run' = Extend(role, e, ok), cfg' = cfg
  PROVE  HistoryInv' /\ \A r \in Roles : Earned(r)
<1>1. /\ cfg \in ConfigType /\ run \in [Roles -> RunType]
      /\ \A r \in Roles : RecordOf(r) \in Record
  BY DEF TypeOK, Valid, HistoryInv, RecordOf
<1>2. CASE e # EndpointOf(cfg, role)
  <2>1. target' = target /\ backup' = backup /\ run' = run
    BY <1>2 DEF NoteEndpointProbe, Extend, EndpointOf, Roles
  <2>2. \A r \in Roles : RecordOf(r)' = RecordOf(r)
    BY <2>1 DEF RecordOf
  <2>3. HistoryInv'
    BY <2>1, <2>2 DEF HistoryInv, RunsCoverStreaks
  <2>4. QED
    BY <2>2, <2>3 DEF Earned
<1>3. CASE e = EndpointOf(cfg, role)
  <2>1. run' = [run EXCEPT ![role] = Extended(run[role], ok)]
    BY <1>3 DEF Extend, Extended
  <2>2. RecordOf(role)' = Count(cfg, RecordOf(role), ok)
    BY <1>3 DEF NoteEndpointProbe, RecordOf, EndpointOf, Roles
  <2>3. \A r \in Roles : r # role => RecordOf(r)' = RecordOf(r) /\ run'[r] = run[r]
    BY <1>1, <2>1 DEF NoteEndpointProbe, RecordOf, Roles
  <2>4. run'[role] = Extended(run[role], ok)
    BY <1>1, <2>1
  <2>5. /\ Extended(run[role], ok) \in RunType
        /\ StreakInRun(RecordOf(role)', run'[role])
        /\ Earned(role)
    <3>1. /\ RecordOf(role) \in Record /\ run[role] \in RunType
          /\ StreakInRun(RecordOf(role), run[role])
          /\ cfg.failAfter <= MaxRun /\ cfg.riseAfter <= MaxRun
      BY <1>1 DEF HistoryInv, RunsCoverStreaks
    <3>2. QED
      BY <1>1, <2>2, <2>4, <3>1, OutcomeEarns DEF Earned
  <2>6. HistoryInv'
    <3>1. run' \in [Roles -> RunType]
      BY <1>1, <2>1, <2>5
    <3>2. RunsCoverStreaks'
      BY <2>3, <2>5 DEF HistoryInv, RunsCoverStreaks
    <3>3. QED
      BY <3>1, <3>2 DEF HistoryInv
  <2>7. \A r \in Roles : Earned(r)
    BY <2>3, <2>5 DEF Earned
  <2>8. QED
    BY <2>6, <2>7
<1>4. QED
  BY <1>2, <1>3

\* An update: a record is new exactly if the endpoint is, and so is its run.
LEMMA UpdateEarns ==
  ASSUME TypeOK, HistoryInv, NEW c \in Configs, HUpdate(c)
  PROVE  HistoryInv' /\ \A r \in Roles : Earned(r)
<1>1. /\ cfg' = c /\ run \in [Roles -> RunType]
      /\ run' = [r \in Roles |-> IF EndpointOf(c, r) # EndpointOf(cfg, r) THEN NoRun ELSE run[r]]
      /\ \A r \in Roles : RecordOf(r)' = IF EndpointOf(c, r) # EndpointOf(cfg, r) THEN Unknown
                                                                               ELSE RecordOf(r)
  BY DEF HUpdate, Update, HistoryInv, RecordOf, EndpointOf, Roles
<1>2. c.failAfter <= MaxRun /\ c.riseAfter <= MaxRun /\ MaxRun \in Nat
  BY MaxRunAssumption
<1>3. NoRun \in RunType
  BY <1>2 DEF NoRun, RunType
<1>4. StreakInRun(Unknown, NoRun)
  BY DEF StreakInRun, Unknown, NoRun
<1>5. HistoryInv'
  <2>1. run' \in [Roles -> RunType]
    BY <1>1, <1>3
  <2>2. RunsCoverStreaks'
    BY <1>1, <1>4 DEF HistoryInv, RunsCoverStreaks
  <2>3. QED
    BY <1>1, <1>2, <2>1, <2>2 DEF HistoryInv
<1>6. \A r \in Roles : Earned(r)
  BY <1>1 DEF Earned, Unknown
<1>7. QED
  BY <1>5, <1>6

\* Steps that leave records, runs and thresholds alone.
LEMMA OthersEarnNothing ==
  ASSUME TypeOK, HistoryInv, UNCHANGED <<target, backup, run>>,
         cfg'.failAfter = cfg.failAfter, cfg'.riseAfter = cfg.riseAfter
  PROVE  HistoryInv' /\ \A r \in Roles : Earned(r)
<1>1. \A r \in Roles : RecordOf(r)' = RecordOf(r)
  BY DEF RecordOf
<1>2. QED
  BY <1>1 DEF HistoryInv, RunsCoverStreaks, Earned

\* Every step keeps the invariant and earns its flips.
LEMMA StepEarns ==
  ASSUME TypeOK, HistoryInv, [HNext]_hvars
  PROVE  HistoryInv' /\ \A r \in Roles : Earned(r)
<1>0. cfg \in ConfigType
  BY DEF TypeOK, Valid
<1>1. CASE HNoteProbe
  <2>1. worker.ok \in BOOLEAN /\ cfg' = cfg
    BY <1>1 DEF HNoteProbe, NoteProbe, TypeOK
  <2>2. CASE worker.pc = "noteTarget"
    BY <1>1, <2>1, <2>2, NoteEarns DEF HNoteProbe, NoteProbe, Roles
  <2>3. CASE worker.pc = "noteBackup"
    <3>1. NoteEndpointProbe("backup" = "target", worker.backup, worker.ok)
      BY <1>1, <2>3 DEF HNoteProbe, NoteProbe, NoteEndpointProbe
    <3>2. run' = Extend("backup", worker.backup, worker.ok)
      BY <1>1, <2>3 DEF HNoteProbe
    <3>3. QED
      BY <2>1, <3>1, <3>2, NoteEarns DEF Roles
  <2>4. QED
    BY <1>1, <2>2, <2>3 DEF HNoteProbe, NoteProbe
<1>2. ASSUME NEW d \in Dials, HNoteDial(d) PROVE HistoryInv' /\ \A r \in Roles : Earned(r)
  <2>1. dial[d].ok \in BOOLEAN /\ dial[d].primary \in BOOLEAN /\ cfg' = cfg
    BY <1>2 DEF HNoteDial, NoteDial, TypeOK
  <2> DEFINE role == IF dial[d].primary THEN "target" ELSE "backup"
  <2>2. role \in Roles /\ (role = "target") = dial[d].primary
    BY <2>1 DEF Roles
  <2>3. NoteEndpointProbe(role = "target", dial[d].to, dial[d].ok)
    BY <1>2, <2>2 DEF HNoteDial, NoteDial
  <2>4. run' = Extend(role, dial[d].to, dial[d].ok)
    BY <1>2 DEF HNoteDial
  <2> HIDE DEF role
  <2>5. QED
    BY <2>1, <2>2, <2>3, <2>4, NoteEarns
<1>3. ASSUME NEW c \in Configs, HUpdate(c) PROVE HistoryInv' /\ \A r \in Roles : Earned(r)
  BY <1>3, UpdateEarns
<1>4. ASSUME NEW m \in Modes, SetRoutingMode(m), UNCHANGED run
      PROVE  HistoryInv' /\ \A r \in Roles : Earned(r)
  <2>1. cfg'.failAfter = cfg.failAfter /\ cfg'.riseAfter = cfg.riseAfter
    BY <1>0, <1>4 DEF SetRoutingMode, ConfigType
  <2>2. QED
    BY <1>4, <2>1, OthersEarnNothing DEF SetRoutingMode
<1>5. CASE UNCHANGED <<cfg, target, backup, run>>
  BY <1>5, OthersEarnNothing
<1>6. QED
  BY <1>1, <1>2, <1>3, <1>4, <1>5
  DEF HNext, hvars, Probe, Tick, Connect, DialReturns, Restart, ServiceChanges, vars

-----------------------------------------------------------------------------
(* The theorems on the history.                                             *)

\* At any time the streaks the rule keeps of an endpoint are part of the run
\* of equal outcomes that has been counted for the endpoint the spec names.
THEOREM StreaksAreReal == HSpec => []RunsCoverStreaks
<1>1. HInit => HistoryInv
  BY ConfigAssumption, MaxRunAssumption
  DEF HInit, Init, HistoryInv, RunsCoverStreaks, StreakInRun, RecordOf, Unknown, NoRun, RunType, Roles
<1>2. TypeOK /\ HistoryInv /\ [HNext]_hvars => HistoryInv'
  BY StepEarns
<1>3. HistoryInv => RunsCoverStreaks
  BY DEF HistoryInv
<1>4. QED
  BY <1>1, <1>2, <1>3, HistoryImplements, TypeCorrect, PTL DEF HSpec

\* An endpoint is marked down only after fail_after outcomes in a row that were
\* counted for it, and up only after rise_after, or because the spec now names
\* another one (noteProbeLocked and the resets of updateLocked).
THEOREM FlipsAreAlwaysEarned == HSpec => FlipsAreEarned
<1>1. HInit => HistoryInv
  BY ConfigAssumption, MaxRunAssumption
  DEF HInit, Init, HistoryInv, RunsCoverStreaks, StreakInRun, RecordOf, Unknown, NoRun, RunType, Roles
<1>2. TypeOK /\ HistoryInv /\ [HNext]_hvars => HistoryInv'
  BY StepEarns
<1>3. TypeOK /\ HistoryInv /\ [HNext]_hvars =>
        [\A r \in Roles :
           LET was == IF r = "target" THEN target.up ELSE backup.up
               is  == IF r = "target" THEN target'.up ELSE backup'.up
           IN  /\ was /\ ~is => ~run'[r].ok /\ run'[r].n >= cfg.failAfter
               /\ ~was /\ is => \/ run'[r].ok /\ run'[r].n >= cfg.riseAfter
                                \/ EndpointOf(cfg', r) # EndpointOf(cfg, r)]_hvars
  BY StepEarns DEF Earned, RecordOf
<1>4. QED
  BY <1>1, <1>2, <1>3, HistoryImplements, TypeCorrect, PTL DEF HSpec, FlipsAreEarned

=============================================================================
