-------------------------- MODULE FailoverHistory --------------------------
(***************************************************************************)
(* Failover with history variables, which observe it and do not influence  *)
(* it: the run of equal outcomes last counted for each endpoint, and the   *)
(* run of failed checks of the target.                                     *)
(***************************************************************************)
EXTENDS Failover

CONSTANTS
  MaxRun,    \* bound: longer runs of outcomes are not told apart from this one
  MaxMisses  \* bound: nor more failed checks; 0 where no property counts them

ASSUME MaxRunAssumption ==
  MaxRun \in Nat /\ MaxMisses \in Nat /\ \A c \in Configs \cup {FirstConfig} :
                       c.failAfter <= MaxRun /\ c.riseAfter <= MaxRun

VARIABLES
  run,    \* role -> the last outcome counted for it, and how often in a row
  misses  \* checks of cfg.target that have failed since one last succeeded

hvars == <<vars, run, misses>>

Roles == {"target", "backup"}
EndpointOf(c, role) == IF role = "target" THEN c.target ELSE c.backup

NoRun == [ok |-> TRUE, n |-> 0]

Longer(n, max) == IF n < max THEN n + 1 ELSE n

Extend(role, e, ok) ==
  IF e # EndpointOf(cfg, role) THEN run
  ELSE [run EXCEPT ![role] = [ok |-> ok, n |-> IF @.ok = ok THEN Longer(@.n, MaxRun) ELSE 1]]

HInit == Init /\ run = [r \in Roles |-> NoRun] /\ misses = 0

HNoteProbe ==
  /\ NoteProbe
  /\ IF worker.pc = "noteTarget"
     THEN /\ run' = Extend("target", worker.target, worker.ok)
          /\ misses' = IF worker.ok THEN 0 ELSE Longer(misses, MaxMisses)
     ELSE run' = Extend("backup", worker.backup, worker.ok) /\ UNCHANGED misses

HNoteDial(d) ==
  /\ NoteDial(d)
  /\ run' = Extend(IF dial[d].primary THEN "target" ELSE "backup", dial[d].to, dial[d].ok)
  /\ UNCHANGED misses

HUpdate(c) ==
  /\ Update(c)
  /\ run' = [r \in Roles |-> IF EndpointOf(c, r) # EndpointOf(cfg, r) THEN NoRun ELSE run[r]]
  /\ misses' = 0

HNext ==
  \/ HNoteProbe
  \/ \E d \in Dials : HNoteDial(d)
  \/ \E c \in Configs : HUpdate(c)
  \/ /\ \/ Probe \/ Tick \/ Restart
        \/ \E d \in Dials : Connect(d) \/ DialReturns(d)
        \/ \E m \in Modes : SetRoutingMode(m)
        \/ \E e \in Endpoints, s \in {"down", "accepts", "serves"} : ServiceChanges(e, s)
     /\ UNCHANGED <<run, misses>>

HSpec == HInit /\ [][HNext]_hvars

-----------------------------------------------------------------------------
\* An endpoint is marked down only after fail_after outcomes in a row that
\* were counted for it since the spec names it, and up only after rise_after:
\* no outcome of another endpoint, of the other role, or of the time before
\* the spec named it tips the balance, and a change of the thresholds does
\* not either (noteEndpointProbe, noteProbeLocked, and the resets of
\* updateLocked).
FlipsAreEarned ==
  [][\A r \in Roles :
       LET was == IF r = "target" THEN target.up ELSE backup.up
           is  == IF r = "target" THEN target'.up ELSE backup'.up
       IN  /\ was /\ ~is => ~run'[r].ok /\ run'[r].n >= cfg.failAfter
           /\ ~was /\ is => \/ run'[r].ok /\ run'[r].n >= cfg.riseAfter
                            \/ EndpointOf(cfg', r) # EndpointOf(cfg, r)]_hvars

\* "After fail_after errors the address counts as unavailable"
\* (docs/health-checks.md:3), the errors being those of the check: stated for
\* the target since the last update.
FailedChecksMarkDown == misses >= cfg.failAfter => ~target.up

=============================================================================
