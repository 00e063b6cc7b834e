--------------------------- MODULE FailoverTurns ---------------------------
(***************************************************************************)
(* FailoverHistory with a variable that tells the steps of operators from  *)
(* all others, and the fairness of the code's goroutines.  An update to    *)
(* the spec already in force can leave the same state as the worker's next *)
(* step does, so that only a variable can say that operators rest.         *)
(***************************************************************************)
EXTENDS FailoverHistory

VARIABLE turn  \* changes at every step of an operator, and at no other

tvars == <<hvars, turn>>

TInit == HInit /\ turn = FALSE

OperatorStep ==
  /\ \/ \E c \in Configs : HUpdate(c)
     \/ /\ Restart \/ \E m \in Modes : SetRoutingMode(m)
        /\ UNCHANGED <<run, misses>>
  /\ turn' = ~turn

HWorkerStep ==
  HNoteProbe \/ ((Probe \/ Tick) /\ UNCHANGED <<run, misses>>)

HDialStep(d) ==
  HNoteDial(d) \/ (DialReturns(d) /\ UNCHANGED <<run, misses>>)

TNext ==
  \/ OperatorStep
  \/ /\ \/ HWorkerStep
        \/ \E d \in Dials : HDialStep(d)
        \/ /\ \/ \E d \in Dials : Connect(d)
              \/ \E e \in Endpoints, s \in {"down", "accepts", "serves"} : ServiceChanges(e, s)
           /\ UNCHANGED <<run, misses>>
     /\ UNCHANGED turn

TSpec == TInit /\ [][TNext]_tvars

\* The worker is a goroutine with a ticker, and its probes and the client
\* dials time out.
TLiveSpec ==
  /\ TSpec
  /\ WF_tvars(HWorkerStep /\ UNCHANGED turn)
  /\ \A d \in Dials : WF_tvars(HDialStep(d) /\ UNCHANGED turn)

-----------------------------------------------------------------------------
\* From some moment on no operator touches the rule.
OperatorsRest == <>[][UNCHANGED turn]_tvars

AutoFailover ==
  cfg.mode = "auto" /\ cfg.health /\ cfg.autoFail /\ cfg.backup # None

FailoverHappens ==
  /\ <>[](/\ AutoFailover
          /\ service[cfg.target] = "down" /\ service[cfg.backup] = "serves")
  /\ OperatorsRest
  => <>[]usingBackup

FailbackHappens ==
  /\ <>[](AutoFailover /\ cfg.autoBack /\ service[cfg.target] = "serves")
  /\ OperatorsRest
  => <>[]~usingBackup

\* A target that refuses connections for good and a backup that keeps
\* answering its checks make the rule end up on the backup, whatever clients
\* dial meanwhile and whatever was known of the two before, once operators
\* leave the rule alone; and it comes back when AutoBack is set and the target
\* recovers for good (docs/health-checks.md).
RouteConverges == FailoverHappens /\ FailbackHappens

=============================================================================
