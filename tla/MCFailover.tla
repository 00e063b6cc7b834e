---------------------------- MODULE MCFailover ----------------------------
(* Failover, with its history, on small instances.                          *)
EXTENDS FailoverTurns

CONSTANTS A, B, d1

Cfg(target_, backup_, mode, health, check, fail, rise, back) ==
  [target |-> target_, backup |-> backup_, mode |-> mode, health |-> health,
   check |-> check, failAfter |-> fail, riseAfter |-> rise,
   autoFail |-> TRUE, autoBack |-> back]

MCFirst == Cfg(A, B, "auto", TRUE, "payload", 2, 1, TRUE)

\* The same endpoints with other thresholds and no return; target and backup
\* swapped; no checks; no backup.
MCConfigs ==
  { MCFirst,
    Cfg(A, B, "auto", TRUE, "tcp", 1, 2, FALSE),
    Cfg(B, A, "auto", TRUE, "tcp", 2, 2, TRUE),
    Cfg(A, B, "auto", FALSE, "tcp", 1, 2, TRUE),
    Cfg(A, None, "auto", TRUE, "tcp", 1, 2, TRUE) }

OnlyFirst == { MCFirst }

=============================================================================
