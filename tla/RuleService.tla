---------------------------- MODULE RuleService ----------------------------
(***************************************************************************)
(* What a forwarding rule promises its users: a service that is up or      *)
(* down, has one configuration, and serves a set of members.  Members join *)
(* only while it is up and within its limit; the next time it comes up     *)
(* none of the previous members is left; the address of a service that is  *)
(* up never changes under its members; and a service that goes down loses  *)
(* its members.                                                            *)
(***************************************************************************)
EXTENDS Integers, FiniteSets

CONSTANTS Specs, Conns

VARIABLES up, cfg, members

vars == <<up, cfg, members>>

TypeOK == up \in BOOLEAN /\ cfg \in Specs /\ members \subseteq Conns

Init == ~up /\ cfg \in Specs /\ members = {}

Open ==
  /\ ~up /\ members = {}
  /\ up' = TRUE
  /\ UNCHANGED <<cfg, members>>

Close ==
  /\ up
  /\ up' = FALSE
  /\ UNCHANGED <<cfg, members>>

Configure ==
  /\ cfg' \in Specs
  /\ up => cfg'.addr = cfg.addr /\ cfg'.enabled
  /\ UNCHANGED <<up, members>>

Join(k) ==
  /\ up
  /\ k \notin members
  /\ cfg.maxConns = 0 \/ Cardinality(members) < cfg.maxConns
  /\ members' = members \cup {k}
  /\ UNCHANGED <<up, cfg>>

Leave(k) ==
  /\ k \in members
  /\ members' = members \ {k}
  /\ UNCHANGED <<up, cfg>>

Next ==
  \/ Open \/ Close \/ Configure
  \/ \E k \in Conns : Join(k) \/ Leave(k)

Spec == Init /\ [][Next]_vars

\* A service that is down lets go of every member it still has.
LiveSpec == Spec /\ \A k \in Conns : WF_vars(~up /\ Leave(k))

=============================================================================
