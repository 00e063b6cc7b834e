-------------------------- MODULE MCRuleLifecycle --------------------------
(* RuleLifecycle on small instances.                                        *)
EXTENDS RuleLifecycle, TLC

CONSTANTS c1, c2, k1, k2, w1, w2, any, h1, p1, p2

MCHosts == {any, h1}
MCPorts == {p1, p2}

Cfg(host, port, enabled, health, acl, max) ==
  [addr |-> [host |-> host, port |-> port], enabled |-> enabled,
   health |-> health, acl |-> acl, maxConns |-> max]

MCFirst == Cfg(h1, p1, TRUE, TRUE, FALSE, 1)

\* Disabled; checks off and no limit on the same address; the wildcard address
\* of the same port, which overlaps the first; another port.
MCConfigs ==
  { Cfg(h1, p1, FALSE, TRUE, FALSE, 1),
    Cfg(h1, p1, TRUE, FALSE, TRUE, 0),
    Cfg(any, p1, TRUE, TRUE, FALSE, 1),
    Cfg(h1, p2, TRUE, TRUE, FALSE, 1) }

Symmetry == Permutations(Callers) \cup Permutations(Conns) \cup Permutations(Workers)

=============================================================================
