----------------------------- MODULE MCManager -----------------------------
(* Manager on small instances.                                              *)
EXTENDS Manager, TLC

CONSTANTS c1, c2, i1, i2, any, h

At(port, host) == [port |-> port, host |-> host]
Rule(i, a, b) == [id |-> i, addr |-> a, enabled |-> b]

MCAddrs == {At(1, any), At(1, h), At(2, h)}

MCRequests ==
  { Rule(i1, At(1, h), TRUE), Rule(i1, At(1, any), TRUE),
    Rule(i2, At(2, h), TRUE), Rule(i2, At(1, h), FALSE) }

\* A profile that adds or changes the second rule, and one that swaps addresses.
MCProfiles ==
  { [mode |-> "merge", rules |-> <<Rule(i2, At(2, h), TRUE)>>],
    [mode |-> "replace", rules |-> <<Rule(i2, At(1, h), TRUE), Rule(i1, At(2, h), TRUE)>>] }

\* A first start; a file with two rules; and one with an ID used twice.
MCFiles ==
  { <<>>,
    <<Rule(i1, At(1, h), TRUE), Rule(i2, At(2, h), TRUE)>>,
    <<Rule(i1, At(1, h), TRUE), Rule(i1, At(2, h), TRUE)>> }

Symmetry == Permutations(Callers)

=============================================================================
