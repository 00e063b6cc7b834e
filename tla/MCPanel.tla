------------------------------ MODULE MCPanel ------------------------------
(***************************************************************************)
(* Panel on addresses of three bits.  The scans: a subnet of four          *)
(* addresses, of which two are asked; a subnet of two; one address with a  *)
(* range written backwards and one of its ports again.  Refused: a subnet  *)
(* that is too large, a range that is too wide, one that leaves the ports. *)
(* Two requests at once.                                                   *)
(***************************************************************************)
EXTENDS Panel

CONSTANTS c1, c2, x

Scan(a, n, ports, k) == [addr |-> a, ones |-> n, ports |-> ports, concurrency |-> k]
Span(a, b) == [lo |-> a, hi |-> b]

Backwards == Scan(3, 3, <<Span(3, 2), Span(3, 3)>>, 2)

MCOptions ==
  {Scan(6, 1, <<>>, 1), Scan(2, 2, <<Span(1, 1)>>, 2), Backwards,
   Scan(0, 0, <<>>, 1), Scan(0, 3, <<Span(1, 3)>>, 1), Scan(0, 3, <<Span(4, 3)>>, 1)}

MCDefaultPorts == {2}
MCCallers == {c1, c2}
MCDetectors == {[id |-> x, v |-> 1], [id |-> x, v |-> 2]}
MCProfiles == {[detection |-> {[id |-> x, v |-> 1]}, scan |-> Backwards]}

=============================================================================
