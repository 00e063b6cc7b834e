----------------------------- MODULE MCRecorder -----------------------------
(* Recorder on small instances.                                             *)
EXTENDS Recorder

CONSTANTS k1, k2

Limit(conns, bytes) == [conns |-> conns, bytes |-> bytes]

\* Places and bytes shrink and grow, below and above what is stored.
MCLimits == { Limit(1, 2), Limit(2, 1) }

=============================================================================
