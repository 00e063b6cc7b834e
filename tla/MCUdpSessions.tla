--------------------------- MODULE MCUdpSessions ---------------------------
(* UdpSessions on a small instance.                                         *)
EXTENDS UdpSessions

CONSTANTS c1, c2, s1, s2, A, B

=============================================================================
