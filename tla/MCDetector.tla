----------------------------- MODULE MCDetector -----------------------------
(* Detector on small instances: two connections of one rule object, or one    *)
(* each of two; a text that two chunks of one direction have between them,    *)
(* and one that is looked for in one direction only; and after a change of    *)
(* settings a detector of the same ID, a shorter list of findings and a       *)
(* smaller buffer.                                                            *)
EXTENDS Detector

MCChunks == { [dir |-> "in", data |-> <<"b", "a">>], [dir |-> "out", data |-> <<"b">>] }

AB == [id |-> "ab", pattern |-> <<"a", "b">>, dir |-> "any", score |-> 80]
B  == [id |-> "b", pattern |-> <<"b">>, dir |-> "in", score |-> 30]

Namesake == [id |-> "b", pattern |-> <<"b", "b">>, dir |-> "any", score |-> 10]

Cfg(enabled, max, bytes, detectors) ==
  [enabled |-> enabled, builtins |-> enabled, threshold |-> 30, autoPinScore |-> 90,
   maxFindings |-> max, bufferBytes |-> bytes, detectors |-> detectors]

MCAutoPin == Epochs \X {1}

MCFirst == Cfg(TRUE, 2, 3, <<AB, B>>)

MCConfigs == { MCFirst, Cfg(TRUE, 1, 2, <<Namesake, B>>), Cfg(FALSE, 2, 3, <<AB, B>>) }

\* The import replaces a rule of datagrams by one of TCP.
MCUdp == {1} \X Ids

OnlyFirst == { MCFirst }

=============================================================================
