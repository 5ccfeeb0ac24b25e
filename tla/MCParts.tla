-------------------------------- MODULE MCParts --------------------------------
(* Small instances of the parts: three artifacts, two inbound messages of   *)
(* two gateways, one reply, and the questions of DialogueInputs.            *)
EXTENDS Parts, DialogueInputs, TLC

CONSTANTS p1, p2, m1, m2

HomeOf(m) == IF m = m1 THEN p1 ELSE p2
================================================================================
