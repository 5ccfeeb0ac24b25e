------------------------------ MODULE MCOutbox ------------------------------
(* Small instances of Outbox: every subject belongs to conversation c1, but *)
(* for the notes of the two-conversation instance.                          *)
EXTENDS Outbox, TLC

CONSTANTS c1, c2, n1, n2

OneConv  == [x \in Subject |-> c1]
TwoConvs == [x \in Subject |-> IF x = n2 THEN c2 ELSE c1]
=============================================================================
