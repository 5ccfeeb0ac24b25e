--------------------------- MODULE MCHumanControl ---------------------------
(* Small instances of HumanControl: every tool call belongs to turn t1.    *)
EXTENDS HumanControl, TLC

CONSTANTS t1

FirstTurn == [a \in Call |-> t1]
=============================================================================
