--------------------------- MODULE MCConversations ---------------------------
(* Small instances of Conversations.                                        *)
EXTENDS Conversations, TLC

CONSTANTS c1, c2, m2

OneConv  == [m \in Message |-> c1]
TwoConvs == [m \in Message |-> IF m = m2 THEN c2 ELSE c1]
=============================================================================
