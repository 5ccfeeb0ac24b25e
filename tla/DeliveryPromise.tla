--------------------------- MODULE DeliveryPromise ---------------------------
(***************************************************************************)
(* What the gateway promises about one durable outbound command, whatever  *)
(* crashes, lost acknowledgements and retries happen behind it: from the    *)
(* moment GatewayStore.enqueueDelivery returned, the command is owed to its *)
(* conversation.  The debt ends in exactly one of three ways: discharged,   *)
(* and then the remote side has it, unless it was a frame the transport may *)
(* skip; written off as a dead letter; or replaced, which only outdated     *)
(* partial replies and run-control cards may be.  Arrivals are              *)
(* at-least-once: they may repeat at any time.                             *)
(***************************************************************************)
EXTENDS Naturals

CONSTANTS
  Row,          \* identities of commands
  Replaceable,  \* commands a newer state makes pointless
  Skippable,    \* commands that may be acknowledged without being sent
  Revivable,    \* commands an operator may bring back from the dead letters
  MaxArrivals   \* bound: arrivals are counted up to here

VARIABLES
  what,     \* what[r]: the command of r
  promise,  \* promise[r]: "none", "owed", "discharged", "dead" or "replaced"
  arrived   \* arrived[r]: how often the remote side accepted r (capped)

promiseVars == <<what, promise, arrived>>

Init ==
  /\ promise = [r \in Row |-> "none"]
  /\ arrived = [r \in Row |-> 0]

(* A new command is owed; older ones it outdates may be replaced with it.  *)
Owe ==
  /\ \E r \in Row :
        /\ promise[r] = "none" /\ promise'[r] = "owed"
        /\ \A q \in Row \ {r} :
              /\ what'[q] = what[q]
              /\ \/ promise'[q] = promise[q]
                 \/ promise[q] = "owed" /\ what[q] \in Replaceable /\ promise'[q] = "replaced"
  /\ UNCHANGED arrived

(* The remote side accepts r, for the first time or once more.             *)
Arrive ==
  /\ \E r \in Row : promise[r] # "none" /\
        arrived' = [arrived EXCEPT ![r] = IF @ < MaxArrivals THEN @ + 1 ELSE @]
  /\ UNCHANGED <<what, promise>>

(* A debt ends.                                                            *)
EndsAs(r, end) ==
  /\ promise[r] = "owed"
  /\ end = "discharged" => arrived[r] >= 1 \/ what[r] \in Skippable
  /\ end = "replaced" => what[r] \in Replaceable

End ==
  /\ \A r \in Row : promise'[r] = promise[r] \/ EndsAs(r, promise'[r])
  /\ \A r \in Row : promise'[r] \in {promise[r], "discharged", "dead", "replaced"}
  /\ UNCHANGED <<what, arrived>>

(* The operator brings dead letters back.                                  *)
Revive ==
  /\ \A r \in Row : promise'[r] = promise[r] \/
        (promise[r] = "dead" /\ what[r] \in Revivable /\ promise'[r] = "owed")
  /\ UNCHANGED <<what, arrived>>

Next == Owe \/ Arrive \/ End \/ Revive

Spec == Init /\ [][Next]_promiseVars
=============================================================================
