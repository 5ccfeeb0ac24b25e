------------------------------- MODULE Outbox -------------------------------
(***************************************************************************)
(* The durable delivery outbox of the gateway: the delivery_outbox table   *)
(* of packages/storage-sqlite, the claiming and dispatching pipeline of    *)
(* WeComAgentGateway (packages/channel-core/src/gateway.ts), the artifact  *)
(* directory of the media spool, and the producers that feed it.           *)
(*                                                                         *)
(* Rows, journal and spool are durable.  Everything else lives in the      *)
(* gateway process and is lost when it crashes.  An await between two      *)
(* effects of the code is the border between two actions of this module.   *)
(***************************************************************************)
EXTENDS Integers, Sequences, FiniteSets

CONSTANTS
  Stream,       \* mutable replies, one per agent run (stream id "run-<msg>")
  Note,         \* proactive texts accepted by sendProactiveText
  Artifact,     \* media artifacts, one per proactive-media command
  Run,          \* run-control cards, one per long agent run
  Conv,         \* account:conversation keys
  ConvOf,       \* the conversation each of the subjects above belongs to
  Nothing,      \* the subject of a row that is not inserted yet
  MaxAttempts,  \* outboxMaxAttempts
  BatchSize,    \* outboxBatchSize
  MaxRows,      \* bound: rows the table may ever hold
  MaxFaults,    \* bound: crashes, stops, disconnects, store errors, early
                \*        lease expiries and uncertain acknowledgements
  MaxRequeues   \* bound: operator requeues of dead letters

Subject == Stream \cup Note \cup Artifact \cup Run

ASSUME OutboxAssumption ==
  /\ ConvOf \in [Subject -> Conv]
  /\ MaxAttempts \in Nat \ {0} /\ BatchSize \in Nat \ {0}
  /\ MaxRows \in Nat /\ MaxFaults \in Nat /\ MaxRequeues \in Nat
  /\ Stream \cap (Note \cup Artifact \cup Run) = {}
  /\ Artifact \cap (Note \cup Run) = {} /\ Note \cap Run = {} /\ Nothing \notin Subject

VARIABLES
  next,      \* rows inserted so far (AUTOINCREMENT id of the last one)
  cmd,       \* cmd[r]: the command of row r
  status,    \* status[r]: the status column, "none" before insertion
  attempts,  \* attempts[r]: the attempts column
  ripe,      \* ripe[r]: next_attempt_at (pending) or lease_until (leased) passed
  owner,     \* owner[r]: lease_owner: "self" is the running process's UUID
  receipts,  \* receipts[r]: journal entries of row r that carry a receipt
  spool,     \* artifacts present in the spool directory
  mode,      \* the gateway process: "down", "up" or "stopping"
  online,    \* transport.health() of the running process
  staged,    \* artifacts staged by a producer whose row is not inserted yet
  turn,      \* turn[s]: the MutableReply of stream s
  run,       \* run[x]: the run behind control card x
  toClaim,   \* rows enqueued whose own claimDelivery has not run yet
  lane,      \* lane[c]: claimed entries of conversation c, the head in dispatch
  phase,     \* phase[c]: how far dispatchDelivery of that head has come
  accepted,  \* accepted[r]: times the remote side accepted row r (capped)
  faults,    \* faults used so far
  requeues   \* requeues used so far

durable == <<next, cmd, status, attempts, ripe, owner, receipts>>
memory  == <<staged, turn, run, toClaim, lane, phase>>
budget  == <<faults, requeues>>
vars == <<durable, spool, mode, online, memory, accepted, budget>>

Rows     == 1 .. MaxRows
Kind     == {"partial", "final", "text", "media", "card"}
Command  == [kind : Kind \cup {"none"}, of : Subject \cup {Nothing}]
NoCmd    == [kind |-> "none", of |-> Nothing]
Status   == {"none", "pending", "leased", "delivered", "dead", "superseded"}
Phase    == {"idle", "sending", "acked", "failed", "releasing"}
Entry    == [row : Rows, attempts : Nat, own : BOOLEAN]
MaxAccepted == MaxFaults + 2    \* bound: accepted is counted up to here

Lane(r)      == ConvOf[cmd[r].of]
IsReply(r)   == cmd[r].kind \in {"partial", "final"}
Live(r)      == status[r] \in {"pending", "leased"}
LeaseForever(r) == status[r] = "pending" /\ ripe[r]    \* mutant: expired leases ignored
LeaseIgnored(r) == Live(r) /\ (status[r] = "pending" => ripe[r])  \* mutant: live leases taken
Claimable(r) == Live(r) /\ ripe[r]
AnyStatus(r) == status[r] # "none"                     \* mutant: no lease check
Holds(r)     == status[r] = "leased" /\ owner[r] = "self"
Head1(c)     == Head(lane[c])
Referenced   == {cmd[r].of : r \in {s \in Rows : Live(s) /\ cmd[s].kind = "media"}}
Dispatching(r) == \E c \in Conv : \E i \in 1 .. Len(lane[c]) : lane[c][i].row = r
OpenTurns    == {s \in Stream : turn[s] = "open"}
Reserved     == Cardinality(OpenTurns) + Cardinality(staged)
Running      == mode \in {"up", "stopping"}

(* The producer for subject s still awaits its last enqueueDurableDelivery. *)
Busy(s) ==
  \/ \E r \in toClaim : cmd[r].of = s
  \/ \E c \in Conv : \E i \in 1 .. Len(lane[c]) :
        lane[c][i].own /\ cmd[lane[c][i].row].of = s

Init ==
  /\ next = 0
  /\ cmd = [r \in Rows |-> NoCmd]
  /\ status = [r \in Rows |-> "none"]
  /\ attempts = [r \in Rows |-> 0]
  /\ ripe = [r \in Rows |-> FALSE]
  /\ owner = [r \in Rows |-> "none"]
  /\ receipts = [r \in Rows |-> 0]
  /\ accepted = [r \in Rows |-> 0]
  /\ spool = {} /\ staged = {}
  /\ mode = "down" /\ online = FALSE
  /\ turn = [s \in Stream |-> "idle"]
  /\ run = [x \in Run |-> "idle"]
  /\ toClaim = {}
  /\ lane = [c \in Conv |-> <<>>]
  /\ phase = [c \in Conv |-> "idle"]
  /\ faults = 0 /\ requeues = 0

Fault   == faults < MaxFaults /\ faults' = faults + 1
NoFault == UNCHANGED faults

-----------------------------------------------------------------------------
(* Producers.                                                              *)

(* enqueueDelivery of the store: supersede, then insert, one transaction.  *)
Outdates(k, x, r) ==
  k \in {"partial", "final"} /\ IsReply(r) /\ cmd[r].of = x /\ status[r] = "pending"

InsertThenSupersede(k, x) ==                 \* mutant: the new row supersedes itself
  /\ Running /\ next < MaxRows /\ next' = next + 1
  /\ cmd' = [cmd EXCEPT ![next'] = [kind |-> k, of |-> x]]
  /\ status' = [r \in Rows |-> IF k \in {"partial", "final"} /\ IsReply(r)' /\ cmd'[r].of = x
                                  /\ (r = next' \/ status[r] = "pending")
                               THEN "superseded" ELSE IF r = next' THEN "pending" ELSE status[r]]
  /\ ripe' = [ripe EXCEPT ![next'] = TRUE]
  /\ toClaim' = toClaim \cup {next'}
  /\ UNCHANGED <<attempts, owner, receipts, mode, online, lane, phase, accepted, budget>>

Insert(k, x) ==
  /\ Running
  /\ next < MaxRows
  /\ next' = next + 1
  /\ cmd' = [cmd EXCEPT ![next'] = [kind |-> k, of |-> x]]
  /\ status' = [r \in Rows |-> IF r = next' THEN "pending"
                               ELSE IF Outdates(k, x, r) THEN "superseded"
                               ELSE status[r]]
  /\ ripe' = [ripe EXCEPT ![next'] = TRUE]
  /\ toClaim' = toClaim \cup {next'}
  /\ UNCHANGED <<attempts, owner, receipts, mode, online, lane, phase, accepted, budget>>

(* The first frame of a MutableReply and its coalesced updates.  Runs of one *)
(* conversation are serial; each delivery awaits the one before.            *)
Update(s) ==
  /\ turn[s] \in {"idle", "open"} /\ ~Busy(s)
  /\ \A t \in Stream \ {s} : ConvOf[t] = ConvOf[s] => t \notin OpenTurns /\ ~Busy(t)
  /\ next + Cardinality(OpenTurns \cup {s}) + Cardinality(staged) < MaxRows
  /\ Insert("partial", s)
  /\ turn' = [turn EXCEPT ![s] = "open"]
  /\ UNCHANGED <<spool, staged, run>>

CloseReply(s) ==
  /\ turn[s] = "open" /\ ~Busy(s)
  /\ Insert("final", s)
  /\ turn' = [turn EXCEPT ![s] = "closed"]
  /\ UNCHANGED <<spool, staged, run>>

Unused(x) == \A r \in Rows : status[r] # "none" => cmd[r].of # x

SendProactiveText(n) ==
  /\ mode = "up" /\ Unused(n) /\ next + Reserved < MaxRows
  /\ Insert("text", n)
  /\ UNCHANGED <<spool, staged, turn, run>>

(* enqueueProactiveMedia: stage the artifact, then insert its row; a failed *)
(* insertion releases the artifact again.                                  *)
StageMedia(a) ==
  /\ Running /\ Unused(a) /\ a \notin spool /\ next + Reserved < MaxRows
  /\ spool' = spool \cup {a}
  /\ staged' = staged \cup {a}
  /\ UNCHANGED <<durable, mode, online, turn, run, toClaim, lane, phase, accepted, budget>>

EnqueueMedia(a) ==
  /\ a \in staged
  /\ \/ /\ Insert("media", a)
        /\ UNCHANGED spool
     \/ /\ Fault
        /\ spool' = spool \ {a}
        /\ UNCHANGED <<durable, mode, online, toClaim, lane, phase, accepted, requeues>>
  /\ staged' = staged \ {a}
  /\ UNCHANGED <<turn, run>>

(* presentRunControl of a run that has outlived runControlAfterMs.         *)
PresentRunControl(x) ==
  /\ run[x] = "idle" /\ next + Reserved < MaxRows
  /\ Insert("card", x)
  /\ run' = [run EXCEPT ![x] = "live"]
  /\ UNCHANGED <<spool, staged, turn>>

(* The run is asked to cancel, or its control expires: its card is stale.  *)
ControlStale(x) ==
  /\ run[x] = "live"
  /\ run' = [run EXCEPT ![x] = "stale"]
  /\ UNCHANGED <<durable, spool, mode, online, staged, turn, toClaim, lane, phase, accepted, budget>>

(* The run ends: once the card's own delivery returned, completeRunControl   *)
(* retires the cards still pending.  Its failure is only reported.         *)
RunOver(x) ==
  /\ run[x] \in {"live", "stale"} /\ ~Busy(x)
  /\ run' = [run EXCEPT ![x] = "over"]
  /\ \/ /\ status' = [r \in Rows |->
                        IF status[r] = "pending" /\ cmd[r] = [kind |-> "card", of |-> x]
                        THEN "superseded" ELSE status[r]]
        /\ NoFault
     \/ Fault /\ UNCHANGED status
  /\ UNCHANGED <<next, cmd, attempts, ripe, owner, receipts, spool, mode, online,
                 staged, turn, toClaim, lane, phase, accepted, requeues>>

-----------------------------------------------------------------------------
(* Claiming.                                                               *)

(* A claimed row is leased by this process, and one more attempt is counted. *)
Lease(S) ==
  /\ status' = [r \in Rows |-> IF r \in S THEN "leased" ELSE status[r]]
  /\ owner' = [r \in Rows |-> IF r \in S THEN "self" ELSE owner[r]]
  /\ attempts' = [r \in Rows |-> IF r \in S THEN attempts[r] + 1 ELSE attempts[r]]
  /\ ripe' = [r \in Rows |-> ripe[r] /\ r \notin S]

(* claimDelivery by the producer; the entry joins its conversation's lane.  *)
(* The health probe and the claim are one step: the probe of the WeCom       *)
(* transport reads a flag, so no other event runs between the two.         *)
ClaimUnchecked(r) ==                         \* mutant: claims without a health probe
  /\ r \in toClaim /\ Claimable(r) /\ toClaim' = toClaim \ {r}
  /\ Lease({r})
  /\ lane' = IF online THEN [lane EXCEPT ![Lane(r)] =
                Append(@, [row |-> r, attempts |-> attempts[r] + 1, own |-> TRUE])] ELSE lane
  /\ UNCHANGED <<next, cmd, receipts, spool, mode, online, staged, turn, run, phase,
                 accepted, budget>>

ClaimOwn(r) ==
  /\ r \in toClaim
  /\ toClaim' = toClaim \ {r}
  /\ \/ /\ online /\ Claimable(r)
        /\ Lease({r})
        /\ lane' = [lane EXCEPT ![Lane(r)] =
                      Append(@, [row |-> r, attempts |-> attempts[r] + 1, own |-> TRUE])]
        /\ NoFault
     \/ /\ ~online \/ ~Claimable(r)
        /\ UNCHANGED <<status, owner, attempts, ripe, lane, faults>>
     \/ /\ online /\ Fault
        /\ UNCHANGED <<status, owner, attempts, ripe, lane>>
  /\ UNCHANGED <<next, cmd, receipts, spool, mode, online, staged, turn, run, phase,
                 accepted, requeues>>

(* claimDueDeliveries: up to BatchSize due rows in id order, across all     *)
(* conversations, in one transaction; every one joins its lane at once.    *)
Due == {r \in Rows : Claimable(r)}
Batch == {r \in Due : Cardinality({s \in Due : s <= r}) <= BatchSize}

InIdOrder(q, S) ==
  /\ \A i \in DOMAIN q : q[i] \in S
  /\ \A r \in S : \E i \in DOMAIN q : q[i] = r
  /\ \A i, j \in DOMAIN q : i < j => q[i] < q[j]

Flush ==
  /\ mode = "up" /\ online /\ Batch # {}
  /\ Lease(Batch)
  /\ \E claim \in [Conv -> UNION {[1 .. n -> Batch] : n \in 0 .. Cardinality(Batch)}] :
        /\ \A c \in Conv : InIdOrder(claim[c], {r \in Batch : Lane(r) = c})
        /\ lane' = [c \in Conv |-> lane[c] \o
              [i \in 1 .. Len(claim[c]) |->
                 [row |-> claim[c][i], attempts |-> attempts[claim[c][i]] + 1, own |-> FALSE]]]
  /\ UNCHANGED <<next, cmd, receipts, spool, mode, online, staged, turn, run, toClaim,
                 phase, accepted, budget>>

-----------------------------------------------------------------------------
(* Dispatching the head of a lane.                                         *)

Advance(c, p) == phase' = [phase EXCEPT ![c] = p] /\ UNCHANGED lane
LeaveDirty(c) ==                             \* mutant: the old phase meets the next entry
  /\ lane' = [lane EXCEPT ![c] = Tail(@)]
  /\ UNCHANGED phase
Leave(c) ==
  /\ lane' = [lane EXCEPT ![c] = Tail(@)]
  /\ phase' = [phase EXCEPT ![c] = "idle"]

(* The store settles row r for its lease holder, or throws and changes      *)
(* nothing: the lease was lost, or (a fault) the store failed.             *)
Settle(r, s) ==
  /\ status' = [status EXCEPT ![r] = s]
  /\ owner' = [owner EXCEPT ![r] = "none"]
  /\ ripe' = [ripe EXCEPT ![r] = FALSE]

StoreThrows(r) ==
  /\ \/ ~Holds(r) /\ NoFault
     \/ Holds(r) /\ Fault
  /\ UNCHANGED <<status, owner, ripe, receipts>>

(* Materialize the command; a stale run-control card is superseded instead  *)
(* of being sent.                                                          *)
Begin(c) ==
  /\ lane[c] # <<>> /\ phase[c] = "idle"
  /\ LET r == Head1(c).row
         missing == cmd[r].kind = "media" /\ cmd[r].of \notin spool
         stale == cmd[r].kind = "card" /\ run[cmd[r].of] # "live"
     IN  \/ /\ ~missing /\ ~stale
            /\ Advance(c, "sending")
            /\ UNCHANGED <<status, owner, ripe, receipts>> /\ NoFault
         \/ /\ missing
            /\ Advance(c, "failed")
            /\ UNCHANGED <<status, owner, ripe, receipts>> /\ NoFault
         \/ /\ stale
            /\ Leave(c)
            /\ \/ Holds(r) /\ Settle(r, "superseded") /\ UNCHANGED receipts /\ NoFault
               \/ StoreThrows(r)
  /\ UNCHANGED <<next, cmd, attempts, spool, mode, online, staged, turn, run, toClaim,
                 accepted, requeues>>

Accept(r) == accepted' = [accepted EXCEPT ![r] = IF @ < MaxAccepted THEN @ + 1 ELSE @]

(* transport.deliver: acknowledged, refused, or accepted by the remote side *)
(* although the call fails here.  A partial frame may also be acknowledged  *)
(* unsent: the SDK skips it, or its stream's update window is over.        *)
Send(c) ==
  /\ phase[c] = "sending"
  /\ \/ online /\ Accept(Head1(c).row) /\ Advance(c, "acked") /\ NoFault
     \/ /\ online /\ cmd[Head1(c).row].kind = "partial"
        /\ Advance(c, "acked") /\ UNCHANGED accepted /\ NoFault
     \/ Advance(c, "failed") /\ UNCHANGED accepted /\ NoFault
     \/ online /\ Accept(Head1(c).row) /\ Advance(c, "failed") /\ Fault
  /\ UNCHANGED <<durable, spool, mode, online, staged, turn, run, toClaim, requeues>>

(* After a media row became terminal its artifact is released next.        *)
ThenNothing(c, r) == Leave(c)                          \* mutant: artifact kept
Then(c, r) == IF cmd[r].kind = "media" THEN Advance(c, "releasing") ELSE Leave(c)

Complete(c) ==
  /\ phase[c] = "acked"
  /\ LET r == Head1(c).row
     IN  \/ /\ Holds(r) /\ Settle(r, "delivered")
            /\ receipts' = [receipts EXCEPT ![r] = @ + 1]
            /\ Then(c, r) /\ NoFault
         \/ StoreThrows(r) /\ Leave(c)
  /\ UNCHANGED <<next, cmd, attempts, spool, mode, online, staged, turn, run, toClaim,
                 accepted, requeues>>

Exhausted(e) == e.attempts >= MaxAttempts

SettleFailed(c) ==
  /\ phase[c] = "failed"
  /\ LET r == Head1(c).row
     IN  \/ /\ Holds(r) /\ Exhausted(Head1(c)) /\ Settle(r, "dead")
            /\ Then(c, r) /\ UNCHANGED receipts /\ NoFault
         \/ /\ Holds(r) /\ ~Exhausted(Head1(c)) /\ Settle(r, "pending")
            /\ Leave(c) /\ UNCHANGED receipts /\ NoFault
         \/ StoreThrows(r) /\ Leave(c)
  /\ UNCHANGED <<next, cmd, attempts, spool, mode, online, staged, turn, run, toClaim,
                 accepted, requeues>>

(* completeMediaArtifact; an error of the spool is only reported.          *)
Release(c) ==
  /\ phase[c] = "releasing"
  /\ Leave(c)
  /\ \/ spool' = spool \ {cmd[Head1(c).row].of} /\ NoFault
     \/ Fault /\ UNCHANGED spool
  /\ UNCHANGED <<durable, mode, online, staged, turn, run, toClaim, accepted, requeues>>

-----------------------------------------------------------------------------
(* Time, the transport's connection, the process and the operator.         *)

(* A retry delay or a lease runs out.  A lease that runs out while its      *)
(* entry is still queued or in flight here is one of the bounded faults.   *)
TimePasses(r) ==
  /\ Live(r) /\ ~ripe[r]
  /\ IF status[r] = "leased" /\ Dispatching(r) THEN Fault ELSE NoFault
  /\ ripe' = [ripe EXCEPT ![r] = TRUE]
  /\ UNCHANGED <<next, cmd, status, attempts, owner, receipts, spool, mode, online, memory,
                 accepted, requeues>>

Connect ==
  /\ mode = "up" /\ ~online /\ online' = TRUE
  /\ UNCHANGED <<durable, spool, mode, memory, accepted, budget>>

Disconnect ==
  /\ online /\ Fault /\ online' = FALSE
  /\ UNCHANGED <<durable, spool, mode, memory, accepted, requeues>>

(* startComponents: the spool keeps what live rows reference.              *)
Start ==
  /\ mode = "down" /\ mode' = "up"
  /\ spool' = spool \cap Referenced
  /\ UNCHANGED <<durable, online, memory, accepted, budget>>

(* stop(): ingress and transport first, then accepted work is drained.     *)
Stop ==
  /\ mode = "up" /\ Fault /\ mode' = "stopping" /\ online' = FALSE
  /\ UNCHANGED <<durable, spool, memory, accepted, requeues>>

(* Whatever lease survives the process belongs to an owner that is gone.   *)
Orphaned == [r \in Rows |-> IF owner[r] = "self" THEN "gone" ELSE owner[r]]

Stopped ==
  /\ mode = "stopping" /\ mode' = "down"
  /\ OpenTurns = {} /\ staged = {} /\ toClaim = {}
  /\ \A x \in Run : run[x] \in {"idle", "over"}
  /\ \A c \in Conv : lane[c] = <<>>
  /\ owner' = Orphaned
  /\ UNCHANGED <<next, cmd, status, attempts, ripe, receipts, spool, online, memory,
                 accepted, budget>>

Crash ==
  /\ Running /\ Fault
  /\ mode' = "down" /\ online' = FALSE
  /\ owner' = Orphaned
  /\ staged' = {} /\ toClaim' = {}
  /\ turn' = [s \in Stream |-> IF turn[s] = "open" THEN "lost" ELSE turn[s]]
  /\ run' = [x \in Run |-> IF run[x] = "idle" THEN "idle" ELSE "over"]
  /\ lane' = [c \in Conv |-> <<>>]
  /\ phase' = [c \in Conv |-> "idle"]
  /\ UNCHANGED <<next, cmd, status, attempts, ripe, receipts, spool, accepted, requeues>>

(* requeueDeadTextDeliveries: dead proactive texts and final replies, the   *)
(* oldest n of them.                                                       *)
RequeueMedia == {r \in Rows : status[r] = "dead" /\ cmd[r].kind # "partial"}   \* mutant
Requeueable == {r \in Rows : status[r] = "dead" /\ cmd[r].kind \in {"text", "final"}}
Requeue(n) ==
  /\ requeues < MaxRequeues /\ requeues' = requeues + 1
  /\ LET S == {r \in Requeueable : Cardinality({s \in Requeueable : s <= r}) <= n}
     IN  /\ S # {}
         /\ status' = [r \in Rows |-> IF r \in S THEN "pending" ELSE status[r]]
         /\ attempts' = [r \in Rows |-> IF r \in S THEN 0 ELSE attempts[r]]
         /\ ripe' = [r \in Rows |-> r \in S \/ ripe[r]]
  /\ UNCHANGED <<next, cmd, owner, receipts, spool, mode, online, memory, accepted, faults>>

-----------------------------------------------------------------------------
Produce ==
  \/ \E s \in Stream : Update(s) \/ CloseReply(s)
  \/ \E n \in Note : SendProactiveText(n)
  \/ \E a \in Artifact : StageMedia(a) \/ EnqueueMedia(a)
  \/ \E x \in Run : PresentRunControl(x) \/ ControlStale(x) \/ RunOver(x)

Dispatch(c) == Begin(c) \/ Send(c) \/ Complete(c) \/ SettleFailed(c) \/ Release(c)

Environment ==
  \/ \E r \in Rows : TimePasses(r)
  \/ Connect \/ Disconnect \/ Start \/ Stop \/ Stopped \/ Crash
  \/ \E n \in 1 .. MaxRows : Requeue(n)

Next ==
  \/ Produce
  \/ \E r \in Rows : ClaimOwn(r)
  \/ Flush
  \/ \E c \in Conv : Dispatch(c)
  \/ Environment

Spec == Init /\ [][Next]_vars

(* The event loop runs every ready continuation, timers fire, the SDK        *)
(* reconnects, a supervisor restarts the process, and agent runs end because *)
(* the adapters time them out.                                             *)
Fairness ==
  /\ \A r \in Rows : WF_vars(ClaimOwn(r)) /\ WF_vars(TimePasses(r))
  /\ WF_vars(Flush) /\ WF_vars(Connect) /\ WF_vars(Start) /\ WF_vars(Stopped)
  /\ \A c \in Conv : WF_vars(Dispatch(c))
  /\ \A s \in Stream : WF_vars(CloseReply(s))
  /\ \A a \in Artifact : WF_vars(EnqueueMedia(a))
  /\ \A x \in Run : WF_vars(RunOver(x))

FairSpec == Spec /\ Fairness

-----------------------------------------------------------------------------
(* Properties.                                                             *)

RowsTypeOK ==
  /\ next \in 0 .. MaxRows
  /\ cmd \in [Rows -> Command]
  /\ status \in [Rows -> Status]
  /\ attempts \in [Rows -> Nat]
  /\ ripe \in [Rows -> BOOLEAN]
  /\ owner \in [Rows -> {"none", "self", "gone"}]
  /\ receipts \in [Rows -> Nat]
  /\ accepted \in [Rows -> 0 .. MaxAccepted]

ProcessTypeOK ==
  /\ spool \subseteq Artifact /\ staged \subseteq Artifact
  /\ mode \in {"down", "up", "stopping"} /\ online \in BOOLEAN
  /\ turn \in [Stream -> {"idle", "open", "closed", "lost"}]
  /\ run \in [Run -> {"idle", "live", "stale", "over"}]
  /\ toClaim \subseteq Rows
  /\ faults \in 0 .. MaxFaults /\ requeues \in 0 .. MaxRequeues

LanesTypeOK ==
  /\ lane \in [Conv -> Seq(Entry)]
  /\ phase \in [Conv -> Phase]
  /\ \A c \in Conv : phase[c] # "idle" => lane[c] # <<>>

(* Every variable has its type, and a phase other than idle belongs to the   *)
(* head of a nonempty lane.                                                *)
TypeOK == RowsTypeOK /\ ProcessTypeOK /\ LanesTypeOK

(* A row other than a partial frame is settled as delivered only if the      *)
(* remote side accepted it, and the journal then holds exactly one receipt   *)
(* for it: however many stale entries of the row are still queued,           *)
(* completeDelivery succeeds once.                                         *)
DeliveredOnce ==
  \A r \in Rows :
    /\ status[r] = "delivered" /\ cmd[r].kind # "partial" => accepted[r] >= 1
    /\ receipts[r] = IF status[r] = "delivered" THEN 1 ELSE 0

(* Every row that may still be sent finds its artifact in the spool: no      *)
(* release, reconcile, stale entry, crash or requeue removes it too early.  *)
ArtifactRetained ==
  \A r \in Rows : Live(r) /\ cmd[r].kind = "media" => cmd[r].of \in spool

(* No artifact is leaked while nothing failed: what the spool holds is being *)
(* staged, referenced by a live row, or about to be released.              *)
SpoolAccounted ==
  faults = 0 =>
    \A a \in spool :
      \/ a \in staged \cup Referenced
      \/ \E c \in Conv : phase[c] = "releasing" /\ cmd[Head1(c).row].of = a

(* A closed reply ends in its final version: it is the newest row of its     *)
(* stream, and no enqueue, retry, crash or requeue ever supersedes it.     *)
FinalIsLast ==
  \A s \in Stream : turn[s] = "closed" =>
    \E r \in Rows :
      /\ cmd[r] = [kind |-> "final", of |-> s] /\ status[r] # "superseded"
      /\ \A q \in Rows : status[q] # "none" /\ cmd[q].of = s => q <= r

(* The remote side sees a row at most once, plus once for each fault and for *)
(* each operator requeue: flush and the producer never double-send a row.  *)
DuplicatesCostFaults == \A r \in Rows : accepted[r] <= 1 + faults + requeues

(* A row leased by the running process is being dispatched by it, unless a  *)
(* store error left the lease behind: no claim is lost.                    *)
LeaseHasDispatcher ==
  faults = 0 => \A r \in Rows : status[r] = "leased" => Dispatching(r)

(* No step rewrites a final verdict: delivered and superseded rows are       *)
(* frozen, and a dead row only comes back whole, as a text or final reply.  *)
VerdictsAreFinal ==
  [][\A r \in Rows :
       /\ status[r] \in {"delivered", "superseded"} => status'[r] = status[r]
       /\ status[r] = "dead" /\ status'[r] # "dead" =>
            /\ status'[r] = "pending" /\ attempts'[r] = 0
            /\ cmd[r].kind \in {"text", "final"}]_vars

(* Every command the outbox took responsibility for is settled in the end:   *)
(* delivered, dead-lettered or superseded.                                 *)
EveryRowSettles == \A r \in Rows : Live(r) ~> ~Live(r)

(* The outbox keeps the delivery promise: a row is owed while it is pending  *)
(* or leased.                                                              *)
Owed == [r \in Rows |-> CASE status[r] \in {"pending", "leased"} -> "owed"
                          [] status[r] = "delivered" -> "discharged"
                          [] status[r] = "superseded" -> "replaced"
                          [] OTHER -> status[r]]

Promise == INSTANCE DeliveryPromise
  WITH Row <- Rows, what <- cmd, promise <- Owed, arrived <- accepted,
       Replaceable <- [kind : {"partial", "card"}, of : Subject],
       Skippable <- [kind : {"partial"}, of : Subject],
       Revivable <- [kind : {"text", "final"}, of : Subject],
       MaxArrivals <- MaxAccepted

KeepsPromise == Promise!Spec

(* Not kept by the code (README, What does not hold), so that no run lists it. *)
(* docs/architecture.md:405: deliveries of one conversation keep its order:  *)
(* the answer of a turn first arrives before anything of a later turn.     *)
ConversationOrder ==
  [][\A r \in Rows : cmd[r].kind = "final" /\ accepted[r] = 0 /\ accepted'[r] = 1 =>
       \A s \in Rows : s > r /\ status[s] # "none" /\ Lane(s) = Lane(r) => accepted[s] = 0]_vars
=============================================================================
