---------------------------- MODULE OutboxProofs ----------------------------
(***************************************************************************)
(* Proofs about Outbox, for every number of rows, conversations, faults    *)
(* and attempts.                                                           *)
(***************************************************************************)
EXTENDS Outbox, SequenceTheorems, FiniteSetTheorems, TLAPS

USE OutboxAssumption DEF OutboxAssumption

(* Every variable starts within its type.                                  *)
LEMMA InitTypeOK == Init => TypeOK
<1> SUFFICES ASSUME Init PROVE TypeOK
  OBVIOUS
<1>1. RowsTypeOK
  BY DEF Init, RowsTypeOK, Command, NoCmd, Status, MaxAccepted
<1>2. ProcessTypeOK
  <2>1. spool \subseteq Artifact /\ staged \subseteq Artifact /\ toClaim \subseteq Rows
    BY DEF Init
  <2>2. mode \in {"down", "up", "stopping"} /\ online \in BOOLEAN
    BY DEF Init
  <2>3. /\ turn \in [Stream -> {"idle", "open", "closed", "lost"}]
        /\ run \in [Run -> {"idle", "live", "stale", "over"}]
    BY DEF Init
  <2>4. faults \in 0 .. MaxFaults /\ requeues \in 0 .. MaxRequeues
    BY DEF Init
  <2> QED
    BY <2>1, <2>2, <2>3, <2>4 DEF ProcessTypeOK
<1>3. LanesTypeOK
  BY DEF Init, LanesTypeOK, Phase
<1> QED
  BY <1>1, <1>2, <1>3 DEF TypeOK

(* The lanes after the head of one of them left or advanced.               *)
LEMMA LeaveType ==
  ASSUME LanesTypeOK, NEW c \in Conv, lane[c] # <<>>, Leave(c)
  PROVE  LanesTypeOK'
<1>1. Tail(lane[c]) \in Seq(Entry)
  BY DEF LanesTypeOK
<1>2. lane' \in [Conv -> Seq(Entry)]
  BY <1>1 DEF LanesTypeOK, Leave
<1>3. phase' \in [Conv -> Phase] /\ \A d \in Conv : phase'[d] # "idle" => lane'[d] # <<>>
  BY DEF LanesTypeOK, Leave, Phase
<1> QED
  BY <1>2, <1>3 DEF LanesTypeOK

(* Moving a dispatch to its next phase keeps the lanes typed.              *)
LEMMA AdvanceType ==
  ASSUME LanesTypeOK, NEW c \in Conv, lane[c] # <<>>, NEW p \in Phase, Advance(c, p)
  PROVE  LanesTypeOK'
  BY DEF LanesTypeOK, Advance

(* Claiming and settling keep the types of the row columns.                *)
LEMMA LeaseType ==
  ASSUME RowsTypeOK, NEW S \in SUBSET Rows, Lease(S), UNCHANGED <<next, cmd, receipts, accepted>>
  PROVE  RowsTypeOK'
  BY DEF RowsTypeOK, Lease, Status

(* The verdict of the store keeps the columns typed.                       *)
LEMMA SettleType ==
  ASSUME RowsTypeOK, NEW r \in Rows, NEW s \in Status, Settle(r, s),
         receipts' \in [Rows -> Nat], UNCHANGED <<next, cmd, attempts, accepted>>
  PROVE  RowsTypeOK'
  BY DEF RowsTypeOK, Settle

(* enqueueDelivery keeps rows, lanes and the claim set typed.              *)
LEMMA InsertType ==
  ASSUME TypeOK, NEW k \in Kind, NEW x \in Subject, Insert(k, x)
  PROVE  RowsTypeOK' /\ LanesTypeOK' /\ toClaim' \subseteq Rows
<1>1. next' \in Rows /\ next' \in 0 .. MaxRows
  BY DEF Insert, TypeOK, RowsTypeOK, Rows
<1>2. [kind |-> k, of |-> x] \in Command
  BY DEF Command
<1>3. RowsTypeOK'
  BY <1>1, <1>2 DEF Insert, TypeOK, RowsTypeOK, Status
<1>4. LanesTypeOK'
  BY DEF Insert, TypeOK, LanesTypeOK
<1>5. toClaim' \subseteq Rows
  BY <1>1 DEF Insert, TypeOK, ProcessTypeOK
<1> QED
  BY <1>3, <1>4, <1>5

(* The fault counter stays within its bound.                               *)
LEMMA FaultType ==
  ASSUME faults \in 0 .. MaxFaults, Fault \/ NoFault
  PROVE  faults' \in 0 .. MaxFaults
  BY DEF Fault, NoFault

(* Each action of a producer keeps TypeOK.                                 *)
LEMMA ProduceType ==
  ASSUME TypeOK, Produce
  PROVE  TypeOK'
<1> USE DEF TypeOK
<1>1. ASSUME NEW s \in Stream, Update(s) \/ CloseReply(s)
      PROVE  TypeOK'
  <2>1. RowsTypeOK' /\ LanesTypeOK' /\ toClaim' \subseteq Rows
    BY <1>1, InsertType DEF Update, CloseReply, Kind, Subject
  <2>2. ProcessTypeOK'
    BY <1>1, <2>1 DEF Update, CloseReply, Insert, ProcessTypeOK, budget
  <2> QED
    BY <2>1, <2>2
<1>2. ASSUME NEW n \in Note, SendProactiveText(n)
      PROVE  TypeOK'
  <2>1. RowsTypeOK' /\ LanesTypeOK' /\ toClaim' \subseteq Rows
    BY <1>2, InsertType DEF SendProactiveText, Kind, Subject
  <2>2. ProcessTypeOK'
    BY <1>2, <2>1 DEF SendProactiveText, Insert, ProcessTypeOK, budget
  <2> QED
    BY <2>1, <2>2
<1>3. ASSUME NEW a \in Artifact, StageMedia(a)
      PROVE  TypeOK'
  <2>1. RowsTypeOK' /\ LanesTypeOK'
    BY <1>3 DEF StageMedia, durable, RowsTypeOK, LanesTypeOK
  <2>2. ProcessTypeOK'
    BY <1>3 DEF StageMedia, ProcessTypeOK, budget
  <2> QED
    BY <2>1, <2>2
<1>4. ASSUME NEW a \in Artifact, EnqueueMedia(a)
      PROVE  TypeOK'
  <2>1. CASE Insert("media", a) /\ UNCHANGED spool
    <3>1. RowsTypeOK' /\ LanesTypeOK' /\ toClaim' \subseteq Rows
      BY <2>1, InsertType DEF Kind, Subject
    <3>2. ProcessTypeOK'
      BY <1>4, <2>1, <3>1 DEF EnqueueMedia, Insert, ProcessTypeOK, budget
    <3> QED
      BY <3>1, <3>2
  <2>2. CASE Fault /\ UNCHANGED <<durable, mode, online, toClaim, lane, phase, accepted, requeues>>
                /\ spool' = spool \ {a}
    <3>1. RowsTypeOK' /\ LanesTypeOK'
      BY <2>2 DEF durable, RowsTypeOK, LanesTypeOK
    <3>2. ProcessTypeOK'
      BY <1>4, <2>2, FaultType DEF EnqueueMedia, ProcessTypeOK
    <3> QED
      BY <3>1, <3>2
  <2> QED
    BY <1>4, <2>1, <2>2 DEF EnqueueMedia
<1>5. ASSUME NEW x \in Run, PresentRunControl(x)
      PROVE  TypeOK'
  <2>1. RowsTypeOK' /\ LanesTypeOK' /\ toClaim' \subseteq Rows
    BY <1>5, InsertType DEF PresentRunControl, Kind, Subject
  <2>2. ProcessTypeOK'
    BY <1>5, <2>1 DEF PresentRunControl, Insert, ProcessTypeOK, budget
  <2> QED
    BY <2>1, <2>2
<1>6. ASSUME NEW x \in Run, ControlStale(x)
      PROVE  TypeOK'
  <2>1. RowsTypeOK' /\ LanesTypeOK'
    BY <1>6 DEF ControlStale, durable, RowsTypeOK, LanesTypeOK
  <2>2. ProcessTypeOK'
    BY <1>6 DEF ControlStale, ProcessTypeOK, budget
  <2> QED
    BY <2>1, <2>2
<1>7. ASSUME NEW x \in Run, RunOver(x)
      PROVE  TypeOK'
  <2>1. RowsTypeOK' /\ LanesTypeOK'
    BY <1>7 DEF RunOver, RowsTypeOK, LanesTypeOK, Status
  <2>2. ProcessTypeOK'
    BY <1>7, FaultType DEF RunOver, ProcessTypeOK
  <2> QED
    BY <2>1, <2>2
<1> QED
  BY <1>1, <1>2, <1>3, <1>4, <1>5, <1>6, <1>7 DEF Produce

(* An entry of a claimed row.                                              *)
LEMMA EntryType ==
  ASSUME RowsTypeOK, NEW r \in Rows, NEW b \in BOOLEAN
  PROVE  [row |-> r, attempts |-> attempts[r] + 1, own |-> b] \in Entry
  BY DEF RowsTypeOK, Entry

(* Each claim, by the producer or by the flush worker, keeps TypeOK.       *)
LEMMA ClaimType ==
  ASSUME TypeOK, NEW r \in Rows, ClaimOwn(r)
  PROVE  TypeOK'
<1> USE DEF TypeOK
<1>1. ProcessTypeOK'
  BY FaultType DEF ClaimOwn, ProcessTypeOK
<1>2. CASE UNCHANGED <<status, owner, attempts, ripe, lane>>
  <2>1. RowsTypeOK' /\ LanesTypeOK'
    BY <1>2 DEF ClaimOwn, RowsTypeOK, LanesTypeOK
  <2> QED
    BY <1>1, <2>1
<1>3. CASE Claimable(r) /\ Lease({r}) /\ lane' = [lane EXCEPT ![Lane(r)] =
              Append(@, [row |-> r, attempts |-> attempts[r] + 1, own |-> TRUE])]
  <2>1. RowsTypeOK'
    BY <1>3, LeaseType DEF ClaimOwn
  <2>2. lane' \in [Conv -> Seq(Entry)] /\ \A c \in Conv : lane[c] # <<>> => lane'[c] # <<>>
    <3> DEFINE e == [row |-> r, attempts |-> attempts[r] + 1, own |-> TRUE]
    <3>1. e \in Entry
      BY EntryType
    <3> HIDE DEF e
    <3>2. \A q \in Seq(Entry) : Append(q, e) \in Seq(Entry) /\ Append(q, e) # <<>>
      BY <3>1
    <3> QED
      BY <1>3, <3>2 DEF LanesTypeOK, e
  <2>3. LanesTypeOK'
    BY <2>2 DEF ClaimOwn, LanesTypeOK
  <2> QED
    BY <1>1, <2>1, <2>3
<1> QED
  BY <1>2, <1>3 DEF ClaimOwn

(* A flush appends to each lane entries of rows of its batch.              *)
LEMMA FlushLanes ==
  ASSUME TypeOK, Flush, NEW c \in Conv
  PROVE  \E q \in Seq(Entry) : /\ lane'[c] = lane[c] \o q
                               /\ \A i \in 1 .. Len(q) : q[i].row \in Batch
<1>1. PICK claim \in [Conv -> UNION {[1 .. n -> Batch] : n \in 0 .. Cardinality(Batch)}] :
        lane' = [d \in Conv |-> lane[d] \o
              [i \in 1 .. Len(claim[d]) |->
                 [row |-> claim[d][i], attempts |-> attempts[claim[d][i]] + 1, own |-> FALSE]]]
  BY DEF Flush
<1> DEFINE new == [i \in 1 .. Len(claim[c]) |->
               [row |-> claim[c][i], attempts |-> attempts[claim[c][i]] + 1, own |-> FALSE]]
<1>2. claim[c] \in UNION {[1 .. n -> Batch] : n \in 0 .. Cardinality(Batch)}
  BY <1>1
<1>3. PICK n \in 0 .. Cardinality(Batch) : claim[c] \in [1 .. n -> Batch]
  BY <1>2
<1>4. n \in Nat /\ claim[c] \in Seq(Batch) /\ Len(claim[c]) = n
  BY <1>3
<1>5. \A i \in 1 .. n : claim[c][i] \in Batch /\ claim[c][i] \in Rows
  BY <1>3 DEF Batch, Due
<1>6. \A i \in 1 .. n : new[i] \in Entry /\ new[i].row \in Batch
  BY <1>4, <1>5, EntryType DEF TypeOK
<1>7. new \in [1 .. n -> Entry]
  BY <1>4, <1>6
<1>8. new \in Seq(Entry) /\ Len(new) = n
  BY <1>4, <1>7
<1>9. lane'[c] = lane[c] \o new
  BY <1>1
<1> HIDE DEF new
<1> QED
  BY <1>4, <1>6, <1>8, <1>9

(* claimDueDeliveries keeps every type: batches become lane entries.       *)
LEMMA FlushType ==
  ASSUME TypeOK, Flush
  PROVE  TypeOK'
<1> USE DEF TypeOK
<1>1. RowsTypeOK'
  BY LeaseType DEF Flush, Batch, Due
<1>2. ProcessTypeOK'
  BY DEF Flush, ProcessTypeOK, budget
<1>3. ASSUME NEW c \in Conv
      PROVE  lane'[c] \in Seq(Entry) /\ (lane[c] # <<>> => lane'[c] # <<>>)
  <2>1. PICK q \in Seq(Entry) : lane'[c] = lane[c] \o q
    BY FlushLanes
  <2> QED
    BY <2>1 DEF LanesTypeOK
<1>4. lane' = [c \in Conv |-> lane'[c]]
  BY DEF Flush
<1>5. LanesTypeOK'
  BY <1>3, <1>4 DEF Flush, LanesTypeOK
<1> QED
  BY <1>1, <1>2, <1>5

(* Each step of dispatching a head keeps TypeOK.                           *)
LEMMA DispatchType ==
  ASSUME TypeOK, NEW c \in Conv, Dispatch(c)
  PROVE  TypeOK'
<1> USE DEF TypeOK
<1> DEFINE r == Head1(c).row
<1>0. lane[c] # <<>>
  BY DEF Dispatch, Begin, Send, Complete, SettleFailed, Release, LanesTypeOK
<1>1. r \in Rows
  <2>1. Head(lane[c]) \in Entry
    BY <1>0 DEF LanesTypeOK
  <2> QED
    BY <2>1 DEF Head1, Entry
<1> HIDE DEF r
<1>2. Leave(c) \/ (\E p \in Phase : Advance(c, p)) => LanesTypeOK'
  BY <1>0, LeaveType, AdvanceType
<1>3. Then(c, r) => Leave(c) \/ (\E p \in Phase : Advance(c, p))
  BY DEF Then, Phase
<1>4. ASSUME NEW s \in Status, Settle(r, s), receipts' \in [Rows -> Nat],
             UNCHANGED <<next, cmd, attempts, accepted>>
      PROVE  RowsTypeOK'
  BY <1>1, <1>4, SettleType
<1>5. ASSUME UNCHANGED <<next, cmd, status, attempts, ripe, owner, receipts>>,
             Accept(r) \/ UNCHANGED accepted
      PROVE  RowsTypeOK'
  BY <1>5 DEF RowsTypeOK, Accept, MaxAccepted
<1>6. ASSUME UNCHANGED <<mode, online, staged, turn, run, toClaim, requeues>>,
             spool' \subseteq spool, Fault \/ NoFault
      PROVE  ProcessTypeOK'
  BY <1>6, FaultType DEF ProcessTypeOK
<1>7. CASE Begin(c)
  <2>1. LanesTypeOK'
    BY <1>2, <1>7 DEF Begin, Phase
  <2>2. ProcessTypeOK'
    BY <1>6, <1>7 DEF Begin, StoreThrows
  <2>3. RowsTypeOK'
    <3>1. CASE Settle(r, "superseded") /\ UNCHANGED receipts
      BY <1>4, <1>7, <3>1 DEF Begin, Status, RowsTypeOK
    <3>2. CASE UNCHANGED <<status, owner, ripe, receipts>>
      BY <1>5, <1>7, <3>2 DEF Begin
    <3> QED
      BY <1>7, <3>1, <3>2 DEF Begin, StoreThrows, r
  <2> QED
    BY <2>1, <2>2, <2>3
<1>8. CASE Send(c)
  <2>1. LanesTypeOK'
    BY <1>2, <1>8 DEF Send, Phase
  <2>2. ProcessTypeOK'
    BY <1>6, <1>8 DEF Send
  <2>3. RowsTypeOK'
    BY <1>5, <1>8 DEF Send, durable, r
  <2> QED
    BY <2>1, <2>2, <2>3
<1>9. CASE Complete(c)
  <2>1. LanesTypeOK'
    BY <1>2, <1>3, <1>9 DEF Complete, r
  <2>2. ProcessTypeOK'
    BY <1>6, <1>9 DEF Complete, StoreThrows
  <2>3. RowsTypeOK'
    <3>1. CASE Settle(r, "delivered") /\ receipts' = [receipts EXCEPT ![r] = @ + 1]
      <4>1. receipts' \in [Rows -> Nat]
        BY <1>1, <3>1 DEF RowsTypeOK
      <4> QED
        BY <1>4, <1>9, <3>1, <4>1 DEF Complete, Status
    <3>2. CASE UNCHANGED <<status, owner, ripe, receipts>>
      BY <1>5, <1>9, <3>2 DEF Complete
    <3> QED
      BY <1>9, <3>1, <3>2 DEF Complete, StoreThrows, r
  <2> QED
    BY <2>1, <2>2, <2>3
<1>10. CASE SettleFailed(c)
  <2>1. LanesTypeOK'
    BY <1>2, <1>3, <1>10 DEF SettleFailed, r
  <2>2. ProcessTypeOK'
    BY <1>6, <1>10 DEF SettleFailed, StoreThrows
  <2>3. RowsTypeOK'
    <3>1. CASE (Settle(r, "dead") \/ Settle(r, "pending")) /\ UNCHANGED receipts
      BY <1>4, <1>10, <3>1 DEF SettleFailed, Status, RowsTypeOK
    <3>2. CASE UNCHANGED <<status, owner, ripe, receipts>>
      BY <1>5, <1>10, <3>2 DEF SettleFailed
    <3> QED
      BY <1>10, <3>1, <3>2 DEF SettleFailed, StoreThrows, r
  <2> QED
    BY <2>1, <2>2, <2>3
<1>11. CASE Release(c)
  <2>1. LanesTypeOK'
    BY <1>2, <1>11 DEF Release
  <2>2. ProcessTypeOK'
    BY <1>6, <1>11 DEF Release
  <2>3. RowsTypeOK'
    BY <1>5, <1>11 DEF Release, durable
  <2> QED
    BY <2>1, <2>2, <2>3
<1> QED
  BY <1>7, <1>8, <1>9, <1>10, <1>11 DEF Dispatch

(* Time, the connection, the process and the operator keep TypeOK.         *)
LEMMA EnvironmentType ==
  ASSUME TypeOK, Environment
  PROVE  TypeOK'
<1> USE DEF TypeOK
<1>1. ASSUME NEW r \in Rows, TimePasses(r)
      PROVE  TypeOK'
  <2>1. RowsTypeOK' /\ LanesTypeOK'
    BY <1>1 DEF TimePasses, memory, RowsTypeOK, LanesTypeOK
  <2>2. ProcessTypeOK'
    BY <1>1, FaultType DEF TimePasses, memory, ProcessTypeOK
  <2> QED
    BY <2>1, <2>2
<1>2. CASE Connect \/ Disconnect \/ Start \/ Stop
  <2>1. RowsTypeOK' /\ LanesTypeOK'
    BY <1>2 DEF Connect, Disconnect, Start, Stop, durable, memory, RowsTypeOK, LanesTypeOK
  <2>2. ProcessTypeOK'
    BY <1>2, FaultType DEF Connect, Disconnect, Start, Stop, memory, budget, ProcessTypeOK
  <2> QED
    BY <2>1, <2>2
<1>3. CASE Stopped
  <2>1. RowsTypeOK' /\ LanesTypeOK'
    BY <1>3 DEF Stopped, Orphaned, memory, RowsTypeOK, LanesTypeOK
  <2>2. ProcessTypeOK'
    BY <1>3 DEF Stopped, memory, budget, ProcessTypeOK
  <2> QED
    BY <2>1, <2>2
<1>4. CASE Crash
  <2>1. RowsTypeOK'
    BY <1>4 DEF Crash, Orphaned, RowsTypeOK
  <2>2. LanesTypeOK'
    BY <1>4 DEF Crash, LanesTypeOK, Phase
  <2>3. /\ turn' \in [Stream -> {"idle", "open", "closed", "lost"}]
        /\ run' \in [Run -> {"idle", "live", "stale", "over"}]
    BY <1>4 DEF Crash, ProcessTypeOK
  <2>4. ProcessTypeOK'
    BY <1>4, <2>3, FaultType DEF Crash, ProcessTypeOK
  <2> QED
    BY <2>1, <2>2, <2>4
<1>5. ASSUME NEW n \in 1 .. MaxRows, Requeue(n)
      PROVE  TypeOK'
  <2>1. RowsTypeOK' /\ LanesTypeOK'
    BY <1>5 DEF Requeue, memory, RowsTypeOK, LanesTypeOK, Status
  <2>2. ProcessTypeOK'
    BY <1>5 DEF Requeue, memory, ProcessTypeOK
  <2> QED
    BY <2>1, <2>2
<1> QED
  BY <1>1, <1>2, <1>3, <1>4, <1>5 DEF Environment

(* A step that changes nothing keeps TypeOK.                               *)
LEMMA StutterType == TypeOK /\ UNCHANGED vars => TypeOK'
  BY DEF vars, durable, memory, budget, TypeOK, RowsTypeOK, ProcessTypeOK, LanesTypeOK

(* Every reachable state of the outbox is well typed: the store only holds   *)
(* the statuses, owners and commands the schema of storage-sqlite allows,   *)
(* and dispatchDelivery always works on the head of a nonempty lane.       *)
THEOREM OutboxTypeOK == Spec => []TypeOK
<1>1. TypeOK /\ [Next]_vars => TypeOK'
  BY ProduceType, ClaimType, FlushType, DispatchType, EnvironmentType, StutterType DEF Next
<1> QED
  BY InitTypeOK, <1>1, PTL DEF Spec

-----------------------------------------------------------------------------
(* Well-formed rows and queues: rows are allocated in order, never change    *)
(* their command, fit their subject, and only inserted rows are queued.    *)

RowsInOrder == \A r \in Rows : status[r] = "none" <=> r > next

Fits(k, x) ==
  /\ x \in Subject
  /\ k = "media" <=> x \in Artifact
  /\ k \in {"partial", "final"} <=> x \in Stream

CommandsFit ==
  /\ \A r \in 1 .. next : Fits(cmd[r].kind, cmd[r].of)
  /\ \A r \in Rows \ 1 .. next : cmd[r] = NoCmd

QueuedInserted ==
  /\ \A r \in toClaim : r <= next
  /\ \A c \in Conv : \A i \in 1 .. Len(lane[c]) : lane[c][i].row <= next

WFInv == TypeOK /\ RowsInOrder /\ CommandsFit /\ QueuedInserted

(* Rows keep their commands for ever.                                      *)
RowsGrow == next' \in Nat /\ next' >= next /\ \A r \in 1 .. next : cmd'[r] = cmd[r]

(* What enqueueDelivery writes: the new row, and the rest unchanged.       *)
LEMMA InsertedRow ==
  ASSUME WFInv, NEW k \in Kind, NEW x \in Subject, Insert(k, x)
  PROVE  /\ next' = next + 1 /\ next' \in Rows /\ status[next'] = "none"
         /\ status'[next'] = "pending" /\ cmd'[next'] = [kind |-> k, of |-> x]
         /\ \A r \in Rows \ {next'} :
               /\ cmd'[r] = cmd[r]
               /\ \/ status'[r] = status[r]
                  \/ status[r] = "pending" /\ IsReply(r) /\ status'[r] = "superseded"
<1>1. next' = next + 1 /\ next' \in Rows
  BY DEF Insert, WFInv, TypeOK, RowsTypeOK, Rows
<1>2. status[next'] = "none"
  BY <1>1 DEF WFInv, RowsInOrder, TypeOK, RowsTypeOK
<1>3. status'[next'] = "pending" /\ cmd'[next'] = [kind |-> k, of |-> x]
  BY <1>1 DEF Insert, WFInv, TypeOK, RowsTypeOK
<1>4. \A r \in Rows \ {next'} : cmd'[r] = cmd[r]
  BY <1>1 DEF Insert, WFInv, TypeOK, RowsTypeOK
<1>5. \A r \in Rows \ {next'} : \/ status'[r] = status[r]
                                \/ status[r] = "pending" /\ IsReply(r) /\ status'[r] = "superseded"
  BY <1>1 DEF Insert, Outdates
<1> QED
  BY <1>1, <1>2, <1>3, <1>4, <1>5

(* An inserted row stays inserted, and later rows have larger ids.         *)
LEMMA InsertGrows ==
  ASSUME WFInv, NEW k \in Kind, NEW x \in Subject, Insert(k, x)
  PROVE  RowsGrow
<1>1. next' = next + 1 /\ next' \in Rows /\ \A r \in Rows \ {next'} : cmd'[r] = cmd[r]
  BY InsertedRow
<1>2. next \in Nat
  BY DEF WFInv, TypeOK, RowsTypeOK
<1>3. \A r \in 1 .. next : r \in Rows \ {next'}
  BY <1>1, <1>2 DEF Rows
<1> QED
  BY <1>1, <1>2, <1>3 DEF RowsGrow

(* Every producer inserts a row that fits, or leaves the table as it is but   *)
(* for the cards a finished run retires.                                   *)
LEMMA ProduceInserts ==
  ASSUME Produce
  PROVE  \/ \E k \in Kind, x \in Subject : Fits(k, x) /\ Insert(k, x)
         \/ UNCHANGED <<next, cmd, status, receipts, accepted, toClaim, lane, phase>>
         \/ \E x \in Run : RunOver(x)
<1>1. ASSUME NEW s \in Stream, Update(s) \/ CloseReply(s)
      PROVE  \E k \in Kind, x \in Subject : Fits(k, x) /\ Insert(k, x)
  <2>1. Fits("partial", s) /\ Fits("final", s)
    BY DEF Fits, Subject
  <2>2. s \in Subject /\ "partial" \in Kind /\ "final" \in Kind
    BY DEF Kind, Subject
  <2> QED
    BY <1>1, <2>1, <2>2 DEF Update, CloseReply
<1>2. ASSUME NEW n \in Note, SendProactiveText(n)
      PROVE  \E k \in Kind, x \in Subject : Fits(k, x) /\ Insert(k, x)
  <2>1. Fits("text", n) /\ n \in Subject /\ "text" \in Kind
    BY DEF Fits, Subject, Kind
  <2> QED
    BY <1>2, <2>1 DEF SendProactiveText
<1>3. ASSUME NEW x \in Run, PresentRunControl(x)
      PROVE  \E k \in Kind, y \in Subject : Fits(k, y) /\ Insert(k, y)
  <2>1. Fits("card", x) /\ x \in Subject /\ "card" \in Kind
    BY DEF Fits, Subject, Kind
  <2> QED
    BY <1>3, <2>1 DEF PresentRunControl
<1>4. ASSUME NEW a \in Artifact, EnqueueMedia(a)
      PROVE  \/ \E k \in Kind, x \in Subject : Fits(k, x) /\ Insert(k, x)
             \/ UNCHANGED <<next, cmd, status, receipts, accepted, toClaim, lane, phase>>
  <2>1. Fits("media", a) /\ a \in Subject /\ "media" \in Kind
    BY DEF Fits, Subject, Kind
  <2> QED
    BY <1>4, <2>1 DEF EnqueueMedia, durable
<1>5. ASSUME NEW a \in Artifact, StageMedia(a)
      PROVE  UNCHANGED <<next, cmd, status, receipts, accepted, toClaim, lane, phase>>
  BY <1>5 DEF StageMedia, durable
<1>6. ASSUME NEW x \in Run, ControlStale(x)
      PROVE  UNCHANGED <<next, cmd, status, receipts, accepted, toClaim, lane, phase>>
  BY <1>6 DEF ControlStale, durable
<1> QED
  BY <1>1, <1>2, <1>3, <1>4, <1>5, <1>6 DEF Produce

(* Producers keep ids dense and each command fit for its subject.          *)
LEMMA ProduceWF ==
  ASSUME WFInv, Produce
  PROVE  RowsGrow /\ RowsInOrder' /\ CommandsFit' /\ QueuedInserted'
<1> USE DEF WFInv
<1>0. next \in Nat
  BY DEF TypeOK, RowsTypeOK
<1>1. ASSUME NEW k \in Kind, NEW x \in Subject, Fits(k, x), Insert(k, x)
      PROVE  RowsGrow /\ RowsInOrder' /\ CommandsFit' /\ QueuedInserted'
  <2>1. /\ next' = next + 1 /\ next' \in Rows /\ status[next'] = "none"
        /\ status'[next'] = "pending" /\ cmd'[next'] = [kind |-> k, of |-> x]
        /\ \A r \in Rows \ {next'} :
              /\ cmd'[r] = cmd[r]
              /\ \/ status'[r] = status[r]
                 \/ status[r] = "pending" /\ IsReply(r) /\ status'[r] = "superseded"
    BY <1>1, InsertedRow, Zenon
  <2>2. \A r \in 1 .. next : r \in Rows \ {next'}
    BY <1>0, <2>1 DEF Rows
  <2>3. RowsGrow
    BY <1>1, InsertGrows
  <2>4. RowsInOrder'
    BY <1>0, <2>1 DEF RowsInOrder, Rows
  <2>5. CommandsFit'
    <3>1. \A r \in 1 .. next' : r = next' \/ r \in 1 .. next
      BY <1>0, <2>1
    <3>2. Fits(cmd'[next'].kind, cmd'[next'].of)
      BY <1>1, <2>1
    <3>3. \A r \in 1 .. next : Fits(cmd'[r].kind, cmd'[r].of)
      BY <2>1, <2>2 DEF CommandsFit
    <3>4. \A r \in Rows \ 1 .. next' : r \in Rows \ 1 .. next /\ r # next'
      BY <1>0, <2>1
    <3>5. \A r \in Rows \ 1 .. next' : cmd'[r] = NoCmd
      BY <2>1, <3>4 DEF CommandsFit
    <3> QED
      BY <3>1, <3>2, <3>3, <3>5 DEF CommandsFit, Fits
  <2>6. QueuedInserted'
    <3>1. toClaim' = toClaim \cup {next'} /\ lane' = lane
      BY <1>1 DEF Insert
    <3>2. \A r \in Rows : r <= next => r <= next'
      BY <1>0, <2>1 DEF Rows
    <3>3. toClaim \subseteq Rows /\ next' <= next'
      BY <1>0, <2>1 DEF TypeOK, ProcessTypeOK
    <3>4. ASSUME NEW c \in Conv, NEW i \in 1 .. Len(lane[c])
          PROVE  lane[c][i].row \in Rows
      <4>1. lane[c] \in Seq(Entry)
        BY DEF TypeOK, LanesTypeOK
      <4>2. lane[c][i] \in Entry
        BY <4>1, ElementOfSeq
      <4> QED
        BY <4>2 DEF Entry
    <3> QED
      BY <3>1, <3>2, <3>3, <3>4 DEF QueuedInserted
  <2> QED
    BY <2>3, <2>4, <2>5, <2>6
<1>2. ASSUME UNCHANGED <<next, cmd, status, toClaim, lane>>
      PROVE  RowsGrow /\ RowsInOrder' /\ CommandsFit' /\ QueuedInserted'
  BY <1>0, <1>2 DEF RowsGrow, RowsInOrder, CommandsFit, QueuedInserted
<1>3. ASSUME NEW x \in Run, RunOver(x)
      PROVE  RowsGrow /\ RowsInOrder' /\ CommandsFit' /\ QueuedInserted'
  <2>1. \A r \in Rows : \/ status'[r] = status[r]
                        \/ status[r] = "pending" /\ status'[r] = "superseded"
    BY <1>3 DEF RunOver
  <2>2. UNCHANGED <<next, cmd, toClaim, lane>>
    BY <1>3 DEF RunOver
  <2> QED
    BY <1>0, <2>1, <2>2 DEF RowsGrow, RowsInOrder, CommandsFit, QueuedInserted
<1> QED
  BY <1>1, <1>2, <1>3, ProduceInserts

(* A claim leases live rows and touches no other row.                      *)
LEMMA ClaimedRows ==
  ASSUME Flush \/ \E r \in Rows : ClaimOwn(r)
  PROVE  \A r \in Rows : status'[r] = status[r] \/ (Live(r) /\ status'[r] = "leased")
<1>1. CASE Flush
  BY <1>1 DEF Flush, Lease, Batch, Due, Claimable
<1>2. ASSUME NEW r \in Rows, ClaimOwn(r)
      PROVE  \A s \in Rows : status'[s] = status[s] \/ (Live(s) /\ status'[s] = "leased")
  BY <1>2 DEF ClaimOwn, Lease, Claimable
<1> QED
  BY <1>1, <1>2

(* The environment changes no status but that of a revived dead letter.    *)
LEMMA RevivedRows ==
  ASSUME Environment
  PROVE  \A r \in Rows : status'[r] = status[r] \/ (status[r] = "dead" /\ status'[r] = "pending")
  BY DEF Environment, TimePasses, Connect, Disconnect, Start, Stop, Stopped, Crash, Requeue,
         Requeueable, durable

(* Claims append entries of inserted rows to the lanes.                    *)
LEMMA ClaimWF ==
  ASSUME WFInv, Flush \/ \E r \in Rows : ClaimOwn(r)
  PROVE  RowsGrow /\ RowsInOrder' /\ CommandsFit' /\ QueuedInserted'
<1> USE DEF WFInv
<1>1. UNCHANGED <<next, cmd>> /\ next \in Nat /\ toClaim' \subseteq toClaim
  <2>1. next \in Nat
    BY DEF TypeOK, RowsTypeOK
  <2>2. UNCHANGED <<next, cmd>> /\ toClaim' \subseteq toClaim
    BY DEF Flush, ClaimOwn
  <2> QED
    BY <2>1, <2>2
<1>2. \A r \in Rows : status'[r] = status[r] \/ (Live(r) /\ status'[r] = "leased")
  BY ClaimedRows
<1>3. RowsGrow /\ RowsInOrder' /\ CommandsFit'
  BY <1>1, <1>2 DEF RowsGrow, RowsInOrder, CommandsFit, Live
<1>4. ASSUME NEW c \in Conv
      PROVE  \A i \in 1 .. Len(lane'[c]) : lane'[c][i].row <= next
  <2>1. lane[c] \in Seq(Entry) /\ \A i \in 1 .. Len(lane[c]) : lane[c][i].row <= next
    BY DEF TypeOK, LanesTypeOK, QueuedInserted
  <2>2. CASE Flush
    <3>1. PICK q \in Seq(Entry) : /\ lane'[c] = lane[c] \o q
                                  /\ \A i \in 1 .. Len(q) : q[i].row \in Batch
      BY <2>2, FlushLanes
    <3>2. \A r \in Batch : r <= next
      BY <1>1 DEF Batch, Due, Claimable, Live, RowsInOrder, Rows
    <3> QED
      BY <2>1, <3>1, <3>2
  <2>3. ASSUME NEW r \in Rows, ClaimOwn(r)
        PROVE  \A i \in 1 .. Len(lane'[c]) : lane'[c][i].row <= next
    <3> DEFINE e == [row |-> r, attempts |-> attempts[r] + 1, own |-> TRUE]
    <3>1. lane'[c] = lane[c] \/ lane'[c] = Append(lane[c], e)
      BY <2>3 DEF ClaimOwn, TypeOK, LanesTypeOK
    <3>2. e \in Entry /\ e.row <= next
      BY <2>3, EntryType DEF ClaimOwn, QueuedInserted, TypeOK
    <3> HIDE DEF e
    <3> QED
      BY <2>1, <3>1, <3>2
  <2> QED
    BY <2>2, <2>3
<1> QED
  BY <1>1, <1>3, <1>4 DEF QueuedInserted

(* Dispatching only rewrites rows that are already inserted.               *)
LEMMA DispatchWF ==
  ASSUME WFInv, NEW c \in Conv, Dispatch(c)
  PROVE  RowsGrow /\ RowsInOrder' /\ CommandsFit' /\ QueuedInserted'
<1> USE DEF WFInv
<1> DEFINE r == Head1(c).row
<1>0. lane[c] # <<>> /\ r \in Rows /\ r <= next /\ next \in Nat
  <2>1. lane[c] # <<>> /\ lane[c] \in Seq(Entry)
    BY DEF Dispatch, Begin, Send, Complete, SettleFailed, Release, TypeOK, LanesTypeOK
  <2>2. Head(lane[c]) = lane[c][1] /\ 1 \in 1 .. Len(lane[c]) /\ lane[c][1] \in Entry
    BY <2>1
  <2>3. next \in Nat
    BY DEF TypeOK, RowsTypeOK
  <2> QED
    BY <2>1, <2>2, <2>3 DEF QueuedInserted, Head1, Entry
<1> HIDE DEF r
<1>1. UNCHANGED <<next, cmd, toClaim>>
  BY DEF Dispatch, Begin, Send, Complete, SettleFailed, Release, durable
<1>2. \A q \in Rows : status'[q] = status[q] \/ (q = r /\ status'[q] # "none")
  BY <1>0 DEF Dispatch, Begin, Send, Complete, SettleFailed, Release, durable, StoreThrows,
              Settle, TypeOK, RowsTypeOK, r
<1>3. lane' = lane \/ lane' = [lane EXCEPT ![c] = Tail(@)]
  BY DEF Dispatch, Begin, Send, Complete, SettleFailed, Release, Advance, Leave, Then
<1>4. QueuedInserted'
  <2>1. ASSUME NEW d \in Conv, lane' = [lane EXCEPT ![c] = Tail(@)]
        PROVE  \A i \in 1 .. Len(lane'[d]) : lane'[d][i].row <= next
    <3>1. lane[d] \in Seq(Entry) /\ \A i \in 1 .. Len(lane[d]) : lane[d][i].row <= next
      BY DEF TypeOK, LanesTypeOK, QueuedInserted
    <3>2. CASE d = c
      <4>1. lane'[d] = Tail(lane[d]) /\ lane[d] # <<>>
        BY <1>0, <2>1, <3>2 DEF TypeOK, LanesTypeOK
      <4>2. /\ Len(Tail(lane[d])) = Len(lane[d]) - 1 /\ Len(lane[d]) \in Nat
            /\ \A i \in 1 .. Len(Tail(lane[d])) : Tail(lane[d])[i] = lane[d][i + 1]
        BY <3>1, <4>1, HeadTailProperties
      <4>3. ASSUME NEW i \in 1 .. Len(lane'[d])
            PROVE  i + 1 \in 1 .. Len(lane[d]) /\ lane'[d][i] = lane[d][i + 1]
        BY <4>1, <4>2
      <4> QED
        BY <3>1, <4>3
    <3>3. CASE d # c
      <4>1. lane'[d] = lane[d]
        BY <2>1, <3>3 DEF TypeOK, LanesTypeOK
      <4> QED
        BY <3>1, <4>1
    <3> QED
      BY <3>2, <3>3
  <2> QED
    BY <1>1, <1>3, <2>1 DEF QueuedInserted
<1>5. RowsInOrder'
  BY <1>0, <1>1, <1>2 DEF RowsInOrder, Rows
<1> QED
  BY <1>0, <1>1, <1>4, <1>5 DEF RowsGrow, CommandsFit

(* Time, connection, process and operator insert no row.                   *)
LEMMA EnvironmentWF ==
  ASSUME WFInv, Environment
  PROVE  RowsGrow /\ RowsInOrder' /\ CommandsFit' /\ QueuedInserted'
<1> USE DEF WFInv
<1>0. next \in Nat
  BY DEF TypeOK, RowsTypeOK
<1>1. UNCHANGED <<next, cmd>>
  BY DEF Environment, TimePasses, Connect, Disconnect, Start, Stop, Stopped, Crash, Requeue, durable
<1>2. \A r \in Rows : status'[r] = status[r] \/ (status[r] = "dead" /\ status'[r] = "pending")
  BY RevivedRows
<1>3. \/ UNCHANGED <<toClaim, lane>>
      \/ toClaim' = {} /\ lane' = [c \in Conv |-> <<>>]
  BY DEF Environment, TimePasses, Connect, Disconnect, Start, Stop, Stopped, Crash, Requeue, memory
<1>4. QueuedInserted'
  BY <1>1, <1>3 DEF QueuedInserted
<1>5. RowsGrow /\ RowsInOrder' /\ CommandsFit'
  BY <1>0, <1>1, <1>2 DEF RowsGrow, RowsInOrder, CommandsFit
<1> QED
  BY <1>4, <1>5

(* The well-formedness of the table is inductive.                          *)
LEMMA StepWF ==
  ASSUME WFInv, [Next]_vars
  PROVE  WFInv' /\ RowsGrow
<1>1. TypeOK'
  BY ProduceType, ClaimType, FlushType, DispatchType, EnvironmentType, StutterType DEF Next, WFInv
<1>2. CASE UNCHANGED vars
  BY <1>1, <1>2 DEF vars, durable, memory, WFInv, RowsGrow, RowsInOrder, CommandsFit,
                    QueuedInserted, TypeOK, RowsTypeOK
<1> QED
  BY <1>1, <1>2, ProduceWF, ClaimWF, DispatchWF, EnvironmentWF DEF Next, WFInv

(* The empty table is well formed.                                         *)
LEMMA InitWF == Init => WFInv
  BY InitTypeOK DEF Init, WFInv, RowsInOrder, CommandsFit, QueuedInserted, Rows

(* The head of a lane in dispatch is an inserted row.                      *)
LEMMA HeadInserted ==
  ASSUME WFInv, NEW c \in Conv, phase[c] # "idle" \/ lane[c] # <<>>
  PROVE  lane[c] # <<>> /\ Head1(c).row \in Rows /\ Head1(c).row \in 1 .. next
<1>1. lane[c] # <<>> /\ lane[c] \in Seq(Entry)
  BY DEF WFInv, TypeOK, LanesTypeOK
<1>2. Head(lane[c]) = lane[c][1] /\ 1 \in 1 .. Len(lane[c]) /\ lane[c][1] \in Entry
  BY <1>1
<1>3. lane[c][1].row \in Rows /\ lane[c][1].row <= next
  BY <1>2 DEF WFInv, QueuedInserted, Entry
<1>4. next \in Nat
  BY DEF WFInv, TypeOK, RowsTypeOK
<1>5. lane[c][1].row \in 1 .. next
  BY <1>3, <1>4 DEF Rows
<1> QED
  BY <1>1, <1>2, <1>3, <1>5 DEF Head1

-----------------------------------------------------------------------------
(* Settlement: DeliveredOnce is inductive together with the meaning of an    *)
(* acknowledgement in hand.                                                *)

Sent(r) == cmd[r].kind # "partial" => accepted[r] >= 1

AckedAccepted == \A c \in Conv : phase[c] = "acked" => Sent(Head1(c).row)

SettledInv == WFInv /\ AckedAccepted /\ DeliveredOnce

(* Claims join a lane at its end: the head in dispatch stays the head.     *)
LEMMA ClaimKeepsHeads ==
  ASSUME TypeOK, Flush \/ \E r \in Rows : ClaimOwn(r)
  PROVE  \A c \in Conv : lane[c] # <<>> => Head(lane'[c]) = Head(lane[c])
<1> USE DEF TypeOK, LanesTypeOK
<1>1. ASSUME NEW r \in Rows, ClaimOwn(r), NEW c \in Conv, lane[c] # <<>>
      PROVE  Head(lane'[c]) = Head(lane[c])
  <2> DEFINE e == [row |-> r, attempts |-> attempts[r] + 1, own |-> TRUE]
  <2>1. lane'[c] = lane[c] \/ lane'[c] = Append(lane[c], e)
    BY <1>1 DEF ClaimOwn
  <2>2. e \in Entry
    BY EntryType
  <2> HIDE DEF e
  <2> QED
    BY <1>1, <2>1, <2>2
<1>2. ASSUME Flush, NEW c \in Conv, lane[c] # <<>>
      PROVE  Head(lane'[c]) = Head(lane[c])
  <2>1. PICK q \in Seq(Entry) : lane'[c] = lane[c] \o q
    BY <1>2, FlushLanes
  <2> QED
    BY <1>2, <2>1
<1> QED
  BY <1>1, <1>2

(* Steps that keep the heads in dispatch, and take back nothing the remote   *)
(* side accepted, keep the acknowledgements.                               *)
HeadsKept(p) == \A c \in Conv : phase'[c] = p => phase[c] = p /\ Head(lane'[c]) = Head(lane[c])

NothingUnsent == \A r \in Rows : accepted[r] >= 1 => accepted'[r] >= 1

(* A step that leaves lanes and acceptances alone keeps AckedAccepted.     *)
LEMMA AckedKept ==
  ASSUME WFInv, RowsGrow, AckedAccepted, NothingUnsent, HeadsKept("acked")
  PROVE  AckedAccepted'
<1> SUFFICES ASSUME NEW c \in Conv, phase'[c] = "acked" PROVE Sent(Head1(c).row)'
  BY DEF AckedAccepted
<1>1. phase[c] = "acked" /\ Head1(c)' = Head1(c)
  BY DEF HeadsKept, Head1
<1>2. Head1(c).row \in Rows /\ Head1(c).row \in 1 .. next /\ Sent(Head1(c).row)
  BY <1>1, HeadInserted DEF AckedAccepted
<1> QED
  BY <1>1, <1>2 DEF RowsGrow, NothingUnsent, Sent

(* Leaving a lane keeps the acknowledged heads of the others.              *)
LEMMA LeaveKeeps ==
  ASSUME TypeOK, NEW c \in Conv, NEW p \in Phase \ {"idle"},
         Leave(c) \/ \E q \in Phase \ {p} : Advance(c, q)
  PROVE  HeadsKept(p)
  BY DEF Leave, Advance, TypeOK, LanesTypeOK, HeadsKept

(* Rows whose verdict and receipts a step leaves alone stay settled.        *)
LEMMA VerdictsKept ==
  ASSUME WFInv, RowsGrow, DeliveredOnce, NothingUnsent, UNCHANGED receipts,
         \A r \in Rows : \/ status'[r] = status[r]
                         \/ status[r] # "delivered" /\ status'[r] # "delivered"
  PROVE  DeliveredOnce'
<1> SUFFICES ASSUME NEW r \in Rows
             PROVE  /\ status'[r] = "delivered" /\ cmd'[r].kind # "partial" => accepted'[r] >= 1
                    /\ receipts'[r] = IF status'[r] = "delivered" THEN 1 ELSE 0
  BY DEF DeliveredOnce
<1>1. receipts'[r] = IF status'[r] = "delivered" THEN 1 ELSE 0
  BY DEF DeliveredOnce
<1>2. ASSUME status'[r] = "delivered" PROVE cmd'[r] = cmd[r] /\ status[r] = "delivered"
  <2>1. status[r] = "delivered"
    BY <1>2
  <2>2. r \in 1 .. next
    BY <2>1 DEF WFInv, RowsInOrder, TypeOK, RowsTypeOK, Rows
  <2> QED
    BY <2>1, <2>2 DEF RowsGrow
<1> QED
  BY <1>1, <1>2 DEF DeliveredOnce, NothingUnsent

(* Producers write no receipt and deliver no row.                          *)
LEMMA ProduceSettled ==
  ASSUME SettledInv, Produce
  PROVE  AckedAccepted' /\ DeliveredOnce'
<1> USE DEF SettledInv
<1>1. RowsGrow
  BY ProduceWF
<1>2. ASSUME NEW k \in Kind, NEW x \in Subject, Insert(k, x)
      PROVE  AckedAccepted' /\ DeliveredOnce'
  <2>1. \A r \in Rows : \/ status'[r] = status[r]
                        \/ status[r] # "delivered" /\ status'[r] # "delivered"
    BY <1>2, InsertedRow DEF Insert, Outdates
  <2>2. NothingUnsent /\ HeadsKept("acked") /\ UNCHANGED receipts
    BY <1>2 DEF Insert, NothingUnsent, HeadsKept
  <2> QED
    BY <1>1, <2>1, <2>2, AckedKept, VerdictsKept
<1>3. ASSUME UNCHANGED <<status, receipts, accepted, lane, phase>>
      PROVE  AckedAccepted' /\ DeliveredOnce'
  <2>1. NothingUnsent /\ HeadsKept("acked")
    BY <1>3 DEF NothingUnsent, HeadsKept
  <2> QED
    BY <1>1, <1>3, <2>1, AckedKept, VerdictsKept
<1>4. ASSUME NEW x \in Run, RunOver(x)
      PROVE  AckedAccepted' /\ DeliveredOnce'
  <2>1. \A r \in Rows : \/ status'[r] = status[r]
                        \/ status[r] # "delivered" /\ status'[r] # "delivered"
    BY <1>4 DEF RunOver
  <2>2. NothingUnsent /\ HeadsKept("acked") /\ UNCHANGED receipts
    BY <1>4 DEF RunOver, NothingUnsent, HeadsKept
  <2> QED
    BY <1>1, <2>1, <2>2, AckedKept, VerdictsKept
<1> QED
  BY <1>2, <1>3, <1>4, ProduceInserts

(* Claiming writes no receipt and delivers no row.                         *)
LEMMA ClaimSettled ==
  ASSUME SettledInv, Flush \/ \E r \in Rows : ClaimOwn(r)
  PROVE  AckedAccepted' /\ DeliveredOnce'
<1> USE DEF SettledInv
<1>1. RowsGrow
  BY ClaimWF
<1>2. \A r \in Rows : status'[r] = status[r] \/ (Live(r) /\ status'[r] = "leased")
  BY ClaimedRows
<1>3. UNCHANGED <<receipts, accepted, phase>>
  BY DEF Flush, ClaimOwn, budget
<1>4. NothingUnsent /\ HeadsKept("acked")
  BY <1>3, ClaimKeepsHeads DEF NothingUnsent, HeadsKept, WFInv, TypeOK, LanesTypeOK
<1>5. \A r \in Rows : \/ status'[r] = status[r]
                      \/ status[r] # "delivered" /\ status'[r] # "delivered"
  BY <1>2 DEF Live
<1> QED
  BY <1>1, <1>3, <1>4, <1>5, AckedKept, VerdictsKept

(* The remote side's count of a row only grows.                            *)
LEMMA AcceptGrows ==
  ASSUME TypeOK, NEW r \in Rows, Accept(r)
  PROVE  NothingUnsent /\ accepted'[r] >= 1
  BY DEF Accept, TypeOK, RowsTypeOK, MaxAccepted, NothingUnsent

(* Dispatching delivers a row only once, after its acceptance.             *)
LEMMA DispatchSettled ==
  ASSUME SettledInv, NEW c \in Conv, Dispatch(c)
  PROVE  AckedAccepted' /\ DeliveredOnce'
<1> USE DEF SettledInv
<1> DEFINE r == Head1(c).row
<1>0. RowsGrow /\ TypeOK
  BY DispatchWF DEF WFInv
<1>1. lane[c] # <<>> /\ r \in Rows /\ r \in 1 .. next
  <2>1. phase[c] # "idle" \/ lane[c] # <<>>
    BY DEF Dispatch, Begin, Send, Complete, SettleFailed, Release
  <2> QED
    BY <2>1, HeadInserted
<1> HIDE DEF r
<1>2. ASSUME UNCHANGED <<status, receipts>>, NothingUnsent
      PROVE  DeliveredOnce'
  BY <1>0, <1>2, VerdictsKept
<1>3. ASSUME NEW s \in Status \ {"delivered"}, Holds(r), Settle(r, s), UNCHANGED <<receipts, accepted>>
      PROVE  DeliveredOnce'
  <2>1. \A q \in Rows : \/ status'[q] = status[q]
                        \/ status[q] # "delivered" /\ status'[q] # "delivered"
    BY <1>1, <1>3 DEF Settle, Holds, WFInv, TypeOK, RowsTypeOK
  <2>2. NothingUnsent
    BY <1>3 DEF NothingUnsent
  <2> QED
    BY <1>0, <1>3, <2>1, <2>2, VerdictsKept
<1>4. Then(c, r) => Leave(c) \/ (\E p \in Phase \ {"acked"} : Advance(c, p))
  BY DEF Then, Phase
<1>5. ASSUME Leave(c) \/ (\E p \in Phase \ {"acked"} : Advance(c, p)), UNCHANGED accepted
      PROVE  AckedAccepted' /\ NothingUnsent
  <2>1. HeadsKept("acked") /\ NothingUnsent
    BY <1>0, <1>5, LeaveKeeps DEF NothingUnsent, Phase
  <2> QED
    BY <1>0, <2>1, AckedKept
<1>6. CASE Begin(c)
  <2>1. AckedAccepted' /\ NothingUnsent
    BY <1>5, <1>6 DEF Begin, Phase
  <2>2. CASE Holds(r) /\ Settle(r, "superseded") /\ UNCHANGED receipts
    BY <1>3, <1>6, <2>1, <2>2 DEF Begin, Status
  <2>3. CASE UNCHANGED <<status, owner, ripe, receipts>>
    BY <1>2, <2>1, <2>3
  <2> QED
    BY <1>6, <2>1, <2>2, <2>3 DEF Begin, StoreThrows, r
<1>7. CASE Send(c)
  <2>1. UNCHANGED <<status, receipts, lane>>
    BY <1>7 DEF Send, durable, Advance
  <2>2. NothingUnsent
    <3>1. Accept(r) \/ UNCHANGED accepted
      BY <1>7 DEF Send, r
    <3>2. CASE UNCHANGED accepted
      BY <3>2 DEF NothingUnsent
    <3> QED
      BY <1>0, <1>1, <3>1, <3>2, AcceptGrows
  <2>3. CASE phase' = [phase EXCEPT ![c] = "failed"]
    <3>1. HeadsKept("acked")
      BY <2>1, <2>3 DEF HeadsKept, WFInv, TypeOK, LanesTypeOK
    <3> QED
      BY <1>0, <1>2, <2>1, <2>2, <3>1, AckedKept
  <2>4. CASE phase' = [phase EXCEPT ![c] = "acked"]
    <3>1. Sent(r)'
      <4>1. cmd'[r] = cmd[r]
        BY <1>0, <1>1 DEF RowsGrow
      <4>2. r' = r
        BY <2>1 DEF r, Head1
      <4>3. Accept(r) \/ cmd[r].kind = "partial"
        BY <1>1, <1>7, <2>4 DEF Send, Advance, r, WFInv, TypeOK, LanesTypeOK
      <4> QED
        BY <1>0, <1>1, <4>1, <4>2, <4>3, AcceptGrows DEF Sent
    <3>2. ASSUME NEW d \in Conv, phase'[d] = "acked", d # c
          PROVE  Sent(Head1(d).row)'
      <4>1. phase[d] = "acked" /\ Head1(d)' = Head1(d)
        BY <2>1, <2>4, <3>2 DEF Head1, WFInv, TypeOK, LanesTypeOK
      <4>2. Head1(d).row \in Rows /\ Head1(d).row \in 1 .. next /\ Sent(Head1(d).row)
        BY <4>1, HeadInserted DEF AckedAccepted
      <4> QED
        BY <1>0, <2>2, <4>1, <4>2 DEF RowsGrow, NothingUnsent, Sent
    <3>3. Head1(c)' = Head1(c)
      BY <2>1 DEF Head1
    <3>4. AckedAccepted'
      BY <3>1, <3>2, <3>3 DEF AckedAccepted, r
    <3> QED
      BY <1>2, <2>1, <2>2, <3>4
  <2> QED
    BY <1>7, <2>3, <2>4 DEF Send, Advance
<1>8. CASE Complete(c)
  <2>1. AckedAccepted' /\ NothingUnsent
    BY <1>4, <1>5, <1>8 DEF Complete, r
  <2>2. CASE Holds(r) /\ Settle(r, "delivered") /\ receipts' = [receipts EXCEPT ![r] = @ + 1]
    <3>1. Sent(r) /\ cmd' = cmd /\ accepted' = accepted
      BY <1>8 DEF Complete, AckedAccepted, r
    <3>2. /\ status' = [status EXCEPT ![r] = "delivered"] /\ receipts[r] = 0
          /\ receipts \in [Rows -> Nat] /\ status \in [Rows -> Status]
      BY <1>1, <2>2 DEF Settle, Holds, DeliveredOnce, WFInv, TypeOK, RowsTypeOK
    <3> QED
      BY <1>1, <2>1, <2>2, <3>1, <3>2 DEF DeliveredOnce, Sent
  <2>3. CASE UNCHANGED <<status, owner, ripe, receipts>>
    BY <1>2, <2>1, <2>3
  <2> QED
    BY <1>8, <2>1, <2>2, <2>3 DEF Complete, StoreThrows, r
<1>9. CASE SettleFailed(c)
  <2>1. AckedAccepted' /\ NothingUnsent
    BY <1>4, <1>5, <1>9 DEF SettleFailed, r
  <2>2. CASE Holds(r) /\ (Settle(r, "dead") \/ Settle(r, "pending")) /\ UNCHANGED receipts
    BY <1>3, <1>9, <2>1, <2>2 DEF SettleFailed, Status
  <2>3. CASE UNCHANGED <<status, owner, ripe, receipts>>
    BY <1>2, <2>1, <2>3
  <2> QED
    BY <1>9, <2>1, <2>2, <2>3 DEF SettleFailed, StoreThrows, r
<1>10. CASE Release(c)
  <2>1. AckedAccepted' /\ NothingUnsent
    BY <1>5, <1>10 DEF Release
  <2> QED
    BY <1>2, <1>10, <2>1 DEF Release, durable
<1> QED
  BY <1>6, <1>7, <1>8, <1>9, <1>10 DEF Dispatch

(* Neither time nor a crash nor a requeue touches a receipt.               *)
LEMMA EnvironmentSettled ==
  ASSUME SettledInv, Environment
  PROVE  AckedAccepted' /\ DeliveredOnce'
<1> USE DEF SettledInv
<1>1. RowsGrow
  BY EnvironmentWF
<1>2. \A r \in Rows : status'[r] = status[r] \/ (status[r] = "dead" /\ status'[r] = "pending")
  BY RevivedRows
<1>3. UNCHANGED <<receipts, accepted>>
  BY DEF Environment, TimePasses, Connect, Disconnect, Start, Stop, Stopped, Crash, Requeue, durable
<1>4. UNCHANGED <<lane, phase>> \/ phase' = [c \in Conv |-> "idle"]
  BY DEF Environment, TimePasses, Connect, Disconnect, Start, Stop, Stopped, Crash, Requeue, memory
<1>5. NothingUnsent /\ HeadsKept("acked")
  BY <1>3, <1>4 DEF NothingUnsent, HeadsKept
<1>6. \A r \in Rows : \/ status'[r] = status[r]
                      \/ status[r] # "delivered" /\ status'[r] # "delivered"
  BY <1>2
<1> QED
  BY <1>1, <1>3, <1>5, <1>6, AckedKept, VerdictsKept

(* The invariant behind DeliveredOnce holds throughout.                    *)
LEMMA SpecSettled == Spec => []SettledInv
<1>1. Init => SettledInv
  BY InitWF DEF Init, SettledInv, AckedAccepted, DeliveredOnce
<1>2. SettledInv /\ [Next]_vars => SettledInv'
  <2> SUFFICES ASSUME SettledInv, [Next]_vars PROVE SettledInv'
    OBVIOUS
  <2>1. WFInv' /\ RowsGrow
    BY StepWF DEF SettledInv
  <2>2. CASE UNCHANGED vars
    <3>1. UNCHANGED <<cmd, status, receipts, accepted, lane, phase>>
      BY <2>2 DEF vars, durable, memory
    <3> QED
      BY <2>1, <3>1 DEF SettledInv, AckedAccepted, DeliveredOnce, Sent, Head1
  <2> QED
    BY <2>1, <2>2, ProduceSettled, ClaimSettled, DispatchSettled, EnvironmentSettled
       DEF Next, SettledInv
<1> QED
  BY <1>1, <1>2, PTL DEF Spec

(* A row marked delivered was accepted by the remote side (unless it is a    *)
(* partial frame), and the journal holds one receipt for it and none for any *)
(* other row, whatever crashes, lost leases, stale entries and requeues the  *)
(* run has seen.                                                           *)
THEOREM OutboxDeliveredOnce == Spec => []DeliveredOnce
<1>1. SettledInv => DeliveredOnce
  BY DEF SettledInv
<1> QED
  BY SpecSettled, <1>1, PTL

-----------------------------------------------------------------------------
(* Media: an artifact stays in the spool for as long as its row may still be *)
(* sent.  The argument: an artifact belongs to one row or is still staged,   *)
(* and a lane that releases an artifact has settled its row for good.      *)

ReleasedSettled ==
  \A c \in Conv : phase[c] = "releasing" =>
    cmd[Head1(c).row].kind = "media" /\ status[Head1(c).row] \in {"delivered", "dead"}

OneRowPerArtifact ==
  \A r, q \in 1 .. next : cmd[r].kind = "media" /\ cmd[q].of = cmd[r].of => q = r

StagedFresh ==
  /\ staged \subseteq spool
  /\ \A a \in staged : Unused(a)
  /\ mode = "down" => staged = {}

RetainedInv == WFInv /\ ReleasedSettled /\ OneRowPerArtifact /\ StagedFresh /\ ArtifactRetained

(* The verdict on a media row never changes.                               *)
MediaVerdictsKept ==
  \A r \in 1 .. next : cmd[r].kind = "media" /\ status[r] \in {"delivered", "dead"}
                       => status'[r] = status[r]

(* No row comes to life, and no live media row loses its artifact.          *)
NoNewDebt ==
  \A r \in Rows : Live(r)' =>
    Live(r) /\ (cmd[r].kind = "media" /\ cmd[r].of \in spool => cmd[r].of \in spool')

(* After an insertion the inserted rows are 1 .. next.                     *)
LEMMA InsertedRange ==
  ASSUME WFInv
  PROVE  /\ next \in Nat /\ 1 .. next \subseteq Rows
         /\ \A r \in Rows : r \in 1 .. next <=> status[r] # "none"
         /\ \A r \in Rows : Live(r) => r \in 1 .. next
<1>1. next \in Nat /\ 1 .. next \subseteq Rows
  BY DEF WFInv, TypeOK, RowsTypeOK, Rows
<1>2. \A r \in Rows : r \in 1 .. next <=> status[r] # "none"
  BY <1>1 DEF WFInv, RowsInOrder, Rows
<1> QED
  BY <1>1, <1>2 DEF Live

(* A release in progress stays settled while its row is untouched.         *)
LEMMA ReleasedKept ==
  ASSUME WFInv, RowsGrow, ReleasedSettled, HeadsKept("releasing"), MediaVerdictsKept
  PROVE  ReleasedSettled'
<1> SUFFICES ASSUME NEW c \in Conv, phase'[c] = "releasing"
             PROVE  /\ cmd'[Head1(c)'.row].kind = "media"
                    /\ status'[Head1(c)'.row] \in {"delivered", "dead"}
  BY DEF ReleasedSettled
<1>1. phase[c] = "releasing" /\ Head1(c)' = Head1(c)
  BY DEF HeadsKept, Head1
<1>2. Head1(c).row \in 1 .. next
  BY <1>1, HeadInserted
<1> QED
  BY <1>1, <1>2 DEF RowsGrow, MediaVerdictsKept, ReleasedSettled

(* One row per artifact survives a step that changes no command.           *)
LEMMA OwnedKept ==
  ASSUME WFInv, RowsGrow, OneRowPerArtifact, next' = next
  PROVE  OneRowPerArtifact'
  BY DEF RowsGrow, OneRowPerArtifact

(* Artifacts stay in the spool while no row comes back to life.            *)
LEMMA DebtKept ==
  ASSUME WFInv, RowsGrow, ArtifactRetained, NoNewDebt
  PROVE  ArtifactRetained'
<1> SUFFICES ASSUME NEW r \in Rows, Live(r)', cmd'[r].kind = "media"
             PROVE  cmd'[r].of \in spool'
  BY DEF ArtifactRetained
<1>1. Live(r)
  BY DEF NoNewDebt
<1>2. cmd'[r] = cmd[r]
  BY <1>1, InsertedRange DEF RowsGrow
<1> QED
  BY <1>1, <1>2 DEF ArtifactRetained, NoNewDebt

(* A row of a producer that stages nothing, and a row of a staged artifact.  *)
LEMMA InsertRetains ==
  ASSUME RetainedInv, NEW k \in Kind, NEW x \in Subject, Fits(k, x), Insert(k, x), spool' = spool,
         (k # "media" /\ staged' = staged) \/ (x \in staged /\ staged' = staged \ {x})
  PROVE  ReleasedSettled' /\ OneRowPerArtifact' /\ StagedFresh' /\ ArtifactRetained'
<1> USE DEF RetainedInv
<1>1. RowsGrow
  BY InsertGrows
<1>2. /\ next' = next + 1 /\ next' \in Rows /\ status[next'] = "none"
      /\ status'[next'] = "pending" /\ cmd'[next'] = [kind |-> k, of |-> x]
      /\ \A r \in Rows \ {next'} :
            /\ cmd'[r] = cmd[r]
            /\ \/ status'[r] = status[r]
               \/ status[r] = "pending" /\ IsReply(r) /\ status'[r] = "superseded"
  BY InsertedRow, Zenon
<1>3. \A r \in 1 .. next : r \in Rows \ {next'}
  BY <1>2, InsertedRange
<1>4. ReleasedSettled'
  <2>1. MediaVerdictsKept
    BY <1>2, <1>3 DEF MediaVerdictsKept
  <2>2. HeadsKept("releasing")
    BY DEF Insert, HeadsKept
  <2> QED
    BY <1>1, <2>1, <2>2, ReleasedKept
<1>5. \A r \in 1 .. next : cmd[r].of # x \/ (cmd[r].kind # "media" /\ k # "media")
  <2>1. CASE x \in staged
    BY <2>1, InsertedRange DEF StagedFresh, Unused
  <2>2. CASE k # "media"
    BY <2>2 DEF WFInv, CommandsFit, Fits
  <2> QED
    BY <2>1, <2>2
<1>6. OneRowPerArtifact'
  <2>1. \A r \in 1 .. next' : r = next' \/ r \in 1 .. next
    BY <1>2, InsertedRange
  <2>2. next' \notin 1 .. next
    BY <1>3
  <2> QED
    BY <1>2, <1>3, <1>5, <2>1, <2>2 DEF OneRowPerArtifact
<1>7. StagedFresh'
  <2>1. \A a \in staged' : a # x
    BY DEF Fits, TypeOK, WFInv, ProcessTypeOK
  <2>2. ASSUME NEW a \in staged' PROVE Unused(a)'
    <3>1. a \in staged /\ Unused(a)
      BY DEF StagedFresh
    <3>2. ASSUME NEW r \in Rows, status'[r] # "none" PROVE cmd'[r].of # a
      <4>1. CASE r = next'
        BY <1>2, <2>1, <4>1
      <4>2. CASE r # next'
        BY <1>2, <3>1, <3>2, <4>2 DEF Unused
      <4> QED
        BY <4>1, <4>2
    <3> QED
      BY <3>2 DEF Unused
  <2>3. staged' \subseteq spool' /\ (mode' = "down" => staged' = {})
    BY DEF Insert, StagedFresh
  <2> QED
    BY <2>2, <2>3 DEF StagedFresh
<1>8. ArtifactRetained'
  <2> SUFFICES ASSUME NEW r \in Rows, Live(r)', cmd'[r].kind = "media"
               PROVE  cmd'[r].of \in spool'
    BY DEF ArtifactRetained
  <2>1. CASE r = next'
    <3>1. k = "media"
      BY <1>2, <2>1
    <3> QED
      BY <1>2, <2>1, <3>1 DEF StagedFresh
  <2>2. CASE r # next'
    <3>1. Live(r) /\ cmd'[r] = cmd[r]
      BY <1>2, <2>2 DEF Live
    <3> QED
      BY <3>1 DEF ArtifactRetained
  <2> QED
    BY <2>1, <2>2
<1> QED
  BY <1>4, <1>6, <1>7, <1>8

(* Producers stage an artifact before its row and never after it.          *)
LEMMA ProduceRetains ==
  ASSUME RetainedInv, Produce
  PROVE  ReleasedSettled' /\ OneRowPerArtifact' /\ StagedFresh' /\ ArtifactRetained'
<1> USE DEF RetainedInv
<1>1. RowsGrow
  BY ProduceWF
<1>2. ASSUME NEW s \in Stream, Update(s) \/ CloseReply(s)
      PROVE  ReleasedSettled' /\ OneRowPerArtifact' /\ StagedFresh' /\ ArtifactRetained'
  <2>1. Fits("partial", s) /\ Fits("final", s) /\ s \in Subject
    BY DEF Fits, Subject
  <2>2. "partial" \in Kind /\ "final" \in Kind
    BY DEF Kind
  <2> QED
    BY <1>2, <2>1, <2>2, InsertRetains DEF Update, CloseReply
<1>3. ASSUME NEW n \in Note, SendProactiveText(n)
      PROVE  ReleasedSettled' /\ OneRowPerArtifact' /\ StagedFresh' /\ ArtifactRetained'
  <2>1. Fits("text", n) /\ n \in Subject /\ "text" \in Kind
    BY DEF Fits, Subject, Kind
  <2> QED
    BY <1>3, <2>1, InsertRetains DEF SendProactiveText
<1>4. ASSUME NEW x \in Run, PresentRunControl(x)
      PROVE  ReleasedSettled' /\ OneRowPerArtifact' /\ StagedFresh' /\ ArtifactRetained'
  <2>1. Fits("card", x) /\ x \in Subject /\ "card" \in Kind
    BY DEF Fits, Subject, Kind
  <2> QED
    BY <1>4, <2>1, InsertRetains DEF PresentRunControl
<1>5. ASSUME UNCHANGED <<next, cmd, lane, phase>>,
             \A r \in Rows : \/ status'[r] = status[r]
                             \/ status[r] = "pending" /\ status'[r] = "superseded"
      PROVE  /\ ReleasedSettled' /\ OneRowPerArtifact'
             /\ \A r \in Rows : Live(r)' => Live(r)
             /\ \A a \in Artifact : Unused(a) => Unused(a)'
  <2>1. HeadsKept("releasing") /\ MediaVerdictsKept
    BY <1>5, InsertedRange DEF HeadsKept, MediaVerdictsKept
  <2>2. \A r \in Rows : Live(r)' => Live(r)
    BY <1>5 DEF Live
  <2>3. \A a \in Artifact : Unused(a) => Unused(a)'
    BY <1>5 DEF Unused
  <2> QED
    BY <1>1, <1>5, <2>1, <2>2, <2>3, ReleasedKept, OwnedKept
<1>6. ASSUME NEW a \in Artifact, EnqueueMedia(a)
      PROVE  ReleasedSettled' /\ OneRowPerArtifact' /\ StagedFresh' /\ ArtifactRetained'
  <2>1. CASE Insert("media", a) /\ UNCHANGED spool
    <3>1. Fits("media", a) /\ a \in Subject /\ "media" \in Kind
      BY DEF Fits, Subject, Kind
    <3> QED
      BY <1>6, <2>1, <3>1, InsertRetains DEF EnqueueMedia
  <2>2. CASE spool' = spool \ {a} /\ UNCHANGED <<durable, mode, lane, phase>>
    <3>1. UNCHANGED <<next, cmd, status, mode, lane, phase>> /\ staged' = staged \ {a}
      BY <1>6, <2>2 DEF EnqueueMedia, durable
    <3>2. \A r \in Rows : Live(r) => cmd[r].of # a
      BY <1>6 DEF EnqueueMedia, StagedFresh, Unused, Live
    <3>3. NoNewDebt
      BY <1>5, <2>2, <3>1, <3>2 DEF NoNewDebt
    <3>4. StagedFresh'
      BY <1>5, <2>2, <3>1 DEF StagedFresh, WFInv, TypeOK, ProcessTypeOK
    <3> QED
      BY <1>1, <1>5, <3>1, <3>3, <3>4, DebtKept
  <2> QED
    BY <1>6, <2>1, <2>2 DEF EnqueueMedia
<1>7. ASSUME NEW a \in Artifact, StageMedia(a)
      PROVE  ReleasedSettled' /\ OneRowPerArtifact' /\ StagedFresh' /\ ArtifactRetained'
  <2>1. /\ UNCHANGED <<next, cmd, status, mode, lane, phase>> /\ Unused(a) /\ mode # "down"
        /\ staged' = staged \cup {a} /\ spool' = spool \cup {a}
    BY <1>7 DEF StageMedia, durable, Running
  <2>2. NoNewDebt
    BY <1>5, <2>1 DEF NoNewDebt
  <2>3. StagedFresh'
    BY <1>5, <2>1 DEF StagedFresh, WFInv, TypeOK, ProcessTypeOK
  <2> QED
    BY <1>1, <1>5, <2>1, <2>2, <2>3, DebtKept
<1>8. ASSUME NEW x \in Run, ControlStale(x) \/ RunOver(x)
      PROVE  ReleasedSettled' /\ OneRowPerArtifact' /\ StagedFresh' /\ ArtifactRetained'
  <2>1. UNCHANGED <<next, cmd, lane, phase, mode, spool, staged>>
    BY <1>8 DEF ControlStale, RunOver, durable
  <2>2. \A r \in Rows : \/ status'[r] = status[r]
                        \/ status[r] = "pending" /\ status'[r] = "superseded"
    BY <1>8 DEF ControlStale, RunOver, durable
  <2>3. NoNewDebt
    BY <1>5, <2>1, <2>2 DEF NoNewDebt
  <2>4. StagedFresh'
    BY <1>5, <2>1, <2>2 DEF StagedFresh, WFInv, TypeOK, ProcessTypeOK
  <2> QED
    BY <1>1, <1>5, <2>1, <2>2, <2>3, <2>4, DebtKept
<1> QED
  BY <1>2, <1>3, <1>4, <1>6, <1>7, <1>8 DEF Produce

(* Claiming a media row leaves its artifact in the spool.                  *)
LEMMA ClaimRetains ==
  ASSUME RetainedInv, Flush \/ \E r \in Rows : ClaimOwn(r)
  PROVE  ReleasedSettled' /\ OneRowPerArtifact' /\ StagedFresh' /\ ArtifactRetained'
<1> USE DEF RetainedInv
<1>1. RowsGrow /\ \A r \in Rows : status'[r] = status[r] \/ (Live(r) /\ status'[r] = "leased")
  BY ClaimWF, ClaimedRows
<1>2. UNCHANGED <<next, cmd, spool, staged, mode, phase>>
  BY DEF Flush, ClaimOwn
<1>3. HeadsKept("releasing")
  BY <1>2, ClaimKeepsHeads DEF HeadsKept, WFInv, TypeOK, LanesTypeOK
<1>4. MediaVerdictsKept /\ NoNewDebt
  BY <1>1, <1>2, InsertedRange DEF MediaVerdictsKept, NoNewDebt, Live
<1>5. StagedFresh'
  BY <1>1, <1>2 DEF StagedFresh, Unused, Live
<1> QED
  BY <1>1, <1>2, <1>3, <1>4, <1>5, ReleasedKept, OwnedKept, DebtKept

(* Dispatching releases an artifact only after its row is settled.         *)
LEMMA DispatchRetains ==
  ASSUME RetainedInv, NEW c \in Conv, Dispatch(c)
  PROVE  ReleasedSettled' /\ OneRowPerArtifact' /\ StagedFresh' /\ ArtifactRetained'
<1> USE DEF RetainedInv
<1> DEFINE r == Head1(c).row
<1>0. RowsGrow /\ TypeOK
  BY DispatchWF DEF WFInv
<1>1. lane[c] # <<>> /\ r \in Rows /\ r \in 1 .. next
  <2>1. phase[c] # "idle" \/ lane[c] # <<>>
    BY DEF Dispatch, Begin, Send, Complete, SettleFailed, Release
  <2> QED
    BY <2>1, HeadInserted
<1> HIDE DEF r
<1>2. UNCHANGED <<next, cmd, staged, mode>>
  BY DEF Dispatch, Begin, Send, Complete, SettleFailed, Release, durable
<1>3. \A q \in Rows : status'[q] = status[q] \/ (q = r /\ Holds(r) /\ status'[r] # "none")
  BY <1>1 DEF Dispatch, Begin, Send, Complete, SettleFailed, Release, durable, StoreThrows,
              Settle, TypeOK, RowsTypeOK, r, WFInv
<1>4. MediaVerdictsKept
  BY <1>3, InsertedRange DEF MediaVerdictsKept, Holds
<1>5. (\A q \in Rows : Live(q)' => Live(q)) /\ \A a \in Artifact : Unused(a) => Unused(a)'
  BY <1>2, <1>3 DEF Live, Holds, Unused
<1>6. OneRowPerArtifact'
  BY <1>0, <1>2, OwnedKept
<1>7. CASE spool' = spool
  <2>1. NoNewDebt
    BY <1>5, <1>7 DEF NoNewDebt
  <2>2. StagedFresh'
    BY <1>2, <1>5, <1>7 DEF StagedFresh, TypeOK, WFInv, ProcessTypeOK
  <2>3. ReleasedSettled'
    <3>1. CASE HeadsKept("releasing")
      BY <1>0, <1>4, <3>1, ReleasedKept
    <3>2. CASE /\ phase' = [phase EXCEPT ![c] = "releasing"] /\ lane' = lane
               /\ cmd[r].kind = "media" /\ status'[r] \in {"delivered", "dead"}
      <4>1. Head1(c)' = Head1(c)
        BY <3>2 DEF Head1
      <4>2. ASSUME NEW d \in Conv, d # c, phase'[d] = "releasing"
            PROVE  /\ cmd'[Head1(d)'.row].kind = "media"
                   /\ status'[Head1(d)'.row] \in {"delivered", "dead"}
        <5>1. phase[d] = "releasing" /\ Head1(d)' = Head1(d)
          BY <3>2, <4>2 DEF Head1, TypeOK, LanesTypeOK
        <5>2. Head1(d).row \in 1 .. next
          BY <5>1, HeadInserted
        <5> QED
          BY <1>2, <1>4, <5>1, <5>2 DEF ReleasedSettled, MediaVerdictsKept
      <4> QED
        BY <1>2, <3>2, <4>1, <4>2 DEF ReleasedSettled, r
    <3>3. HeadsKept("releasing") \/ (Then(c, r) /\ status'[r] \in {"delivered", "dead"})
      <4>1. Leave(c) \/ (\E q \in Phase \ {"releasing"} : Advance(c, q)) => HeadsKept("releasing")
        BY <1>0, LeaveKeeps DEF Phase
      <4>2. Settle(r, "delivered") => status'[r] = "delivered"
        BY <1>0, <1>1 DEF Settle, TypeOK, RowsTypeOK
      <4>3. Settle(r, "dead") => status'[r] = "dead"
        BY <1>0, <1>1 DEF Settle, TypeOK, RowsTypeOK
      <4>4. "sending" \in Phase \ {"releasing"} /\ "failed" \in Phase \ {"releasing"}
            /\ "acked" \in Phase \ {"releasing"}
        BY DEF Phase
      <4> QED
        BY <4>1, <4>2, <4>3, <4>4 DEF Dispatch, Begin, Send, Complete, SettleFailed, Release, r
    <3>4. Then(c, r) /\ ~HeadsKept("releasing") =>
            phase' = [phase EXCEPT ![c] = "releasing"] /\ lane' = lane /\ cmd[r].kind = "media"
      BY <1>0, LeaveKeeps DEF Then, Advance, Phase
    <3> QED
      BY <3>1, <3>2, <3>3, <3>4
  <2> QED
    BY <1>0, <1>6, <2>1, <2>2, <2>3, DebtKept
<1>8. CASE Release(c) /\ spool' = spool \ {cmd[r].of}
  <2>1. cmd[r].kind = "media" /\ status[r] \in {"delivered", "dead"} /\ UNCHANGED status
    BY <1>8 DEF Release, ReleasedSettled, durable, r
  <2>2. \A q \in Rows : Live(q) => cmd[q].of # cmd[r].of
    BY <1>1, <2>1, InsertedRange DEF OneRowPerArtifact, Live
  <2>3. NoNewDebt
    BY <1>5, <1>8, <2>2, <2>1 DEF NoNewDebt, Live
  <2>4. StagedFresh'
    <3>1. cmd[r].of \notin staged
      BY <1>1, <2>1 DEF StagedFresh, Unused
    <3> QED
      BY <1>2, <1>5, <1>8, <3>1 DEF StagedFresh, TypeOK, WFInv, ProcessTypeOK
  <2>5. ReleasedSettled'
    <3>1. HeadsKept("releasing")
      BY <1>8, <1>0, <1>1 DEF Release, Leave, HeadsKept, TypeOK, LanesTypeOK
    <3> QED
      BY <1>0, <1>4, <3>1, ReleasedKept
  <2> QED
    BY <1>0, <1>6, <2>3, <2>4, <2>5, DebtKept
<1> QED
  BY <1>7, <1>8 DEF Dispatch, Begin, Send, Complete, SettleFailed, Release, r

(* Start keeps what is referenced; a requeue revives no media row.         *)
LEMMA EnvironmentRetains ==
  ASSUME RetainedInv, Environment
  PROVE  ReleasedSettled' /\ OneRowPerArtifact' /\ StagedFresh' /\ ArtifactRetained'
<1> USE DEF RetainedInv
<1>1. RowsGrow /\ UNCHANGED <<next, cmd>>
  BY EnvironmentWF
     DEF Environment, TimePasses, Connect, Disconnect, Start, Stop, Stopped, Crash, Requeue, durable
<1>2. \A r \in Rows : \/ status'[r] = status[r]
                      \/ r \in Requeueable /\ status'[r] = "pending"
  BY DEF Environment, TimePasses, Connect, Disconnect, Start, Stop, Stopped, Crash, Requeue, durable
<1>3. MediaVerdictsKept
  BY <1>2, InsertedRange DEF MediaVerdictsKept, Requeueable
<1>4. HeadsKept("releasing")
  <2>1. UNCHANGED <<lane, phase>> \/ phase' = [c \in Conv |-> "idle"]
    BY DEF Environment, TimePasses, Connect, Disconnect, Start, Stop, Stopped, Crash, Requeue, memory
  <2> QED
    BY <2>1 DEF HeadsKept
<1>5. spool' = spool \/ (Start /\ spool' = spool \cap Referenced)
  BY DEF Environment, TimePasses, Connect, Disconnect, Start, Stop, Stopped, Crash, Requeue
<1>6. ArtifactRetained'
  <2> SUFFICES ASSUME NEW r \in Rows, Live(r)', cmd'[r].kind = "media"
               PROVE  cmd'[r].of \in spool'
    BY DEF ArtifactRetained
  <2>1. cmd[r].kind = "media" /\ Live(r)
    BY <1>1, <1>2 DEF Live, Requeueable
  <2>2. cmd[r].of \in spool /\ cmd[r].of \in Referenced
    BY <2>1 DEF ArtifactRetained, Referenced
  <2> QED
    BY <1>1, <1>5, <2>2
<1>7. StagedFresh'
  <2>1. \/ UNCHANGED <<staged, mode>>
        \/ staged' = {}
        \/ staged' = staged /\ mode # "down" /\ mode' # "down"
        \/ staged = {} /\ staged' = staged
    BY DEF Environment, TimePasses, Connect, Disconnect, Start, Stop, Stopped, Crash, Requeue,
           memory, StagedFresh
  <2>2. staged' \subseteq staged /\ (mode' = "down" => staged' = {})
    BY <2>1 DEF StagedFresh
  <2>3. \A a \in staged' : Unused(a)'
    BY <1>1, <1>2, <2>2 DEF StagedFresh, Unused, Requeueable
  <2>4. staged' \subseteq spool'
    <3>1. Start => staged = {}
      BY DEF Start, StagedFresh
    <3> QED
      BY <1>5, <2>2, <3>1 DEF StagedFresh
  <2> QED
    BY <2>2, <2>3, <2>4 DEF StagedFresh
<1> QED
  BY <1>1, <1>3, <1>4, <1>6, <1>7, ReleasedKept, OwnedKept

(* The invariant of the media of every reachable state.                    *)
LEMMA SpecRetained == Spec => []RetainedInv
<1>1. Init => RetainedInv
  BY InitWF DEF Init, RetainedInv, ReleasedSettled, OneRowPerArtifact, StagedFresh,
                ArtifactRetained, Live, Unused
<1>2. RetainedInv /\ [Next]_vars => RetainedInv'
  <2> SUFFICES ASSUME RetainedInv, [Next]_vars PROVE RetainedInv'
    OBVIOUS
  <2>1. WFInv'
    BY StepWF DEF RetainedInv
  <2>2. CASE UNCHANGED vars
    <3>1. UNCHANGED <<next, cmd, status, lane, phase, spool, staged, mode>>
      BY <2>2 DEF vars, durable, memory
    <3> QED
      BY <2>1, <3>1 DEF RetainedInv, ReleasedSettled, OneRowPerArtifact, StagedFresh,
                        ArtifactRetained, Live, Unused, Head1
  <2> QED
    BY <2>1, <2>2, ProduceRetains, ClaimRetains, DispatchRetains, EnvironmentRetains
       DEF Next, RetainedInv
<1> QED
  BY <1>1, <1>2, PTL DEF Spec

(* The artifact of every row that may still be sent is in the spool: neither *)
(* a release by some stale dispatch, nor the reconciliation at start, nor an *)
(* operator's requeue ever leaves a media command without its content.     *)
THEOREM OutboxArtifactRetained == Spec => []ArtifactRetained
<1>1. RetainedInv => ArtifactRetained
  BY DEF RetainedInv
<1> QED
  BY SpecRetained, <1>1, PTL

-----------------------------------------------------------------------------
(* Verdicts, and the refinement of the delivery promise.                   *)

(* What one step may do to the status of a row.                            *)
Verdict(r) ==
  \/ status'[r] = status[r]
  \/ status[r] = "none" /\ status'[r] = "pending" /\ r = next' /\ next' = next + 1
  \/ Live(r) /\ status'[r] \in {"pending", "leased"}
  \/ status[r] = "leased" /\ status'[r] \in {"delivered", "dead"}
  \/ Live(r) /\ status'[r] = "superseded" /\ cmd[r].kind = "card"
  \/ Live(r) /\ status'[r] = "superseded" /\ IsReply(r)
     /\ next' = next + 1 /\ cmd'[next'].kind \in {"partial", "final"}
     /\ cmd'[next'].of = cmd[r].of
  \/ r \in Requeueable /\ status'[r] = "pending" /\ attempts'[r] = 0

(* One step never rewrites a final verdict.                                *)
LEMMA StepVerdict ==
  ASSUME WFInv, [Next]_vars
  PROVE  \A r \in Rows : Verdict(r)
<1>1. ASSUME NEW k \in Kind, NEW x \in Subject, Insert(k, x), NEW r \in Rows
      PROVE  Verdict(r)
  <2>1. CASE r = next'
    BY <1>1, <2>1, InsertedRow DEF Verdict
  <2>2. CASE r # next'
    <3>1. status'[r] = status[r] \/ (Outdates(k, x, r) /\ status'[r] = "superseded")
      BY <1>1, <2>2 DEF Insert
    <3>2. next' = next + 1 /\ cmd'[next'] = [kind |-> k, of |-> x]
      BY <1>1, InsertedRow
    <3> QED
      BY <3>1, <3>2 DEF Verdict, Outdates, Live
  <2> QED
    BY <2>1, <2>2
<1>2. ASSUME NEW x \in Run, RunOver(x), NEW r \in Rows
      PROVE  Verdict(r)
  BY <1>2 DEF RunOver, Verdict, Live
<1>3. ASSUME Flush \/ \E q \in Rows : ClaimOwn(q), NEW r \in Rows
      PROVE  Verdict(r)
  BY <1>3, ClaimedRows DEF Verdict
<1>4. ASSUME NEW c \in Conv, Dispatch(c), NEW r \in Rows
      PROVE  Verdict(r)
  <2>1. Head1(c).row \in Rows
    <3>1. phase[c] # "idle" \/ lane[c] # <<>>
      BY <1>4 DEF Dispatch, Begin, Send, Complete, SettleFailed, Release
    <3> QED
      BY <3>1, HeadInserted
  <2>2. CASE Begin(c)
    <3>1. status'[r] = status[r] \/ (Holds(r) /\ cmd[r].kind = "card" /\ status'[r] = "superseded")
      BY <2>1, <2>2 DEF Begin, Settle, StoreThrows, WFInv, TypeOK, RowsTypeOK
    <3> QED
      BY <3>1 DEF Verdict, Holds, Live
  <2>3. CASE Send(c) \/ Release(c)
    BY <2>3 DEF Send, Release, durable, Verdict
  <2>4. CASE Complete(c) \/ SettleFailed(c)
    <3>1. status'[r] = status[r] \/ (Holds(r) /\ status'[r] \in {"delivered", "dead", "pending"})
      BY <2>1, <2>4 DEF Complete, SettleFailed, Settle, StoreThrows, WFInv, TypeOK, RowsTypeOK
    <3> QED
      BY <3>1 DEF Verdict, Holds, Live
  <2> QED
    BY <1>4, <2>2, <2>3, <2>4 DEF Dispatch
<1>5. ASSUME Environment, NEW r \in Rows
      PROVE  Verdict(r)
  <2>1. ASSUME NEW n \in 1 .. MaxRows, Requeue(n)
        PROVE  Verdict(r)
    BY <2>1 DEF Requeue, Verdict, WFInv, TypeOK, RowsTypeOK
  <2>2. ASSUME UNCHANGED status
        PROVE  Verdict(r)
    BY <2>2 DEF Verdict
  <2> QED
    BY <1>5, <2>1, <2>2
       DEF Environment, TimePasses, Connect, Disconnect, Start, Stop, Stopped, Crash, durable
<1>6. ASSUME UNCHANGED status, NEW r \in Rows
      PROVE  Verdict(r)
  BY <1>6 DEF Verdict
<1>7. CASE Produce
  BY <1>1, <1>2, <1>6, <1>7, ProduceInserts
<1>8. CASE UNCHANGED vars
  BY <1>6, <1>8 DEF vars, durable
<1> QED
  BY <1>3, <1>4, <1>5, <1>7, <1>8 DEF Next

(* The table is well formed throughout.                                    *)
LEMMA SpecWF == Spec => []WFInv
<1>1. WFInv /\ [Next]_vars => WFInv'
  BY StepWF
<1> QED
  BY InitWF, <1>1, PTL DEF Spec

(* Delivered and superseded rows are frozen for ever, and only text and final *)
(* replies come back from the dead letters, with a fresh attempt budget.    *)
THEOREM OutboxVerdictsAreFinal == Spec => VerdictsAreFinal
<1>1. WFInv /\ [Next]_vars =>
        [\A r \in Rows :
           /\ status[r] \in {"delivered", "superseded"} => status'[r] = status[r]
           /\ status[r] = "dead" /\ status'[r] # "dead" =>
                /\ status'[r] = "pending" /\ attempts'[r] = 0
                /\ cmd[r].kind \in {"text", "final"}]_vars
  BY StepVerdict DEF Verdict, Live, Requeueable
<1> QED
  BY SpecWF, <1>1, PTL DEF Spec, VerdictsAreFinal

(* The debts a step leaves alone, adds, ends or revives.                   *)
LEMMA OwedOf ==
  ASSUME NEW r \in Rows
  PROVE  /\ Owed[r] = IF Live(r) THEN "owed"
                      ELSE IF status[r] = "delivered" THEN "discharged"
                      ELSE IF status[r] = "superseded" THEN "replaced" ELSE status[r]
         /\ Owed'[r] = IF Live(r)' THEN "owed"
                      ELSE IF status'[r] = "delivered" THEN "discharged"
                      ELSE IF status'[r] = "superseded" THEN "replaced" ELSE status'[r]
  BY DEF Owed, Live

-----------------------------------------------------------------------------
(* Final replies: once its final row is inserted a reply is closed, and no    *)
(* later row of it outdates the answer.                                    *)

FinalClosed == \A r \in 1 .. next : cmd[r].kind = "final" => turn[cmd[r].of] = "closed"

ClosedInv == WFInv /\ FinalClosed /\ FinalIsLast

(* Only the open or idle reply of a stream inserts rows of that stream.      *)
LEMMA ReplyRows ==
  ASSUME WFInv, [Next]_vars
  PROVE  \/ \E s \in Stream : Update(s) \/ CloseReply(s)
         \/ /\ \A s \in Stream : turn'[s] = "closed" <=> turn[s] = "closed"
            /\ \/ next' = next
               \/ next' = next + 1 /\ cmd'[next'].of \notin Stream
                  /\ cmd'[next'].kind \notin {"partial", "final"}
<1>1. ASSUME NEW k \in Kind \ {"partial", "final"}, NEW x \in Subject \ Stream, Insert(k, x)
      PROVE  next' = next + 1 /\ cmd'[next'].of \notin Stream
             /\ cmd'[next'].kind \notin {"partial", "final"}
  <2>1. k \in Kind /\ x \in Subject
    OBVIOUS
  <2>2. next' = next + 1 /\ cmd'[next'] = [kind |-> k, of |-> x]
    BY <1>1, <2>1, InsertedRow
  <2> QED
    BY <2>2
<1>2. CASE Produce
  <2>1. ASSUME NEW n \in Note, SendProactiveText(n)
        PROVE  /\ UNCHANGED turn
               /\ \E k \in Kind \ {"partial", "final"}, x \in Subject \ Stream : Insert(k, x)
    <3>1. "text" \in Kind \ {"partial", "final"} /\ n \in Subject \ Stream
      BY DEF Kind, Subject
    <3> QED
      BY <2>1, <3>1 DEF SendProactiveText
  <2>2. ASSUME NEW x \in Run, PresentRunControl(x)
        PROVE  /\ UNCHANGED turn
               /\ \E k \in Kind \ {"partial", "final"}, y \in Subject \ Stream : Insert(k, y)
    <3>1. "card" \in Kind \ {"partial", "final"} /\ x \in Subject \ Stream
      BY DEF Kind, Subject
    <3> QED
      BY <2>2, <3>1 DEF PresentRunControl
  <2>3. ASSUME NEW a \in Artifact, EnqueueMedia(a)
        PROVE  /\ UNCHANGED turn
               /\ \/ UNCHANGED next
                  \/ \E k \in Kind \ {"partial", "final"}, x \in Subject \ Stream : Insert(k, x)
    <3>1. "media" \in Kind \ {"partial", "final"} /\ a \in Subject \ Stream
      BY DEF Kind, Subject
    <3> QED
      BY <2>3, <3>1 DEF EnqueueMedia, durable
  <2>4. ASSUME NEW a \in Artifact, StageMedia(a)
        PROVE  UNCHANGED <<turn, next>>
    BY <2>4 DEF StageMedia, durable
  <2>5. ASSUME NEW x \in Run, ControlStale(x) \/ RunOver(x)
        PROVE  UNCHANGED <<turn, next>>
    BY <2>5 DEF ControlStale, RunOver, durable
  <2> QED
    BY <1>1, <1>2, <2>1, <2>2, <2>3, <2>4, <2>5 DEF Produce
<1>3. CASE Flush \/ \E r \in Rows : ClaimOwn(r)
  BY <1>3 DEF Flush, ClaimOwn
<1>4. CASE \E c \in Conv : Dispatch(c)
  BY <1>4 DEF Dispatch, Begin, Send, Complete, SettleFailed, Release, durable
<1>5. CASE Environment
  <2>1. CASE Crash
    BY <2>1 DEF Crash, WFInv, TypeOK, ProcessTypeOK
  <2>2. CASE ~Crash
    BY <1>5, <2>2 DEF Environment, TimePasses, Connect, Disconnect, Start, Stop, Stopped, Requeue,
                      durable, memory
  <2> QED
    BY <2>1, <2>2
<1>6. CASE UNCHANGED vars
  BY <1>6 DEF vars, durable, memory
<1> QED
  BY <1>2, <1>3, <1>4, <1>5, <1>6 DEF Next

(* Every step keeps the final version of a closed reply the newest.        *)
LEMMA StepClosed ==
  ASSUME ClosedInv, [Next]_vars
  PROVE  ClosedInv'
<1> USE DEF ClosedInv
<1>1. WFInv' /\ RowsGrow /\ \A r \in Rows : Verdict(r)
  BY StepWF, StepVerdict
<1>2. ASSUME NEW s \in Stream, Update(s) \/ CloseReply(s)
      PROVE  FinalClosed' /\ FinalIsLast'
  <2>1. PICK k \in {"partial", "final"} :
          /\ Insert(k, s) /\ turn[s] # "closed"
          /\ turn' = [turn EXCEPT ![s] = IF k = "final" THEN "closed" ELSE "open"]
    BY <1>2 DEF Update, CloseReply
  <2>2. k \in Kind /\ s \in Subject
    BY DEF Kind, Subject
  <2>3. /\ next' = next + 1 /\ next' \in Rows
        /\ cmd'[next'] = [kind |-> k, of |-> s] /\ status'[next'] = "pending"
    BY <2>1, <2>2, InsertedRow
  <2>4. \A t \in Stream \ {s} : turn'[t] = turn[t]
    BY <2>1 DEF WFInv, TypeOK, ProcessTypeOK
  <2>5. turn'[s] = "closed" <=> k = "final"
    BY <2>1 DEF WFInv, TypeOK, ProcessTypeOK
  <2>6. FinalClosed'
    <3> SUFFICES ASSUME NEW r \in 1 .. next', cmd'[r].kind = "final"
                 PROVE  turn'[cmd'[r].of] = "closed"
      BY DEF FinalClosed
    <3>1. CASE r = next'
      BY <2>3, <2>5, <3>1
    <3>2. CASE r # next'
      <4>1. r \in 1 .. next
        BY <2>3, <3>2, InsertedRange
      <4>2. cmd'[r] = cmd[r] /\ turn[cmd[r].of] = "closed"
        BY <1>1, <4>1 DEF RowsGrow, FinalClosed
      <4>3. cmd[r].of # s
        BY <2>1, <4>2
      <4> QED
        BY <2>1, <4>2, <4>3 DEF WFInv, TypeOK, ProcessTypeOK
    <3> QED
      BY <3>1, <3>2
  <2>7. FinalIsLast'
    <3> SUFFICES ASSUME NEW t \in Stream, turn'[t] = "closed"
                 PROVE  \E r \in Rows :
                          /\ cmd'[r] = [kind |-> "final", of |-> t] /\ status'[r] # "superseded"
                          /\ \A q \in Rows : status'[q] # "none" /\ cmd'[q].of = t => q <= r
      BY DEF FinalIsLast
    <3>1. CASE t = s
      <4>1. \A q \in Rows : status'[q] # "none" => q <= next'
        BY <1>1 DEF WFInv, RowsInOrder, TypeOK, RowsTypeOK, Rows
      <4> QED
        BY <2>3, <2>5, <3>1, <4>1
    <3>2. CASE t # s
      <4>1. PICK r \in Rows :
              /\ cmd[r] = [kind |-> "final", of |-> t] /\ status[r] # "superseded"
              /\ \A q \in Rows : status[q] # "none" /\ cmd[q].of = t => q <= r
        BY <2>4, <3>2 DEF FinalIsLast
      <4>2. \A q \in Rows \ {next'} :
              cmd'[q] = cmd[q] /\ (status'[q] # "none" => status[q] # "none")
        BY <2>1, <2>2, InsertedRow
      <4>3. r \in 1 .. next
        BY <4>1 DEF WFInv, CommandsFit, NoCmd
      <4>4. r # next' /\ status'[r] # "superseded"
        BY <1>1, <2>3, <3>2, <4>1, <4>3, InsertedRange DEF Verdict
      <4> QED
        BY <2>3, <3>2, <4>1, <4>2, <4>4
    <3> QED
      BY <3>1, <3>2
  <2> QED
    BY <2>6, <2>7
<1>3. ASSUME \A s \in Stream : turn'[s] = "closed" <=> turn[s] = "closed",
             \/ next' = next
             \/ next' = next + 1 /\ cmd'[next'].of \notin Stream
                /\ cmd'[next'].kind \notin {"partial", "final"}
      PROVE  FinalClosed' /\ FinalIsLast'
  <2>0. next \in Nat
    BY DEF WFInv, TypeOK, RowsTypeOK
  <2>1. FinalClosed'
    <3> SUFFICES ASSUME NEW r \in 1 .. next', cmd'[r].kind = "final"
                 PROVE  turn'[cmd'[r].of] = "closed"
      BY DEF FinalClosed
    <3>1. r \in 1 .. next
      BY <1>3, <2>0
    <3>2. cmd'[r] = cmd[r] /\ turn[cmd[r].of] = "closed"
      BY <1>1, <3>1 DEF RowsGrow, FinalClosed
    <3>3. cmd[r].of \in Stream
      BY <3>1, <3>2 DEF WFInv, CommandsFit, Fits
    <3> QED
      BY <1>3, <3>2, <3>3
  <2>2. FinalIsLast'
    <3> SUFFICES ASSUME NEW t \in Stream, turn'[t] = "closed"
                 PROVE  \E r \in Rows :
                          /\ cmd'[r] = [kind |-> "final", of |-> t] /\ status'[r] # "superseded"
                          /\ \A q \in Rows : status'[q] # "none" /\ cmd'[q].of = t => q <= r
      BY DEF FinalIsLast
    <3>1. PICK r \in Rows :
            /\ cmd[r] = [kind |-> "final", of |-> t] /\ status[r] # "superseded"
            /\ \A q \in Rows : status[q] # "none" /\ cmd[q].of = t => q <= r
      BY <1>3 DEF FinalIsLast
    <3>2. r \in 1 .. next
      BY <3>1 DEF WFInv, CommandsFit, NoCmd
    <3>3. cmd'[r] = cmd[r] /\ status'[r] # "superseded"
      BY <1>1, <1>3, <3>1, <3>2 DEF RowsGrow, Verdict
    <3>4. ASSUME NEW q \in Rows, status'[q] # "none", cmd'[q].of = t
          PROVE  q <= r
      <4>1. q # next' \/ next' = next
        BY <1>3, <3>4
      <4>2. q \in 1 .. next
        BY <1>1, <1>3, <2>0, <3>4, <4>1 DEF WFInv, RowsInOrder, Rows
      <4> QED
        BY <1>1, <3>1, <3>4, <4>2, InsertedRange DEF RowsGrow
    <3> QED
      BY <3>1, <3>3, <3>4
  <2> QED
    BY <2>1, <2>2
<1> QED
  BY <1>1, <1>2, <1>3, ReplyRows

(* The invariant behind FinalIsLast holds throughout.                      *)
LEMMA SpecClosed == Spec => []ClosedInv
<1>1. Init => ClosedInv
  BY InitWF DEF Init, ClosedInv, FinalClosed, FinalIsLast
<1>2. ClosedInv /\ [Next]_vars => ClosedInv'
  BY StepClosed
<1> QED
  BY <1>1, <1>2, PTL DEF Spec

(* A closed reply ends in its final row: whatever is retried, requeued or    *)
(* lost, no row of the stream is newer and none supersedes it.             *)
THEOREM OutboxFinalIsLast == Spec => []FinalIsLast
<1>1. ClosedInv => FinalIsLast
  BY DEF ClosedInv
<1> QED
  BY SpecClosed, <1>1, PTL

-----------------------------------------------------------------------------
(* The outbox implements the delivery promise.                             *)

Free == [kind : {"partial", "card"}, of : Subject]     \* Replaceable
Skip == [kind : {"partial"}, of : Subject]             \* Skippable
Back == [kind : {"text", "final"}, of : Subject]       \* Revivable

(* The command of an inserted row.                                         *)
LEMMA CommandOf ==
  ASSUME WFInv, NEW r \in 1 .. next
  PROVE  /\ cmd[r] = [kind |-> cmd[r].kind, of |-> cmd[r].of] /\ cmd[r].of \in Subject
         /\ cmd[r].kind \in {"partial", "card"} => cmd[r] \in Free
         /\ cmd[r].kind = "partial" => cmd[r] \in Skip
         /\ cmd[r].kind \in {"text", "final"} => cmd[r] \in Back
<1>1. cmd[r] \in Command
  BY InsertedRange DEF WFInv, TypeOK, RowsTypeOK
<1>2. cmd[r].of \in Subject
  BY DEF WFInv, CommandsFit, Fits
<1> QED
  BY <1>1, <1>2 DEF Command, Free, Skip, Back

(* enqueueDelivery is Owe: the new row is owed, outdated ones replaced.    *)
LEMMA PromiseInsert ==
  ASSUME ClosedInv, NEW k \in Kind, NEW x \in Subject, Insert(k, x),
         k \in {"partial", "final"} => x \in Stream /\ turn[x] # "closed"
  PROVE  Promise!Owe
<1>1. /\ next' = next + 1 /\ next' \in Rows /\ status[next'] = "none" /\ status'[next'] = "pending"
      /\ UNCHANGED accepted
  BY InsertedRow DEF Insert, ClosedInv
<1>2. Owed[next'] = "none" /\ Owed'[next'] = "owed"
  BY <1>1, OwedOf DEF Live
<1>3. ASSUME NEW q \in Rows \ {next'}
      PROVE  /\ cmd'[q] = cmd[q]
             /\ \/ Owed'[q] = Owed[q]
                \/ Owed[q] = "owed" /\ cmd[q] \in Free /\ Owed'[q] = "replaced"
  <2>1. cmd'[q] = cmd[q]
    BY InsertedRow DEF ClosedInv
  <2>2. status'[q] = status[q] \/ (Outdates(k, x, q) /\ status'[q] = "superseded")
    BY DEF Insert
  <2>3. CASE status'[q] = status[q]
    BY <2>1, <2>3, OwedOf DEF Live
  <2>4. CASE Outdates(k, x, q) /\ status'[q] = "superseded"
    <3>1. status[q] = "pending" /\ q \in 1 .. next /\ cmd[q].kind \in {"partial", "final"}
      BY <2>4, InsertedRange DEF Outdates, IsReply, ClosedInv
    <3>2. cmd[q].kind = "partial"
      BY <2>4, <3>1 DEF Outdates, ClosedInv, FinalClosed
    <3>3. cmd[q] \in Free
      BY <3>1, <3>2, CommandOf DEF ClosedInv
    <3> QED
      BY <2>1, <2>4, <3>1, <3>3, OwedOf DEF Live
  <2> QED
    BY <2>2, <2>3, <2>4
<1> QED
  BY <1>1, <1>2, <1>3 DEF Promise!Owe, Free

(* A verdict of the store is End: a debt ends with a reason.               *)
LEMMA PromiseEnd ==
  ASSUME SettledInv, SettledInv', UNCHANGED <<cmd, accepted, next>>, \A r \in Rows : Verdict(r)
  PROVE  Promise!End \/ Promise!Revive \/ \E r \in Requeueable : Live(r)'
<1> SUFFICES ASSUME \A r \in Requeueable : ~Live(r)' PROVE Promise!End
  OBVIOUS
<1>1. ASSUME NEW r \in Rows
      PROVE  /\ Owed'[r] = Owed[r] \/ Promise!EndsAs(r, Owed'[r])
             /\ Owed'[r] \in {Owed[r], "discharged", "dead", "replaced"}
  <2>1. CASE status'[r] = status[r] \/ (Live(r) /\ status'[r] \in {"pending", "leased"})
    BY <2>1, OwedOf DEF Live
  <2>2. CASE status[r] = "leased" /\ status'[r] = "delivered"
    <3>1. accepted[r] >= 1 \/ cmd[r].kind = "partial"
      BY <2>2 DEF SettledInv, DeliveredOnce
    <3>2. cmd[r].kind = "partial" => cmd[r] \in Skip
      BY <2>2, CommandOf, InsertedRange DEF SettledInv, Live
    <3>3. Owed[r] = "owed" /\ Owed'[r] = "discharged"
      BY <2>2, OwedOf DEF Live
    <3> QED
      BY <3>1, <3>2, <3>3 DEF Promise!EndsAs, Skip
  <2>3. CASE status[r] = "leased" /\ status'[r] = "dead"
    <3>1. Owed[r] = "owed" /\ Owed'[r] = "dead"
      BY <2>3, OwedOf DEF Live
    <3> QED
      BY <3>1 DEF Promise!EndsAs
  <2>4. CASE Live(r) /\ status'[r] = "superseded" /\ cmd[r].kind = "card"
    <3>1. Owed[r] = "owed" /\ Owed'[r] = "replaced"
      BY <2>4, OwedOf DEF Live
    <3>2. cmd[r] \in Free
      BY <2>4, CommandOf, InsertedRange DEF SettledInv
    <3> QED
      BY <3>1, <3>2 DEF Promise!EndsAs, Free
  <2>5. next' # next + 1
    BY DEF SettledInv, WFInv, TypeOK, RowsTypeOK
  <2> QED
    BY <2>1, <2>2, <2>3, <2>4, <2>5 DEF Verdict, Live
<1> QED
  BY <1>1 DEF Promise!End

(* Every step of the outbox is a step of the promise, or a stutter.        *)
LEMMA PromiseStep ==
  ASSUME SettledInv, SettledInv', ClosedInv, [Next]_vars
  PROVE  Promise!Next \/ UNCHANGED <<cmd, Owed, accepted>>
<1> USE DEF SettledInv
<1>1. \A r \in Rows : Verdict(r)
  BY StepVerdict
<1>2. ASSUME UNCHANGED <<cmd, accepted, next>>, \A r \in Requeueable : ~Live(r)'
      PROVE  Promise!Next
  BY <1>1, <1>2, PromiseEnd DEF Promise!Next
<1>3. CASE Produce
  <2>1. ASSUME NEW s \in Stream, Update(s) \/ CloseReply(s)
        PROVE  Promise!Owe
    <3>1. s \in Subject /\ "partial" \in Kind /\ "final" \in Kind
      BY DEF Subject, Kind
    <3>2. turn[s] # "closed" /\ (Insert("partial", s) \/ Insert("final", s))
      BY <2>1 DEF Update, CloseReply
    <3> QED
      BY <3>1, <3>2, PromiseInsert
  <2>2. ASSUME NEW k \in Kind \ {"partial", "final"}, NEW x \in Subject, Insert(k, x)
        PROVE  Promise!Owe
    BY <2>2, PromiseInsert
  <2>3. ASSUME NEW n \in Note, SendProactiveText(n)
        PROVE  Promise!Owe
    <3>1. n \in Subject /\ "text" \in Kind \ {"partial", "final"}
      BY DEF Subject, Kind
    <3> QED
      BY <2>2, <2>3, <3>1 DEF SendProactiveText
  <2>4. ASSUME NEW x \in Run, PresentRunControl(x)
        PROVE  Promise!Owe
    <3>1. x \in Subject /\ "card" \in Kind \ {"partial", "final"}
      BY DEF Subject, Kind
    <3> QED
      BY <2>2, <2>4, <3>1 DEF PresentRunControl
  <2>5. ASSUME NEW a \in Artifact, EnqueueMedia(a)
        PROVE  Promise!Owe \/ UNCHANGED <<next, cmd, status, accepted>>
    <3>1. a \in Subject /\ "media" \in Kind \ {"partial", "final"}
      BY DEF Subject, Kind
    <3> QED
      BY <2>2, <2>5, <3>1 DEF EnqueueMedia, durable
  <2>6. ASSUME NEW x \in Run, RunOver(x)
        PROVE  Promise!Next
    <3>1. UNCHANGED <<cmd, accepted, next>> /\ \A r \in Requeueable : ~Live(r)'
      BY <2>6 DEF RunOver, Requeueable, Live
    <3> QED
      BY <1>2, <3>1
  <2>7. ASSUME UNCHANGED <<next, cmd, status, accepted>>
        PROVE  Promise!Next
    BY <1>2, <2>7 DEF Requeueable, Live
  <2>8. ASSUME NEW x \in Run, ControlStale(x)
        PROVE  UNCHANGED <<next, cmd, status, accepted>>
    BY <2>8 DEF ControlStale, durable
  <2>9. ASSUME NEW a \in Artifact, StageMedia(a)
        PROVE  UNCHANGED <<next, cmd, status, accepted>>
    BY <2>9 DEF StageMedia, durable
  <2> QED
    BY <1>3, <2>1, <2>3, <2>4, <2>5, <2>6, <2>7, <2>8, <2>9 DEF Produce, Promise!Next
<1>4. CASE Flush \/ \E r \in Rows : ClaimOwn(r)
  <2>1. \A r \in Requeueable : ~Live(r)'
    BY <1>4, ClaimedRows DEF Requeueable, Live
  <2>2. UNCHANGED <<cmd, accepted, next>>
    BY <1>4 DEF Flush, ClaimOwn
  <2> QED
    BY <1>2, <2>1, <2>2
<1>5. ASSUME NEW c \in Conv, Dispatch(c)
      PROVE  Promise!Next \/ UNCHANGED <<cmd, Owed, accepted>>
  <2>1. Head1(c).row \in Rows /\ Head1(c).row \in 1 .. next
    <3>1. phase[c] # "idle" \/ lane[c] # <<>>
      BY <1>5 DEF Dispatch, Begin, Send, Complete, SettleFailed, Release
    <3> QED
      BY <3>1, HeadInserted
  <2>2. CASE Send(c)
    <3>1. UNCHANGED <<cmd, Owed>>
      BY <2>2 DEF Send, durable, Owed
    <3>2. Accept(Head1(c).row) \/ UNCHANGED accepted
      BY <2>2 DEF Send
    <3>3. Owed[Head1(c).row] # "none"
      BY <2>1, InsertedRange, OwedOf DEF Live
    <3>4. Accept(Head1(c).row) => Promise!Arrive
      BY <2>1, <3>1, <3>3 DEF Accept, Promise!Arrive
    <3> QED
      BY <3>1, <3>2, <3>4 DEF Promise!Next
  <2>3. CASE ~Send(c)
    <3>1. UNCHANGED <<cmd, accepted, next>>
      BY <1>5, <2>3 DEF Dispatch, Begin, Complete, SettleFailed, Release, durable
    <3>2. \A r \in Requeueable : ~Live(r)'
      BY <1>5, <2>1, <2>3 DEF Dispatch, Begin, Complete, SettleFailed, Release, durable, Requeueable,
         Live, Settle, StoreThrows, Holds, WFInv, TypeOK, RowsTypeOK
    <3> QED
      BY <1>2, <3>1, <3>2
  <2> QED
    BY <2>2, <2>3
<1>6. CASE Environment
  <2>1. ASSUME NEW n \in 1 .. MaxRows, Requeue(n)
        PROVE  Promise!Revive
    <3>1. UNCHANGED <<cmd, accepted>>
      BY <2>1 DEF Requeue
    <3>2. ASSUME NEW r \in Rows
          PROVE  \/ Owed'[r] = Owed[r]
                 \/ Owed[r] = "dead" /\ cmd[r] \in Back /\ Owed'[r] = "owed"
      <4>1. status'[r] = status[r] \/ (r \in Requeueable /\ status'[r] = "pending")
        BY <2>1 DEF Requeue
      <4>2. CASE status'[r] = status[r]
        BY <4>2, OwedOf DEF Live
      <4>3. CASE r \in Requeueable /\ status'[r] = "pending"
        <5>1. r \in 1 .. next /\ status[r] = "dead" /\ cmd[r].kind \in {"text", "final"}
          BY <4>3, InsertedRange DEF Requeueable
        <5>2. cmd[r] \in Back
          BY <5>1, CommandOf
        <5> QED
          BY <4>3, <5>1, <5>2, OwedOf DEF Live
      <4> QED
        BY <4>1, <4>2, <4>3
    <3> QED
      BY <3>1, <3>2 DEF Promise!Revive, Back
  <2>2. ASSUME UNCHANGED <<next, cmd, status, accepted>>
        PROVE  Promise!Next
    BY <1>2, <2>2 DEF Requeueable, Live
  <2>3. (\E n \in 1 .. MaxRows : Requeue(n)) \/ UNCHANGED <<next, cmd, status, accepted>>
    BY <1>6 DEF Environment, TimePasses, Connect, Disconnect, Start, Stop, Stopped, Crash, durable
  <2> QED
    BY <2>1, <2>2, <2>3 DEF Promise!Next
<1>7. CASE UNCHANGED vars
  BY <1>7 DEF vars, durable, Owed
<1> QED
  BY <1>3, <1>4, <1>5, <1>6, <1>7 DEF Next

(* The outbox keeps the delivery promise: every step of the table, the claims *)
(* and the dispatchers is a step of DeliveryPromise or leaves it alone.     *)
THEOREM OutboxKeepsPromise == Spec => KeepsPromise
<1>1. Init => Promise!Init
  BY DEF Init, Promise!Init, Owed
<1>2. SettledInv /\ SettledInv' /\ ClosedInv /\ [Next]_vars => [Promise!Next]_(Promise!promiseVars)
  BY PromiseStep DEF Promise!promiseVars
<1> QED
  BY SpecSettled, SpecClosed, <1>1, <1>2, PTL DEF Spec, KeepsPromise, Promise!Spec

-----------------------------------------------------------------------------
(* What faults cost the outbox, for every number of rows, conversations    *)
(* and attempts.  While nothing fails, no lease is without a dispatcher    *)
(* and the spool holds no artifact that nobody will release; and whatever  *)
(* fails, the remote side accepts a row once, and once more at most for    *)
(* each fault and each requeue.                                            *)
(*                                                                         *)
(* The two calm properties depend on each other's ground: an entry leaves  *)
(* its lane only with its row settled, because every lease is the running  *)
(* process's own, and a media row is settled only by the dispatch that     *)
(* releases its artifact.  The bound on duplicates is an accounting: what a *)
(* row may still be sent without a new fault is owed to it.                *)

Accounted ==
  \A a \in spool :
    \/ a \in staged \cup Referenced
    \/ \E c \in Conv : phase[c] = "releasing" /\ cmd[Head1(c).row].of = a

Leases == \A r \in Rows : status[r] = "leased" => Holds(r) /\ Dispatching(r)

Calm == mode # "stopping" /\ Leases /\ Accounted

(* While the counter is zero nothing has failed, and nothing fails now.    *)
LEMMA NoFaultYet ==
  ASSUME TypeOK, faults' = 0 PROVE ~Fault
BY DEF Fault, TypeOK, ProcessTypeOK

-----------------------------------------------------------------------------
(* What keeps an artifact accounted for, and a lease dispatched.           *)

(* Every holder of an artifact hands it to the next.                       *)
LEMMA AccountedKept ==
  ASSUME WFInv, RowsGrow, Accounted, spool' \subseteq spool \cup staged',
         staged \subseteq staged' \cup Referenced',
         \A r \in Rows : Live(r) /\ cmd[r].kind = "media" =>
           Live(r)' \/ \E c \in Conv : phase'[c] = "releasing" /\ Head1(c)'.row = r,
         \A c \in Conv : phase[c] = "releasing" /\ cmd[Head1(c).row].of \in spool' =>
           phase'[c] = "releasing" /\ Head1(c)' = Head1(c)
  PROVE  Accounted'
<1> SUFFICES ASSUME NEW a \in spool', a \notin staged'
             PROVE  \/ a \in Referenced'
                    \/ \E c \in Conv : phase'[c] = "releasing" /\ cmd'[Head1(c)'.row].of = a
  BY DEF Accounted
<1>1. CASE a \in staged
  BY <1>1
<1>2. CASE a \in Referenced
  <2>1. PICK r \in Rows : Live(r) /\ cmd[r].kind = "media" /\ cmd[r].of = a
    BY <1>2 DEF Referenced
  <2>2. cmd'[r] = cmd[r]
    BY <2>1, InsertedRange DEF RowsGrow
  <2>3. CASE Live(r)'
    BY <2>1, <2>2, <2>3 DEF Referenced
  <2>4. CASE \E c \in Conv : phase'[c] = "releasing" /\ Head1(c)'.row = r
    BY <2>1, <2>2, <2>4
  <2> QED BY <2>1, <2>3, <2>4
<1>3. CASE \E c \in Conv : phase[c] = "releasing" /\ cmd[Head1(c).row].of = a
  <2>1. PICK c \in Conv : phase[c] = "releasing" /\ cmd[Head1(c).row].of = a
    BY <1>3
  <2>2. Head1(c).row \in 1 .. next
    BY <2>1, HeadInserted
  <2>3. phase'[c] = "releasing" /\ Head1(c)' = Head1(c)
    BY <2>1
  <2> QED BY <2>1, <2>2, <2>3 DEF RowsGrow
<1> QED BY <1>1, <1>2, <1>3 DEF Accounted

(* No row is leased anew, and no entry leaves its lane.                    *)
LEMMA LeasesKept ==
  ASSUME Leases, \A r \in Rows : status'[r] = "leased" => status[r] = "leased",
         UNCHANGED <<owner, lane>>
  PROVE  Leases'
BY DEF Leases, Holds, Dispatching

(* Leaving a lane takes the entry at its head only.                        *)
LEMMA LeaveDispatching ==
  ASSUME WFInv, NEW c \in Conv, lane[c] # <<>>, lane' = [lane EXCEPT ![c] = Tail(@)],
         NEW r \in Rows, Dispatching(r), r # Head1(c).row
  PROVE  Dispatching(r)'
<1>1. PICK d \in Conv : \E i \in 1 .. Len(lane[d]) : lane[d][i].row = r
  BY DEF Dispatching
<1> PICK i \in 1 .. Len(lane[d]) : lane[d][i].row = r
  BY <1>1
<1>2. lane[c] \in Seq(Entry)
  BY DEF WFInv, TypeOK, LanesTypeOK
<1>3. CASE d = c
  <2>1. Len(lane[c]) \in Nat /\ Len(Tail(lane[c])) = Len(lane[c]) - 1
        /\ \A j \in 1 .. Len(Tail(lane[c])) : Tail(lane[c])[j] = lane[c][j + 1]
    BY <1>2, HeadTailProperties
  <2>2. i # 1
    BY <1>1, <1>2, <1>3 DEF Head1
  <2>3. i - 1 \in 1 .. Len(Tail(lane[c])) /\ Tail(lane[c])[i - 1] = lane[c][i]
    BY <1>3, <2>1, <2>2
  <2>4. lane'[c] = Tail(lane[c])
    BY DEF WFInv, TypeOK, LanesTypeOK
  <2> QED BY <1>1, <1>3, <2>3, <2>4 DEF Dispatching
<1>4. CASE d # c
  <2>1. lane'[d] = lane[d]
    BY <1>4 DEF WFInv, TypeOK, LanesTypeOK
  <2> QED BY <1>1, <2>1 DEF Dispatching
<1> QED BY <1>3, <1>4

(* A claimed row is in its lane, behind those that were there.             *)
LEMMA ClaimDispatching ==
  ASSUME WFInv, Flush \/ \E r \in Rows : ClaimOwn(r), NEW q \in Rows,
         \/ Dispatching(q)
         \/ status'[q] = "leased" /\ status[q] # "leased"
         \/ ripe[q] /\ ~ripe'[q]
  PROVE  Dispatching(q)'
<1> USE DEF WFInv
<1>1. ASSUME Dispatching(q) PROVE Dispatching(q)'
  <2>1. PICK d \in Conv : \E i \in 1 .. Len(lane[d]) : lane[d][i].row = q
    BY <1>1 DEF Dispatching
  <2> PICK i \in 1 .. Len(lane[d]) : lane[d][i].row = q
    BY <2>1
  <2>2. lane[d] \in Seq(Entry)
    BY DEF TypeOK, LanesTypeOK
  <2>3. \E more \in Seq(Entry) : lane'[d] = lane[d] \o more
    <3>1. CASE Flush
      BY <3>1, FlushLanes
    <3>2. ASSUME NEW r \in Rows, ClaimOwn(r) PROVE \E more \in Seq(Entry) : lane'[d] = lane[d] \o more
      <4> DEFINE e == [row |-> r, attempts |-> attempts[r] + 1, own |-> TRUE]
      <4>1. lane'[d] = lane[d] \/ lane'[d] = Append(lane[d], e)
        BY <3>2 DEF ClaimOwn, TypeOK, LanesTypeOK
      <4>2. e \in Entry
        BY EntryType DEF TypeOK
      <4> HIDE DEF e
      <4>3. lane[d] = lane[d] \o <<>> /\ Append(lane[d], e) = lane[d] \o <<e>>
            /\ <<>> \in Seq(Entry) /\ <<e>> \in Seq(Entry)
        BY <2>2, <4>2
      <4> QED BY <4>1, <4>3
    <3> QED BY <3>1, <3>2
  <2>4. PICK more \in Seq(Entry) : lane'[d] = lane[d] \o more
    BY <2>3
  <2>5. i \in 1 .. Len(lane'[d]) /\ lane'[d][i] = lane[d][i]
    BY <2>2, <2>4
  <2> QED BY <2>1, <2>5 DEF Dispatching
<1>2. ASSUME NEW r \in Rows, ClaimOwn(r), q = r, Claimable(r), online,
             lane' = [lane EXCEPT ![Lane(r)] =
                        Append(@, [row |-> r, attempts |-> attempts[r] + 1, own |-> TRUE])]
      PROVE  Dispatching(q)'
  <2> DEFINE e == [row |-> r, attempts |-> attempts[r] + 1, own |-> TRUE]
  <2>1. Lane(r) \in Conv /\ e \in Entry /\ e.row = r
    <3>1. r \in 1 .. next
      BY <1>2, InsertedRange DEF Claimable
    <3>2. cmd[r].of \in Subject
      BY <3>1 DEF CommandsFit, Fits
    <3> QED BY <3>2, EntryType DEF Lane, TypeOK
  <2>2. lane' = [lane EXCEPT ![Lane(r)] = Append(@, e)]
    BY <1>2
  <2> HIDE DEF e
  <2>3. lane[Lane(r)] \in Seq(Entry) /\ lane'[Lane(r)] = Append(lane[Lane(r)], e)
    BY <2>1, <2>2 DEF TypeOK, LanesTypeOK
  <2>4. /\ Len(lane'[Lane(r)]) \in 1 .. Len(lane'[Lane(r)])
        /\ lane'[Lane(r)][Len(lane'[Lane(r)])] = e
    BY <2>1, <2>3
  <2> QED BY <1>2, <2>1, <2>4 DEF Dispatching
<1>3. ASSUME Flush, q \in Batch PROVE Dispatching(q)'
  <2>1. PICK claim \in [Conv -> UNION {[1 .. n -> Batch] : n \in 0 .. Cardinality(Batch)}] :
          /\ \A c \in Conv : InIdOrder(claim[c], {r \in Batch : Lane(r) = c})
          /\ lane' = [d \in Conv |-> lane[d] \o
              [i \in 1 .. Len(claim[d]) |->
                 [row |-> claim[d][i], attempts |-> attempts[claim[d][i]] + 1, own |-> FALSE]]]
    BY <1>3 DEF Flush
  <2>2. q \in 1 .. next
    BY <1>3, InsertedRange DEF Batch, Due, Claimable
  <2>3. Lane(q) \in Conv
    BY <2>2 DEF CommandsFit, Fits, Lane
  <2> DEFINE c == Lane(q)
             new == [i \in 1 .. Len(claim[c]) |->
                 [row |-> claim[c][i], attempts |-> attempts[claim[c][i]] + 1, own |-> FALSE]]
  <2>4. claim[c] \in UNION {[1 .. n -> Batch] : n \in 0 .. Cardinality(Batch)}
    BY <2>1, <2>3
  <2>5. PICK n \in 0 .. Cardinality(Batch) : claim[c] \in [1 .. n -> Batch]
    BY <2>4
  <2>6. n \in Nat /\ Len(claim[c]) = n /\ DOMAIN claim[c] = 1 .. n
    BY <2>5
  <2>7. PICK j \in 1 .. n : claim[c][j] = q
    BY <1>3, <2>1, <2>3, <2>6 DEF InIdOrder
  <2>8. new[j].row = q
    BY <2>6, <2>7
  <2>9. new \in Seq(Entry) /\ Len(new) = n
    <3>1. \A i \in 1 .. n : claim[c][i] \in Rows
      BY <2>5 DEF Batch, Due
    <3>2. \A i \in 1 .. n : new[i] \in Entry
      BY <2>6, <3>1, EntryType DEF TypeOK
    <3>3. new \in [1 .. n -> Entry]
      BY <2>6, <3>2
    <3> QED BY <2>6, <3>3
  <2>10. lane'[c] = lane[c] \o new /\ lane[c] \in Seq(Entry)
    BY <2>1, <2>3 DEF TypeOK, LanesTypeOK
  <2> HIDE DEF new
  <2>11. /\ Len(lane[c]) + j \in 1 .. Len(lane'[c])
         /\ lane'[c][Len(lane[c]) + j] = new[j]
    BY <2>6, <2>7, <2>9, <2>10
  <2> QED BY <2>3, <2>8, <2>11 DEF Dispatching
<1>4. ASSUME Flush, ~Dispatching(q) PROVE q \in Batch
  BY <1>4 DEF Flush, Lease
<1>5. ASSUME NEW r \in Rows, ClaimOwn(r), ~Dispatching(q) PROVE Dispatching(q)'
  <2>1. q = r /\ Claimable(r) /\ online /\ lane' = [lane EXCEPT ![Lane(r)] =
          Append(@, [row |-> r, attempts |-> attempts[r] + 1, own |-> TRUE])]
    BY <1>5 DEF ClaimOwn, Lease
  <2> QED BY <1>2, <1>5, <2>1
<1> QED BY <1>1, <1>3, <1>4, <1>5

-----------------------------------------------------------------------------
(* The steps while nothing fails.                                          *)

(* An insertion settles reply rows only, and keeps every lane.             *)
LEMMA InsertCalm ==
  ASSUME RetainedInv, Calm, NEW k \in Kind, NEW x \in Subject, Insert(k, x), spool' = spool,
         staged \subseteq staged' \cup (IF k = "media" THEN {x} ELSE {})
  PROVE  Calm'
<1> USE DEF RetainedInv, Calm
<1>1. RowsGrow
  BY InsertGrows
<1>2. /\ next' \in Rows /\ status[next'] = "none"
      /\ status'[next'] = "pending" /\ cmd'[next'] = [kind |-> k, of |-> x]
      /\ \A r \in Rows \ {next'} :
            /\ cmd'[r] = cmd[r]
            /\ \/ status'[r] = status[r]
               \/ status[r] = "pending" /\ IsReply(r) /\ status'[r] = "superseded"
  BY InsertedRow, Zenon
<1>3. UNCHANGED <<owner, lane, phase, mode>>
  BY DEF Insert
<1>4. Leases'
  BY <1>2, <1>3, LeasesKept
<1>5. \A r \in Rows : Live(r) /\ cmd[r].kind = "media" => Live(r)'
  BY <1>2 DEF Live, IsReply
<1>6. k = "media" => x \in Referenced'
  BY <1>2 DEF Referenced, Live
<1>7. Accounted'
  BY <1>1, <1>3, <1>5, <1>6, AccountedKept DEF Head1
<1> QED BY <1>3, <1>4, <1>7

LEMMA ProduceCalm ==
  ASSUME RetainedInv, Calm, Produce, ~Fault PROVE Calm'
<1>1. ASSUME NEW s \in Stream, Update(s) \/ CloseReply(s) PROVE Calm'
  <2>1. s \in Subject /\ "partial" \in Kind /\ "final" \in Kind
    BY DEF Subject, Kind
  <2> QED BY <1>1, <2>1, InsertCalm DEF Update, CloseReply
<1>2. ASSUME NEW n \in Note, SendProactiveText(n) PROVE Calm'
  <2>1. n \in Subject /\ "text" \in Kind
    BY DEF Subject, Kind
  <2> QED BY <1>2, <2>1, InsertCalm DEF SendProactiveText
<1>3. ASSUME NEW x \in Run, PresentRunControl(x) PROVE Calm'
  <2>1. x \in Subject /\ "card" \in Kind
    BY DEF Subject, Kind
  <2> QED BY <1>3, <2>1, InsertCalm DEF PresentRunControl
<1>4. ASSUME NEW a \in Artifact, EnqueueMedia(a) PROVE Calm'
  <2>1. Insert("media", a) /\ UNCHANGED spool /\ staged' = staged \ {a}
    BY <1>4 DEF EnqueueMedia
  <2>2. a \in Subject /\ "media" \in Kind
    BY DEF Subject, Kind
  <2> QED BY <2>1, <2>2, InsertCalm
<1>5. ASSUME NEW a \in Artifact, StageMedia(a) PROVE Calm'
  <2>1. /\ UNCHANGED <<next, cmd, status, owner, lane, phase, mode>>
        /\ spool' = spool \cup {a} /\ staged' = staged \cup {a}
    BY <1>5 DEF StageMedia, durable
  <2> QED BY <2>1 DEF Calm, Leases, Holds, Dispatching, Accounted, Referenced, Live, Head1
<1>6. ASSUME NEW x \in Run, ControlStale(x) \/ RunOver(x) PROVE Calm'
  <2>1. UNCHANGED <<next, cmd, owner, lane, phase, mode, spool, staged>>
    BY <1>6 DEF ControlStale, RunOver, durable
  <2>2. \A r \in Rows : \/ status'[r] = status[r]
                        \/ cmd[r].kind = "card" /\ status'[r] = "superseded"
    BY <1>6 DEF ControlStale, RunOver, durable
  <2>3. Leases'
    BY <2>1, <2>2, LeasesKept DEF Calm
  <2>4. Accounted'
    BY <2>1, <2>2 DEF Calm, Accounted, Referenced, Live, Head1
  <2> QED BY <2>1, <2>3, <2>4 DEF Calm
<1> QED BY <1>1, <1>2, <1>3, <1>4, <1>5, <1>6 DEF Produce

LEMMA ClaimCalm ==
  ASSUME RetainedInv, Calm, Flush \/ \E r \in Rows : ClaimOwn(r) PROVE Calm'
<1> USE DEF RetainedInv, Calm
<1>1. RowsGrow /\ UNCHANGED <<cmd, spool, staged, mode, phase>>
  BY ClaimWF DEF Flush, ClaimOwn
<1>2. \A r \in Rows : status'[r] = status[r] \/ (Live(r) /\ status'[r] = "leased")
  BY ClaimedRows
<1>3. \A r \in Rows : /\ owner'[r] \in {owner[r], "self"}
                      /\ status'[r] = "leased" /\ status[r] # "leased" => owner'[r] = "self"
  BY DEF Flush, ClaimOwn, Lease
<1>4. Leases'
  BY <1>3, ClaimDispatching DEF Leases, Holds
<1>5. Accounted'
  <2>1. \A c \in Conv : phase[c] = "releasing" => Head1(c)' = Head1(c)
    BY ClaimKeepsHeads DEF Head1, WFInv, TypeOK, LanesTypeOK
  <2> QED BY <1>1, <1>2, <2>1, AccountedKept DEF Live
<1> QED BY <1>1, <1>4, <1>5

(* Only a settled row leaves its lane.                                     *)
LEMMA DispatchCalm ==
  ASSUME RetainedInv, Calm, NEW c \in Conv, Dispatch(c), ~Fault PROVE Calm'
<1> USE DEF RetainedInv, Calm
<1> DEFINE r == Head1(c).row
<1>1. RowsGrow /\ TypeOK /\ lane[c] # <<>> /\ r \in Rows /\ r \in 1 .. next
  <2>1. phase[c] # "idle" \/ lane[c] # <<>>
    BY DEF Dispatch, Begin, Send, Complete, SettleFailed, Release
  <2> QED BY <2>1, HeadInserted, DispatchWF DEF WFInv
<1> HIDE DEF r
<1>2. UNCHANGED <<cmd, staged, mode>>
  BY DEF Dispatch, Begin, Send, Complete, SettleFailed, Release, durable
<1>3. \A q \in Rows \ {r} : status'[q] = status[q] /\ owner'[q] = owner[q]
  BY <1>1 DEF Dispatch, Begin, Send, Complete, SettleFailed, Release, durable, StoreThrows,
              Settle, TypeOK, RowsTypeOK, r
<1>4. lane' = lane \/ lane' = [lane EXCEPT ![c] = Tail(@)]
  BY DEF Dispatch, Begin, Send, Complete, SettleFailed, Release, Advance, Leave, Then
<1>5. ASSUME status'[r] = "leased"
      PROVE  lane' = lane /\ status[r] = "leased" /\ owner'[r] = owner[r]
  <2>1. CASE Begin(c)
    <3>1. Settle(r, "superseded") => status'[r] # "leased"
      BY <1>1 DEF Settle, TypeOK, RowsTypeOK
    <3>2. StoreThrows(r) => UNCHANGED <<status, owner>> /\ status[r] # "leased"
      BY <1>1 DEF StoreThrows, Leases, Holds
    <3> QED BY <1>5, <2>1, <3>1, <3>2 DEF Begin, Advance, r
  <2>2. CASE Send(c)
    BY <1>5, <2>2 DEF Send, Advance, durable
  <2>3. CASE Complete(c) \/ SettleFailed(c)
    <3>1. \A s \in {"delivered", "dead", "pending"} : Settle(r, s) => status'[r] # "leased"
      BY <1>1 DEF Settle, TypeOK, RowsTypeOK
    <3>2. StoreThrows(r) => UNCHANGED <<status, owner>> /\ status[r] # "leased"
      BY <1>1 DEF StoreThrows, Leases, Holds
    <3> QED BY <1>5, <2>3, <3>1, <3>2 DEF Complete, SettleFailed, r
  <2>4. CASE Release(c)
    BY <1>5, <2>4 DEF Release, durable, ReleasedSettled, r
  <2> QED BY <2>1, <2>2, <2>3, <2>4 DEF Dispatch
<1>6. Leases'
  <2> SUFFICES ASSUME NEW q \in Rows, status'[q] = "leased" PROVE Holds(q)' /\ Dispatching(q)'
    BY DEF Leases
  <2>1. status[q] = "leased" /\ owner'[q] = owner[q]
    BY <1>3, <1>5
  <2>2. Holds(q)' /\ Dispatching(q)
    BY <2>1 DEF Leases, Holds
  <2>3. CASE lane' = lane
    BY <2>2, <2>3 DEF Dispatching
  <2>4. CASE q # r /\ lane' = [lane EXCEPT ![c] = Tail(@)]
    BY <1>1, <2>2, <2>4, LeaveDispatching DEF r
  <2> QED BY <1>4, <1>5, <2>2, <2>3, <2>4
<1>7. \A d \in Conv \ {c} : phase'[d] = phase[d] /\ Head1(d)' = Head1(d)
  <2>1. \A d \in Conv \ {c} : phase'[d] = phase[d]
    BY DEF Dispatch, Begin, Send, Complete, SettleFailed, Release, Advance, Leave, Then,
           WFInv, TypeOK, LanesTypeOK
  <2>2. \A d \in Conv \ {c} : lane'[d] = lane[d]
    BY <1>4 DEF WFInv, TypeOK, LanesTypeOK
  <2> QED BY <2>1, <2>2 DEF Head1
<1>8. spool' \subseteq spool /\ (phase[c] = "releasing" => cmd[r].of \notin spool')
  BY DEF Dispatch, Begin, Send, Complete, SettleFailed, Release, r
<1>9. Live(r) /\ cmd[r].kind = "media" =>
        status'[r] \in {"pending", "leased"}
        \/ (phase'[c] = "releasing" /\ Head1(c)' = Head1(c))
  <2>1. CASE Begin(c)
    BY <1>1, <2>1 DEF Begin, Live, r
  <2>2. CASE Send(c) \/ Release(c)
    BY <2>2 DEF Send, Release, durable, Live
  <2>3. CASE Complete(c) \/ SettleFailed(c)
    <3>1. Settle(r, "pending") => status'[r] = "pending"
      BY <1>1 DEF Settle, TypeOK, RowsTypeOK
    <3>2. cmd[r].kind = "media" /\ Then(c, r) => phase'[c] = "releasing" /\ Head1(c)' = Head1(c)
      BY DEF Then, Advance, Head1, WFInv, TypeOK, LanesTypeOK
    <3> QED BY <2>3, <3>1, <3>2 DEF Complete, SettleFailed, StoreThrows, Live, r
  <2> QED BY <2>1, <2>2, <2>3 DEF Dispatch
<1>10. Accounted'
  <2>1. \A q \in Rows : Live(q) /\ cmd[q].kind = "media" =>
          Live(q)' \/ \E d \in Conv : phase'[d] = "releasing" /\ Head1(d)'.row = q
    BY <1>3, <1>9 DEF Live, r
  <2>2. \A d \in Conv : phase[d] = "releasing" /\ cmd[Head1(d).row].of \in spool' =>
          phase'[d] = "releasing" /\ Head1(d)' = Head1(d)
    BY <1>7, <1>8 DEF r
  <2> QED BY <1>1, <1>2, <1>8, <2>1, <2>2, AccountedKept
<1> QED BY <1>2, <1>6, <1>10

(* Without a fault the environment lets time pass, connects, starts, and   *)
(* revives dead letters.                                                   *)
LEMMA EnvironmentCalm ==
  ASSUME RetainedInv, Calm, Environment, ~Fault PROVE Calm'
<1> USE DEF RetainedInv, Calm
<1>1. RowsGrow
  BY EnvironmentWF
<1>2. /\ UNCHANGED <<cmd, owner, lane, phase, staged>> /\ mode' # "stopping"
      /\ \/ UNCHANGED spool
         \/ spool' = spool \cap Referenced
  BY DEF Environment, TimePasses, Connect, Disconnect, Start, Stop, Stopped, Crash, Requeue,
         durable, memory
<1>3. \A r \in Rows : status'[r] = status[r] \/ (status[r] = "dead" /\ status'[r] = "pending")
  BY RevivedRows
<1>4. Leases'
  BY <1>2, <1>3, LeasesKept
<1>5. Accounted'
  BY <1>1, <1>2, <1>3, AccountedKept DEF Live, Head1
<1> QED BY <1>2, <1>4, <1>5

-----------------------------------------------------------------------------

(* Nothing has failed: every lease is dispatched, every artifact accounted. *)
LEMMA SpecCalm == Spec => [](faults = 0 => Calm)
<1>1. Init => (faults = 0 => Calm)
  BY DEF Init, Calm, Leases, Accounted
<1>2. RetainedInv /\ (faults = 0 => Calm) /\ [Next]_vars => (faults = 0 => Calm)'
  <2> SUFFICES ASSUME RetainedInv, faults = 0 => Calm, [Next]_vars, faults' = 0 PROVE Calm'
    OBVIOUS
  <2>1. CASE UNCHANGED vars
    BY <2>1 DEF vars, durable, memory, budget, Calm, Leases, Holds, Dispatching, Accounted,
                Referenced, Live, Head1
  <2>2. CASE Next
    <3>1. ~Fault
      BY NoFaultYet DEF RetainedInv, WFInv
    <3>2. faults = 0
      BY <2>2, <3>1 DEF Next, Produce, Update, CloseReply, SendProactiveText, StageMedia,
         EnqueueMedia, PresentRunControl, ControlStale, RunOver, Insert, ClaimOwn, Flush,
         Dispatch, Begin, Send, Complete, SettleFailed, Release, StoreThrows, Environment,
         TimePasses, Connect, Disconnect, Start, Stop, Stopped, Crash, Requeue, NoFault, budget
    <3> QED
      BY <2>2, <3>1, <3>2, ProduceCalm, ClaimCalm, DispatchCalm, EnvironmentCalm DEF Next
  <2> QED BY <2>1, <2>2
<1> QED BY <1>1, <1>2, SpecRetained, PTL DEF Spec

(* While nothing failed, the spool holds only artifacts that are staged,   *)
(* referenced by a live row, or about to be released: none is leaked.      *)
THEOREM OutboxSpoolAccounted == Spec => []SpoolAccounted
<1>1. (faults = 0 => Calm) => SpoolAccounted
  BY DEF Calm, Accounted, SpoolAccounted
<1> QED BY SpecCalm, <1>1, PTL

(* While nothing failed, each leased row is in a lane of the process that  *)
(* leased it: a claim is never lost, nor left behind by a stale entry.     *)
THEOREM OutboxLeaseHasDispatcher == Spec => []LeaseHasDispatcher
<1>1. (faults = 0 => Calm) => LeaseHasDispatcher
  BY DEF Calm, Leases, LeaseHasDispatcher
<1> QED BY SpecCalm, <1>1, PTL

-----------------------------------------------------------------------------
(* What faults cost: DuplicatesCostFaults.  A row is owed one acceptance for *)
(* each entry of it that is still to be sent, and one more while it may be *)
(* claimed again without a fault; no step adds to what was accepted and is  *)
(* owed together, unless it spends a fault or a requeue.                   *)

(* The entries of row r that are still to be sent, by their place.         *)
Unsent(r) ==
  {i \in 1 .. Len(lane[Lane(r)]) :
     /\ lane[Lane(r)][i].row = r
     /\ i = 1 => phase[Lane(r)] \notin {"acked", "releasing"}}

(* No fault is needed before row r is claimed again.                       *)
Reclaimable(r) ==
  \/ status[r] = "pending"
  \/ status[r] = "leased" /\ (ripe[r] \/ ~Dispatching(r))

Owing(r) == Cardinality(Unsent(r)) + IF Reclaimable(r) THEN 1 ELSE 0

LanesHome == \A c \in Conv : \A i \in 1 .. Len(lane[c]) : Lane(lane[c][i].row) = c

LeasesOwn == \A r \in Rows : status[r] = "leased" /\ Dispatching(r) => owner[r] = "self"

Fresh == \A r \in Rows : r > next => accepted[r] = 0

Paid == \A r \in 1 .. next : accepted[r] + Owing(r) <= 1 + faults + requeues

PaidInv == LanesHome /\ LeasesOwn /\ Fresh /\ Paid

(* A set that gained one element at most.                                  *)
LEMMA OneMore ==
  ASSUME NEW S, IsFiniteSet(S), NEW x, NEW T \in SUBSET (S \cup {x})
  PROVE  IsFiniteSet(T) /\ Cardinality(T) \in Nat /\ Cardinality(S) \in Nat
         /\ Cardinality(T) <= Cardinality(S) + 1
<1>1. IsFiniteSet(S \cup {x}) /\ Cardinality(S \cup {x}) <= Cardinality(S) + 1
      /\ Cardinality(S) \in Nat /\ Cardinality(S \cup {x}) \in Nat
  BY FS_AddElement, FS_CardinalityType
<1>2. IsFiniteSet(T) /\ Cardinality(T) <= Cardinality(S \cup {x})
  BY <1>1, FS_Subset
<1>3. Cardinality(T) \in Nat
  BY <1>2, FS_CardinalityType
<1> QED BY <1>1, <1>2, <1>3

(* A set of places shifted to the front by one.                            *)
LEMMA ShiftedDown ==
  ASSUME NEW S \in SUBSET Nat, IsFiniteSet(S), NEW T \in SUBSET Nat, \A i \in T : i + 1 \in S
  PROVE  Cardinality(T) <= Cardinality(S) /\ Cardinality(T) \in Nat /\ Cardinality(S) \in Nat
<1> DEFINE f == [i \in T |-> i + 1]
<1>1. f \in [T -> S] /\ \A i, j \in T : f[i] = f[j] => i = j
  OBVIOUS
<1>2. f \in Injection(T, S)
  BY <1>1 DEF Injection, IsInjective
<1>3. IsFiniteSet(T) /\ Cardinality(T) <= Cardinality(S)
  BY <1>2, FS_Injection
<1> QED BY <1>3, FS_CardinalityType

(* Only finitely many entries wait.                                        *)
LEMMA UnsentFinite ==
  ASSUME WFInv, NEW r \in 1 .. next
  PROVE  /\ Lane(r) \in Conv /\ lane[Lane(r)] \in Seq(Entry) /\ Unsent(r) \in SUBSET Nat
         /\ IsFiniteSet(Unsent(r)) /\ Cardinality(Unsent(r)) \in Nat
<1>1. Lane(r) \in Conv
  BY DEF WFInv, CommandsFit, Fits, Lane
<1>2. lane[Lane(r)] \in Seq(Entry)
  BY <1>1 DEF WFInv, TypeOK, LanesTypeOK
<1>3. Len(lane[Lane(r)]) \in Nat
  BY <1>2
<1>4. IsFiniteSet(1 .. Len(lane[Lane(r)]))
  BY <1>3, FS_Interval
<1>5. Unsent(r) \in SUBSET (1 .. Len(lane[Lane(r)]))
  BY DEF Unsent
<1>6. IsFiniteSet(Unsent(r)) /\ Cardinality(Unsent(r)) \in Nat
  BY <1>4, <1>5, FS_Subset, FS_CardinalityType
<1> QED BY <1>1, <1>2, <1>3, <1>5, <1>6

(* Fewer places, fewer entries owed.                                       *)
LEMMA UnsentShrinks ==
  ASSUME WFInv, NEW r \in 1 .. next, NEW T, T \in SUBSET Unsent(r)
  PROVE  Cardinality(T) \in Nat /\ Cardinality(T) <= Cardinality(Unsent(r))
BY UnsentFinite, FS_Subset, FS_CardinalityType

(* The head of a lane, and when it is still to be sent.                    *)
LEMMA HeadUnsent ==
  ASSUME WFInv, LanesHome, NEW c \in Conv, lane[c] # <<>>
  PROVE  /\ Lane(Head1(c).row) = c /\ Dispatching(Head1(c).row)
         /\ 1 \in Unsent(Head1(c).row) <=> phase[c] \notin {"acked", "releasing"}
<1>1. lane[c] \in Seq(Entry)
  BY DEF WFInv, TypeOK, LanesTypeOK
<1>2. Head(lane[c]) = lane[c][1] /\ 1 \in 1 .. Len(lane[c])
  BY <1>1
<1>3. Lane(Head1(c).row) = c
  BY <1>2 DEF LanesHome, Head1
<1> QED BY <1>2, <1>3 DEF Unsent, Head1, Dispatching

(* An entry that leaves takes what it is owed along.                       *)
LEMMA LeaveUnsent ==
  ASSUME WFInv, LanesHome, NEW c \in Conv, lane[c] # <<>>, Leave(c), UNCHANGED cmd,
         NEW q \in 1 .. next
  PROVE  /\ Cardinality(Unsent(q)') \in Nat /\ Cardinality(Unsent(q)') <= Cardinality(Unsent(q))
         /\ q = Head1(c).row /\ phase[c] \notin {"acked", "releasing"}
              => Cardinality(Unsent(q)') + 1 <= Cardinality(Unsent(q))
<1>1. IsFiniteSet(Unsent(q)) /\ Lane(q) \in Conv /\ Unsent(q) \in SUBSET Nat
      /\ Cardinality(Unsent(q)) \in Nat
  BY UnsentFinite
<1>2. /\ IsFiniteSet(Unsent(q) \ {1})
      /\ Cardinality(Unsent(q) \ {1}) =
           IF 1 \in Unsent(q) THEN Cardinality(Unsent(q)) - 1 ELSE Cardinality(Unsent(q))
  BY <1>1, FS_RemoveElement
<1>3. Lane(q)' = Lane(q)
  BY DEF Lane
<1>4. lane[Lane(q)] \in Seq(Entry) /\ lane[c] \in Seq(Entry)
  BY <1>1 DEF WFInv, TypeOK, LanesTypeOK
<1>5. CASE Lane(q) = c
  <2>1. lane'[c] = Tail(lane[c]) /\ phase'[c] = "idle"
    BY DEF Leave, WFInv, TypeOK, LanesTypeOK
  <2>2. /\ Len(lane[c]) \in Nat /\ Len(Tail(lane[c])) = Len(lane[c]) - 1
        /\ \A j \in 1 .. Len(Tail(lane[c])) : Tail(lane[c])[j] = lane[c][j + 1]
    BY <1>4, HeadTailProperties
  <2>3. \A j \in Unsent(q)' : j \in Nat /\ j + 1 \in Unsent(q) \ {1}
    BY <1>3, <1>5, <2>1, <2>2 DEF Unsent
  <2>4. /\ Cardinality(Unsent(q)') \in Nat
        /\ Cardinality(Unsent(q)') <= Cardinality(Unsent(q) \ {1})
    BY <1>1, <1>2, <2>3, ShiftedDown
  <2>5. q = Head1(c).row /\ phase[c] \notin {"acked", "releasing"} => 1 \in Unsent(q)
    BY HeadUnsent
  <2> HIDE DEF Unsent
  <2> QED BY <1>1, <1>2, <2>4, <2>5
<1>6. CASE Lane(q) # c
  <2>1. lane'[Lane(q)] = lane[Lane(q)] /\ phase'[Lane(q)] = phase[Lane(q)]
    BY <1>1, <1>6 DEF Leave, WFInv, TypeOK, LanesTypeOK
  <2>2. Unsent(q)' = Unsent(q)
    BY <1>3, <2>1 DEF Unsent
  <2>3. q # Head1(c).row
    BY <1>6, HeadUnsent
  <2> QED BY <1>1, <2>2, <2>3
<1> QED BY <1>5, <1>6

(* What a claim did to the queues: it appended claimed rows, each once, to   *)
(* the lanes of their conversations.                                       *)
Claimed(q) == Claimable(q) /\ status'[q] = "leased" /\ owner'[q] = "self" /\ ~ripe'[q]

NewEntries(d) == {i \in 1 .. Len(lane'[d]) : i > Len(lane[d])}

LEMMA ClaimEntries ==
  ASSUME WFInv, Flush \/ \E r \in Rows : ClaimOwn(r), NEW d \in Conv
  PROVE  /\ Len(lane'[d]) \in Nat /\ Len(lane[d]) \in Nat
         /\ \A i \in 1 .. Len(lane'[d]) : i \notin NewEntries(d) =>
              i \in 1 .. Len(lane[d]) /\ lane'[d][i] = lane[d][i]
         /\ \A i \in NewEntries(d) :
              lane'[d][i].row \in Rows /\ Claimed(lane'[d][i].row) /\ Lane(lane'[d][i].row) = d
         /\ \A i, j \in NewEntries(d) : lane'[d][i].row = lane'[d][j].row => i = j
<1> USE DEF WFInv
<1>0. lane[d] \in Seq(Entry) /\ Len(lane[d]) \in Nat
  BY DEF TypeOK, LanesTypeOK
<1>1. CASE Flush
  <2>1. PICK claim \in [Conv -> UNION {[1 .. n -> Batch] : n \in 0 .. Cardinality(Batch)}] :
          /\ \A c \in Conv : InIdOrder(claim[c], {r \in Batch : Lane(r) = c})
          /\ lane' = [c \in Conv |-> lane[c] \o
              [i \in 1 .. Len(claim[c]) |->
                 [row |-> claim[c][i], attempts |-> attempts[claim[c][i]] + 1, own |-> FALSE]]]
    BY <1>1 DEF Flush
  <2> DEFINE new == [i \in 1 .. Len(claim[d]) |->
                 [row |-> claim[d][i], attempts |-> attempts[claim[d][i]] + 1, own |-> FALSE]]
  <2>2. claim[d] \in UNION {[1 .. n -> Batch] : n \in 0 .. Cardinality(Batch)}
    BY <2>1
  <2>3. PICK n \in 0 .. Cardinality(Batch) : claim[d] \in [1 .. n -> Batch]
    BY <2>2
  <2>4. n \in Nat /\ Len(claim[d]) = n /\ DOMAIN claim[d] = 1 .. n
    BY <2>3
  <2>5. \A i \in 1 .. n : /\ claim[d][i] \in Batch /\ Lane(claim[d][i]) = d
                          /\ new[i].row = claim[d][i]
    BY <2>1, <2>4 DEF InIdOrder
  <2>6. \A i, j \in 1 .. n : claim[d][i] = claim[d][j] => i = j
    <3>1. \A i, j \in 1 .. n : i < j => claim[d][i] < claim[d][j]
      BY <2>1, <2>4 DEF InIdOrder
    <3>2. \A q \in Batch : q \in Nat
      BY DEF Batch, Due, Rows
    <3>3. \A i \in 1 .. n : claim[d][i] \in Nat
      BY <2>5, <3>2
    <3> QED BY <3>1, <3>3
  <2>7. new \in Seq(Entry) /\ Len(new) = n
    <3>1. \A i \in 1 .. n : claim[d][i] \in Rows
      BY <2>5 DEF Batch, Due
    <3>2. \A i \in 1 .. n : new[i] \in Entry
      BY <2>4, <3>1, EntryType DEF TypeOK
    <3>3. new \in [1 .. n -> Entry]
      BY <2>4, <3>2
    <3> QED BY <2>4, <3>3
  <2>8. lane'[d] = lane[d] \o new
    BY <2>1
  <2> HIDE DEF new
  <2>9. /\ Len(lane'[d]) = Len(lane[d]) + n
        /\ \A i \in 1 .. Len(lane[d]) : lane'[d][i] = lane[d][i]
        /\ \A i \in 1 .. n : lane'[d][Len(lane[d]) + i] = new[i]
    <3>1. /\ Len(lane[d] \o new) = Len(lane[d]) + Len(new)
          /\ \A i \in 1 .. Len(lane[d]) + Len(new) : (lane[d] \o new)[i] =
                IF i <= Len(lane[d]) THEN lane[d][i] ELSE new[i - Len(lane[d])]
      BY <1>0, <2>7, ConcatProperties
    <3>2. \A i \in 1 .. n : Len(lane[d]) + i \in 1 .. Len(lane[d]) + n /\ ~(Len(lane[d]) + i <= Len(lane[d]))
                             /\ (Len(lane[d]) + i) - Len(lane[d]) = i
      BY <1>0, <2>4
    <3>3. \A i \in 1 .. Len(lane[d]) : i \in 1 .. Len(lane[d]) + n /\ i <= Len(lane[d])
      BY <1>0, <2>4
    <3> QED BY <2>7, <2>8, <3>1, <3>2, <3>3
  <2>10. \A i \in NewEntries(d) : i - Len(lane[d]) \in 1 .. n
                                  /\ lane'[d][i].row = claim[d][i - Len(lane[d])]
    <3> TAKE i \in NewEntries(d)
    <3>1. i - Len(lane[d]) \in 1 .. n /\ i = Len(lane[d]) + (i - Len(lane[d]))
      BY <1>0, <2>4, <2>9 DEF NewEntries
    <3> QED BY <2>5, <2>9, <3>1
  <2>11. \A q \in Batch : q \in Rows /\ Claimed(q)
    <3>1. \A q \in Batch : q \in Rows /\ Claimable(q)
      BY DEF Batch, Due
    <3>2. Lease(Batch)
      BY <1>1 DEF Flush
    <3> HIDE DEF Batch
    <3> QED BY <3>1, <3>2 DEF Lease, Claimed
  <2>12. \A i, j \in NewEntries(d) : lane'[d][i].row = lane'[d][j].row => i = j
    <3> SUFFICES ASSUME NEW i \in NewEntries(d), NEW j \in NewEntries(d),
                        lane'[d][i].row = lane'[d][j].row
                 PROVE  i = j
      OBVIOUS
    <3>1. i - Len(lane[d]) = j - Len(lane[d])
      BY <2>6, <2>10
    <3> QED BY <1>0, <2>4, <2>9, <3>1 DEF NewEntries
  <2>13. /\ Len(lane'[d]) \in Nat
         /\ \A i \in 1 .. Len(lane'[d]) : i \notin NewEntries(d) => i \in 1 .. Len(lane[d])
    BY <1>0, <2>4, <2>9 DEF NewEntries
  <2>14. \A i \in NewEntries(d) :
           lane'[d][i].row \in Rows /\ Claimed(lane'[d][i].row) /\ Lane(lane'[d][i].row) = d
    <3> TAKE i \in NewEntries(d)
    <3>1. lane'[d][i].row \in Batch /\ Lane(lane'[d][i].row) = d
      BY <2>5, <2>10
    <3> QED BY <2>11, <3>1
  <2> QED BY <1>0, <2>9, <2>12, <2>13, <2>14
<1>2. ASSUME NEW r \in Rows, ClaimOwn(r), lane'[d] = lane[d]
      PROVE  NewEntries(d) = {}
  BY <1>0, <1>2 DEF NewEntries
<1>3. ASSUME NEW r \in Rows, ClaimOwn(r), lane'[d] # lane[d]
      PROVE  /\ Claimed(r) /\ Lane(r) = d
             /\ NewEntries(d) = {Len(lane[d]) + 1} /\ Len(lane'[d]) = Len(lane[d]) + 1
             /\ \A i \in 1 .. Len(lane[d]) : lane'[d][i] = lane[d][i]
             /\ lane'[d][Len(lane[d]) + 1].row = r
  <2> DEFINE e == [row |-> r, attempts |-> attempts[r] + 1, own |-> TRUE]
  <2>1. Claimable(r) /\ Lease({r}) /\ lane' = [lane EXCEPT ![Lane(r)] = Append(@, e)]
    BY <1>3 DEF ClaimOwn
  <2>2. e \in Entry /\ e.row = r
    BY EntryType DEF TypeOK
  <2> HIDE DEF e
  <2>3. Lane(r) = d /\ lane'[d] = Append(lane[d], e)
    BY <1>3, <2>1 DEF TypeOK, LanesTypeOK
  <2>4. Claimed(r)
    BY <2>1 DEF Lease, Claimed
  <2>5. /\ Len(lane'[d]) = Len(lane[d]) + 1
        /\ \A i \in 1 .. Len(lane[d]) : lane'[d][i] = lane[d][i]
        /\ lane'[d][Len(lane[d]) + 1] = e
    BY <1>0, <2>2, <2>3
  <2>6. NewEntries(d) = {Len(lane[d]) + 1}
    BY <1>0, <2>5 DEF NewEntries
  <2> QED BY <2>2, <2>3, <2>4, <2>5, <2>6
<1>4. ASSUME NEW r \in Rows, ClaimOwn(r), lane'[d] # lane[d]
      PROVE  /\ Len(lane'[d]) \in Nat
             /\ \A i \in 1 .. Len(lane'[d]) : i \notin NewEntries(d) => i \in 1 .. Len(lane[d])
  BY <1>0, <1>3, <1>4
<1> QED BY <1>0, <1>1, <1>2, <1>3, <1>4

(* Every row is claimed, or keeps its columns.                             *)
LEMMA ClaimedOrNot ==
  ASSUME WFInv, Flush \/ \E r \in Rows : ClaimOwn(r), NEW q \in Rows
  PROVE  \/ Claimed(q)
         \/ ~Claimed(q) /\ status'[q] = status[q] /\ ripe'[q] = ripe[q] /\ owner'[q] = owner[q]
<1>1. ASSUME NEW S, \A r \in S : Claimable(r), Lease(S)
      PROVE  \/ Claimed(q)
             \/ ~Claimed(q) /\ status'[q] = status[q] /\ ripe'[q] = ripe[q] /\ owner'[q] = owner[q]
  <2>1. CASE q \in S
    BY <1>1, <2>1 DEF Lease, Claimed
  <2>2. CASE q \notin S
    BY <1>1, <2>2 DEF Lease, Claimed, Claimable, WFInv, TypeOK, RowsTypeOK
  <2> QED BY <2>1, <2>2
<1>2. CASE Flush
  <2>1. \A r \in Batch : Claimable(r)
    BY DEF Batch, Due
  <2>2. Lease(Batch)
    BY <1>2 DEF Flush
  <2> QED BY <1>1, <2>1, <2>2
<1>3. ASSUME NEW r \in Rows, ClaimOwn(r)
      PROVE  \/ Claimed(q)
             \/ ~Claimed(q) /\ status'[q] = status[q] /\ ripe'[q] = ripe[q] /\ owner'[q] = owner[q]
  <2>1. CASE Claimable(r) /\ Lease({r})
    <3>1. \A x \in {r} : Claimable(x)
      BY <2>1
    <3> QED BY <1>1, <2>1, <3>1
  <2>2. CASE UNCHANGED <<status, owner, attempts, ripe>>
    BY <2>2 DEF Claimed, Claimable, WFInv, TypeOK, RowsTypeOK
  <2> QED BY <1>3, <2>1, <2>2 DEF ClaimOwn
<1> QED BY <1>2, <1>3

(* A claim turns the right to be claimed into one entry.                   *)
LEMMA ClaimCost ==
  ASSUME WFInv, Flush \/ \E r \in Rows : ClaimOwn(r), NEW q \in 1 .. next
  PROVE  Owing(q)' <= Owing(q)
<1> DEFINE d == Lane(q)
<1>0. /\ d \in Conv /\ IsFiniteSet(Unsent(q)) /\ Cardinality(Unsent(q)) \in Nat
      /\ q \in Rows /\ d' = d /\ phase' = phase
  <2>1. UNCHANGED <<cmd, phase>>
    BY DEF Flush, ClaimOwn
  <2> QED BY <2>1, UnsentFinite, InsertedRange DEF Lane
<1>1. \A i \in Unsent(q)' : i \in Unsent(q) \/ (i \in NewEntries(d) /\ lane'[d][i].row = q)
  BY <1>0, ClaimEntries DEF Unsent
<1>2. CASE Claimed(q)
  <2>1. Reclaimable(q)
    BY <1>2 DEF Claimed, Claimable, Reclaimable, Live
  <2>2. ~Reclaimable(q)'
    <3>1. Dispatching(q)'
      BY <1>0, <1>2, ClaimDispatching DEF Claimed, Claimable
    <3> QED BY <1>2, <3>1 DEF Claimed, Reclaimable
  <2>3. \E k : Unsent(q)' \in SUBSET (Unsent(q) \cup {k})
    <3>1. CASE \E k \in NewEntries(d) : lane'[d][k].row = q
      <4>1. PICK k \in NewEntries(d) : lane'[d][k].row = q
        BY <3>1
      <4>2. \A i \in Unsent(q)' : i \in Unsent(q) \/ i = k
        BY <1>0, <1>1, <4>1, ClaimEntries
      <4> QED BY <4>2
    <3>2. CASE ~ \E k \in NewEntries(d) : lane'[d][k].row = q
      <4>1. \A i \in Unsent(q)' : i \in Unsent(q)
        BY <1>1, <3>2
      <4> QED BY <4>1
    <3> QED BY <3>1, <3>2
  <2>4. Cardinality(Unsent(q)') \in Nat /\ Cardinality(Unsent(q)') <= Cardinality(Unsent(q)) + 1
    BY <1>0, <2>3, OneMore
  <2> QED BY <1>0, <2>1, <2>2, <2>4 DEF Owing
<1>3. CASE ~Claimed(q)
  <2>1. status'[q] = status[q] /\ ripe'[q] = ripe[q]
    BY <1>0, <1>3, ClaimedOrNot
  <2>2. Unsent(q)' \in SUBSET Unsent(q)
    <3>1. \A i \in NewEntries(d) : lane'[d][i].row # q
      BY <1>0, <1>3, ClaimEntries
    <3> QED BY <1>1, <3>1
  <2>3. Cardinality(Unsent(q)') \in Nat /\ Cardinality(Unsent(q)') <= Cardinality(Unsent(q))
    BY <1>0, <2>2, UnsentShrinks
  <2>4. Reclaimable(q)' => Reclaimable(q)
    BY <1>0, <2>1, ClaimDispatching DEF Reclaimable
  <2> QED BY <1>0, <2>3, <2>4 DEF Owing
<1> QED BY <1>2, <1>3

(* What a row is owed is a number.                                         *)
Countable == \A r \in 1 .. next : Owing(r) \in Nat /\ accepted[r] \in Nat

LEMMA OwingNat == WFInv => Countable
<1> SUFFICES ASSUME WFInv, NEW r \in 1 .. next PROVE Owing(r) \in Nat /\ accepted[r] \in Nat
  BY DEF Countable
<1>1. Owing(r) \in Nat
  BY UnsentFinite DEF Owing
<1>2. accepted[r] \in Nat
  BY InsertedRange DEF WFInv, TypeOK, RowsTypeOK, MaxAccepted
<1> QED BY <1>1, <1>2

(* Rows that gain no acceptance and owe no more than is paid stay paid.    *)
LEMMA PaidKept ==
  ASSUME WFInv, Paid, next' = next, RowsTypeOK', \A q \in 1 .. next : Owing(q)' \in Nat,
         \/ /\ faults' = faults /\ requeues' = requeues
            /\ \A q \in 1 .. next : accepted'[q] + Owing(q)' <= accepted[q] + Owing(q)
         \/ /\ \/ faults' = faults + 1 /\ requeues' = requeues
               \/ faults' = faults /\ requeues' = requeues + 1
            /\ \A q \in 1 .. next : accepted'[q] + Owing(q)' <= accepted[q] + Owing(q) + 1
  PROVE  Paid'
<1> SUFFICES ASSUME NEW q \in 1 .. next
             PROVE  accepted'[q] + Owing(q)' <= 1 + faults' + requeues'
  BY DEF Paid
<1>1. Owing(q) \in Nat /\ accepted[q] \in Nat /\ accepted[q] + Owing(q) <= 1 + faults + requeues
  BY OwingNat DEF Paid, Countable
<1>2. accepted'[q] \in Nat /\ faults \in Nat /\ requeues \in Nat
  BY InsertedRange DEF WFInv, TypeOK, RowsTypeOK, ProcessTypeOK, MaxAccepted
<1> QED BY <1>1, <1>2

(* A head that moves on to be acknowledged is no longer to be sent.         *)
LEMMA AdvanceUnsent ==
  ASSUME WFInv, LanesHome, NEW c \in Conv, lane[c] # <<>>, NEW p \in Phase, Advance(c, p),
         phase[c] \in {"acked", "releasing"} => p \in {"acked", "releasing"}, UNCHANGED cmd,
         NEW q \in 1 .. next
  PROVE  /\ Cardinality(Unsent(q)') \in Nat /\ Cardinality(Unsent(q)') <= Cardinality(Unsent(q))
         /\ (/\ q = Head1(c).row /\ phase[c] \notin {"acked", "releasing"}
             /\ p \in {"acked", "releasing"})
              => Cardinality(Unsent(q)') + 1 <= Cardinality(Unsent(q))
<1>1. IsFiniteSet(Unsent(q)) /\ Lane(q) \in Conv /\ Cardinality(Unsent(q)) \in Nat
  BY UnsentFinite
<1>2. Lane(q)' = Lane(q) /\ lane' = lane
  BY DEF Lane, Advance
<1>3. /\ phase'[c] = p
      /\ \A d \in Conv \ {c} : phase'[d] = phase[d]
  BY DEF Advance, WFInv, TypeOK, LanesTypeOK
<1>4. Unsent(q)' \in SUBSET Unsent(q)
  BY <1>1, <1>2, <1>3 DEF Unsent
<1>5. ASSUME q = Head1(c).row, phase[c] \notin {"acked", "releasing"}, p \in {"acked", "releasing"}
      PROVE  1 \in Unsent(q) /\ 1 \notin Unsent(q)'
  <2>1. Lane(q) = c /\ 1 \in Unsent(q)
    BY <1>5, HeadUnsent
  <2> QED BY <1>2, <1>3, <1>5, <2>1 DEF Unsent
<1> HIDE DEF Unsent
<1>6. Cardinality(Unsent(q)') \in Nat /\ Cardinality(Unsent(q)') <= Cardinality(Unsent(q))
  BY <1>4, UnsentShrinks
<1>7. ASSUME 1 \in Unsent(q), 1 \notin Unsent(q)'
      PROVE  Cardinality(Unsent(q)') + 1 <= Cardinality(Unsent(q))
  <2>1. Cardinality(Unsent(q) \ {1}) = Cardinality(Unsent(q)) - 1 /\ IsFiniteSet(Unsent(q) \ {1})
    BY <1>1, <1>7, FS_RemoveElement
  <2>2. Unsent(q)' \in SUBSET (Unsent(q) \ {1})
    BY <1>4, <1>7
  <2>3. Cardinality(Unsent(q)') <= Cardinality(Unsent(q) \ {1})
    BY <2>1, <2>2, FS_Subset
  <2> QED BY <1>1, <1>6, <2>1, <2>3
<1> QED BY <1>5, <1>6, <1>7

(* What dispatching the head of lane c leaves alone.                       *)
LEMMA DispatchFrame ==
  ASSUME WFInv, NEW c \in Conv, Dispatch(c)
  PROVE  /\ lane[c] # <<>> /\ Head1(c).row \in 1 .. next
         /\ UNCHANGED <<next, cmd, requeues>> /\ (faults' = faults \/ faults' = faults + 1)
         /\ \A q \in Rows \ {Head1(c).row} :
              /\ status'[q] = status[q] /\ owner'[q] = owner[q] /\ ripe'[q] = ripe[q]
              /\ accepted'[q] = accepted[q]
         /\ Leave(c) \/ (\E p \in Phase : Advance(c, p) /\
              (phase[c] \in {"acked", "releasing"} => p \in {"acked", "releasing"}))
<1>1. phase[c] # "idle" \/ lane[c] # <<>>
  BY DEF Dispatch, Begin, Send, Complete, SettleFailed, Release
<1>2. lane[c] # <<>> /\ Head1(c).row \in 1 .. next
  BY <1>1, HeadInserted
<1>3. UNCHANGED <<next, cmd, requeues>> /\ (faults' = faults \/ faults' = faults + 1)
  BY DEF Dispatch, Begin, Send, Complete, SettleFailed, Release, durable, StoreThrows, Fault, NoFault
<1> DEFINE r == Head1(c).row
<1>4. \A q \in Rows \ {r} : status'[q] = status[q] /\ owner'[q] = owner[q] /\ ripe'[q] = ripe[q]
  <2>1. UNCHANGED <<status, owner, ripe>> \/ (\E s \in Status : Settle(r, s))
    BY DEF Dispatch, Begin, Send, Complete, SettleFailed, Release, durable, StoreThrows, Status
  <2> QED BY <2>1 DEF Settle, WFInv, TypeOK, RowsTypeOK
<1>5. \A q \in Rows \ {r} : accepted'[q] = accepted[q]
  <2>1. UNCHANGED accepted \/ Accept(r)
    BY DEF Dispatch, Begin, Send, Complete, SettleFailed, Release
  <2> QED BY <2>1 DEF Accept, WFInv, TypeOK, RowsTypeOK
<1>6. Leave(c) \/ (\E p \in Phase : Advance(c, p) /\
              (phase[c] \in {"acked", "releasing"} => p \in {"acked", "releasing"}))
  BY DEF Dispatch, Begin, Send, Complete, SettleFailed, Release, Then, Phase
<1> QED BY <1>2, <1>3, <1>4, <1>5, <1>6

(* A row keeps its dispatcher when another row leaves; nothing else gains. *)
LEMMA DispatchOthers ==
  ASSUME WFInv, LanesHome, NEW c \in Conv, Dispatch(c), NEW q \in 1 .. next
  PROVE  /\ Cardinality(Unsent(q)') \in Nat /\ Cardinality(Unsent(q)') <= Cardinality(Unsent(q))
         /\ q # Head1(c).row => (Reclaimable(q)' => Reclaimable(q))
         /\ Leave(c) /\ q = Head1(c).row /\ phase[c] \notin {"acked", "releasing"}
              => Cardinality(Unsent(q)') + 1 <= Cardinality(Unsent(q))
         /\ UNCHANGED lane => Dispatching(q)' = Dispatching(q)
<1>1. Cardinality(Unsent(q)') \in Nat /\ Cardinality(Unsent(q)') <= Cardinality(Unsent(q))
  BY DispatchFrame, LeaveUnsent, AdvanceUnsent
<1>2. Leave(c) /\ q = Head1(c).row /\ phase[c] \notin {"acked", "releasing"}
              => Cardinality(Unsent(q)') + 1 <= Cardinality(Unsent(q))
  BY DispatchFrame, LeaveUnsent
<1>3. UNCHANGED lane => Dispatching(q)' = Dispatching(q)
  BY DEF Dispatching
<1>4. ASSUME q # Head1(c).row PROVE Reclaimable(q)' => Reclaimable(q)
  <2>1. q \in Rows /\ status'[q] = status[q] /\ ripe'[q] = ripe[q]
    BY <1>4, DispatchFrame, InsertedRange
  <2>2. lane' = lane \/ lane' = [lane EXCEPT ![c] = Tail(@)]
    BY DispatchFrame DEF Leave, Advance
  <2>3. Dispatching(q) => Dispatching(q)'
    BY <1>3, <1>4, <2>1, <2>2, DispatchFrame, LeaveDispatching
  <2> QED BY <2>1, <2>3 DEF Reclaimable
<1> QED BY <1>1, <1>2, <1>3, <1>4

(* A dispatch step sends, settles or drops the head's entry; what it costs  *)
(* beyond that it pays with a fault.                                       *)
LEMMA DispatchCost ==
  ASSUME WFInv, ReleasedSettled, LanesHome, LeasesOwn, NEW c \in Conv, Dispatch(c),
         NEW q \in 1 .. next
  PROVE  /\ Owing(q)' \in Nat
         /\ \/ faults' = faults /\ accepted'[q] + Owing(q)' <= accepted[q] + Owing(q)
            \/ faults' = faults + 1 /\ accepted'[q] + Owing(q)' <= accepted[q] + Owing(q) + 1
<1> DEFINE r == Head1(c).row
<1>1. /\ Cardinality(Unsent(q)) \in Nat /\ q \in Rows /\ accepted[q] \in Nat
      /\ Cardinality(Unsent(q)') \in Nat /\ Cardinality(Unsent(q)') <= Cardinality(Unsent(q))
      /\ lane[c] # <<>> /\ r \in 1 .. next /\ r \in Rows
      /\ accepted'[r] = accepted[r] \/ accepted'[r] = accepted[r] + 1
  <2>1. UNCHANGED accepted \/ Accept(r)
    BY DEF Dispatch, Begin, Send, Complete, SettleFailed, Release
  <2>2. r \in 1 .. next /\ r \in Rows /\ q \in Rows /\ lane[c] # <<>>
    BY DispatchFrame, InsertedRange
  <2>3. accepted'[r] = accepted[r] \/ accepted'[r] = accepted[r] + 1
    BY <2>1, <2>2 DEF Accept, WFInv, TypeOK, RowsTypeOK
  <2>4. accepted[q] \in Nat
    BY <2>2 DEF WFInv, TypeOK, RowsTypeOK, MaxAccepted
  <2> QED BY <2>2, <2>3, <2>4, UnsentFinite, DispatchOthers
<1> HIDE DEF r
<1>2. CASE q # r
  <2>1. accepted'[q] = accepted[q] /\ (Reclaimable(q)' => Reclaimable(q))
        /\ (faults' = faults \/ faults' = faults + 1)
    BY <1>1, <1>2, DispatchFrame, DispatchOthers DEF r
  <2> QED BY <1>1, <2>1 DEF Owing
<1>3. CASE q = r
  <2>1. ASSUME Leave(c), phase[c] \notin {"acked", "releasing"}
        PROVE  Cardinality(Unsent(q)') + 1 <= Cardinality(Unsent(q))
    BY <1>3, <2>1, DispatchOthers DEF r
  <2>2. ASSUME NEW p \in Phase, Advance(c, p), UNCHANGED <<status, ripe>>
        PROVE  Reclaimable(q)' = Reclaimable(q)
    BY <2>2, DispatchOthers DEF Advance, Reclaimable
  <2>3. ASSUME accepted' = accepted, Cardinality(Unsent(q)') + 1 <= Cardinality(Unsent(q))
        PROVE  Owing(q)' \in Nat /\ accepted'[q] + Owing(q)' <= accepted[q] + Owing(q)
    BY <1>1, <2>3 DEF Owing
  <2>4. ASSUME accepted' = accepted, Reclaimable(q)' => Reclaimable(q)
        PROVE  Owing(q)' \in Nat /\ accepted'[q] + Owing(q)' <= accepted[q] + Owing(q)
    BY <1>1, <2>4 DEF Owing
  <2>5. ASSUME accepted' = accepted
        PROVE  Owing(q)' \in Nat /\ accepted'[q] + Owing(q)' <= accepted[q] + Owing(q) + 1
    BY <1>1, <2>5 DEF Owing
  <2>6. ASSUME NEW s \in {"delivered", "dead", "superseded"}, Settle(r, s)
        PROVE  ~Reclaimable(q)'
    BY <1>1, <1>3, <2>6 DEF Settle, Reclaimable, WFInv, TypeOK, RowsTypeOK
  <2>7. ASSUME StoreThrows(r), accepted' = accepted
        PROVE  /\ Owing(q)' \in Nat
               /\ \/ faults' = faults /\ accepted'[q] + Owing(q)' <= accepted[q] + Owing(q)
                  \/ faults' = faults + 1 /\ accepted'[q] + Owing(q)' <= accepted[q] + Owing(q) + 1
    <3>1. CASE ~Holds(r) /\ faults' = faults
      <4>1. status[r] # "leased"
        BY <1>1, <3>1, HeadUnsent DEF LeasesOwn, Holds, r
      <4>2. Reclaimable(q)' => Reclaimable(q)
        BY <1>3, <2>7, <4>1 DEF Reclaimable, StoreThrows
      <4> QED BY <2>4, <2>7, <3>1, <4>2
    <3>2. CASE faults' = faults + 1
      BY <2>5, <2>7, <3>2
    <3> QED BY <2>7, <3>1, <3>2 DEF StoreThrows, Fault, NoFault
  <2>8. CASE Begin(c)
    <3>1. accepted' = accepted
      BY <2>8 DEF Begin
    <3>2. CASE Leave(c)
      <4>1. faults' = faults \/ faults' = faults + 1
        BY DispatchFrame
      <4>2. phase[c] \notin {"acked", "releasing"}
        BY <2>8 DEF Begin
      <4> QED BY <1>1, <2>1, <2>3, <2>5, <3>1, <3>2, <4>1, <4>2
    <3>3. CASE ~Leave(c)
      <4>1. faults' = faults /\ UNCHANGED <<status, ripe>> /\ (\E p \in Phase : Advance(c, p))
        BY <2>8, <3>3 DEF Begin, NoFault, Phase
      <4> QED BY <2>2, <2>4, <3>1, <4>1
    <3> QED BY <3>2, <3>3
  <2>9. CASE Send(c)
    <3>1. /\ UNCHANGED <<status, ripe>> /\ phase[c] = "sending"
          /\ \/ Advance(c, "acked") /\ faults' = faults
             \/ Advance(c, "failed") /\ UNCHANGED accepted /\ faults' = faults
             \/ Advance(c, "failed") /\ faults' = faults + 1
      BY <2>9 DEF Send, durable, NoFault, Fault
    <3>2. "acked" \in Phase /\ "failed" \in Phase
      BY DEF Phase
    <3>3. Reclaimable(q)' = Reclaimable(q)
      BY <2>2, <3>1, <3>2
    <3>4. CASE Advance(c, "acked") /\ faults' = faults
      <4>1. Cardinality(Unsent(q)') + 1 <= Cardinality(Unsent(q))
        BY <1>1, <1>3, <3>1, <3>2, <3>4, AdvanceUnsent, DispatchFrame DEF r
      <4> QED BY <1>1, <1>3, <3>3, <3>4, <4>1 DEF Owing
    <3>5. CASE UNCHANGED accepted /\ faults' = faults
      BY <2>4, <3>3, <3>5
    <3>6. CASE faults' = faults + 1
      BY <1>1, <1>3, <3>3, <3>6 DEF Owing
    <3> QED BY <3>1, <3>4, <3>5, <3>6
  <2>10. CASE Complete(c)
    <3>1. accepted' = accepted
      BY <2>10 DEF Complete
    <3>2. StoreThrows(r) \/ (Settle(r, "delivered") /\ faults' = faults)
      BY <2>10 DEF Complete, NoFault, r
    <3> QED BY <2>4, <2>6, <2>7, <3>1, <3>2
  <2>11. CASE SettleFailed(c)
    <3>1. accepted' = accepted /\ phase[c] \notin {"acked", "releasing"}
      BY <2>11 DEF SettleFailed
    <3>2. \/ Leave(c)
          \/ Settle(r, "dead") /\ faults' = faults
      BY <2>11 DEF SettleFailed, NoFault, r
    <3>3. faults' = faults \/ faults' = faults + 1
      BY DispatchFrame
    <3> QED BY <2>1, <2>3, <2>4, <2>5, <2>6, <3>1, <3>2, <3>3
  <2>12. CASE Release(c)
    <3>1. accepted' = accepted /\ UNCHANGED <<status, ripe>> /\ phase[c] = "releasing"
          /\ (faults' = faults \/ faults' = faults + 1)
      BY <2>12, DispatchFrame DEF Release, durable
    <3>2. ~Reclaimable(q)'
      BY <1>3, <3>1 DEF ReleasedSettled, Reclaimable, r
    <3> QED BY <2>4, <2>5, <3>1, <3>2
  <2> QED BY <2>8, <2>9, <2>10, <2>11, <2>12 DEF Dispatch
<1> QED BY <1>2, <1>3

(* Entries stay with the conversation of their row.                        *)
LEMMA HomeKept ==
  ASSUME WFInv, LanesHome, [Next]_vars PROVE LanesHome'
<1> SUFFICES ASSUME NEW d \in Conv, NEW i \in 1 .. Len(lane'[d])
             PROVE  ConvOf[cmd'[lane'[d][i].row].of] = d
  BY DEF LanesHome, Lane
<1>0. lane[d] \in Seq(Entry) /\ Len(lane[d]) \in Nat /\ next \in Nat
  BY DEF WFInv, TypeOK, LanesTypeOK, RowsTypeOK
<1>1. ASSUME NEW j \in 1 .. Len(lane[d]), lane'[d][i] = lane[d][j]
      PROVE  ConvOf[cmd'[lane'[d][i].row].of] = d
  <2>1. lane[d][j] \in Entry
    BY <1>0
  <2>2. lane[d][j].row \in 1 .. next /\ Lane(lane[d][j].row) = d
    BY <1>0, <2>1 DEF LanesHome, WFInv, QueuedInserted, Entry, Rows
  <2>3. cmd'[lane[d][j].row] = cmd[lane[d][j].row]
    BY <2>2, StepWF DEF RowsGrow
  <2> QED BY <1>1, <2>2, <2>3 DEF Lane
<1>2. CASE UNCHANGED lane
  BY <1>1, <1>2
<1>3. CASE Flush \/ \E r \in Rows : ClaimOwn(r)
  <2>1. CASE i \in NewEntries(d)
    <3>1. Lane(lane'[d][i].row) = d
      BY <1>3, <2>1, ClaimEntries
    <3>2. UNCHANGED cmd
      BY <1>3 DEF Flush, ClaimOwn
    <3> QED BY <3>1, <3>2 DEF Lane
  <2>2. CASE i \notin NewEntries(d)
    BY <1>1, <1>3, <2>2, ClaimEntries
  <2> QED BY <2>1, <2>2
<1>4. ASSUME NEW c \in Conv, Dispatch(c) PROVE ConvOf[cmd'[lane'[d][i].row].of] = d
  <2>1. lane' = lane \/ (lane' = [lane EXCEPT ![c] = Tail(@)] /\ lane[c] # <<>>)
    BY <1>4, DispatchFrame DEF Leave, Advance
  <2>2. lane'[d] = lane[d] \/ (lane'[d] = Tail(lane[d]) /\ lane[d] # <<>>)
    BY <2>1 DEF WFInv, TypeOK, LanesTypeOK
  <2>3. CASE lane'[d] = Tail(lane[d]) /\ lane[d] # <<>>
    <3>1. i + 1 \in 1 .. Len(lane[d]) /\ lane'[d][i] = lane[d][i + 1]
      BY <1>0, <2>3, HeadTailProperties
    <3> QED BY <1>1, <3>1
  <2> QED BY <1>1, <2>2, <2>3
<1>5. CASE Produce \/ Environment
  <2>1. UNCHANGED lane \/ lane' = [c \in Conv |-> <<>>]
    BY <1>5 DEF Produce, Update, CloseReply, SendProactiveText, StageMedia, EnqueueMedia,
       PresentRunControl, ControlStale, RunOver, Insert, Environment, TimePasses, Connect,
       Disconnect, Start, Stop, Stopped, Crash, Requeue, memory
  <2> QED BY <1>2, <2>1
<1> QED BY <1>2, <1>3, <1>4, <1>5 DEF Next, vars, memory

(* Whoever dispatches a leased row holds its lease.                        *)
LEMMA OwnKept ==
  ASSUME WFInv, LanesHome, LeasesOwn, [Next]_vars PROVE LeasesOwn'
<1> SUFFICES ASSUME NEW q \in Rows, status'[q] = "leased", Dispatching(q)'
             PROVE  owner'[q] = "self"
  BY DEF LeasesOwn
<1>1. ASSUME Dispatching(q), status[q] = "leased", owner'[q] = owner[q] PROVE owner'[q] = "self"
  BY <1>1 DEF LeasesOwn
<1>2. CASE UNCHANGED vars
  BY <1>1, <1>2 DEF vars, durable, memory, Dispatching
<1>3. CASE Produce
  <2>1. UNCHANGED <<lane, owner>> /\ (status'[q] = "leased" => status[q] = "leased")
    BY <1>3 DEF Produce, Update, CloseReply, SendProactiveText, StageMedia, EnqueueMedia,
       PresentRunControl, ControlStale, RunOver, Insert, durable
  <2> QED BY <1>1, <2>1 DEF Dispatching
<1>4. CASE Flush \/ \E r \in Rows : ClaimOwn(r)
  <2>1. CASE Claimed(q)
    BY <2>1 DEF Claimed
  <2>2. CASE ~Claimed(q)
    <3>1. status'[q] = status[q] /\ owner'[q] = owner[q]
      BY <1>4, <2>2, ClaimedOrNot
    <3>2. PICK d \in Conv : \E i \in 1 .. Len(lane'[d]) : lane'[d][i].row = q
      BY DEF Dispatching
    <3> PICK i \in 1 .. Len(lane'[d]) : lane'[d][i].row = q
      BY <3>2
    <3>3. i \in 1 .. Len(lane[d]) /\ lane[d][i].row = q
      BY <1>4, <2>2, ClaimEntries
    <3> QED BY <1>1, <3>1, <3>3 DEF Dispatching
  <2> QED BY <2>1, <2>2
<1>5. ASSUME NEW c \in Conv, Dispatch(c) PROVE owner'[q] = "self"
  <2>1. lane' = lane \/ (lane' = [lane EXCEPT ![c] = Tail(@)] /\ lane[c] # <<>>)
    BY <1>5, DispatchFrame DEF Leave, Advance
  <2>2. Dispatching(q)
    <3>1. PICK d \in Conv : \E i \in 1 .. Len(lane'[d]) : lane'[d][i].row = q
      BY DEF Dispatching
    <3> PICK i \in 1 .. Len(lane'[d]) : lane'[d][i].row = q
      BY <3>1
    <3>2. lane[d] \in Seq(Entry)
      BY DEF WFInv, TypeOK, LanesTypeOK
    <3>3. lane'[d] = lane[d] \/ (lane'[d] = Tail(lane[d]) /\ lane[d] # <<>>)
      BY <2>1 DEF WFInv, TypeOK, LanesTypeOK
    <3>4. CASE lane'[d] = Tail(lane[d]) /\ lane[d] # <<>>
      <4>1. i + 1 \in 1 .. Len(lane[d]) /\ lane'[d][i] = lane[d][i + 1]
        BY <3>2, <3>4, HeadTailProperties
      <4> QED BY <4>1 DEF Dispatching
    <3> QED BY <3>3, <3>4 DEF Dispatching
  <2>3. \/ UNCHANGED <<status, owner>>
        \/ \E s \in {"delivered", "dead", "superseded", "pending"} : Settle(Head1(c).row, s)
    BY <1>5 DEF Dispatch, Begin, Send, Complete, SettleFailed, Release, durable, StoreThrows
  <2>4. status[q] = "leased" /\ owner'[q] = owner[q]
    BY <2>3 DEF Settle, WFInv, TypeOK, RowsTypeOK
  <2> QED BY <1>1, <2>2, <2>4
<1>6. CASE Environment
  <2>1. CASE lane' = [c \in Conv |-> <<>>]
    BY <2>1 DEF Dispatching
  <2>2. CASE lane' # [c \in Conv |-> <<>>]
    <3>1. UNCHANGED <<lane, owner>> \/ \A c \in Conv : lane[c] = <<>>
      BY <1>6, <2>2 DEF Environment, TimePasses, Connect, Disconnect, Start, Stop, Stopped, Crash,
         Requeue, memory, durable
    <3>2. status'[q] = "leased" => status[q] = "leased"
      BY <1>6, RevivedRows
    <3>3. UNCHANGED lane
      BY <1>6, <2>2 DEF Environment, TimePasses, Connect, Disconnect, Start, Stop, Stopped, Crash,
         Requeue, memory
    <3> QED BY <1>1, <3>1, <3>2, <3>3 DEF Dispatching
  <2> QED BY <2>1, <2>2
<1> QED BY <1>2, <1>3, <1>4, <1>5, <1>6 DEF Next

(* A row that is settled, or left alone, owes no more.                     *)
LEMMA StillCost ==
  ASSUME WFInv, UNCHANGED <<lane, phase>>, NEW q \in 1 .. next, cmd'[q] = cmd[q],
         ripe'[q] = ripe[q], status'[q] = status[q] \/ status'[q] = "superseded"
  PROVE  Owing(q)' \in Nat /\ Owing(q)' <= Owing(q)
<1>1. Unsent(q)' = Unsent(q) /\ Dispatching(q)' = Dispatching(q)
  BY DEF Unsent, Lane, Dispatching
<1>2. Reclaimable(q)' => Reclaimable(q)
  BY <1>1 DEF Reclaimable
<1> QED BY <1>1, <1>2, UnsentFinite DEF Owing

(* What a claim, a retry, a requeue or the process's end owes at most.     *)
LEMMA EnvironmentCost ==
  ASSUME WFInv, Environment, NEW q \in 1 .. next
  PROVE  /\ Owing(q)' \in Nat /\ accepted' = accepted /\ next' = next
         /\ \/ UNCHANGED <<faults, requeues>> /\ Owing(q)' <= Owing(q)
            \/ faults' = faults + 1 /\ requeues' = requeues /\ Owing(q)' <= Owing(q) + 1
            \/ requeues' = requeues + 1 /\ faults' = faults /\ Owing(q)' <= Owing(q) + 1
<1>1. Cardinality(Unsent(q)) \in Nat /\ Lane(q) \in Conv /\ q \in Rows
  BY UnsentFinite, InsertedRange
<1>2. accepted' = accepted /\ UNCHANGED <<next, cmd>> /\ (faults' = faults \/ faults' = faults + 1)
      /\ (requeues' = requeues \/ (requeues' = requeues + 1 /\ faults' = faults))
  BY DEF Environment, TimePasses, Connect, Disconnect, Start, Stop, Stopped, Crash, Requeue,
         durable, memory, budget, Fault, NoFault
<1>3. Cardinality(Unsent(q)') \in Nat /\ Cardinality(Unsent(q)') <= Cardinality(Unsent(q))
  <2>1. CASE UNCHANGED <<lane, phase>>
    <3>1. Unsent(q)' = Unsent(q)
      BY <1>2, <2>1 DEF Unsent, Lane
    <3> QED BY <1>1, <3>1
  <2>2. CASE lane' = [c \in Conv |-> <<>>]
    <3>1. lane'[Lane(q)'] = <<>>
      BY <1>1, <1>2, <2>2 DEF Lane
    <3>2. Unsent(q)' = {}
      BY <3>1 DEF Unsent
    <3> QED BY <1>1, <3>2, FS_EmptySet
  <2>3. UNCHANGED <<lane, phase>> \/ lane' = [c \in Conv |-> <<>>]
    BY DEF Environment, TimePasses, Connect, Disconnect, Start, Stop, Stopped, Crash, Requeue, memory
  <2> QED BY <2>1, <2>2, <2>3
<1>4. ASSUME UNCHANGED <<faults, requeues>> PROVE Reclaimable(q)' => Reclaimable(q)
  <2>1. \/ UNCHANGED <<status, ripe, lane>>
        \/ \E r \in Rows : TimePasses(r)
    BY <1>4 DEF Environment, Connect, Disconnect, Start, Stop, Stopped, Crash, Requeue, durable,
       memory, Fault, WFInv, TypeOK, ProcessTypeOK
  <2>2. CASE UNCHANGED <<status, ripe, lane>>
    BY <2>2 DEF Reclaimable, Dispatching
  <2>3. ASSUME NEW r \in Rows, TimePasses(r) PROVE Reclaimable(q)' => Reclaimable(q)
    <3>1. UNCHANGED <<status, lane>> /\ ~(status[r] = "leased" /\ Dispatching(r)) /\ Live(r)
          /\ ripe' = [ripe EXCEPT ![r] = TRUE]
      BY <1>4, <2>3 DEF TimePasses, memory, Fault, WFInv, TypeOK, ProcessTypeOK
    <3>2. Dispatching(q)' = Dispatching(q)
      BY <3>1 DEF Dispatching
    <3>3. q # r => ripe'[q] = ripe[q]
      BY <1>1, <3>1 DEF WFInv, TypeOK, RowsTypeOK
    <3> QED BY <3>1, <3>2, <3>3 DEF Reclaimable, Live
  <2> QED BY <2>1, <2>2, <2>3
<1>5. Owing(q)' \in Nat /\ Owing(q)' <= Owing(q) + 1
      /\ (UNCHANGED <<faults, requeues>> => Owing(q)' <= Owing(q))
  BY <1>1, <1>3, <1>4 DEF Owing
<1> QED BY <1>2, <1>5

(* A new row owes its one acceptance.                                      *)
LEMMA InsertPaid ==
  ASSUME WFInv, WFInv', PaidInv, NEW k \in Kind, NEW x \in Subject, Insert(k, x)
  PROVE  Paid' /\ Fresh'
<1>1. /\ next' = next + 1 /\ next' \in Rows /\ next \in Nat /\ status'[next'] = "pending"
      /\ \A r \in Rows \ {next'} : /\ cmd'[r] = cmd[r]
                                   /\ status'[r] = status[r] \/ status'[r] = "superseded"
  BY InsertedRow, InsertedRange
<1>2. UNCHANGED <<lane, phase, accepted, requeues, faults>>
      /\ \A r \in Rows \ {next'} : ripe'[r] = ripe[r]
  BY <1>1 DEF Insert, budget, WFInv, TypeOK, RowsTypeOK
<1>3. accepted[next'] = 0 /\ Fresh'
  BY <1>1, <1>2 DEF PaidInv, Fresh, Rows
<1>4. faults \in Nat /\ requeues \in Nat
  BY DEF WFInv, TypeOK, ProcessTypeOK
<1> SUFFICES ASSUME NEW q \in 1 .. next'
             PROVE  accepted[q] + Owing(q)' <= 1 + faults + requeues
  BY <1>2, <1>3 DEF Paid
<1>5. CASE q \in 1 .. next
  <2>1. q \in Rows \ {next'}
    BY <1>1, <1>5, InsertedRange
  <2>2. Owing(q)' \in Nat /\ Owing(q)' <= Owing(q)
    BY <1>1, <1>2, <1>5, <2>1, StillCost
  <2>3. Owing(q) \in Nat /\ accepted[q] \in Nat
    BY <1>5, OwingNat DEF Countable
  <2>4. accepted[q] + Owing(q) <= 1 + faults + requeues
    BY <1>5 DEF PaidInv, Paid
  <2> QED BY <1>4, <2>2, <2>3, <2>4
<1>6. CASE q = next'
  <2>1. Unsent(q)' = {}
    <3>1. \A c \in Conv : \A i \in 1 .. Len(lane[c]) : lane[c][i].row <= next
      BY DEF WFInv, QueuedInserted
    <3>2. Lane(q)' \in Conv
      BY <1>1, <1>6 DEF WFInv, CommandsFit, Fits, Lane
    <3>3. \A i \in 1 .. Len(lane'[Lane(q)']) : lane'[Lane(q)'][i].row # q
      BY <1>1, <1>2, <1>6, <3>1, <3>2
    <3> QED BY <3>3 DEF Unsent
  <2>2. Cardinality(Unsent(q)') = 0
    BY <2>1, FS_EmptySet
  <2>3. Owing(q)' = 1
    BY <1>1, <1>6, <2>2 DEF Owing, Reclaimable
  <2> QED BY <1>3, <1>4, <1>6, <2>3
<1> QED BY <1>1, <1>5, <1>6

(* A producer that inserts nothing settles cards at most, or fails.        *)
LEMMA ProduceQuiet ==
  ASSUME Produce, \A k \in Kind, x \in Subject : ~Insert(k, x)
  PROVE  /\ UNCHANGED <<next, cmd, ripe, lane, phase, accepted, requeues>>
         /\ faults' = faults \/ faults' = faults + 1
         /\ \A q \in Rows : status'[q] = status[q] \/ status'[q] = "superseded"
<1>1. \A k \in Kind, x \in Stream \cup Note \cup Artifact \cup Run : ~Insert(k, x)
  BY DEF Subject
<1>2. "partial" \in Kind /\ "final" \in Kind /\ "text" \in Kind /\ "media" \in Kind /\ "card" \in Kind
  BY DEF Kind
<1>3. \/ \E a \in Artifact : StageMedia(a) \/ (EnqueueMedia(a) /\ ~Insert("media", a))
      \/ \E x \in Run : ControlStale(x) \/ RunOver(x)
  BY <1>1, <1>2 DEF Produce, Update, CloseReply, SendProactiveText, PresentRunControl
<1> QED BY <1>3 DEF StageMedia, EnqueueMedia, ControlStale, RunOver, durable, budget, Fault, NoFault

(* Whatever is accepted beyond the first time was paid for.                *)
LEMMA StepPaid ==
  ASSUME RetainedInv, PaidInv, [Next]_vars PROVE PaidInv'
<1> USE DEF PaidInv
<1>1. WFInv /\ WFInv' /\ RowsTypeOK' /\ ReleasedSettled
  BY StepWF DEF RetainedInv, WFInv, TypeOK
<1>2. LanesHome' /\ LeasesOwn'
  BY <1>1, HomeKept, OwnKept
<1>3. \A q \in 1 .. next : q \in Rows /\ accepted[q] \in Nat /\ Owing(q) \in Nat
  BY <1>1, InsertedRange, OwingNat DEF Countable
<1>4. Countable'
  BY <1>1, OwingNat, PTL
<1>5. ASSUME UNCHANGED <<next, accepted, requeues>>, \A q \in 1 .. next : Owing(q)' <= Owing(q),
             faults' = faults \/ faults' = faults + 1
      PROVE  Paid' /\ Fresh'
  <2>1. \A q \in 1 .. next : Owing(q)' \in Nat
    BY <1>4, <1>5 DEF Countable
  <2>2. Fresh'
    BY <1>5 DEF Fresh
  <2>3. \A q \in 1 .. next : /\ accepted'[q] + Owing(q)' <= accepted[q] + Owing(q)
                             /\ accepted'[q] + Owing(q)' <= accepted[q] + Owing(q) + 1
    BY <1>3, <1>5, <2>1
  <2> QED BY <1>1, <1>5, <2>1, <2>2, <2>3, PaidKept
<1>6. ASSUME UNCHANGED <<next, cmd, ripe, lane, phase, accepted, requeues>>,
             \A q \in Rows : status'[q] = status[q] \/ status'[q] = "superseded",
             faults' = faults \/ faults' = faults + 1
      PROVE  Paid' /\ Fresh'
  <2>1. \A q \in 1 .. next : Owing(q)' \in Nat /\ Owing(q)' <= Owing(q)
    BY <1>1, <1>3, <1>6, StillCost
  <2> QED BY <1>5, <1>6, <2>1
<1>7. CASE UNCHANGED vars
  <2>1. UNCHANGED <<next, cmd, ripe, lane, phase, accepted, requeues, status, faults>>
    BY <1>7 DEF vars, durable, memory, budget
  <2> QED BY <1>2, <1>6, <2>1
<1>8. CASE Produce
  <2>1. CASE \E k \in Kind, x \in Subject : Insert(k, x)
    BY <1>1, <1>2, <2>1, InsertPaid
  <2>2. CASE \A k \in Kind, x \in Subject : ~Insert(k, x)
    BY <1>2, <1>6, <1>8, <2>2, ProduceQuiet
  <2> QED BY <1>2, <2>1, <2>2
<1>9. CASE Flush \/ \E r \in Rows : ClaimOwn(r)
  <2>1. UNCHANGED <<next, accepted, requeues>> /\ (faults' = faults \/ faults' = faults + 1)
    BY <1>9 DEF Flush, ClaimOwn, budget, Fault, NoFault
  <2>2. \A q \in 1 .. next : Owing(q)' <= Owing(q)
    BY <1>1, <1>9, ClaimCost
  <2> QED BY <1>2, <1>5, <2>1, <2>2
<1>10. ASSUME NEW c \in Conv, Dispatch(c) PROVE Paid' /\ Fresh'
  <2>1. UNCHANGED <<next, requeues>> /\ (faults' = faults \/ faults' = faults + 1)
        /\ \A q \in Rows : q > next => accepted'[q] = accepted[q]
    BY <1>1, <1>10, DispatchFrame, InsertedRange
  <2>2. \A q \in 1 .. next :
          /\ Owing(q)' \in Nat
          /\ \/ faults' = faults /\ accepted'[q] + Owing(q)' <= accepted[q] + Owing(q)
             \/ faults' = faults + 1 /\ accepted'[q] + Owing(q)' <= accepted[q] + Owing(q) + 1
    BY <1>1, <1>10, DispatchCost
  <2>3. Fresh'
    BY <2>1 DEF Fresh
  <2>4. faults \in Nat
    BY <1>1 DEF WFInv, TypeOK, ProcessTypeOK
  <2>5. CASE faults' = faults
    <3>1. \A q \in 1 .. next : accepted'[q] + Owing(q)' <= accepted[q] + Owing(q)
      BY <2>2, <2>4, <2>5
    <3> QED BY <1>1, <2>1, <2>2, <2>3, <2>5, <3>1, PaidKept
  <2>6. CASE faults' = faults + 1
    <3>1. \A q \in 1 .. next : accepted'[q] + Owing(q)' <= accepted[q] + Owing(q) + 1
      BY <2>2, <2>4, <2>6
    <3> QED BY <1>1, <2>1, <2>2, <2>3, <2>6, <3>1, PaidKept
  <2> QED BY <2>1, <2>5, <2>6
<1>11. CASE Environment
  <2>1. \A q \in 1 .. next :
         /\ Owing(q)' \in Nat /\ accepted' = accepted /\ next' = next
         /\ \/ UNCHANGED <<faults, requeues>> /\ Owing(q)' <= Owing(q)
            \/ faults' = faults + 1 /\ requeues' = requeues /\ Owing(q)' <= Owing(q) + 1
            \/ requeues' = requeues + 1 /\ faults' = faults /\ Owing(q)' <= Owing(q) + 1
    BY <1>1, <1>11, EnvironmentCost
  <2>2. UNCHANGED <<next, accepted>>
    BY <1>11 DEF Environment, TimePasses, Connect, Disconnect, Start, Stop, Stopped, Crash, Requeue,
         durable, memory
  <2>3. \/ UNCHANGED <<faults, requeues>>
        \/ faults' = faults + 1 /\ requeues' = requeues
        \/ requeues' = requeues + 1 /\ faults' = faults
    BY <1>11 DEF Environment, TimePasses, Connect, Disconnect, Start, Stop, Stopped, Crash, Requeue,
         durable, memory, budget, Fault, NoFault
  <2>4. Fresh' /\ faults \in Nat /\ requeues \in Nat
    BY <1>1, <2>2 DEF Fresh, WFInv, TypeOK, ProcessTypeOK
  <2>5. CASE UNCHANGED <<faults, requeues>>
    <3>1. \A q \in 1 .. next : Owing(q)' <= Owing(q)
      <4> TAKE q \in 1 .. next
      <4>1. \/ Owing(q)' <= Owing(q)
            \/ faults' = faults + 1 /\ requeues' = requeues
            \/ requeues' = requeues + 1 /\ faults' = faults
        BY <2>1
      <4> QED BY <2>4, <2>5, <4>1
    <3> QED BY <1>2, <1>5, <2>2, <2>5, <3>1
  <2>6. CASE \/ faults' = faults + 1 /\ requeues' = requeues
             \/ requeues' = requeues + 1 /\ faults' = faults
    <3>1. \A q \in 1 .. next : Owing(q)' <= Owing(q) + 1
      BY <2>1, <2>4, <2>6
    <3>2. \A q \in 1 .. next : accepted'[q] + Owing(q)' <= accepted[q] + Owing(q) + 1
      <4> TAKE q \in 1 .. next
      <4>1. Owing(q)' \in Nat /\ Owing(q)' <= Owing(q) + 1
        BY <2>1, <3>1
      <4>2. accepted'[q] = accepted[q] /\ accepted[q] \in Nat /\ Owing(q) \in Nat
        BY <1>3, <2>2
      <4> QED BY <4>1, <4>2
    <3> QED BY <1>1, <1>2, <2>1, <2>2, <2>4, <2>6, <3>2, PaidKept
  <2> QED BY <2>3, <2>5, <2>6
<1> QED BY <1>2, <1>7, <1>8, <1>9, <1>10, <1>11 DEF Next

(* Every state pays for its duplicates.                                    *)
LEMMA SpecPaid == Spec => []PaidInv
<1>1. Init => PaidInv
  BY DEF Init, PaidInv, LanesHome, LeasesOwn, Fresh, Paid, Dispatching
<1> QED BY <1>1, StepPaid, SpecRetained, PTL DEF Spec

(* The remote side accepts a row once, and once more at most for each fault *)
(* and each requeue: the flush worker and the producer, whose claims race   *)
(* for the same rows, never send a row twice of themselves.                *)
THEOREM OutboxDuplicatesCostFaults == Spec => []DuplicatesCostFaults
<1>1. RetainedInv /\ PaidInv => DuplicatesCostFaults
  <2> SUFFICES ASSUME RetainedInv, PaidInv, NEW r \in Rows PROVE accepted[r] <= 1 + faults + requeues
    BY DEF DuplicatesCostFaults
  <2>1. WFInv /\ faults \in Nat /\ requeues \in Nat /\ accepted[r] \in Nat /\ next \in Nat
    BY InsertedRange DEF RetainedInv, WFInv, TypeOK, RowsTypeOK, ProcessTypeOK, MaxAccepted
  <2>2. CASE r \in 1 .. next
    <3>1. Owing(r) \in Nat
      BY <2>1, <2>2, OwingNat DEF Countable
    <3> QED BY <2>1, <2>2, <3>1 DEF PaidInv, Paid
  <2>3. CASE r > next
    BY <2>1, <2>3 DEF PaidInv, Fresh
  <2> QED BY <2>1, <2>2, <2>3 DEF Rows
<1> QED BY <1>1, SpecPaid, SpecRetained, PTL
=============================================================================
