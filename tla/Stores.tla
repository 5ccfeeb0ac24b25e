-------------------------------- MODULE Stores --------------------------------
(***************************************************************************)
(* The two stores of the gateway, in lockstep.  The tests run on           *)
(* MemoryGatewayStore, the gateway on SqliteGatewayStore, which also       *)
(* prunes what is settled for longer than the retention.  Every call goes  *)
(* to both; they must answer alike.                                        *)
(*                                                                         *)
(* A table is a function from ids to rows, a call an operator that gives   *)
(* the answer (a sequence, empty for undefined, false, zero and for an     *)
(* exception) and the new tables.  The tables have nothing in common, but  *)
(* for asks and resumes: a history uses those of one part.                 *)
(***************************************************************************)
EXTENDS Naturals, FiniteSets, SequencesExt

CONSTANTS
  Id,         \* identifiers of approvals, cards, controls, interactions
  Conv, Owner, NoOwner,
  Lease,      \* time a claim is good for
  Lifetime,   \* time an approval, a card, an interaction is open
  Retention,  \* time a settled row is kept
  MaxNow,     \* bound: the clock
  MaxRows,    \* bound: deliveries
  MaxAttempts \* bound: claims of a row

ASSUME StoresAssumption ==
  /\ Id \subseteq Nat /\ Retention \in Nat /\ Lifetime \in 0..Retention
  /\ Lease \in Nat /\ {MaxNow, MaxRows, MaxAttempts} \subseteq Nat

VARIABLES
  part,      \* the tables that are used
  mem, sql,  \* the two stores
  now,
  forgotten, \* ids of rows that retention has removed
  agreed     \* the last call: the same answer, or about what is forgotten

vars == <<part, mem, sql, now, forgotten, agreed>>

NoRows == [x \in {} |-> x]
Empty ==
  [outbox |-> NoRows, resumes |-> NoRows, next |-> 1, asks |-> NoRows,
   inbound |-> NoRows, approvals |-> NoRows, cards |-> NoRows, controls |-> NoRows]

Result(ans, db)    == [ans |-> ans, db |-> db]
Ids(t, P(_))       == {i \in DOMAIN t : P(t[i])}
With(t, i, row)    == [j \in DOMAIN t \cup {i} |-> IF j = i THEN row ELSE t[j]]
Without(t, S)      == [i \in DOMAIN t \ S |-> t[i]]
Update(t, S, F(_)) == [i \in DOMAIN t |-> IF i \in S THEN F(t[i]) ELSE t[i]]
Ascending(S)       == SetToSortSeq(S, <)
First(q, n)        == SubSeq(q, 1, IF n < Len(q) THEN n ELSE Len(q))
If(b)              == IF b THEN <<1>> ELSE <<>>

Leased(r, o, t) ==
  [r EXCEPT !.status = "leased", !.owner = o, !.until = t + Lease, !.att = @ + 1]

-----------------------------------------------------------------------------
(* Deliveries and resumes: rows that are claimed under a lease.  Only      *)
(* SQLite keeps the time of the last change (at), and clears the lease of  *)
(* every row that leaves it.                                               *)

Row(kind, key, t, at) ==
  [kind |-> kind, key |-> key, status |-> "pending", att |-> 0, due |-> t,
   owner |-> NoOwner, until |-> 0, at |-> at]

Replayable(r) == r.kind = "text"

Supersedes(t, key) ==
  Ids(t, LAMBDA r : key # NoOwner /\ r.key = key /\ r.status = "pending")

MemEnqueue(m, kind, key, t) ==
  Result(<<m.next>>,
    [m EXCEPT !.next = @ + 1,
       !.outbox = With(
          Update(@, Supersedes(@, key),
                 LAMBDA r : [r EXCEPT !.status = "superseded"]),
          m.next, Row(kind, key, t, 0))])

SqlEnqueue(s, kind, key, t) ==
  Result(<<s.next>>,
    [s EXCEPT !.next = @ + 1,
       !.outbox = With(
          Update(@, Supersedes(@, key),
                 LAMBDA r : [r EXCEPT !.status = "superseded", !.at = t]),
          s.next, Row(kind, key, t, t))])

(* claimable, interactionResumeClaimable                                   *)
MemClaimable(r, t) ==
  \/ r.status = "pending" /\ r.due <= t
  \/ r.status = "leased" /\ r.until <= t

(* filter, sort, slice, map                                                *)
MemClaim(t, o, when, limit) ==
  LET batch == First(Ascending(Ids(t, LAMBDA r : MemClaimable(r, when))), limit)
  IN  Result(batch, Update(t, ToSet(batch), LAMBDA r : Leased(r, o, when)))

MemClaimOne(t, i, o, when) ==
  IF i \in DOMAIN t /\ MemClaimable(t[i], when)
  THEN Result(<<i>>, [t EXCEPT ![i] = Leased(@, o, when)]) ELSE Result(<<>>, t)

(* One conditional update per selected row; its entry is read back.        *)
SqlClaimOne(t, i, o, when) ==
  LET due == i \in DOMAIN t /\ ( \/ t[i].status = "pending" /\ t[i].due <= when
                                 \/ t[i].status = "leased" /\ t[i].until <= when )
  IN  IF due THEN Result(<<i>>, [t EXCEPT ![i] = [Leased(@, o, when) EXCEPT !.at = when]])
             ELSE Result(<<>>, t)

SqlClaim(t, o, when, limit) ==
  LET due    == Ids(t, LAMBDA r : \/ r.status = "pending" /\ r.due <= when
                                  \/ r.status = "leased" /\ r.until <= when)
      One(acc, i) == LET r == SqlClaimOne(acc.db, i, o, when)
                     IN  Result(acc.ans \o r.ans, r.db)
  IN  FoldLeft(One, Result(<<>>, t), First(Ascending(due), limit))

(* complete, supersede, retry and dead-letter, by the owner of the lease   *)
MemSettle(t, i, o, to, when) ==
  IF i \in DOMAIN t /\ t[i].status = "leased" /\ t[i].owner = o
  THEN Result(<<1>>, [t EXCEPT ![i] =
         [@ EXCEPT !.status = to, !.due = IF to = "pending" THEN when + 1 ELSE @,
                   !.owner = IF to \in {"pending", "superseded"} THEN NoOwner ELSE @]])
  ELSE Result(<<>>, t)

SqlSettle(t, i, o, to, when) ==
  LET held == {j \in DOMAIN t : j = i /\ t[j].status = "leased" /\ t[j].owner = o}
  IN  Result(If(held # {}), Update(t, held, LAMBDA r :
        [r EXCEPT !.status = to, !.due = IF to = "pending" THEN when + 1 ELSE @,
                  !.owner = NoOwner, !.until = 0, !.at = when]))

(* The loop stops once limit rows are back in the queue.                   *)
MemRequeue(t, limit, when) ==
  LET Again(n, i) ==
        IF n.ans < limit /\ n.db[i].status = "dead" /\ Replayable(n.db[i])
        THEN Result(n.ans + 1, [n.db EXCEPT ![i] = Row("text", @.key, when, 0)])
        ELSE n
  IN  FoldLeft(Again, Result(0, t), Ascending(DOMAIN t))

SqlRequeue(t, limit, when) ==
  LET dead  == Ids(t, LAMBDA r : r.status = "dead" /\ Replayable(r))
      batch == ToSet(First(Ascending(dead), limit))
  IN  Result(Cardinality(batch),
             Update(t, batch, LAMBDA r : Row("text", r.key, when, when)))

(* completeRunControl retires the pending card of its control.             *)
MemRetire(t, c) ==
  Update(t, Ids(t, LAMBDA r : r.kind = "card" /\ r.key = c /\ r.status = "pending"),
         LAMBDA r : [r EXCEPT !.status = "superseded"])
SqlRetire(t, c, when) ==
  Update(t, Ids(t, LAMBDA r : r.status = "pending" /\ r.kind = "card" /\ r.key = c),
         LAMBDA r : [r EXCEPT !.status = "superseded", !.at = when])

(* listReferencedMediaArtifactIds: the spool keeps what they name.         *)
MemMedia(t) == Ids(t, LAMBDA r : r.status \in {"pending", "leased"} /\ r.kind = "media")
SqlMedia(t) == {i \in Ids(t, LAMBDA r : r.status \in {"pending", "leased"}) :
                  t[i].kind = "media"}

-----------------------------------------------------------------------------
(* Approvals, cards and run controls: one answer each, before they end,    *)
(* from the sender (mine) they were made for.                              *)

Open(t) == [status |-> "pending", ends |-> t + Lifetime, at |-> 0]

Create(t, i, row) ==
  IF i \in DOMAIN t THEN Result(<<>>, t) ELSE Result(<<1>>, With(t, i, row))

MemResolveApproval(t, i, mine, decision, when) ==
  IF \/ i \notin DOMAIN t \/ ~mine
     \/ i \in DOMAIN t /\ t[i].status # "pending"
     \/ i \in DOMAIN t /\ decision # "expired" /\ t[i].ends <= when
  THEN Result(<<>>, t) ELSE Result(<<1>>, [t EXCEPT ![i].status = decision])

SqlResolveApproval(t, i, mine, decision, when) ==
  LET hit == {j \in DOMAIN t : /\ j = i /\ mine /\ t[j].status = "pending"
                              /\ (decision = "expired" \/ t[j].ends > when)}
  IN  Result(If(hit # {}),
             Update(t, hit, LAMBDA r : [r EXCEPT !.status = decision, !.at = when]))

MemInterrupt(t) ==
  LET open == Ids(t, LAMBDA r : r.status = "pending")
  IN  Result(<<Cardinality(open)>>,
             Update(t, open, LAMBDA r : [r EXCEPT !.status = "interrupted"]))
SqlInterrupt(t, when) ==
  LET open == Ids(t, LAMBDA r : r.status = "pending")
  IN  Result(<<Cardinality(open)>>,
             Update(t, open, LAMBDA r : [r EXCEPT !.status = "interrupted", !.at = when]))

(* What has ended expires first.  A click on the control of a run that is  *)
(* over is answered once more, as not active.                              *)
MemResolve(t, i, mine, open, when) ==
  IF i \notin DOMAIN t THEN Result(<<>>, t)
  ELSE LET r == IF t[i].status = "pending" /\ t[i].ends <= when
                THEN [t[i] EXCEPT !.status = "expired"] ELSE t[i]
       IN  IF r.status \in open /\ mine /\ r.ends > when
           THEN Result(<<r.status>>, [t EXCEPT ![i] = [r EXCEPT !.status = "resolved"]])
           ELSE Result(<<>>, [t EXCEPT ![i] = r])

SqlResolve(t, i, mine, open, when) ==
  LET lapsed == {j \in DOMAIN t : j = i /\ t[j].status = "pending" /\ t[j].ends <= when}
      t1     == Update(t, lapsed, LAMBDA r : [r EXCEPT !.status = "expired", !.at = when])
      hit    == {j \in DOMAIN t : j = i /\ mine /\ t1[j].status \in open /\ t1[j].ends > when}
  IN  Result(IF hit = {} THEN <<>> ELSE <<t1[i].status>>,
             Update(t1, hit, LAMBDA r : [r EXCEPT !.status = "resolved", !.at = when]))

MemComplete(t, i) ==
  IF i \in DOMAIN t /\ t[i].status = "pending"
  THEN Result(<<1>>, [t EXCEPT ![i].status = "completed"]) ELSE Result(<<>>, t)
SqlComplete(t, i, when) ==
  LET hit == {j \in DOMAIN t : j = i /\ t[j].status = "pending"}
  IN  Result(If(hit # {}),
             Update(t, hit, LAMBDA r : [r EXCEPT !.status = "completed", !.at = when]))

-----------------------------------------------------------------------------
(* Interactions: one that is open per conversation, but an action card of  *)
(* a reply makes room; an answer, or the end of its time, makes a resume.  *)

Ask(conv, kind, t) ==
  [conv |-> conv, kind |-> kind, status |-> "pending", ends |-> t + Lifetime, at |-> 0]

Rivals(t, conv, when) ==
  Ids(t, LAMBDA r : r.status = "pending" /\ r.conv = conv /\ r.ends > when)

MemCreateAsk(t, i, conv, kind, when) ==
  LET rivals == Rivals(t, conv, when)
  IN  IF i \in DOMAIN t \/ \E j \in rivals : t[j].kind # "reply" THEN Result(<<>>, t)
      ELSE Result(<<1>>, With(Update(t, rivals, LAMBDA r : [r EXCEPT !.status = "cancelled"]),
                              i, Ask(conv, kind, when)))

SqlCreateAsk(t, i, conv, kind, when) ==
  LET rivals == Rivals(t, conv, when)
      t1     == Update(t, rivals, LAMBDA r : [r EXCEPT !.status = "cancelled", !.at = when])
  IN  IF \E j \in rivals : t[j].kind # "reply" THEN Result(<<>>, t)
      ELSE Create(t1, i, Ask(conv, kind, when))

MemText(t, conv, when) ==
  Ids(t, LAMBDA r : /\ r.status = "pending" /\ r.kind = "text" /\ r.conv = conv
                    /\ r.ends > when)
SqlText(t, conv, when) ==
  {i \in Rivals(t, conv, when) : t[i].kind = "text"}

(* A resume for every ask of the sequence, in its order.                   *)
Resume(db, q, when, at) ==
  LET One(d, i) == [d EXCEPT !.next = @ + 1,
                      !.resumes = With(@, d.next, Row("resume", i, when, at))]
  IN  FoldLeft(One, db, q)

MemResolveAsk(m, i, mine, to, when) ==
  IF i \in DOMAIN m.asks /\ mine /\ m.asks[i].status = "pending" /\ m.asks[i].ends > when
  THEN Result(<<m.next>>, Resume([m EXCEPT !.asks[i].status = to], <<i>>, when, 0))
  ELSE Result(<<>>, m)

SqlResolveAsk(s, i, mine, to, when) ==
  LET hit == {j \in Ids(s.asks, LAMBDA r : r.status = "pending" /\ r.ends > when) :
                j = i /\ mine}
      s1  == [s EXCEPT !.asks =
                Update(@, hit, LAMBDA r : [r EXCEPT !.status = to, !.at = when])]
  IN  IF hit = {} THEN Result(<<>>, s) ELSE Result(<<s.next>>, Resume(s1, <<i>>, when, when))

MemCancelAsk(t, i) ==
  IF i \in DOMAIN t /\ t[i].status = "pending"
  THEN Result(<<1>>, [t EXCEPT ![i].status = "cancelled"]) ELSE Result(<<>>, t)
SqlCancelAsk(t, i, when) ==
  LET hit == {j \in DOMAIN t : j = i /\ t[j].status = "pending"}
  IN  Result(If(hit # {}),
             Update(t, hit, LAMBDA r : [r EXCEPT !.status = "cancelled", !.at = when]))

(* Those that ended first; an action card of a reply gets no resume.       *)
Overdue(t, when, limit) ==
  First(SetToSortSeq(Ids(t, LAMBDA r : r.status = "pending" /\ r.ends <= when),
                     LAMBDA i, j : t[i].ends < t[j].ends), limit)

MemExpire(m, limit, when) ==
  LET q == Overdue(m.asks, when, limit)
      One(d, i) == LET d1 == [d EXCEPT !.asks[i].status = "expired"]
                   IN  IF d.asks[i].kind = "reply" THEN d1 ELSE Resume(d1, <<i>>, when, 0)
  IN  Result(<<Len(q)>>, FoldLeft(One, m, q))

SqlExpire(s, limit, when) ==
  LET q    == Overdue(s.asks, when, limit)
      asks == Update(s.asks, ToSet(q), LAMBDA r : [r EXCEPT !.status = "expired", !.at = when])
      Kept(i) == s.asks[i].kind # "reply"
  IN  Result(<<Len(q)>>, Resume([s EXCEPT !.asks = asks], SelectSeq(q, Kept), when, when))

-----------------------------------------------------------------------------
(* Retention: what has been settled for longer, a limited number of rows   *)
(* of each table.                                                          *)

(* Mutation: whatever has not changed for longer, settled or not.          *)
SettledOrNot(status) == status # "dead"

Settled(status) == status \in {"delivered", "superseded"}

Prune(s, limit, when) ==
  LET Over(r) == r.at + Retention < when
      Gone(t, P(_)) ==
        ToSet(First(Ascending(Ids(t, LAMBDA r : Over(r) /\ P(r))), limit))
      Del(t, P(_))    == Without(t, Gone(t, P))
      Closed(r)       == r.status # "pending"
      resumes == Del(s.resumes, LAMBDA r : r.status = "delivered")
      held    == {resumes[i].key : i \in DOMAIN resumes}
      free    == Without(s.asks, held)
  IN  [s EXCEPT !.inbound   = Del(@, LAMBDA r : TRUE),
                !.outbox    = Del(@, LAMBDA r : Settled(r.status)),
                !.approvals = Del(@, Closed),
                !.cards     = Del(@, Closed),
                !.controls  = Del(@, Closed),
                !.resumes   = resumes,
                !.asks      = Without(@, Gone(free, Closed))]

-----------------------------------------------------------------------------
(* The calls of the gateway.  Ids of cards, controls and interactions are  *)
(* UUIDs; those of approvals are short and may have been used before.      *)

Parts == {"deliveries", "inbound", "approvals", "cards", "controls", "asks"}

Init ==
  /\ part \in Parts /\ mem = Empty /\ sql = Empty
  /\ now = 1 /\ forgotten = {} /\ agreed = TRUE

Both(m, s, about) ==
  /\ mem' = m.db /\ sql' = s.db /\ agreed' = (m.ans = s.ans \/ about \in forgotten)
  /\ UNCHANGED <<part, now, forgotten>>

(* Calls on one table.                                                     *)
In(table, m, s, about) ==
  Both(Result(m.ans, [mem EXCEPT ![table] = m.db]),
       Result(s.ans, [sql EXCEPT ![table] = s.db]), about)

Rested(t) == \A i \in DOMAIN t : t[i].att < MaxAttempts

Enqueue ==
  /\ part = "deliveries" /\ mem.next <= MaxRows
  /\ \E kind \in {"text", "card", "media"} :
     \E key \in IF kind = "text" THEN Conv
                ELSE IF kind = "card" THEN {mem.next} ELSE {NoOwner} :
       Both(MemEnqueue(mem, kind, key, now), SqlEnqueue(sql, kind, key, now), 0)

Claim ==
  /\ part = "deliveries" /\ Rested(mem.outbox)
  /\ \E o \in Owner, i \in 1..MaxRows :
       In("outbox", MemClaimOne(mem.outbox, i, o, now), SqlClaimOne(sql.outbox, i, o, now), 0)

Queue == IF part = "asks" THEN "resumes" ELSE "outbox"

ClaimDue ==
  /\ part \in {"deliveries", "asks"} /\ Rested(mem[Queue])
  /\ \E o \in Owner, limit \in 1..2 :
       In(Queue, MemClaim(mem[Queue], o, now, limit), SqlClaim(sql[Queue], o, now, limit), 0)

Settle ==
  /\ part \in {"deliveries", "asks"}
  /\ \E o \in Owner, i \in 1..MaxRows, to \in {"delivered", "pending", "dead", "superseded"} :
       /\ part = "asks" => to # "superseded"
       /\ In(Queue, MemSettle(mem[Queue], i, o, to, now), SqlSettle(sql[Queue], i, o, to, now), 0)

Requeue ==
  /\ part = "deliveries"
  /\ \E limit \in 0..2 :
       In("outbox", MemRequeue(mem.outbox, limit, now), SqlRequeue(sql.outbox, limit, now), 0)

Retire ==
  /\ part = "deliveries"
  /\ \E c \in 1..MaxRows :
       In("outbox", Result(<<>>, MemRetire(mem.outbox, c)),
                    Result(<<>>, SqlRetire(sql.outbox, c, now)), 0)

Accept ==
  /\ part = "inbound"
  /\ \E i \in Id :
       In("inbound", Create(mem.inbound, i, [at |-> now]),
                     Create(sql.inbound, i, [at |-> now]), i)

Approve ==
  /\ part = "approvals"
  /\ \E i \in Id :
       In("approvals", Create(mem.approvals, i, Open(now)), Create(sql.approvals, i, Open(now)), i)

ResolveApproval ==
  /\ part = "approvals"
  /\ \E i \in Id, mine \in BOOLEAN, to \in {"approved", "expired"} :
       In("approvals", MemResolveApproval(mem.approvals, i, mine, to, now),
                       SqlResolveApproval(sql.approvals, i, mine, to, now), i)

Interrupt ==
  /\ part = "approvals" /\ forgotten = {}
  /\ In("approvals", MemInterrupt(mem.approvals), SqlInterrupt(sql.approvals, now), 0)

Present ==
  /\ part \in {"cards", "controls"}
  /\ \E i \in Id \ DOMAIN mem[part] :
       In(part, Create(mem[part], i, Open(now)), Create(sql[part], i, Open(now)), 0)

Click ==
  /\ part \in {"cards", "controls"}
  /\ \E i \in Id, mine \in BOOLEAN :
       LET open == {"pending"} \cup IF part = "cards" THEN {} ELSE {"completed"}
       IN  In(part, MemResolve(mem[part], i, mine, open, now),
                    SqlResolve(sql[part], i, mine, open, now), 0)

Complete ==
  /\ part = "controls"
  /\ \E i \in Id :
       In("controls", MemComplete(mem.controls, i), SqlComplete(sql.controls, i, now), 0)

(* Two that end in the same millisecond are resumed in another order.      *)
CreateAsk ==
  /\ part = "asks"
  /\ \A i \in DOMAIN mem.asks : mem.asks[i].ends # now + Lifetime
  /\ \E i \in Id \ DOMAIN mem.asks, conv \in Conv, kind \in {"reply", "text", "choice"} :
       In("asks", MemCreateAsk(mem.asks, i, conv, kind, now),
                  SqlCreateAsk(sql.asks, i, conv, kind, now), 0)

AnswerAsk ==
  /\ part = "asks"
  /\ \E i \in Id, mine \in BOOLEAN, to \in {"answered", "cancelled"} :
       Both(MemResolveAsk(mem, i, mine, to, now), SqlResolveAsk(sql, i, mine, to, now), 0)

CancelAsk ==
  /\ part = "asks"
  /\ \E i \in Id : In("asks", MemCancelAsk(mem.asks, i), SqlCancelAsk(sql.asks, i, now), 0)

ExpireAsks ==
  /\ part = "asks"
  /\ \E limit \in 1..2 : Both(MemExpire(mem, limit, now), SqlExpire(sql, limit, now), 0)

(* The pruning timer of the gateway.                                       *)
PruneRetained ==
  /\ \E limit \in 1..2 : sql' = Prune(sql, limit, now)
  /\ forgotten' = forgotten \cup (DOMAIN sql.inbound \ DOMAIN sql'.inbound)
                            \cup (DOMAIN sql.approvals \ DOMAIN sql'.approvals)
  /\ UNCHANGED <<part, mem, now, agreed>>

Tick == now < MaxNow /\ now' = now + 1 /\ UNCHANGED <<part, mem, sql, forgotten, agreed>>

Next ==
  \/ Enqueue \/ Claim \/ ClaimDue \/ Settle \/ Requeue \/ Retire
  \/ Accept \/ Approve \/ ResolveApproval \/ Interrupt \/ Present \/ Click \/ Complete
  \/ CreateAsk \/ AnswerAsk \/ CancelAsk \/ ExpireAsks
  \/ PruneRetained \/ Tick

Spec == Init /\ [][Next]_vars

-----------------------------------------------------------------------------
(* Properties.                                                             *)

Tables == {"outbox", "resumes", "asks", "cards", "controls"}

(* The rows of one store: what decides a later answer.                     *)
Seen(r) ==
  IF "ends" \in DOMAIN r THEN <<r.status, r.ends>>
  ELSE <<r.kind, r.key, r.status, r.att, r.due>>

(* The two stores hold the same rows, but for those retention has removed, *)
(* and none of these waits for anybody.                                    *)
SameRows ==
  \A table \in Tables :
    /\ DOMAIN sql[table] \subseteq DOMAIN mem[table]
    /\ \A i \in DOMAIN sql[table] : Seen(sql[table][i]) = Seen(mem[table][i])
    /\ \A i \in DOMAIN mem[table] \ DOMAIN sql[table] :
         mem[table][i].status \notin {"pending", "leased"}

(* One interaction at most is open in a conversation, and a resume keeps   *)
(* its own as long as it is there.                                         *)
ResumesHaveAsks ==
  /\ \A c \in Conv : Cardinality(Rivals(sql.asks, c, now)) <= 1
  /\ \A i \in DOMAIN sql.resumes : sql.resumes[i].key \in DOMAIN sql.asks

(* MemoryGatewayStore and SqliteGatewayStore give the same answer to every *)
(* call, whatever retention has removed, but about the ids of approvals    *)
(* and messages it has made SQLite forget; and their rows stay the same.   *)
StoresAgree ==
  /\ agreed /\ SameRows /\ ResumesHaveAsks
  /\ MemMedia(mem.outbox) = SqlMedia(sql.outbox)
  /\ \A c \in Conv : MemText(mem.asks, c, now) = SqlText(sql.asks, c, now)
===============================================================================
