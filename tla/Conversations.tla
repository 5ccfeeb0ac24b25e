---------------------------- MODULE Conversations ----------------------------
(***************************************************************************)
(* Turns of conversations and the questions they ask.  A gateway turn is a  *)
(* message admitted from the transport or a continuation (a resume row)     *)
(* claimed by the outbox timer; both wait in the promise chain of their     *)
(* conversation (WeComAgentGateway.queues) and then for one of MaxRuns run  *)
(* slots.  A run may ask the user (runtime_interactions); the answer, or    *)
(* the expiry, becomes a resume row (runtime_interaction_resumes), which a  *)
(* live adapter hands to the run that still waits and any other adapter     *)
(* runs as a turn of its own.  Final replies may offer actions, whose       *)
(* continuation always is a turn.                                           *)
(*                                                                         *)
(* One agent session per conversation, one sender.  The store is            *)
(* synchronous: a handler is one action up to the next await of a timer,    *)
(* the network or the agent.                                                *)
(***************************************************************************)
EXTENDS Naturals, Sequences, FiniteSets

CONSTANTS
  Conv,         \* account:conversation keys
  Message,      \* inbound messages
  ConvOf,       \* the conversation of each message
  Live,         \* the adapter declares interaction-live-resume
  Stepwise,     \* it may split one request of its agent into several questions
  MaxRuns,      \* maxConcurrentRuns
  MaxPending,   \* maxPendingInboundMessages
  MaxPerConv,   \* maxPendingInboundPerConversation
  MaxAttempts,  \* outboxMaxAttempts
  AskKind,      \* kinds of questions that occur, among "card", "text", "actions"
  MaxAsks,      \* bound: questions ever asked, at most outboxBatchSize
  MaxFaults,    \* bound: crashes, stops, store errors and leases that run out
                \*        under a dispatch
  Nobody        \* no job

ASSUME ConversationsAssumption ==
  /\ Conv # {} /\ ConvOf \in [Message -> Conv] /\ Live \in BOOLEAN /\ Stepwise \in BOOLEAN
  /\ MaxRuns \in Nat \ {0} /\ MaxPending \in Nat \ {0} /\ MaxPerConv \in Nat \ {0}
  /\ MaxAttempts \in Nat \ {0} /\ MaxAsks \in Nat /\ MaxFaults \in Nat
  /\ AskKind \subseteq {"card", "text", "actions"}

Asks   == 1 .. MaxAsks
Claims == 1 .. MaxAttempts + MaxFaults     \* a resume is claimed no more often
Resume == Asks \X Claims                   \* <<i, k>>: the k-th claim of resume i
Job    == Message \cup Resume

ASSUME JobsAssumption == Message \cap Resume = {} /\ Nobody \notin Job

VARIABLES
  inbox,      \* messages recorded by acceptInbound
  ask,        \* ask[i]: status of interaction i, "none" before it exists
  kind,       \* kind[i]: its request
  home,       \* home[i]: its conversation
  lapsed,     \* interactions whose expires_at has passed
  resume,     \* resume[i]: status of the resume row of interaction i
  attempts,   \* attempts[i]: its attempts column
  ripe,       \* resumes whose next_attempt_at or lease_until has passed
  mine,       \* resumes leased by the running process
  mode,       \* the gateway process: "down", "up" or "stopping"
  at,         \* at[j]: how far job j has come
  behind,     \* behind[j]: the job whose promise j still waits for
  tail,       \* tail[c]: the entry of queues
  active,     \* activeRuns
  waiters,    \* runWaiters
  total,      \* pendingInboundMessages
  pendingIn,  \* pendingByConversation
  request,    \* request[c]: the ask the agent of c is blocked on, 0 if none
  remembered, \* completedInteractionResumes of the adapter
  acking,     \* answered asks whose card update or reply is awaited
  timer,      \* outboxTimer is set
  flights,    \* flushes whose claimed jobs have not all returned
  flushing,   \* the jobs of activeOutboxFlush
  faults      \* faults used so far

asks   == <<ask, kind, home, lapsed>>
rows   == <<resume, attempts, ripe, mine>>
chains == <<behind, tail, active, waiters>>
counts == <<total, pendingIn>>
outbox == <<timer, flights, flushing>>
vars   == <<inbox, asks, rows, mode, at, chains, counts, request, remembered, acking, outbox,
            faults>>

Fault   == faults < MaxFaults /\ faults' = faults + 1
NoFault == UNCHANGED faults
Running == mode \in {"up", "stopping"}

Init ==
  /\ inbox = {} /\ lapsed = {} /\ ripe = {} /\ mine = {}
  /\ ask = [i \in Asks |-> "none"] /\ kind = [i \in Asks |-> "none"]
  /\ home = [i \in Asks |-> CHOOSE c \in Conv : TRUE]
  /\ resume = [i \in Asks |-> "none"] /\ attempts = [i \in Asks |-> 0]
  /\ mode = "down"
  /\ at = [j \in Job |-> "none"] /\ behind = [j \in Job |-> Nobody]
  /\ tail = [c \in Conv |-> Nobody]
  /\ active = 0 /\ waiters = <<>>
  /\ total = 0 /\ pendingIn = [c \in Conv |-> 0]
  /\ request = [c \in Conv |-> 0]
  /\ remembered = {} /\ acking = {}
  /\ timer = FALSE /\ flights = {} /\ flushing = {}
  /\ faults = 0

Home(j) == IF j \in Message THEN ConvOf[j] ELSE home[j[1]]
Pending(i) == ask[i] = "pending" /\ i \notin lapsed
Unfinished(j) == at[j] \notin {"none", "answer", "done", "lost"}

-----------------------------------------------------------------------------
(* Chains and slots.                                                       *)

(* withRunSlot once the job in front has settled.                          *)
Acquire(j) ==
  /\ at[j] = "queued" /\ (behind[j] # Nobody => at[behind[j]] = "done")
  /\ IF active < MaxRuns
     THEN active' = active + 1 /\ at' = [at EXCEPT ![j] = "running"] /\ UNCHANGED waiters
     ELSE waiters' = Append(waiters, j) /\ at' = [at EXCEPT ![j] = "slot"] /\ UNCHANGED active
  /\ behind' = [behind EXCEPT ![j] = Nobody]
  /\ UNCHANGED <<inbox, asks, rows, mode, tail, counts, request, remembered, acking, outbox,
                 faults>>

(* The slot goes to the first waiter, if any; the chain of the conversation *)
(* is forgotten only by its last job.                                      *)
LeaveAndForget(j) ==                          \* mutant: any job deletes the entry of queues
  /\ IF waiters = <<>>
     THEN active' = active - 1 /\ at' = [at EXCEPT ![j] = "done"] /\ UNCHANGED waiters
     ELSE /\ at' = [at EXCEPT ![j] = "done", ![Head(waiters)] = "running"]
          /\ waiters' = Tail(waiters) /\ UNCHANGED active
  /\ tail' = [tail EXCEPT ![Home(j)] = Nobody]
  /\ UNCHANGED behind
LeaveTwice(j) ==                              \* mutant: a handed-over slot is also given back
  /\ active' = active - 1
  /\ at' = IF waiters = <<>> THEN [at EXCEPT ![j] = "done"]
           ELSE [at EXCEPT ![j] = "done", ![Head(waiters)] = "running"]
  /\ waiters' = IF waiters = <<>> THEN waiters ELSE Tail(waiters)
  /\ tail' = [tail EXCEPT ![Home(j)] = IF @ = j THEN Nobody ELSE @]
  /\ UNCHANGED behind
Leave(j) ==
  /\ IF waiters = <<>>
     THEN active' = active - 1 /\ at' = [at EXCEPT ![j] = "done"] /\ UNCHANGED waiters
     ELSE /\ at' = [at EXCEPT ![j] = "done", ![Head(waiters)] = "running"]
          /\ waiters' = Tail(waiters) /\ UNCHANGED active
  /\ tail' = [tail EXCEPT ![Home(j)] = IF @ = j THEN Nobody ELSE @]
  /\ UNCHANGED behind

-----------------------------------------------------------------------------
(* Questions.                                                              *)

Held(c) == \E i \in Asks : Pending(i) /\ home[i] = c /\ kind[i] # "actions"

(* createRuntimeInteraction: refused while another question is open in the  *)
(* conversation; actions offered before are replaced.  s = "cancelled" if    *)
(* the presentation could not be enqueued afterwards.                      *)
NewAsk == Cardinality({i \in Asks : ask[i] # "none"}) + 1
CreateBeside(c, k, s) ==                      \* mutant: older actions stay open
  /\ NewAsk \in Asks /\ ~Held(c)
  /\ ask' = [ask EXCEPT ![NewAsk] = s]
  /\ kind' = [kind EXCEPT ![NewAsk] = k] /\ home' = [home EXCEPT ![NewAsk] = c]
  /\ UNCHANGED lapsed
Create(c, k, s) ==
  /\ NewAsk \in Asks /\ ~Held(c)
  /\ ask' = [i \in Asks |-> IF i = NewAsk THEN s
                            ELSE IF Pending(i) /\ home[i] = c THEN "cancelled" ELSE ask[i]]
  /\ kind' = [kind EXCEPT ![NewAsk] = k] /\ home' = [home EXCEPT ![NewAsk] = c]
  /\ UNCHANGED lapsed

(* startRuntimeInteraction for an open question k of c: it is shown, or     *)
(* refused, or its prompt cannot be stored.                                *)
Shown(c, k)   == Create(c, k, "pending") /\ NoFault
Refused(c)    == Held(c) /\ UNCHANGED asks /\ NoFault
Unstored(c, k) == Create(c, k, "cancelled") /\ Fault

(* prepareReplyActions after a successful run.                             *)
Offered(c) ==
  \/ UNCHANGED asks /\ NoFault
  \/ /\ "actions" \in AskKind
     /\ Shown(c, "actions") \/ Unstored(c, "actions")

(* resolveRuntimeInteractionAndEnqueue: verdict and resume row together.   *)
ResolveStale(i, d) ==                         \* mutant: status and deadline are not rechecked
  /\ ask[i] # "none"
  /\ ask' = [ask EXCEPT ![i] = d] /\ resume' = [resume EXCEPT ![i] = "pending"]
  /\ ripe' = ripe \cup {i} /\ UNCHANGED <<kind, home, lapsed, attempts, mine>>
ResolveAsk(i, d) ==
  /\ Pending(i)
  /\ ask' = [ask EXCEPT ![i] = d] /\ resume' = [resume EXCEPT ![i] = "pending"]
  /\ ripe' = ripe \cup {i} /\ UNCHANGED <<kind, home, lapsed, attempts, mine>>

(* A click on the card of i.                                               *)
Answer(i, d) ==
  /\ mode = "up" /\ kind[i] \in {"card", "actions"} /\ ResolveAsk(i, d)
  /\ acking' = acking \cup {i}
  /\ UNCHANGED <<inbox, mode, at, chains, counts, request, remembered, outbox, faults>>

(* The card is updated, and the outbox is woken up at once.                *)
Acked(i) ==
  /\ i \in acking /\ acking' = acking \ {i}
  /\ timer' = (timer \/ mode = "up")
  /\ UNCHANGED <<inbox, asks, rows, mode, at, chains, counts, request, remembered, flights,
                 flushing, faults>>

(* expires_at passes.                                                      *)
Lapse(i) ==
  /\ Pending(i) /\ lapsed' = lapsed \cup {i}
  /\ UNCHANGED <<inbox, ask, kind, home, rows, mode, at, chains, counts, request, remembered,
                 acking, outbox, faults>>

-----------------------------------------------------------------------------
(* Admission.                                                              *)

OpenText(c) == {i \in Asks : Pending(i) /\ home[i] = c /\ kind[i] = "text"}
Room(c) == total < MaxPending /\ pendingIn[c] < MaxPerConv

(* reserveInbound, acceptInbound, chain.  A rejected or repeated message    *)
(* changes nothing; the transport may deliver the former again.            *)
AdmitTwice(m) ==                              \* mutant: the inbox is not consulted
  /\ mode = "up" /\ OpenText(ConvOf[m]) = {} /\ Room(ConvOf[m]) /\ ~Unfinished(m)
  /\ inbox' = inbox \cup {m}
  /\ at' = [at EXCEPT ![m] = "queued"]
  /\ behind' = [behind EXCEPT ![m] = tail[ConvOf[m]]]
  /\ tail' = [tail EXCEPT ![ConvOf[m]] = m]
  /\ total' = total + 1 /\ pendingIn' = [pendingIn EXCEPT ![ConvOf[m]] = @ + 1]
  /\ UNCHANGED <<asks, rows, mode, active, waiters, request, remembered, acking, outbox, faults>>
Admit(m) ==
  /\ mode = "up" /\ m \notin inbox /\ OpenText(ConvOf[m]) = {} /\ Room(ConvOf[m])
  /\ inbox' = inbox \cup {m}
  /\ at' = [at EXCEPT ![m] = "queued"]
  /\ behind' = [behind EXCEPT ![m] = tail[ConvOf[m]]]
  /\ tail' = [tail EXCEPT ![ConvOf[m]] = m]
  /\ total' = total + 1 /\ pendingIn' = [pendingIn EXCEPT ![ConvOf[m]] = @ + 1]
  /\ UNCHANGED <<asks, rows, mode, active, waiters, request, remembered, acking, outbox, faults>>

(* tryHandleTextInteraction: the message is consumed by an open text        *)
(* question, even if it is no valid answer, or by an error of the store.   *)
TextAnswer(m) ==
  /\ mode = "up" /\ m \notin inbox
  /\ inbox' = inbox \cup {m} /\ at' = [at EXCEPT ![m] = "answer"]
  /\ \/ \E i \in OpenText(ConvOf[m]) :
          ResolveAsk(i, "answered") /\ acking' = acking \cup {i} /\ NoFault
     \/ OpenText(ConvOf[m]) # {} /\ UNCHANGED <<asks, rows, acking>> /\ NoFault
     \/ UNCHANGED <<asks, rows, acking>> /\ Fault
  /\ UNCHANGED <<mode, chains, counts, request, remembered, outbox>>

-----------------------------------------------------------------------------
(* Runs of messages.                                                       *)

(* The agent asks.  A live one blocks on the answer; if the question cannot *)
(* be asked the run fails.                                                 *)
OpenAsk(m, k) ==
  /\ at[m] = "running" /\ request[ConvOf[m]] = 0 /\ k # "actions"
  /\ \/ /\ Shown(ConvOf[m], k) /\ UNCHANGED at
        /\ request' = IF Live THEN [request EXCEPT ![ConvOf[m]] = NewAsk] ELSE request
     \/ /\ Refused(ConvOf[m]) \/ Unstored(ConvOf[m], k)
        /\ at' = [at EXCEPT ![m] = "closing"] /\ UNCHANGED request
  /\ UNCHANGED <<inbox, rows, mode, chains, counts, remembered, acking, outbox>>

(* The iteration of adapter.run ends: with an answer, to which actions may   *)
(* be attached, or failing, when the agent gives up what it was blocked on. *)
FinishRun(m) ==
  /\ at[m] = "running" /\ request[ConvOf[m]] = 0
  /\ at' = [at EXCEPT ![m] = "closing"]
  /\ Offered(ConvOf[m])
  /\ UNCHANGED <<inbox, rows, mode, chains, counts, request, remembered, acking, outbox>>

AbandonRun(m) ==
  /\ at[m] = "running" /\ request[ConvOf[m]] # 0
  /\ at' = [at EXCEPT ![m] = "closing"]
  /\ request' = [request EXCEPT ![ConvOf[m]] = 0]
  /\ UNCHANGED <<inbox, asks, rows, mode, chains, counts, remembered, acking, outbox, faults>>

(* The final reply is delivered or left to the outbox; handle returns.     *)
ClosedHalf(m) ==                              \* mutant: the conversation's share is kept
  /\ at[m] = "closing"
  /\ Leave(m)
  /\ total' = total - 1 /\ UNCHANGED pendingIn
  /\ UNCHANGED <<inbox, asks, rows, mode, request, remembered, acking, outbox, faults>>
Closed(m) ==
  /\ at[m] = "closing"
  /\ Leave(m)
  /\ total' = total - 1 /\ pendingIn' = [pendingIn EXCEPT ![ConvOf[m]] = @ - 1]
  /\ UNCHANGED <<inbox, asks, rows, mode, request, remembered, acking, outbox, faults>>

-----------------------------------------------------------------------------
(* Continuations.                                                          *)

(* Only the result of a question goes to the live run directly.            *)
DirectNever(i) == FALSE                       \* mutant: live results wait in the chain
Direct(i) == Live /\ kind[i] # "actions"

ToExpire == {i \in Asks : ask[i] = "pending" /\ i \in lapsed}
Expired(S) == [i \in Asks |-> IF i \in S THEN "expired" ELSE ask[i]]
RevivedNever(S) == {}                         \* mutant: questions expire silently, too
Revived(S) == {i \in S : kind[i] # "actions"}  \* actions expire silently

(* claimDueInteractionResumes, one attempt each; then every row is           *)
(* dispatched: directly, or at the end of the chain of its conversation.   *)
ClaimResumes(status, due) ==
  LET queued(c) == {i \in due : ~Direct(i) /\ home[i] = c}
      job(i)    == <<i, attempts[i] + 1>>
      before(i) == {q \in queued(home[i]) : q < i}
      last(S)   == CHOOSE i \in S : \A q \in S : q <= i
  IN  /\ \A i \in due : attempts[i] + 1 \in Claims     \* the bound, which no row exceeds
      /\ resume' = [i \in Asks |-> IF i \in due THEN "leased" ELSE status[i]]
      /\ attempts' = [i \in Asks |-> IF i \in due THEN attempts[i] + 1 ELSE attempts[i]]
      /\ mine' = mine \cup due
      /\ at' = [j \in Job |-> IF \E i \in due : j = job(i)
                              THEN IF Direct(j[1]) THEN "running" ELSE "queued" ELSE at[j]]
      /\ behind' = [j \in Job |->
           IF \E i \in due : j = job(i) /\ ~Direct(i)
           THEN IF before(j[1]) = {} THEN tail[home[j[1]]] ELSE job(last(before(j[1])))
           ELSE behind[j]]
      /\ tail' = [c \in Conv |-> IF queued(c) = {} THEN tail[c] ELSE job(last(queued(c)))]
      /\ flushing' = {job(i) : i \in due}
      /\ flights' = IF due = {} THEN flights ELSE flights \cup {flushing'}
      /\ timer' = (due = {})

(* The timer fires: overdue questions expire, due resumes are claimed.  The *)
(* timer is set again when everything claimed here has returned.           *)
Flush ==
  /\ mode = "up" /\ timer
  /\ \E swept, claimed \in BOOLEAN :
       LET S      == IF swept THEN ToExpire ELSE {}
           status == [i \in Asks |-> IF i \in Revived(S) THEN "pending" ELSE resume[i]]
           due    == {i \in Asks : i \in ripe \cup Revived(S) /\ status[i] \in {"pending", "leased"}}
       IN  /\ S # {} \/ due # {}
           /\ IF swept /\ claimed THEN NoFault ELSE Fault
           /\ ask' = Expired(S)
           /\ ClaimResumes(status, IF claimed THEN due ELSE {})
           /\ ripe' = (ripe \cup Revived(S)) \ (IF claimed THEN due ELSE {})
  /\ UNCHANGED <<inbox, kind, home, lapsed, mode, active, waiters, counts, request, remembered,
                 acking>>

FlightOverQuietly(F) ==                       \* mutant: nothing schedules the next flush
  /\ F \in flights /\ \A j \in F : at[j] = "done"
  /\ flights' = flights \ {F}
  /\ flushing' = IF flushing = F THEN {} ELSE flushing
  /\ UNCHANGED <<inbox, asks, rows, mode, at, chains, counts, request, remembered, acking, timer,
                 faults>>
FlightOver(F) ==
  /\ F \in flights /\ \A j \in F : at[j] = "done"
  /\ flights' = flights \ {F}
  /\ flushing' = IF flushing = F THEN {} ELSE flushing
  /\ timer' = (timer \/ mode = "up")
  /\ UNCHANGED <<inbox, asks, rows, mode, at, chains, counts, request, remembered, acking, faults>>

(* adapter.resumeInteraction for a live run: the result is handed to         *)
(* whatever request of the same kind the session is blocked on (an expiry   *)
(* to any), unless this adapter remembers the key.  A stepwise adapter may   *)
(* ask its next question, and stays blocked if that cannot be asked.       *)
Fits(i, x) == kind[i] = kind[x] \/ ask[i] = "expired"

ResumeLive(i, k) ==
  LET j == <<i, k>>  c == home[i]  x == request[c]
      outcome(o) == at' = [at EXCEPT ![j] = o]
  IN  /\ at[j] = "running" /\ Direct(i)
      /\ \/ /\ i \in remembered /\ outcome("resumed")
            /\ UNCHANGED <<asks, request, remembered>> /\ NoFault
         \/ /\ i \notin remembered /\ x # 0 /\ Fits(i, x)
            /\ remembered' = remembered \cup {i}
            /\ \/ /\ request' = [request EXCEPT ![c] = 0]
                  /\ outcome("resumed") /\ UNCHANGED asks /\ NoFault
               \/ /\ Stepwise
                  /\ \E n \in AskKind \ {"actions"} :
                       \/ /\ Shown(c, n) /\ outcome("resumed")
                          /\ request' = [request EXCEPT ![c] = NewAsk]
                       \/ /\ Refused(c) \/ Unstored(c, n)
                          /\ outcome("failed") /\ UNCHANGED request
         \/ /\ i \notin remembered /\ outcome("failed")
            /\ IF x = i THEN Fault ELSE NoFault
            /\ UNCHANGED <<asks, request, remembered>>
      /\ UNCHANGED <<inbox, rows, mode, chains, counts, acking, outbox>>

(* A continuation that is a turn of its own.  It may offer actions again;   *)
(* if they are refused, or cannot be shown, the attempt has failed though   *)
(* the agent has done its part.                                            *)
ContinueTurn(i, k) ==
  LET j == <<i, k>>
      outcome(o) == at' = [at EXCEPT ![j] = o]
  IN  /\ at[j] = "running" /\ ~Direct(i)
      /\ \/ /\ i \in remembered /\ outcome("resumed")
            /\ UNCHANGED <<asks, remembered>> /\ NoFault
         \/ /\ i \notin remembered /\ outcome("failed")
            /\ UNCHANGED <<asks, remembered>> /\ NoFault
         \/ /\ i \notin remembered /\ remembered' = remembered \cup {i}
            /\ \/ outcome("resumed") /\ UNCHANGED asks /\ NoFault
               \/ outcome("failed") /\ UNCHANGED asks /\ Fault
               \/ /\ "actions" \in AskKind
                  /\ \/ outcome("resumed") /\ Shown(home[i], "actions")
                     \/ outcome("failed") /\ Refused(home[i])
                     \/ outcome("failed") /\ Create(home[i], "actions", "pending") /\ Fault
      /\ UNCHANGED <<inbox, rows, mode, chains, counts, request, acking, outbox>>

Holds(i) == resume[i] = "leased" /\ i \in mine
Settled(i, s) ==
  /\ Holds(i)
  /\ resume' = [resume EXCEPT ![i] = s]
  /\ mine' = mine \ {i} /\ ripe' = ripe \ {i}
  /\ UNCHANGED attempts

Return(i, k) ==
  IF Direct(i) THEN at' = [at EXCEPT ![<<i, k>>] = "done"] /\ UNCHANGED chains
  ELSE Leave(<<i, k>>)

(* completeInteractionResume; if it throws the attempt counts as failed.   *)
CompleteResume(i, k) ==
  /\ at[<<i, k>>] = "resumed"
  /\ \/ Settled(i, "delivered") /\ Return(i, k) /\ NoFault
     \/ /\ IF Holds(i) THEN Fault ELSE NoFault
        /\ at' = [at EXCEPT ![<<i, k>>] = "failed"] /\ UNCHANGED <<rows, chains>>
  /\ UNCHANGED <<inbox, asks, mode, counts, request, remembered, acking, outbox>>

(* settleFailedInteractionResume: retry later or give up.                  *)
SettleFailedResume(i, k) ==
  /\ at[<<i, k>>] = "failed"
  /\ \/ Settled(i, IF k >= MaxAttempts THEN "dead" ELSE "pending") /\ NoFault
     \/ UNCHANGED rows /\ IF Holds(i) THEN Fault ELSE NoFault
  /\ Return(i, k)
  /\ UNCHANGED <<inbox, asks, mode, counts, request, remembered, acking, outbox>>

(* A retry delay or a lease runs out.                                      *)
TimePasses(i) ==
  /\ resume[i] \in {"pending", "leased"} /\ i \notin ripe
  /\ IF \E k \in Claims : Unfinished(<<i, k>>) THEN Fault ELSE NoFault
  /\ ripe' = ripe \cup {i}
  /\ UNCHANGED <<inbox, asks, resume, attempts, mine, mode, at, chains, counts, request,
                 remembered, acking, outbox>>

-----------------------------------------------------------------------------
(* The process.                                                            *)

Start ==
  /\ mode = "down" /\ mode' = "up" /\ timer' = TRUE
  /\ UNCHANGED <<inbox, asks, rows, at, chains, counts, request, remembered, acking, flights,
                 flushing, faults>>

Stop ==
  /\ mode = "up" /\ Fault /\ mode' = "stopping" /\ timer' = FALSE
  /\ UNCHANGED <<inbox, asks, rows, at, chains, counts, request, remembered, acking, flights,
                 flushing>>

(* Everything in memory is gone.                                           *)
Gone ==
  /\ mode' = "down"
  /\ at' = [j \in Job |-> IF Unfinished(j) THEN "lost" ELSE at[j]]
  /\ behind' = [j \in Job |-> Nobody] /\ tail' = [c \in Conv |-> Nobody]
  /\ active' = 0 /\ waiters' = <<>>
  /\ total' = 0 /\ pendingIn' = [c \in Conv |-> 0]
  /\ request' = [c \in Conv |-> 0]
  /\ remembered' = {} /\ acking' = {} /\ mine' = {}
  /\ timer' = FALSE /\ flights' = {} /\ flushing' = {}
  /\ UNCHANGED <<inbox, asks, resume, attempts, ripe>>

(* stop() waits for the chains and for the last flush, then the agents are  *)
(* stopped.                                                                *)
Stopped ==
  /\ mode = "stopping" /\ \A c \in Conv : tail[c] = Nobody
  /\ \A j \in flushing : at[j] = "done"
  /\ Gone /\ UNCHANGED faults

Crash == Running /\ Fault /\ Gone

-----------------------------------------------------------------------------
MessageStep(m) ==
  \/ Admit(m) \/ TextAnswer(m) \/ FinishRun(m) \/ AbandonRun(m) \/ Closed(m)
  \/ \E k \in AskKind : OpenAsk(m, k)

AskStep(i) == Acked(i) \/ Lapse(i) \/ TimePasses(i) \/ \E d \in {"answered", "cancelled"} : Answer(i, d)

ResumeStep(i, k) ==
  ResumeLive(i, k) \/ ContinueTurn(i, k) \/ CompleteResume(i, k) \/ SettleFailedResume(i, k)

Next ==
  \/ \E j \in Job : Acquire(j)
  \/ \E m \in Message : MessageStep(m)
  \/ \E i \in Asks : AskStep(i)
  \/ \E i \in Asks, k \in Claims : ResumeStep(i, k)
  \/ Flush \/ \E F \in flights : FlightOver(F)
  \/ Start \/ Stop \/ Stopped \/ Crash

Spec == Init /\ [][Next]_vars

(* The event loop runs every ready continuation, timers fire, a supervisor   *)
(* restarts the process, and an agent ends its run unless it is blocked on  *)
(* a question.  No user ever has to answer.                                *)
Fairness ==
  /\ WF_vars(\E j \in Job : Acquire(j))
  /\ WF_vars(\E m \in Message : FinishRun(m) \/ Closed(m))
  /\ WF_vars(\E i \in Asks : Acked(i)) /\ WF_vars(\E i \in Asks : Lapse(i))
  /\ WF_vars(\E i \in Asks : TimePasses(i) /\ NoFault)
  /\ WF_vars(\E i \in Asks, k \in Claims : ResumeStep(i, k))
  /\ WF_vars(Flush) /\ WF_vars(\E F \in flights : FlightOver(F))
  /\ WF_vars(Start) /\ WF_vars(Stopped)

FairSpec == Spec /\ Fairness

-----------------------------------------------------------------------------
(* Properties.                                                             *)

AskVerdict == {"answered", "cancelled", "expired"}
InTurn(j)  == at[j] \in {"running", "closing", "resumed", "failed"} /\ (j \in Message \/ ~Direct(j[1]))
Admitted   == {m \in Message : Unfinished(m)}

(* Every variable has its type.                                            *)
TypeOK ==
  /\ inbox \subseteq Message
  /\ ask \in [Asks -> {"none", "pending"} \cup AskVerdict]
  /\ kind \in [Asks -> {"none"} \cup AskKind] /\ home \in [Asks -> Conv]
  /\ lapsed \subseteq Asks /\ ripe \subseteq Asks /\ mine \subseteq Asks
  /\ resume \in [Asks -> {"none", "pending", "leased", "delivered", "dead"}]
  /\ attempts \in [Asks -> {0} \cup Claims]
  /\ mode \in {"down", "up", "stopping"}
  /\ at \in [Job -> {"none", "answer", "queued", "slot", "running", "closing", "resumed",
                    "failed", "done", "lost"}]
  /\ behind \in [Job -> Job \cup {Nobody}] /\ tail \in [Conv -> Job \cup {Nobody}]
  /\ active \in 0 .. MaxRuns /\ waiters \in Seq(Job)
  /\ total \in 0 .. MaxPending /\ pendingIn \in [Conv -> 0 .. MaxPerConv]
  /\ request \in [Conv -> {0} \cup Asks]
  /\ remembered \subseteq Asks /\ acking \subseteq Asks
  /\ timer \in BOOLEAN /\ flights \subseteq SUBSET Resume /\ flushing \subseteq Resume
  /\ faults \in 0 .. MaxFaults

(* The turns of one conversation never overlap, whether they are messages    *)
(* or continuations and although the chain is forgotten when it runs dry.  *)
OneTurnPerConversation ==
  \A c \in Conv : Cardinality({j \in Job : InTurn(j) /\ Home(j) = c}) <= 1

(* Slots are neither lost nor made up: the counter is the number of turns    *)
(* that run, and somebody waits only while all slots are taken.            *)
SlotsExact ==
  /\ active = Cardinality({j \in Job : InTurn(j)})
  /\ {waiters[n] : n \in DOMAIN waiters} = {j \in Job : at[j] = "slot"}
  /\ waiters # <<>> => active = MaxRuns

(* Every reservation belongs to an admitted message that is not finished:    *)
(* no path through duplicates, answers, errors or restarts leaks capacity. *)
ReservationsExact ==
  /\ total = Cardinality(Admitted)
  /\ \A c \in Conv : pendingIn[c] = Cardinality({m \in Admitted : ConvOf[m] = c})

(* A conversation has at most one question or set of actions open.         *)
OneOpenAsk ==
  \A i, q \in Asks : Pending(i) /\ Pending(q) /\ home[i] = home[q] => i = q

(* An agent blocked on a question can still be woken: the question is open   *)
(* or will expire, or its result is on the way.                            *)
NobodyStranded ==
  faults = 0 => \A c \in Conv : request[c] # 0 =>
    ask[request[c]] = "pending" \/ resume[request[c]] \in {"pending", "leased"}

(* The first verdict on a question stands, and so does the end of its        *)
(* resume: clicks, texts, sweeps, replacements and retries never race it.  *)
VerdictsStand ==
  [][\A i \in Asks :
       /\ ask[i] \in AskVerdict => ask'[i] = ask[i]
       /\ resume[i] \in {"delivered", "dead"} => resume'[i] = resume[i]]_vars

(* A message starts at most one turn: not after a redelivery, after a crash, *)
(* or after it answered a question.                                        *)
TurnStartsOnce ==
  [][\A m \in Message : at'[m] = "queued" /\ at[m] # "queued" => m \notin inbox]_vars

(* Every admitted turn ends though it may wait for an answer that nobody     *)
(* gives, with as little as one run slot.                                  *)
EveryTurnEnds == \A m \in Message : Unfinished(m) ~> ~Unfinished(m) \/ mode = "stopping"

(* Every answer is handed to the agent or given up.                        *)
EveryAnswerSettles ==
  \A i \in Asks : resume[i] \in {"pending", "leased"} ~>
    resume[i] \in {"delivered", "dead"} \/ mode = "stopping"

(* docs/adr/0022-live-kernel-interaction-resume.md:30: the adapter verifies   *)
(* that the original request is still pending: an answer only reaches the   *)
(* question it was given to.                                               *)
AnswerReachesItsAsk ==
  [][\A i \in Asks :
       i \in remembered' \ remembered /\ Direct(i) => request[home[i]] = i]_vars

(* Not kept by the code (README, What does not hold): no run lists it.      *)
(* docs/interaction-cards.md:193: a question that nobody answers expires.  *)
AsksExpire == \A i \in Asks : ask[i] = "pending" ~> ask[i] # "pending" \/ mode = "stopping"
=============================================================================
