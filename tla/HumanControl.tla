---------------------------- MODULE HumanControl ----------------------------
(***************************************************************************)
(* The human control plane of WeComAgentGateway: approvals that a tool call *)
(* of an agent run waits for, and the card that stops a long run.  Both    *)
(* join a durable row (tables approvals, presentation_interactions and      *)
(* run_controls) to something in memory (approvalResolvers,                *)
(* activeRunControls) that a crash takes away.                             *)
(*                                                                         *)
(* The turns of this module belong to one conversation and one agent       *)
(* session.  A handler is one action up to the next await of a timer, the   *)
(* network or the agent: the store is synchronous SQLite, so the awaits of  *)
(* its methods resume in order before any other event is dispatched.       *)
(***************************************************************************)
EXTENDS Naturals, FiniteSets

CONSTANTS
  Turn,        \* inbound messages, each handled by one agent run
  Call,        \* tool calls that need an approval
  Caller,      \* the turn each call belongs to
  Carded,      \* calls prompted by a card; the others by a text code
  MaxFaults,   \* bound: errors of the store
  MaxRestarts  \* bound: crashes and stops

ASSUME HumanControlAssumption ==
  /\ Caller \in [Call -> Turn] /\ Carded \subseteq Call /\ Turn \cap Call = {}
  /\ MaxFaults \in Nat /\ MaxRestarts \in Nat

VARIABLES
  approval,   \* approval[a]: status of the row of call a, "none" before it exists
  card,       \* card[a]: presentation interaction of call a
  control,    \* control[t]: status of the run_controls row of turn t
  lapsed,     \* rows (named by call or turn) whose expires_at has passed
  mode,       \* the gateway process: "down", "up" or "stopping"
  turn,       \* turn[t]: how far handle() of t has come
  verdict,    \* verdict[t]: how the mutable reply of t was closed
  call,       \* call[a]: the requestApproval promise the adapter holds
  answer,     \* answer[a]: what that promise is, or will be, settled with
  resolver,   \* keys of approvalResolvers
  controls,   \* keys of activeRunControls
  creating,   \* turns whose presentRunControl awaits the delivery of its card
  suspended,  \* turns that will not (again) offer a stop card
  cancel,     \* cancel[t]: the call of adapter.cancel for turn t
  told,       \* calls whose user was told that the decision took effect
  faults,     \* store errors so far
  restarts    \* crashes and stops so far

rows  == <<approval, card, control, lapsed>>
calls == <<call, answer, resolver>>
stops == <<controls, creating, suspended, cancel>>
vars  == <<rows, mode, turn, verdict, calls, stops, told, faults, restarts>>

Running == mode \in {"up", "stopping"}
Active(t) == turn[t] \in {"running", "closing", "ending"}
CancelRequested(t) == cancel[t] \in {"calling", "done"}
CallsOf(t) == {a \in Call : Caller[a] = t}
Presented(t) == \E a \in CallsOf(t) : call[a] \in {"prompting", "waiting"}
Quiet(t) == \A a \in CallsOf(t) : call[a] \in {"idle", "returned", "lost"}

Fault   == faults < MaxFaults /\ faults' = faults + 1
NoFault == UNCHANGED faults

Init ==
  /\ approval = [a \in Call |-> "none"] /\ card = [a \in Call |-> "none"]
  /\ control = [t \in Turn |-> "none"] /\ lapsed = {}
  /\ mode = "down"
  /\ turn = [t \in Turn |-> "idle"] /\ verdict = [t \in Turn |-> "none"]
  /\ call = [a \in Call |-> "idle"] /\ answer = [a \in Call |-> "none"]
  /\ resolver = {} /\ controls = {} /\ creating = {} /\ suspended = {}
  /\ cancel = [t \in Turn |-> "no"]
  /\ told = {} /\ faults = 0 /\ restarts = 0

-----------------------------------------------------------------------------
(* The run.                                                                *)

Accept(t) ==
  /\ mode = "up" /\ turn[t] = "idle"
  /\ turn' = [turn EXCEPT ![t] = "accepted"]
  /\ UNCHANGED <<rows, mode, verdict, calls, stops, told, faults, restarts>>

(* The queue of the conversation runs one turn at a time.                  *)
Begin(t) ==
  /\ Running /\ turn[t] = "accepted" /\ \A u \in Turn : ~Active(u)
  /\ turn' = [turn EXCEPT ![t] = "running"]
  /\ UNCHANGED <<rows, mode, verdict, calls, stops, told, faults, restarts>>

(* message-completed closes the reply while the run is still iterated.     *)
Completed(t) ==
  /\ turn[t] = "running" /\ verdict[t] = "none" /\ ~CancelRequested(t)
  /\ verdict' = [verdict EXCEPT ![t] = "answered"]
  /\ UNCHANGED <<rows, mode, turn, calls, stops, told, faults, restarts>>

(* The iteration of adapter.run ends or fails, and the reply closes unless   *)
(* it is closed: with the answer or an error text, or as stopped.  Tool      *)
(* calls may still be waiting: a timeout or a dying kernel abandons them.  *)
EndRun(t) ==
  /\ turn[t] = "running"
  /\ turn' = [turn EXCEPT ![t] = "closing"]
  /\ verdict' = [verdict EXCEPT ![t] =
                   IF @ # "none" THEN @ ELSE IF CancelRequested(t) THEN "stopped" ELSE "answered"]
  /\ UNCHANGED <<rows, mode, calls, stops, told, faults, restarts>>

(* The final reply is delivered or left to the outbox; finished = true.    *)
Closed(t) ==
  /\ turn[t] = "closing"
  /\ turn' = [turn EXCEPT ![t] = "ending"]
  /\ UNCHANGED <<rows, mode, verdict, calls, stops, told, faults, restarts>>

(* The waiting calls of S are answered d; one whose prompt is still on its   *)
(* way returns after it.                                                   *)
DecideKeeping(S, d) ==                       \* mutant: the entry stays in approvalResolvers
  /\ UNCHANGED resolver
  /\ answer' = [a \in Call |-> IF a \in S THEN d ELSE answer[a]]
  /\ call' = [a \in Call |-> IF a \in S /\ call[a] = "waiting" THEN "returned" ELSE call[a]]
Decide(S, d) ==
  /\ resolver' = resolver \ S
  /\ answer' = [a \in Call |-> IF a \in S THEN d ELSE answer[a]]
  /\ call' = [a \in Call |-> IF a \in S /\ call[a] = "waiting" THEN "returned" ELSE call[a]]

(* The WHERE clause of resolveApproval for a decision other than expired.  *)
Resolvable(a) == approval[a] = "pending" /\ a \notin lapsed

Interrupted(S) ==
  [a \in Call |-> IF a \in S /\ Resolvable(a) THEN "interrupted" ELSE approval[a]]

(* handle's finally: the stop card is retired and the run's approvals are    *)
(* interrupted, in the store if it works and in memory in any case.        *)
Finally(t) ==
  /\ turn[t] = "ending" /\ t \notin creating
  /\ turn' = [turn EXCEPT ![t] = "over"]
  /\ controls' = controls \ {t} /\ suspended' = suspended \ {t}
  /\ Decide(resolver \cap CallsOf(t), "interrupted")
  /\ \/ /\ control' = [control EXCEPT ![t] = IF @ = "pending" THEN "completed" ELSE @]
        /\ approval' = Interrupted(resolver \cap CallsOf(t))
        /\ NoFault
     \/ /\ Fault
        /\ \/ /\ control[t] = "pending" /\ UNCHANGED control
              /\ approval' = Interrupted(resolver \cap CallsOf(t))
           \/ /\ control' = [control EXCEPT ![t] = IF @ = "pending" THEN "completed" ELSE @]
              /\ resolver \cap CallsOf(t) # {} /\ UNCHANGED approval
  /\ UNCHANGED <<card, lapsed, mode, verdict, creating, cancel, told, restarts>>

-----------------------------------------------------------------------------
(* Approvals.                                                              *)

(* requestApproval: row, resolver and timer, card, prompt.  An error throws  *)
(* to the adapter; once the row exists it is interrupted first.            *)
Present(a) ==
  \/ /\ approval' = [approval EXCEPT ![a] = "pending"]
     /\ card' = IF a \in Carded THEN [card EXCEPT ![a] = "pending"] ELSE card
     /\ resolver' = resolver \cup {a}
     /\ call' = [call EXCEPT ![a] = "prompting"]
     /\ UNCHANGED answer /\ NoFault
  \/ /\ approval' \in {approval, [approval EXCEPT ![a] = "interrupted"]}
     /\ call' = [call EXCEPT ![a] = "returned"]
     /\ answer' = [answer EXCEPT ![a] = "error"]
     /\ UNCHANGED <<card, resolver>> /\ Fault

(* The kernel asks.  approvalQueue makes the call wait for the ones before   *)
(* it; without any, its approval is presented at once.                     *)
Request(a) ==
  /\ turn[Caller[a]] = "running" /\ call[a] = "idle"
  /\ suspended' = suspended \cup {Caller[a]}
  /\ IF Quiet(Caller[a]) THEN Present(a)
     ELSE /\ call' = [call EXCEPT ![a] = "queued"]
          /\ UNCHANGED <<approval, card, answer, resolver>> /\ NoFault
  /\ UNCHANGED <<control, lapsed, mode, turn, verdict, controls, creating, cancel, told, restarts>>

NextApproval(a) ==
  /\ Running /\ call[a] = "queued" /\ ~Presented(Caller[a])
  /\ Present(a)
  /\ UNCHANGED <<control, lapsed, mode, turn, verdict, stops, told, restarts>>

(* The prompt was delivered or left to the outbox: now the call waits.     *)
Prompted(a) ==
  /\ Running /\ call[a] = "prompting"
  /\ call' = [call EXCEPT ![a] = IF answer[a] = "none" THEN "waiting" ELSE "returned"]
  /\ UNCHANGED <<rows, mode, turn, verdict, answer, resolver, stops, told, faults, restarts>>

(* The user decides by button or by code: a card is consumed first, then    *)
(* the row is resolved, then the waiting call is answered.                 *)
DecideUnchecked(a, d) ==                     \* mutant: the store's refusal is ignored
  /\ mode = "up" /\ approval[a] # "none" /\ d \in {"approved", "denied"}
  /\ a \in Carded => card[a] = "pending"
  /\ approval' = [approval EXCEPT ![a] = IF Resolvable(a) THEN d ELSE @]
  /\ card' = IF a \in Carded THEN [card EXCEPT ![a] = "resolved"] ELSE card
  /\ Decide({a} \cap resolver, d) /\ told' = told \cup ({a} \cap resolver)
  /\ UNCHANGED <<control, lapsed, mode, turn, verdict, stops, faults, restarts>>
DecideBlindly(a, d) ==                       \* mutant: success without a waiting call
  /\ mode = "up" /\ Resolvable(a) /\ d \in {"approved", "denied"}
  /\ a \in Carded => card[a] = "pending"
  /\ approval' = [approval EXCEPT ![a] = d]
  /\ card' = IF a \in Carded THEN [card EXCEPT ![a] = "resolved"] ELSE card
  /\ Decide({a} \cap resolver, d) /\ told' = told \cup {a}
  /\ UNCHANGED <<control, lapsed, mode, turn, verdict, stops, faults, restarts>>

Resolve(a, d) ==
  /\ mode = "up" /\ approval[a] # "none" /\ d \in {"approved", "denied"}
  /\ a \in Carded => card[a] = "pending" /\ a \notin lapsed
  /\ card' = IF a \in Carded THEN [card EXCEPT ![a] = "resolved"] ELSE card
  /\ \/ /\ Resolvable(a) /\ NoFault
        /\ approval' = [approval EXCEPT ![a] = d]
        /\ Decide({a} \cap resolver, d)
        /\ told' = told \cup ({a} \cap resolver)
     \/ /\ ~Resolvable(a) /\ NoFault
        /\ UNCHANGED <<approval, calls, told>>
     \/ /\ Resolvable(a) /\ Fault
        /\ UNCHANGED <<approval, calls, told>>
  /\ UNCHANGED <<control, lapsed, mode, turn, verdict, stops, restarts>>

(* The timer of the call.  If the store fails, the call is interrupted; if   *)
(* the row is no longer pending, someone else answers it.                  *)
ExpireOrHang(a) ==                           \* mutant: a failing store leaves the call waiting
  /\ Running /\ a \in resolver \cap lapsed /\ approval[a] = "pending"
  /\ \/ /\ approval' = [approval EXCEPT ![a] = "expired"]
        /\ Decide({a}, "expired") /\ NoFault
     \/ resolver' = resolver \ {a} /\ UNCHANGED <<approval, answer, call>> /\ Fault
  /\ UNCHANGED <<card, control, lapsed, mode, turn, verdict, stops, told, restarts>>

Expire(a) ==
  /\ Running /\ a \in resolver \cap lapsed /\ approval[a] = "pending"
  /\ \/ /\ approval' = [approval EXCEPT ![a] = "expired"]
        /\ Decide({a}, "expired") /\ NoFault
     \/ Decide({a}, "interrupted") /\ UNCHANGED approval /\ Fault
  /\ UNCHANGED <<card, control, lapsed, mode, turn, verdict, stops, told, restarts>>

(* expires_at of an approval or of a stop card passes.                     *)
Lapse(x) ==
  /\ x \notin lapsed
  /\ IF x \in Call THEN approval[x] = "pending" ELSE control[x] \in {"pending", "completed"}
  /\ lapsed' = lapsed \cup {x}
  /\ UNCHANGED <<approval, card, control, mode, turn, verdict, calls, stops, told, faults,
                 restarts>>

-----------------------------------------------------------------------------
(* The stop card.                                                          *)

(* Its timer is only cleared in finally, so it may fire while the reply     *)
(* closes.  After an error the run is not offered another card.            *)
PresentRunControl(t) ==
  /\ turn[t] \in {"running", "closing"} /\ t \notin suspended /\ control[t] = "none"
  /\ \/ /\ control' = [control EXCEPT ![t] = "pending"]
        /\ controls' = controls \cup {t} /\ creating' = creating \cup {t}
        /\ UNCHANGED suspended /\ NoFault
     \/ /\ control' \in {control, [control EXCEPT ![t] = "completed"]}
        /\ suspended' = suspended \cup {t}
        /\ UNCHANGED <<controls, creating>> /\ Fault
  /\ UNCHANGED <<approval, card, lapsed, mode, turn, verdict, calls, cancel, told, restarts>>

RunControlShown(t) ==
  /\ Running /\ t \in creating
  /\ creating' = creating \ {t}
  /\ UNCHANGED <<rows, mode, turn, verdict, calls, controls, suspended, cancel, told, faults,
                 restarts>>

(* The user clicks stop.  The row answers one click, while it is fresh; the *)
(* agent is cancelled only if the row was pending and its run is live here. *)
StopByRow(t) ==                              \* mutant: the durable row alone decides
  /\ mode = "up" /\ control[t] \in {"pending", "completed"} /\ t \notin lapsed
  /\ control' = [control EXCEPT ![t] = "resolved"]
  /\ cancel' = IF control[t] = "pending" THEN [cancel EXCEPT ![t] = "calling"] ELSE cancel
  /\ UNCHANGED <<approval, card, lapsed, mode, turn, verdict, calls, controls, creating,
                 suspended, told, faults, restarts>>
HandleRunControl(t) ==
  /\ mode = "up" /\ control[t] \in {"pending", "completed"} /\ t \notin lapsed
  /\ control' = [control EXCEPT ![t] = "resolved"]
  /\ cancel' = IF control[t] = "pending" /\ t \in controls /\ turn[t] \notin {"ending", "over"}
               THEN [cancel EXCEPT ![t] = "calling"] ELSE cancel
  /\ UNCHANGED <<approval, card, lapsed, mode, turn, verdict, calls, controls, creating,
                 suspended, told, faults, restarts>>

(* adapter.cancel returns or rejects; a rejection takes the request back.  *)
CancelReturns(t) ==
  /\ Running /\ cancel[t] = "calling"
  /\ \E result \in {"done", "failed"} : cancel' = [cancel EXCEPT ![t] = result]
  /\ UNCHANGED <<rows, mode, turn, verdict, calls, controls, creating, suspended, told,
                 faults, restarts>>

-----------------------------------------------------------------------------
(* The process.                                                            *)

AllInterrupted ==
  [a \in Call |-> IF approval[a] = "pending" THEN "interrupted" ELSE approval[a]]

(* startComponents does not get past a failing interruptPendingApprovals.  *)
StartKeeping ==                              \* mutant: old approvals stay pending
  /\ mode = "down" /\ mode' = "up"
  /\ UNCHANGED <<rows, turn, verdict, calls, stops, told, faults, restarts>>
Start ==
  /\ mode = "down" /\ mode' = "up"
  /\ approval' = AllInterrupted
  /\ UNCHANGED <<card, control, lapsed, turn, verdict, calls, stops, told, faults, restarts>>

(* stop() interrupts what waits now, then drains what was accepted.        *)
StopRowsOnly ==                              \* mutant: the calls in memory are forgotten
  /\ mode = "up" /\ restarts < MaxRestarts /\ restarts' = restarts + 1
  /\ mode' = "stopping" /\ approval' = AllInterrupted
  /\ UNCHANGED <<card, control, lapsed, turn, verdict, calls, stops, told, faults>>
Stop ==
  /\ mode = "up" /\ restarts < MaxRestarts /\ restarts' = restarts + 1
  /\ mode' = "stopping"
  /\ Decide(resolver, "interrupted")
  /\ \/ approval' = AllInterrupted /\ NoFault
     \/ UNCHANGED approval /\ Fault
  /\ UNCHANGED <<card, control, lapsed, turn, verdict, stops, told>>

(* The process is gone, and with it everything in memory.                  *)
Gone ==
  /\ mode' = "down"
  /\ turn' = [t \in Turn |-> IF turn[t] = "idle" THEN "idle" ELSE "over"]
  /\ call' = [a \in Call |-> IF call[a] \in {"idle", "returned"} THEN call[a] ELSE "lost"]
  /\ resolver' = {} /\ controls' = {} /\ creating' = {} /\ suspended' = {}
  /\ cancel' = [t \in Turn |-> IF cancel[t] = "calling" THEN "no" ELSE cancel[t]]
  /\ UNCHANGED <<rows, verdict, answer, told, faults>>

Stopped ==
  /\ mode = "stopping" /\ \A t \in Turn : turn[t] \in {"idle", "over"}
  /\ Gone /\ UNCHANGED restarts

Crash ==
  /\ Running /\ restarts < MaxRestarts /\ restarts' = restarts + 1
  /\ Gone

-----------------------------------------------------------------------------
RunStep(t) ==
  Accept(t) \/ Begin(t) \/ Completed(t) \/ EndRun(t) \/ Closed(t) \/ Finally(t)

ApprovalStep(a) ==
  \/ Request(a) \/ NextApproval(a) \/ Prompted(a) \/ Expire(a)
  \/ \E d \in {"approved", "denied"} : Resolve(a, d)

ControlStep(t) ==
  PresentRunControl(t) \/ RunControlShown(t) \/ HandleRunControl(t) \/ CancelReturns(t)

Next ==
  \/ \E t \in Turn : RunStep(t) \/ ControlStep(t)
  \/ \E a \in Call : ApprovalStep(a)
  \/ \E x \in Turn \cup Call : Lapse(x)
  \/ Start \/ Stop \/ Stopped \/ Crash

Spec == Init /\ [][Next]_vars

(* Timers fire, continuations run, deliveries return, the supervisor         *)
(* restarts the process, and an adapter ends its run once no tool call of   *)
(* it waits (it may end it earlier).  No user ever has to click.           *)
Fairness ==
  /\ \A t \in Turn :
       /\ WF_vars(Begin(t)) /\ WF_vars(Quiet(t) /\ EndRun(t)) /\ WF_vars(Closed(t))
       /\ WF_vars(Finally(t)) /\ WF_vars(RunControlShown(t))
  /\ \A a \in Call :
       WF_vars(NextApproval(a)) /\ WF_vars(Prompted(a)) /\ WF_vars(Expire(a)) /\ WF_vars(Lapse(a))
  /\ WF_vars(Start) /\ WF_vars(Stopped)

FairSpec == Spec /\ Fairness

-----------------------------------------------------------------------------
(* Properties.                                                             *)

Decision == {"approved", "denied", "expired", "interrupted"}

(* Every variable has its type, and what waits in memory belongs to a        *)
(* running process and to a row that was created.                          *)
TypeOK ==
  /\ approval \in [Call -> {"none", "pending"} \cup Decision]
  /\ card \in [Call -> {"none", "pending", "resolved"}]
  /\ control \in [Turn -> {"none", "pending", "completed", "resolved"}]
  /\ lapsed \subseteq Turn \cup Call
  /\ mode \in {"down", "up", "stopping"}
  /\ turn \in [Turn -> {"idle", "accepted", "running", "closing", "ending", "over"}]
  /\ verdict \in [Turn -> {"none", "answered", "stopped"}]
  /\ call \in [Call -> {"idle", "queued", "prompting", "waiting", "returned", "lost"}]
  /\ answer \in [Call -> {"none", "error"} \cup Decision]
  /\ resolver \subseteq {a \in Call : call[a] \in {"prompting", "waiting"}}
  /\ controls \subseteq Turn /\ creating \subseteq controls
  /\ suspended \subseteq Turn /\ told \subseteq Call
  /\ cancel \in [Turn -> {"no", "calling", "done", "failed"}]
  /\ faults \in 0 .. MaxFaults /\ restarts \in 0 .. MaxRestarts

(* A tool call is answered approved, denied or expired only if the durable   *)
(* row says the same, for good: no race of a click with the timer, the end   *)
(* of the run, a stop or a crash makes the two differ.                     *)
AnswerIsDurable ==
  \A a \in Call : answer[a] \in {"approved", "denied", "expired"} => approval[a] = answer[a]

(* Whoever is told that a decision took effect is told the truth: the call   *)
(* that asked was answered with it.                                        *)
ToldTheTruth ==
  \A a \in told : answer[a] = approval[a] /\ answer[a] \in {"approved", "denied"}

(* Unless the store failed, an approval that a user can still grant belongs  *)
(* to a call waiting in this process: none survives a stop or a crash.     *)
ApprovableHasWaiter ==
  mode = "up" /\ faults = 0 => \A a \in Call : Resolvable(a) => a \in resolver

(* A click on a stop card reaches only the run the card was made for, while  *)
(* this run still holds the session: never a later run, and never after a   *)
(* restart.                                                                *)
CancelHitsOwnRun ==
  [][\A t \in Turn : cancel'[t] = "calling" /\ cancel[t] # "calling" =>
       Active(t) /\ \A u \in Turn \ {t} : ~Active(u)]_vars

(* A tool call that asks gets an answer, whatever fails, as long as its      *)
(* process lives, and though no user ever clicks.                          *)
EveryCallReturns ==
  \A a \in Call : call[a] \notin {"idle", "returned", "lost"} ~> call[a] \in {"returned", "lost"}

(* A graceful stop ends although calls are waiting for approvals.          *)
StopFinishes == mode = "stopping" ~> mode = "down"

-----------------------------------------------------------------------------
(* Not kept by the code (README, What does not hold): no run lists them.   *)

(* docs/adr/0012-persistent-channel-approval-control.md:39: the end of the   *)
(* run withdraws its open approvals; no orphan can still be approved.      *)
NoOrphanApproval ==
  \A a \in Call : turn[Caller[a]] = "over" /\ mode = "up" => ~Resolvable(a)

(* docs/adr/0024-long-run-cancel-control.md:27: a run whose cancellation    *)
(* failed is not reported as stopped.                                      *)
StoppedIsTrue == \A t \in Turn : verdict[t] = "stopped" => cancel[t] # "failed"
=============================================================================
