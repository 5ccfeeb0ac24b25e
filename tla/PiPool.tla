------------------------------- MODULE PiPool -------------------------------
(***************************************************************************)
(* The Pi adapter: a pool of workers, each of which owns one "pi --mode    *)
(* rpc" process.  A process has one current session and runs one agent     *)
(* turn at a time; the lines it writes carry no session, so a worker takes *)
(* every event for the run it has now.                                     *)
(*                                                                         *)
(* A session is the agent session of one conversation; the gateway queues  *)
(* its runs.  A request reaches the process at once, its answer and the    *)
(* events wait in wire.  The turn of run n of session s is <<s, n>>.       *)
(***************************************************************************)
EXTENDS Naturals, Sequences, FiniteSets

CONSTANTS
  Session, Worker,
  NoOne,      \* no session, turn or worker
  MaxRuns,    \* bound: MaxRuns[s], the runs of session s
  MaxDialogs, \* bound: dialogs of all agents
  MaxFaults   \* bound: exits, broken lines, failed starts and dropped runs

(* What the constants have to be: the MC module assumes it.                *)
PiAssumption ==
  /\ MaxRuns \in [Session -> Nat] /\ MaxDialogs \in Nat /\ MaxFaults \in Nat
  /\ NoOne \notin Session /\ NoOne \notin Worker /\ NoOne \notin Session \X Nat

VARIABLES
  available,  \* pool: workers nobody uses
  waiters,    \* pool: sessions whose run waits for a worker
  on,         \* on[s]: the worker the run of s holds, and activeSessions[s]
  step,       \* step[s]: where the run of s is
  run,        \* run[s]: number of the last run of s
  words,      \* words[s]: turns the text of the run comes from
  dialog,     \* dialog[s]: "none", "new" (not read) or "open"
  verdict,    \* verdict[s]: how the last run of s that is over has ended
  broken,     \* broken[w]: "no", or the process is "alive" or "dead" after an error
  current,    \* current[w]: currentState, the session the worker believes in
  active,     \* active[w]: session of the ActiveRun or NoOne
  settling,   \* workers whose ActiveRun asks for its last text
  agent,      \* process: agent[w], the turn under way or NoOne
  blocked,    \* process: workers whose agent waits for a dialog
  last,       \* session files: last[s], turn that wrote the last text or NoOne
  wire,       \* process: wire[w], lines that were not handled yet
  left,       \* workers that have left a live process
  orphans,    \* orphans[w]: turns under way in processes the worker has left
  spoken,     \* turns that have written text
  dialogs,    \* dialogs so far
  dropped,    \* workers a run has left while its agent was at work
  faults      \* faults so far

pool    == <<available, waiters, on>>
runs    == <<step, run, words, dialog, verdict>>
adapter == <<broken, current, active, settling>>
process == <<agent, blocked, last, wire, left, orphans, spoken>>
vars    == <<pool, runs, adapter, process, dialogs, dropped, faults>>

Line(m, turn) == [m |-> m, turn |-> turn]
Set(f, x, v)  == [f EXCEPT ![x] = v]
Put(w, lines) == wire' = Set(wire, w, wire[w] \o lines)
Turn(s)       == <<s, run[s]>>
Holding(s)    == step[s] \notin {"idle", "waiting"}
Fault         == faults < MaxFaults /\ faults' = faults + 1

Init ==
  /\ available = Worker /\ waiters = <<>> /\ on = [s \in Session |-> NoOne]
  /\ step = [s \in Session |-> "idle"] /\ run = [s \in Session |-> 0]
  /\ words = [s \in Session |-> {}] /\ dialog = [s \in Session |-> "none"]
  /\ verdict = [s \in Session |-> "none"]
  /\ broken = [w \in Worker |-> "no"] /\ current = [w \in Worker |-> NoOne]
  /\ active = [w \in Worker |-> NoOne] /\ settling = {}
  /\ agent = [w \in Worker |-> NoOne] /\ blocked = {}
  /\ last = [s \in Session |-> NoOne] /\ wire = [w \in Worker |-> <<>>]
  /\ left = {}
  /\ orphans = [w \in Worker |-> {}] /\ spoken = {}
  /\ dialogs = 0 /\ dropped = {} /\ faults = 0

-----------------------------------------------------------------------------
(* The pool.                                                               *)

(* acquireWorker                                                           *)
Begin(s) ==
  /\ step[s] = "idle" /\ run[s] < MaxRuns[s]
  /\ run' = Set(run, s, run[s] + 1) /\ words' = Set(words, s, {})
  /\ \/ \E w \in available :
          /\ available' = available \ {w} /\ on' = Set(on, s, w)
          /\ step' = Set(step, s, "granted") /\ UNCHANGED waiters
     \/ /\ available = {} /\ waiters' = Append(waiters, s)
        /\ step' = Set(step, s, "waiting") /\ UNCHANGED <<available, on>>
  /\ UNCHANGED <<dialog, verdict, adapter, process, dialogs, dropped, faults>>

(* Mutation: a released worker goes back though somebody waits for one.    *)
LeaveWaiters(s, v) ==
  /\ verdict' = Set(verdict, s, v) /\ dialog' = Set(dialog, s, "none")
  /\ active' = Set(active, on[s], NoOne) /\ settling' = settling \ {on[s]}
  /\ available' = available \cup {on[s]} /\ UNCHANGED waiters
  /\ on' = Set(on, s, NoOne) /\ step' = Set(step, s, "idle")

(* The run of s is over: the finally blocks of both run() methods, and     *)
(* releaseWorker.                                                          *)
Leave(s, v) ==
  LET w == on[s] IN
  /\ verdict' = Set(verdict, s, v) /\ dialog' = Set(dialog, s, "none")
  /\ active' = Set(active, w, NoOne) /\ settling' = settling \ {w}
  /\ \/ /\ waiters = <<>> /\ UNCHANGED waiters
        /\ available' = available \cup {w}
        /\ on' = Set(on, s, NoOne) /\ step' = Set(step, s, "idle")
     \/ /\ waiters # <<>> /\ waiters' = Tail(waiters) /\ UNCHANGED available
        /\ on' = [on EXCEPT ![s] = NoOne, ![Head(waiters)] = w]
        /\ step' = [step EXCEPT ![s] = "idle", ![Head(waiters)] = "granted"]

(* Mutation: a pending dialog is forgotten with its run.                   *)
ForgetDialog(s) == UNCHANGED blocked

(* A pending dialog of the run is cancelled when the run is over.          *)
CancelDialog(s) ==
  blocked' = IF dialog[s] # "none" THEN blocked \ {on[s]} ELSE blocked

-----------------------------------------------------------------------------
(* What a process does with a request.                                     *)

(* abort: the agent settles before the answer.                             *)
Aborted(w) ==
  IF agent[w] = NoOne THEN <<>> ELSE <<Line("settled", agent[w])>>

(* The text a turn has written is in its session file.                     *)
Recorded(turn) ==
  IF turn \in spoken THEN Set(last, turn[1], turn) ELSE last

Abort(w, answer) ==
  /\ Put(w, Aborted(w) \o answer) /\ agent' = Set(agent, w, NoOne)
  /\ blocked' = blocked \ {w}
  /\ last' = IF agent[w] = NoOne THEN last ELSE Recorded(agent[w])

-----------------------------------------------------------------------------
(* The run on its worker.                                                  *)

(* start(): after an error a new process is started; the old one is not    *)
(* stopped.  Then the session is created or switched to, and its state     *)
(* read: the process aborts the agent it runs before it switches.          *)
Start(s) ==
  LET w == on[s] IN
  /\ step[s] = "granted"
  /\ \/ /\ broken[w] # "no"
        /\ left' = IF broken[w] = "alive" THEN left \cup {w} ELSE left
        /\ orphans' = IF agent[w] = NoOne \/ w \in blocked THEN orphans
                      ELSE Set(orphans, w, orphans[w] \cup {agent[w]})
        /\ broken' = Set(broken, w, "no") /\ blocked' = blocked \ {w}
        /\ agent' = Set(agent, w, NoOne) /\ current' = Set(current, w, NoOne)
        /\ wire' = Set(wire, w, <<Line("prepared", Turn(s))>>)
        /\ step' = Set(step, s, "preparing")
        /\ UNCHANGED <<pool, dialog, verdict, active, settling, last, faults>>
     \/ /\ broken[w] # "no" /\ Fault /\ Leave(s, "failed")
        /\ UNCHANGED <<broken, current, agent, blocked, last, wire, left, orphans>>
     \/ /\ broken[w] = "no" /\ current[w] = s
        /\ Put(w, <<Line("prepared", Turn(s))>>)
        /\ step' = Set(step, s, "preparing")
        /\ UNCHANGED <<pool, dialog, verdict, adapter, agent, blocked, last,
                       left, orphans, faults>>
     \/ /\ broken[w] = "no" /\ current[w] # s
        /\ Abort(w, <<Line("prepared", Turn(s))>>)
        /\ step' = Set(step, s, "preparing")
        /\ UNCHANGED <<pool, dialog, verdict, adapter, left, orphans, faults>>
  /\ UNCHANGED <<run, words, spoken, dialogs, dropped>>

(* The session is current: the ActiveRun is set and the prompt written.    *)
(* The process rejects it while an agent is at work.                       *)
Prepared(w, s) ==
  /\ current' = Set(current, w, s) /\ active' = Set(active, w, s)
  /\ settling' = settling \ {w}
  /\ step' = Set(step, s, "prompting")
  /\ \/ /\ agent[w] = NoOne /\ agent' = Set(agent, w, Turn(s))
        /\ wire' = Set(wire, w, Append(Tail(wire[w]), Line("prompted", Turn(s))))
     \/ /\ agent[w] # NoOne /\ UNCHANGED agent
        /\ wire' = Set(wire, w, Append(Tail(wire[w]), Line("rejected", Turn(s))))
  /\ UNCHANGED <<pool, words, dialog, verdict, blocked, last>>

Reading(w, s) ==
  /\ step' = Set(step, s, "reading") /\ wire' = Set(wire, w, Tail(wire[w]))
  /\ UNCHANGED <<pool, words, dialog, verdict, current, active, settling, agent,
                 blocked, last>>

(* The catch block: abort, and wait for the answer.                        *)
Giveup(w, s, lines) ==
  /\ step' = Set(step, s, "aborting")
  /\ wire' = Set(wire, w, lines \o Aborted(w) \o <<Line("aborted", Turn(s))>>)
  /\ agent' = Set(agent, w, NoOne) /\ blocked' = blocked \ {w}
  /\ last' = IF agent[w] = NoOne THEN last ELSE Recorded(agent[w])

Responses == {"prepared", "prompted", "rejected", "aborted"}
Awaiting(answer) ==
  CASE answer = "prepared" -> "preparing" [] answer = "aborted" -> "aborting"
    [] OTHER -> "prompting"

(* An answer to a request of the run of s: the id matches it to the run,   *)
(* which may have given the request up.                                    *)
Response(w) ==
  /\ wire[w] # <<>>
  /\ LET line == Head(wire[w])  s == line.turn[1]
         mine == Turn(s) = line.turn /\ on[s] = w
     IN \/ /\ line.m = "prepared" /\ mine /\ step[s] = "preparing"
           /\ Prepared(w, s)
        \/ /\ line.m = "prompted" /\ mine /\ step[s] = "prompting"
           /\ Reading(w, s)
        \/ /\ line.m = "rejected" /\ mine /\ step[s] = "prompting"
           /\ Giveup(w, s, Tail(wire[w]))
           /\ UNCHANGED <<pool, words, dialog, verdict, current, active, settling>>
        \/ /\ line.m = "aborted" /\ mine /\ step[s] = "aborting"
           /\ Leave(s, "failed") /\ CancelDialog(s)
           /\ wire' = Set(wire, w, Tail(wire[w]))
           /\ UNCHANGED <<words, current, agent, last>>
        \/ /\ line.m \in Responses /\ ~(mine /\ step[s] = Awaiting(line.m))
           /\ wire' = Set(wire, w, Tail(wire[w]))
           /\ UNCHANGED <<pool, words, step, dialog, verdict, current, active,
                          settling, agent, blocked, last>>
  /\ UNCHANGED <<run, broken, left, orphans, spoken, dialogs, dropped, faults>>

-----------------------------------------------------------------------------
(* Events: of this process or of one that was left.                        *)

(* text_delta                                                              *)
HearText(w, turn) ==
  words' = IF active[w] = NoOne THEN words
           ELSE Set(words, active[w], words[active[w]] \cup {turn})

(* agent_settled: the worker asks for the last text of the session.        *)
HearSettled(w, lines) ==
  IF active[w] # NoOne /\ w \notin settling /\ broken[w] # "dead"
  THEN /\ settling' = settling \cup {w}
       /\ wire' = Set(wire, w, Append(lines, Line("text", Turn(active[w]))))
  ELSE UNCHANGED settling /\ wire' = Set(wire, w, lines)

Event(w) ==
  /\ wire[w] # <<>>
  /\ LET line == Head(wire[w])  rest == Tail(wire[w])
     IN \/ /\ line.m = "delta" /\ HearText(w, line.turn)
           /\ wire' = Set(wire, w, rest) /\ UNCHANGED settling
        \/ /\ line.m = "settled" /\ HearSettled(w, rest) /\ UNCHANGED words
  /\ UNCHANGED <<pool, step, run, dialog, verdict, broken, current, active, agent,
                 blocked, last, left, orphans, spoken, dialogs, dropped, faults>>

(* extension_ui_request: one dialog at a time, the others are cancelled.   *)
DialogRequested(w) ==
  /\ wire[w] # <<>> /\ Head(wire[w]).m = "dialog"
  /\ \/ /\ active[w] # NoOne /\ dialog[active[w]] = "none"
        /\ dialog' = Set(dialog, active[w], "new") /\ UNCHANGED blocked
     \/ /\ ~(active[w] # NoOne /\ dialog[active[w]] = "none")
        /\ blocked' = blocked \ {w} /\ UNCHANGED dialog
  /\ wire' = Set(wire, w, Tail(wire[w]))
  /\ UNCHANGED <<pool, step, run, words, verdict, adapter, agent, last, left, orphans,
                 spoken, dialogs, dropped, faults>>

(* completeActiveRun: the streamed text wins, else the last text of the    *)
(* session; a run without any text fails.                                  *)
Completed(w) ==
  /\ wire[w] # <<>> /\ Head(wire[w]).m = "text"
  /\ LET turn == Head(wire[w]).turn  s == turn[1]
         said == IF words[s] = {} /\ last[s] # NoOne THEN {last[s]} ELSE words[s]
         mine == Turn(s) = turn /\ on[s] = w /\ step[s] = "reading"
     IN \/ /\ mine /\ said # {} /\ words' = Set(words, s, said)
           /\ Leave(s, "completed") /\ CancelDialog(s)
           /\ wire' = Set(wire, w, Tail(wire[w])) /\ UNCHANGED <<agent, last>>
        \/ /\ mine /\ said = {} /\ Giveup(w, s, Tail(wire[w]))
           /\ UNCHANGED <<pool, words, dialog, verdict, active, settling>>
        \/ /\ ~mine
           /\ wire' = Set(wire, w, Tail(wire[w]))
           /\ UNCHANGED <<pool, words, step, dialog, verdict, active, settling,
                          agent, blocked, last>>
  /\ UNCHANGED <<run, broken, current, left, orphans, spoken, dialogs, dropped, faults>>

-----------------------------------------------------------------------------
(* The gateway and the timers.                                             *)

(* The gateway offers the dialog; or its store fails and it leaves the     *)
(* loop: the generator returns without an abort.                           *)
Offer(s) ==
  /\ dialog[s] = "new" /\ step[s] = "reading"
  /\ \/ /\ dialog' = Set(dialog, s, "open")
        /\ UNCHANGED <<pool, step, verdict, active, settling, blocked, dropped,
                       faults>>
     \/ /\ Fault /\ CancelDialog(s) /\ Leave(s, "dropped")
        /\ dropped' = dropped \cup {on[s]}
  /\ UNCHANGED <<run, words, broken, current, agent, last, wire, left, orphans, spoken,
                 dialogs>>

(* resumeInteraction                                                       *)
Answer(s) ==
  /\ dialog[s] = "open"
  /\ dialog' = Set(dialog, s, "none") /\ blocked' = blocked \ {on[s]}
  /\ UNCHANGED <<pool, step, run, words, verdict, adapter, agent, last, wire,
                 left, orphans, spoken, dialogs, dropped, faults>>

(* cancel: abort without an end of the run, which ends as it settles.      *)
Cancel(s) ==
  /\ on[s] # NoOne /\ active[on[s]] = s /\ broken[on[s]] # "dead" /\ agent[on[s]] # NoOne
  /\ Abort(on[s], <<>>)
  /\ UNCHANGED <<pool, runs, adapter, left, orphans, spoken, dialogs, dropped, faults>>

(* The timer of the run (runTimeoutMs).                                    *)
Timeout(s) ==
  LET w == on[s] IN
  /\ step[s] = "reading" /\ Giveup(w, s, wire[w])
  /\ UNCHANGED <<pool, run, words, dialog, verdict, adapter, left, orphans, spoken,
                 dialogs, dropped, faults>>

-----------------------------------------------------------------------------
(* The process (external): an agent writes text, asks, and settles.        *)

Speaks(w) ==
  /\ agent[w] # NoOne /\ w \notin blocked /\ agent[w] \notin spoken
  /\ spoken' = spoken \cup {agent[w]}
  /\ \/ Put(w, <<Line("delta", agent[w])>>)
     \/ UNCHANGED wire
  /\ UNCHANGED <<pool, runs, adapter, agent, blocked, last, left, orphans, dialogs,
                 dropped, faults>>

Asks(w) ==
  /\ agent[w] # NoOne /\ w \notin blocked /\ dialogs < MaxDialogs
  /\ dialogs' = dialogs + 1 /\ blocked' = blocked \cup {w}
  /\ Put(w, <<Line("dialog", agent[w])>>)
  /\ UNCHANGED <<pool, runs, adapter, agent, last, left, orphans, spoken, dropped, faults>>

Settles(w) ==
  /\ agent[w] # NoOne /\ w \notin blocked /\ Abort(w, <<>>)
  /\ UNCHANGED <<pool, runs, adapter, left, orphans, spoken, dialogs, dropped, faults>>

(* A process that was left goes on; its events reach the worker.           *)
OrphanSpeaks(w) ==
  /\ \E turn \in orphans[w] \ spoken :
       HearText(w, turn) /\ spoken' = spoken \cup {turn}
  /\ UNCHANGED <<pool, step, run, dialog, verdict, adapter, agent, blocked, last,
                 wire, left, orphans, dialogs, dropped, faults>>

OrphanSettles(w) ==
  /\ \E turn \in orphans[w] :
       /\ orphans' = Set(orphans, w, orphans[w] \ {turn})
       /\ last' = Recorded(turn) /\ HearSettled(w, wire[w])
  /\ UNCHANGED <<pool, runs, broken, current, active, agent, blocked, left,
                 spoken, dialogs, dropped, faults>>

-----------------------------------------------------------------------------
(* Faults.                                                                 *)

(* What is left of a process after an error that needs no answer.          *)
Remains(w, alive) ==
  /\ agent' = IF alive THEN agent ELSE Set(agent, w, NoOne)
  /\ wire' = IF alive THEN wire ELSE Set(wire, w, <<>>)
  /\ blocked' = IF alive THEN blocked ELSE blocked \ {w}
  /\ UNCHANGED last

(* onError: processError is set, the queue and the requests of the run on  *)
(* this worker fail.  A live process still gets the abort of the catch.    *)
Fails(w, alive) ==
  /\ broken' = Set(broken, w, IF alive THEN "alive" ELSE "dead")
  /\ \/ \E s \in Session :
          /\ on[s] = w /\ alive /\ step[s] \in {"prompting", "reading"}
          /\ Giveup(w, s, wire[w])
          /\ UNCHANGED <<pool, dialog, verdict, active, settling>>
     \/ \E s \in Session :
          /\ on[s] = w /\ step[s] # "granted"
          /\ ~(alive /\ step[s] \in {"prompting", "reading"})
          /\ Leave(s, "failed") /\ Remains(w, alive)
     \/ /\ \A s \in Session : on[s] = w => step[s] = "granted"
        /\ Remains(w, alive)
        /\ UNCHANGED <<pool, step, dialog, verdict, active, settling>>
  /\ UNCHANGED <<run, words, current, spoken, dialogs, dropped>>

Exit(w) ==
  /\ broken[w] # "dead" /\ Fault /\ Fails(w, FALSE) /\ UNCHANGED <<left, orphans>>
BrokenLine(w) ==
  /\ broken[w] = "no" /\ Fault /\ Fails(w, TRUE) /\ UNCHANGED <<left, orphans>>

(* The handlers of a process that was left are still those of the worker.  *)
OrphanExits(w) ==
  /\ w \in left /\ broken[w] = "no" /\ Fault /\ Fails(w, TRUE)
  /\ left' = left \ {w} /\ orphans' = Set(orphans, w, {})

Deliver(w) == Response(w) \/ Event(w) \/ DialogRequested(w) \/ Completed(w)

Next ==
  \/ \E s \in Session : \/ Begin(s) \/ Start(s) \/ Offer(s) \/ Answer(s)
                        \/ Cancel(s) \/ Timeout(s)
  \/ \E w \in Worker : \/ Deliver(w) \/ Speaks(w) \/ Asks(w) \/ Settles(w)
                       \/ OrphanSpeaks(w) \/ OrphanSettles(w)
                       \/ Exit(w) \/ BrokenLine(w) \/ OrphanExits(w)

Spec == Init /\ [][Next]_vars

-----------------------------------------------------------------------------
(* Properties.                                                             *)

TypeOK ==
  /\ available \subseteq Worker /\ on \in [Session -> Worker \cup {NoOne}]
  /\ step \in [Session -> {"idle", "waiting", "granted", "preparing", "prompting",
                           "reading", "aborting"}]
  /\ broken \in [Worker -> {"no", "alive", "dead"}]
  /\ active \in [Worker -> Session \cup {NoOne}]
  /\ dialog \in [Session -> {"none", "new", "open"}]
  /\ settling \subseteq Worker /\ blocked \subseteq Worker

(* A worker is free or held by one run, a run waits only while every       *)
(* worker is held, and a worker hears events for the run that holds it.    *)
WorkersConserved ==
  /\ \A w \in Worker :
       Cardinality({s \in Session : on[s] = w}) = IF w \in available THEN 0 ELSE 1
  /\ available # {} => waiters = <<>>
  /\ \A w \in Worker : active[w] # NoOne => on[active[w]] = w

(* A run completes with the text of its own turn; if that has written      *)
(* none, with the last text of its own session (the answer it gave         *)
(* before).  Unless a run has left a worker without aborting its agent.    *)
OwnWords ==
  \A s \in Session :
    verdict[s] = "completed" /\ step[s] = "idle" /\ dropped = {} =>
      IF Turn(s) \in spoken THEN words[s] = {Turn(s)}
      ELSE \E n \in 1..run[s] : words[s] = {<<s, n>>}

(* An agent that waits for a dialog is answered: the dialog is still to be *)
(* read, or the run that holds the worker has it.                          *)
DialogHasKeeper ==
  \A w \in blocked :
    \/ \E i \in DOMAIN wire[w] : wire[w][i].m = "dialog"
    \/ \E s \in Session : on[s] = w /\ dialog[s] # "none"

(* Lines and grants are handled, open dialogs are answered or expire (the  *)
(* gateway), and the timer of a run fires.  Nothing is asked of the agent. *)
Fairness ==
  /\ \A w \in Worker : WF_vars(Deliver(w))
  /\ \A s \in Session : /\ WF_vars(Start(s)) /\ WF_vars(Offer(s))
                        /\ WF_vars(Answer(s)) /\ WF_vars(Timeout(s))

Busy == {s \in Session : step[s] # "idle"}

FairSpec == Spec /\ Fairness

(* Every run gets a worker and returns.                                    *)
RunsReturn == \A s \in Session : s \in Busy ~> s \notin Busy
=============================================================================
