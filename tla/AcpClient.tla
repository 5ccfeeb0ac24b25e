------------------------------ MODULE AcpClient ------------------------------
(***************************************************************************)
(* The ACP adapter: runs of agent sessions over one child process that     *)
(* speaks the Agent Client Protocol.                                       *)
(*                                                                         *)
(* Every update carries its session, and goes to the run of that session;  *)
(* the answer to a prompt goes to the run that sent the prompt.  A prompt  *)
(* that was given up may go on in the agent, and then speaks to the next   *)
(* run of its session.  The prompt of run n of session s is <<s, n>>.      *)
(* Requests reach the agent at once, its lines wait in wire.               *)
(***************************************************************************)
EXTENDS Naturals, Sequences

CONSTANTS
  Session,
  MaxRuns,    \* bound: MaxRuns[s], the runs of session s
  MaxAsks,    \* bound: permission requests of the agent
  MaxFaults   \* bound: exits, timeouts, refused prompts and dropped runs

(* What the constants have to be: the MC module assumes it.                *)
AcpAssumption ==
  /\ MaxRuns \in [Session -> Nat] /\ MaxAsks \in Nat /\ MaxFaults \in Nat

VARIABLES
  up,         \* there is a connection; nothing starts another one
  wire,       \* lines of the agent that were not handled yet
  works,      \* agent: prompts under way
  wants,      \* agent: prompts that wait for a permission
  cancelled,  \* agent: prompts it was asked to cancel
  spoken,     \* agent: prompts that have written their text
  entry,      \* client: activeRuns, the sessions with an entry
  step,       \* step[s]: where the run of s is
  run,        \* run[s]: number of the last run of s
  queue,      \* queue[s]: what the run of s has not read
  failed,     \* sessions whose queue has failed
  words,      \* words[s]: prompts the text of the run comes from, 0 is history
  decisions,  \* permission handlers that wait: the prompt, and the run that was asked
  asked,      \* permission requests so far
  verdict,    \* verdict[s]: how the last run of s that is over has ended
  abandoned,  \* sessions with a run that ended before its prompt did
  faults

agent  == <<works, wants, cancelled, spoken, asked>>
runs   == <<step, run, words, verdict>>
reader == <<queue, failed>>
vars   == <<up, wire, agent, entry, runs, reader, decisions, abandoned, faults>>

Line(m, s, n) == [m |-> m, s |-> s, n |-> n]
Set(f, s, v)  == [f EXCEPT ![s] = v]
Reads(kind)   == wire # <<>> /\ Head(wire).m = kind
Mine(line)    == step[line.s] = "reading" /\ run[line.s] = line.n
Fault         == faults < MaxFaults /\ faults' = faults + 1

Init ==
  /\ up = TRUE /\ wire = <<>> /\ works = {} /\ wants = {} /\ cancelled = {}
  /\ spoken = {} /\ asked = 0 /\ entry = {} /\ failed = {}
  /\ step = [s \in Session |-> "idle"] /\ run = [s \in Session |-> 0]
  /\ queue = [s \in Session |-> <<>>] /\ words = [s \in Session |-> {}]
  /\ decisions = {} /\ verdict = [s \in Session |-> "none"]
  /\ abandoned = {} /\ faults = 0

-----------------------------------------------------------------------------
(* The run.                                                                *)

(* Mutation: the entry of a run is not removed with the run.               *)
EndKeepsEntry(s, v) ==
  /\ step' = Set(step, s, "idle") /\ verdict' = Set(verdict, s, v)
  /\ queue' = Set(queue, s, <<>>) /\ failed' = failed \ {s} /\ UNCHANGED entry

(* The finally block of run().                                             *)
End(s, v) ==
  /\ step' = Set(step, s, "idle") /\ verdict' = Set(verdict, s, v)
  /\ queue' = Set(queue, s, <<>>) /\ failed' = failed \ {s}
  /\ entry' = entry \ {s}

(* run(): the first run of a session makes it, the others load it, and the *)
(* agent replays its history.  Without a connection the run fails.         *)
Begin(s) ==
  /\ step[s] = "idle" /\ run[s] < MaxRuns[s]
  /\ run' = Set(run, s, run[s] + 1) /\ words' = Set(words, s, {})
  /\ \/ /\ up /\ step' = Set(step, s, "opening")
        /\ wire' = wire \o (IF run[s] = 0 THEN <<>> ELSE <<Line("text", s, 0)>>)
                        \o <<Line("opened", s, run[s] + 1)>>
        /\ UNCHANGED <<verdict, reader, entry>>
     \/ ~up /\ End(s, "failed") /\ UNCHANGED wire
  /\ UNCHANGED <<up, agent, decisions, abandoned, faults>>

(* The session is open: the entry is set and the prompt sent, unless the   *)
(* message holds what the agent does not take (toPrompt).                  *)
Opened ==
  /\ Reads("opened")
  /\ LET s == Head(wire).s
     IN \/ /\ step[s] = "opening" /\ step' = Set(step, s, "reading")
           /\ entry' = entry \cup {s} /\ works' = works \cup {<<s, run[s]>>}
           /\ UNCHANGED <<verdict, reader, faults>>
        \/ step[s] = "opening" /\ Fault /\ End(s, "failed") /\ UNCHANGED works
        \/ /\ step[s] # "opening"
           /\ UNCHANGED <<step, entry, works, verdict, reader, faults>>
  /\ wire' = Tail(wire)
  /\ UNCHANGED <<up, wants, cancelled, spoken, asked, run, words, decisions,
                 abandoned>>

(* session/update: for the entry of the session, whoever is speaking.      *)
Update ==
  /\ Reads("text")
  /\ LET s == Head(wire).s
     IN queue' = IF s \in entry /\ s \notin failed
                 THEN Set(queue, s, Append(queue[s], Head(wire))) ELSE queue
  /\ wire' = Tail(wire)
  /\ UNCHANGED <<up, agent, entry, runs, failed, decisions, abandoned, faults>>

(* The prompt was answered: its own run reads the end of its queue.        *)
Answered ==
  /\ Reads("stop") \/ Reads("cancelled") \/ Reads("refused")
  /\ LET line == Head(wire)  s == line.s
         listens == Mine(line) /\ s \notin failed
     IN /\ queue'  = IF listens /\ line.m # "refused"
                     THEN Set(queue, s, Append(queue[s], line)) ELSE queue
        /\ failed' = IF listens /\ line.m = "refused" THEN failed \cup {s} ELSE failed
  /\ wire' = Tail(wire)
  /\ UNCHANGED <<up, agent, entry, runs, decisions, abandoned, faults>>

(* handlePermissionRequest: asks in the name of the run the session has    *)
(* now; without one the request is rejected.                               *)
PermissionRequested ==
  /\ Reads("ask")
  /\ LET s == Head(wire).s  prompt == <<s, Head(wire).n>>
     IN \/ /\ s \in entry
           /\ decisions' = decisions \cup {[prompt |-> prompt, run |-> run[s]]}
           /\ UNCHANGED wants
        \/ s \notin entry /\ wants' = wants \ {prompt} /\ UNCHANGED decisions
  /\ wire' = Tail(wire)
  /\ UNCHANGED <<up, works, cancelled, spoken, asked, entry, runs, reader,
                 abandoned, faults>>

Deliver == Opened \/ Update \/ Answered \/ PermissionRequested

(* The run reads its queue; its text is what it has read.                  *)
Read(s) ==
  /\ step[s] = "reading" /\ queue[s] # <<>>
  /\ LET line == Head(queue[s])
     IN \/ /\ line.m = "text" /\ words' = Set(words, s, words[s] \cup {line.n})
           /\ queue' = Set(queue, s, Tail(queue[s]))
           /\ UNCHANGED <<step, verdict, failed, entry>>
        \/ line.m = "stop" /\ End(s, "completed") /\ UNCHANGED words
        \/ line.m = "cancelled" /\ End(s, "failed") /\ UNCHANGED words
  /\ UNCHANGED <<up, wire, agent, run, decisions, abandoned, faults>>

ReadFailure(s) ==
  /\ step[s] = "reading" /\ queue[s] = <<>> /\ s \in failed /\ End(s, "failed")
  /\ UNCHANGED <<up, wire, agent, run, words, decisions, abandoned, faults>>

(* requestApproval returns: approved or denied, the agent goes on.         *)
Decide(d) ==
  /\ decisions' = decisions \ {d} /\ wants' = wants \ {d.prompt}
  /\ UNCHANGED <<up, wire, works, cancelled, spoken, asked, entry, runs, reader,
                 abandoned, faults>>

(* cancel: the agent is told; the run goes on until it answers.            *)
Cancel(s) ==
  /\ up /\ step[s] = "reading"
  /\ cancelled' = cancelled \cup {p \in works : p[1] = s}
  /\ UNCHANGED <<up, wire, works, wants, spoken, asked, entry, runs, reader,
                 decisions, abandoned, faults>>

(* The timer of the prompt: the agent is told, and the queue fails.        *)
Timeout(s) ==
  /\ step[s] = "reading" /\ s \notin failed
  /\ cancelled' = cancelled \cup {p \in works : p[1] = s}
  /\ failed' = failed \cup {s} /\ abandoned' = abandoned \cup {s}
  /\ UNCHANGED <<up, wire, works, wants, spoken, asked, entry, runs, queue,
                 decisions, faults>>

(* The gateway leaves the loop; the agent is not told.                     *)
Drop(s) ==
  /\ step[s] = "reading" /\ Fault /\ End(s, "dropped")
  /\ abandoned' = abandoned \cup {s}
  /\ UNCHANGED <<up, wire, agent, run, words, decisions>>

-----------------------------------------------------------------------------
(* The agent (external).                                                   *)

Says(m, p) == wire' = Append(wire, Line(m, p[1], p[2]))

Speaks(p) ==
  /\ p \notin wants /\ p \notin spoken /\ spoken' = spoken \cup {p} /\ Says("text", p)
  /\ UNCHANGED <<up, works, wants, cancelled, asked, entry, runs, reader,
                 decisions, abandoned, faults>>

Asks(p) ==
  /\ p \notin wants /\ asked < MaxAsks /\ asked' = asked + 1
  /\ wants' = wants \cup {p} /\ Says("ask", p)
  /\ UNCHANGED <<up, works, cancelled, spoken, entry, runs, reader, decisions,
                 abandoned, faults>>

(* A prompt ends; one that waits for a permission only by cancellation.    *)
Ends(p) ==
  /\ p \notin wants \/ p \in cancelled
  /\ works' = works \ {p} /\ wants' = wants \ {p}
  /\ \/ p \notin cancelled /\ Says("stop", p) /\ UNCHANGED faults
     \/ p \in cancelled /\ Says("cancelled", p) /\ UNCHANGED faults
     \/ Fault /\ Says("refused", p)
  /\ UNCHANGED <<up, cancelled, spoken, asked, entry, runs, reader, decisions,
                 abandoned>>

(* The child exits: runs that open their session throw, the queues of the  *)
(* others fail.                                                            *)
Exit ==
  /\ up /\ Fault /\ up' = FALSE /\ wire' = <<>> /\ works' = {} /\ wants' = {}
  /\ step' = [s \in Session |-> IF step[s] = "opening" THEN "idle" ELSE step[s]]
  /\ verdict' = [s \in Session |-> IF step[s] = "opening" THEN "failed" ELSE verdict[s]]
  /\ failed' = failed \cup entry /\ entry' = {}
  /\ UNCHANGED <<cancelled, spoken, asked, run, words, queue, decisions, abandoned>>

AgentStep == \E p \in works : Speaks(p) \/ Asks(p) \/ Ends(p)

Next ==
  \/ \E s \in Session : \/ Begin(s) \/ Read(s) \/ ReadFailure(s) \/ Cancel(s)
                        \/ Timeout(s) \/ Drop(s)
  \/ Deliver \/ (\E d \in decisions : Decide(d)) \/ AgentStep \/ Exit

Spec == Init /\ [][Next]_vars

-----------------------------------------------------------------------------
(* Properties.                                                             *)

TypeOK ==
  /\ up \in BOOLEAN /\ failed \subseteq Session
  /\ entry \subseteq {s \in Session : step[s] = "reading"}
  /\ step \in [Session -> {"idle", "opening", "reading"}]
  /\ run \in [Session -> Nat] /\ works \subseteq Session \X Nat
  /\ wants \subseteq works

(* The text of a run never holds replayed history, and holds words of an   *)
(* other prompt only if an earlier run of the session was given up while   *)
(* its prompt went on (activeRuns is set after session/load returned).     *)
OwnWords ==
  \A s \in Session : /\ 0 \notin words[s]
                     /\ words[s] \subseteq {run[s]} \/ s \in abandoned

(* A prompt that waits for a permission gets an answer: its request is     *)
(* still to be read, or a handler waits for the decision; and the decision *)
(* is asked of its own run unless that was given up.                       *)
WantHasKeeper ==
  /\ \A p \in wants : \/ Line("ask", p[1], p[2]) \in {wire[i] : i \in DOMAIN wire}
                      \/ \E d \in decisions : d.prompt = p
  /\ \A d \in decisions : d.run = d.prompt[2] \/ d.prompt[1] \in abandoned

(* Lines and queues are read and the timer of a prompt fires; the agent is *)
(* trusted only to open sessions, a request that has no timer.             *)
Fairness ==
  /\ WF_vars(Deliver)
  /\ \A s \in Session : /\ WF_vars(Read(s) \/ ReadFailure(s))
                        /\ WF_vars(Timeout(s))

Busy == {s \in Session : step[s] # "idle"}

FairSpec == Spec /\ Fairness

(* Every run returns.                                                      *)
RunsReturn == \A s \in Session : s \in Busy ~> s \notin Busy
=============================================================================
