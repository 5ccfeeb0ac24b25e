--------------------------- MODULE CodexAppServer ---------------------------
(***************************************************************************)
(* The Codex adapter: runs of agent threads over one child process, "codex *)
(* app-server", that speaks JSON lines on its stdin and stdout.            *)
(*                                                                         *)
(* A thread is the agent session of one conversation: the gateway queues   *)
(* the runs of a thread, runs of different threads share the process.      *)
(* A write to stdin reaches the child at once; what the child writes waits *)
(* in stdout, so an answer, an event or a question may be read long after  *)
(* the state it speaks of.  The turn of run n of a thread is named n.      *)
(***************************************************************************)
EXTENDS Naturals, Sequences

CONSTANTS
  Thread,     \* agent sessions
  MaxRuns,    \* bound: MaxRuns[t], the runs of thread t
  MaxAsks,    \* bound: requests of the child processes to their client
  MaxFaults   \* bound: exits, broken lines, timeouts and abandoned runs

(* What the constants have to be: the MC module assumes it.                *)
CodexAssumption ==
  /\ MaxRuns \in [Thread -> Nat] /\ MaxAsks \in Nat /\ MaxFaults \in Nat

VARIABLES
  proc,        \* the child: "none", "starting", "ready", "killed", "stopping"
  stdout,      \* lines of the child that were not handled yet
  serves,      \* child: threads it has started or resumed
  turn,        \* child: turn[t], the running turns of thread t
  wants,       \* child: its open requests to the client
  lapsed,      \* child: questions it resolved by itself
  nextId,      \* child: id of its next request; a new child starts again at 1
  asked,       \* requests of all child processes so far
  active,      \* client: activeTurns[t], the run the entry belongs to or 0
  knows,       \* client: entries whose turnId is set
  userInputs,  \* client: ids of pendingUserInputs
  tools,       \* calls of dynamic tools that are being approved or executed
  queue,       \* queue[t]: events the run of t has not read
  ended,       \* ended[t]: "open", "closed" or "failed", the end of that queue
  step,        \* step[t]: where the run of t is
  run,         \* run[t]: number of the last run of t
  loaded,      \* adapter: loadedThreads
  asking,      \* adapter: pendingUserInputs[t], the id of the question or 0
  verdict,     \* verdict[t]: how the last run of t that is over has ended
  answered,    \* answered[t]: the turn whose completion was its answer, or 0
  guessed,     \* threads whose answer was taken while turnId was unknown
  abandoned,   \* threads with a run that ended before its turn did
  outlived,    \* threads whose run still reads events of a child that is gone
  stolen,      \* questions of this child answered by what an earlier one asked
  faults,      \* faults so far
  crashed,     \* a write without a child threw outside of every handler
  halted       \* Gateway.stop has called adapter.stop

child  == <<serves, turn, wants, lapsed, nextId, asked>>
client == <<active, knows, userInputs>>
reader == <<queue, ended>>
runs   == <<step, run, verdict, answered>>
ghosts == <<guessed, abandoned, outlived, stolen>>
vars   == <<proc, stdout, child, client, tools, reader, runs, loaded, asking,
            ghosts, faults, crashed, halted>>

Line(m, t, n, id) == [m |-> m, t |-> t, n |-> n, id |-> id]
Event(e, n, id)   == [e |-> e, n |-> n, id |-> id]
Set(f, t, v)      == [f EXCEPT ![t] = v]
Without(id)       == {w \in wants : w.id # id}
Foreign(id, t)    == {w.id : w \in {w \in wants : w.id = id /\ w.t # t}}
Writable          == proc \in {"starting", "ready", "killed"}
Listening(t)      == active[t] = run[t] /\ step[t] \in {"turning", "reading"}
HasRequest(t)     == step[t] \in {"turning", "reading"}

(* Mutation: events of any turn of the thread are taken.                   *)
AcceptsAnyTurn(t, n) == active[t] # 0

(* handleLine: the entry of the thread takes an event of its own turn, and *)
(* of every turn while it does not know its own.                           *)
Accepts(t, n) == active[t] # 0 /\ (t \in knows => active[t] = n)

Fault == faults < MaxFaults /\ faults' = faults + 1

Init ==
  /\ proc = "ready" /\ stdout = <<>> /\ serves = {} /\ wants = {} /\ lapsed = {}
  /\ nextId = 1 /\ asked = 0 /\ turn = [t \in Thread |-> {}]
  /\ active = [t \in Thread |-> 0] /\ knows = {} /\ userInputs = {} /\ tools = {}
  /\ queue = [t \in Thread |-> <<>>] /\ ended = [t \in Thread |-> "open"]
  /\ step = [t \in Thread |-> "idle"] /\ run = [t \in Thread |-> 0]
  /\ loaded = {} /\ asking = [t \in Thread |-> 0]
  /\ verdict = [t \in Thread |-> "none"] /\ answered = [t \in Thread |-> 0]
  /\ guessed = {} /\ abandoned = {} /\ outlived = {} /\ stolen = {}
  /\ faults = 0 /\ crashed = FALSE /\ halted = FALSE

-----------------------------------------------------------------------------
(* The run, until its turn is accepted.                                    *)

(* Mutation: the question of the run is not forgotten with it.             *)
EndKeepsQuestion(t, v) ==
  /\ step' = Set(step, t, "idle") /\ verdict' = Set(verdict, t, v)
  /\ queue' = Set(queue, t, <<>>) /\ UNCHANGED asking

(* The run of t is over with verdict v.                                    *)
End(t, v) ==
  /\ step' = Set(step, t, "idle") /\ verdict' = Set(verdict, t, v)
  /\ asking' = Set(asking, t, 0) /\ queue' = Set(queue, t, <<>>)

(* client.runTurn: the entry is set before the request is written, its     *)
(* turnId when the response is read.  The child refuses a thread it has    *)
(* not loaded; it may refuse one that is running a turn.                   *)
RunTurn(t, n, lines) ==
  IF active[t] # 0
  THEN /\ End(t, "busy") /\ stdout' = lines
       /\ UNCHANGED <<turn, active, knows, ended>>
  ELSE \E reply \in IF t \notin serves THEN {"unloaded"}
                    ELSE IF turn[t] = {} THEN {"turned"} ELSE {"turned", "occupied"} :
          /\ active' = Set(active, t, n) /\ knows' = knows \ {t}
          /\ queue' = Set(queue, t, <<>>) /\ ended' = Set(ended, t, "open")
          /\ step' = Set(step, t, "turning")
          /\ turn' = IF reply = "turned" THEN Set(turn, t, turn[t] \cup {n}) ELSE turn
          /\ stdout' = Append(lines, Line(reply, t, n, 0))
          /\ UNCHANGED <<verdict, asking>>

(* run() once the client is healthy: a thread that is not in loadedThreads *)
(* is first started or resumed.                                            *)
Launch(t, n, lines) ==
  \/ /\ t \in loaded /\ RunTurn(t, n, lines) /\ UNCHANGED serves
  \/ /\ t \notin loaded
     /\ step' = Set(step, t, "opening") /\ serves' = serves \cup {t}
     /\ stdout' = Append(lines, Line("opened", t, n, 0))
     /\ UNCHANGED <<turn, active, knows, reader, verdict, asking>>

(* run(): client.start() throws while a child exists that is not healthy.  *)
Begin(t) ==
  /\ ~halted /\ step[t] = "idle" /\ run[t] < MaxRuns[t]
  /\ run' = Set(run, t, run[t] + 1) /\ answered' = Set(answered, t, 0)
  /\ guessed' = guessed \ {t} /\ outlived' = outlived \ {t}
  /\ \/ /\ proc = "ready" /\ Launch(t, run[t] + 1, stdout) /\ UNCHANGED proc
     \/ /\ proc = "none"
        /\ proc' = "starting" /\ step' = Set(step, t, "starting")
        /\ stdout' = Append(stdout, Line("initialized", t, run[t] + 1, 0))
        /\ UNCHANGED <<serves, turn, active, knows, reader, verdict, asking>>
     \/ /\ proc \in {"starting", "killed", "stopping"}
        /\ End(t, "failed")
        /\ UNCHANGED <<proc, stdout, serves, turn, active, knows, ended>>
  /\ UNCHANGED <<wants, lapsed, nextId, asked, userInputs, tools, loaded, abandoned,
                 stolen, faults, crashed, halted>>

-----------------------------------------------------------------------------
(* Lines of the child.                                                     *)

Reads(kind) == stdout # <<>> /\ Head(stdout).m = kind

(* initialize was answered: the run that started the child goes on, if it  *)
(* still waits for that.                                                   *)
Initialized ==
  /\ Reads("initialized")
  /\ LET t == Head(stdout).t
         mine == step[t] = "starting" /\ run[t] = Head(stdout).n
     IN \/ mine /\ proc' = "ready" /\ Launch(t, run[t], Tail(stdout))
        \/ /\ ~mine /\ stdout' = Tail(stdout)
           /\ UNCHANGED <<proc, serves, turn, active, knows, reader, step,
                          verdict, asking>>
  /\ UNCHANGED <<wants, lapsed, nextId, asked, userInputs, tools, run, answered,
                 loaded, ghosts, faults, crashed, halted>>

(* thread/start or thread/resume was answered; not if it has timed out.    *)
Opened ==
  /\ Reads("opened")
  /\ LET t == Head(stdout).t
     IN \/ /\ step[t] = "opening" /\ run[t] = Head(stdout).n
           /\ loaded' = loaded \cup {t} /\ RunTurn(t, run[t], Tail(stdout))
        \/ /\ ~(step[t] = "opening" /\ run[t] = Head(stdout).n)
           /\ stdout' = Tail(stdout)
           /\ UNCHANGED <<loaded, turn, active, knows, reader, step, verdict,
                          asking>>
  /\ UNCHANGED <<proc, serves, wants, lapsed, nextId, asked, userInputs, tools, run,
                 answered, ghosts, faults, crashed, halted>>

(* turn/start was answered: the run reads the queue of its entry, even if  *)
(* that entry is already gone.                                             *)
Turned ==
  /\ Reads("turned")
  /\ LET t == Head(stdout).t  n == Head(stdout).n
         mine == step[t] = "turning" /\ run[t] = n
     IN /\ step'  = IF mine THEN Set(step, t, "reading") ELSE step
        /\ knows' = IF mine /\ active[t] = n THEN knows \cup {t} ELSE knows
  /\ stdout' = Tail(stdout)
  /\ UNCHANGED <<proc, child, active, userInputs, tools, reader, run, verdict,
                 answered, loaded, asking, ghosts, faults, crashed, halted>>

(* turn/start was answered with an error.                                  *)
TurnRefused ==
  /\ Reads("unloaded") \/ Reads("occupied")
  /\ LET t == Head(stdout).t
     IN \/ /\ step[t] = "turning" /\ run[t] = Head(stdout).n
           /\ End(t, "failed") /\ active' = Set(active, t, 0)
        \/ /\ ~(step[t] = "turning" /\ run[t] = Head(stdout).n)
           /\ UNCHANGED <<active, step, verdict, asking, queue>>
  /\ stdout' = Tail(stdout)
  /\ UNCHANGED <<proc, child, knows, userInputs, tools, ended, run, answered,
                 loaded, ghosts, faults, crashed, halted>>

(* A write of the client that answers request id of the child.             *)
Reply(id) ==
  /\ wants' = IF Writable THEN Without(id) ELSE wants
  /\ crashed' = ~Writable

(* item/tool/requestUserInput: recorded and passed to the run of the       *)
(* thread, or answered with nothing.                                       *)
UserInputRequested ==
  /\ Reads("ask")
  /\ LET t == Head(stdout).t  n == Head(stdout).n  id == Head(stdout).id
     IN \/ /\ Accepts(t, n) /\ id \notin userInputs
           /\ userInputs' = userInputs \cup {id}
           /\ queue' = IF Listening(t)
                       THEN Set(queue, t, Append(queue[t], Event("ask", n, id)))
                       ELSE queue
           /\ UNCHANGED <<wants, crashed>>
        \/ /\ ~Accepts(t, n) \/ id \in userInputs
           /\ Reply(id) /\ UNCHANGED <<userInputs, queue>>
  /\ stdout' = Tail(stdout)
  /\ UNCHANGED <<proc, serves, turn, lapsed, nextId, asked, active, knows, tools,
                 ended, runs, loaded, asking, ghosts, faults, halted>>

(* item/tool/call: a tool that needs an approval asks for it in the name   *)
(* of the request of the thread's current run; without one it fails.       *)
ToolCalled ==
  /\ Reads("tool")
  /\ LET t == Head(stdout).t  id == Head(stdout).id
     IN \/ /\ tools' = tools \cup {[id |-> id, stale |-> FALSE]}
           /\ UNCHANGED <<wants, crashed>>
        \/ /\ ~HasRequest(t) /\ Reply(id) /\ UNCHANGED tools
  /\ stdout' = Tail(stdout)
  /\ UNCHANGED <<proc, serves, turn, lapsed, nextId, asked, client, reader, runs,
                 loaded, asking, ghosts, faults, halted>>

(* serverRequest/resolved: the child no longer waits for an answer.        *)
Resolved ==
  /\ Reads("resolved")
  /\ userInputs' = userInputs \ {Head(stdout).id} /\ stdout' = Tail(stdout)
  /\ UNCHANGED <<proc, child, active, knows, tools, reader, runs, loaded, asking,
                 ghosts, faults, crashed, halted>>

(* An event of a turn: for the entry of its thread, unless the entry knows *)
(* that its turn is another one.  A completion removes the entry.          *)
TurnEvent ==
  /\ Reads("error") \/ Reads("completed")
  /\ LET t == Head(stdout).t  n == Head(stdout).n  kind == Head(stdout).m
         last == kind = "completed"
     IN \/ /\ Accepts(t, n)
           /\ queue' = IF Listening(t)
                       THEN Set(queue, t, Append(queue[t], Event(kind, n, 0)))
                       ELSE queue
           /\ ended' = IF last /\ Listening(t) THEN Set(ended, t, "closed")
                       ELSE ended
           /\ active' = IF last THEN Set(active, t, 0) ELSE active
           /\ guessed' = IF last /\ Listening(t) /\ t \notin knows
                         THEN guessed \cup {t} ELSE guessed
        \/ /\ ~Accepts(t, n) /\ UNCHANGED <<queue, ended, active, guessed>>
  /\ stdout' = Tail(stdout)
  /\ UNCHANGED <<proc, child, knows, userInputs, tools, runs, loaded, asking,
                 abandoned, outlived, stolen, faults, crashed, halted>>

Deliver ==
  \/ Initialized \/ Opened \/ Turned \/ TurnRefused \/ UserInputRequested
  \/ ToolCalled \/ Resolved \/ TurnEvent

-----------------------------------------------------------------------------
(* The run, once it reads its events.                                      *)

(* A question: the gateway offers it; or its store fails and the gateway   *)
(* leaves the loop.  A second question at a time is answered with nothing. *)
ReadAsk(t, id) ==
  \/ /\ asking[t] = 0 /\ asking' = Set(asking, t, id)
     /\ queue' = Set(queue, t, Tail(queue[t]))
     /\ UNCHANGED <<wants, userInputs, step, verdict, abandoned, stolen, faults>>
  \/ /\ asking[t] = 0 /\ Fault
     /\ End(t, "dropped") /\ abandoned' = abandoned \cup {t}
     /\ UNCHANGED <<wants, userInputs, stolen>>
  \/ /\ asking[t] # 0 /\ id \in userInputs /\ Writable
     /\ wants' = Without(id) /\ userInputs' = userInputs \ {id}
     /\ stolen' = stolen \cup Foreign(id, t) /\ queue' = Set(queue, t, Tail(queue[t]))
     /\ UNCHANGED <<asking, step, verdict, abandoned, faults>>
  \/ /\ asking[t] # 0 /\ (id \notin userInputs \/ ~Writable)
     /\ End(t, "failed") /\ abandoned' = abandoned \cup {t}
     /\ UNCHANGED <<wants, userInputs, stolen, faults>>

(* A fatal error event: the gateway leaves the loop before the turn ends.  *)
ReadError(t) ==
  /\ End(t, "failed") /\ abandoned' = abandoned \cup {t}
  /\ UNCHANGED <<wants, userInputs, answered, stolen, faults>>

Read(t) ==
  /\ step[t] = "reading" /\ queue[t] # <<>>
  /\ LET event == Head(queue[t])
     IN \/ /\ event.e = "ask" /\ ReadAsk(t, event.id) /\ UNCHANGED answered
        \/ event.e = "error" /\ ReadError(t)
        \/ /\ event.e = "completed"
           /\ End(t, "completed") /\ answered' = Set(answered, t, event.n)
           /\ UNCHANGED <<wants, userInputs, abandoned, stolen, faults>>
  /\ UNCHANGED <<proc, stdout, serves, turn, lapsed, nextId, asked, active, knows,
                 tools, ended, run, loaded, guessed, outlived, crashed, halted>>

(* The queue has failed and all its events are read.                       *)
ReadFailure(t) ==
  /\ step[t] = "reading" /\ queue[t] = <<>> /\ ended[t] = "failed"
  /\ End(t, "failed")
  /\ UNCHANGED <<proc, stdout, child, client, tools, ended, run, answered,
                 loaded, ghosts, faults, crashed, halted>>

(* Mutation: pendingUserInputs keeps the question that was answered.       *)
AnswerKeepsQuestion(t) ==
  /\ asking[t] # 0 /\ asking[t] \in userInputs /\ Writable
  /\ wants' = Without(asking[t]) /\ userInputs' = userInputs \ {asking[t]}
  /\ UNCHANGED <<asking, proc, stdout, serves, turn, lapsed, nextId, asked, active,
                 knows, tools, reader, runs, loaded, ghosts, faults, crashed, halted>>

(* resumeInteraction: the last answer to the question is written.  Without *)
(* an entry of the client it throws and asking[t] stays.                   *)
Answer(t) ==
  /\ asking[t] # 0 /\ asking[t] \in userInputs /\ Writable
  /\ wants' = Without(asking[t]) /\ userInputs' = userInputs \ {asking[t]}
  /\ asking' = Set(asking, t, 0) /\ stolen' = stolen \cup Foreign(asking[t], t)
  /\ UNCHANGED <<proc, stdout, serves, turn, lapsed, nextId, asked, active, knows,
                 tools, reader, runs, loaded, guessed, abandoned, outlived, faults,
                 crashed, halted>>

(* cancel: an entry whose turnId is not known yet is not interrupted.      *)
Cancel(t) ==
  /\ step[t] = "reading" /\ t \in knows /\ active[t] # 0 /\ Writable
  /\ active[t] \in turn[t]
  /\ turn' = Set(turn, t, turn[t] \ {active[t]})
  /\ wants' = {w \in wants : w.t # t \/ w.n # active[t]}
  /\ stdout' = Append(stdout, Line("completed", t, active[t], 0))
  /\ UNCHANGED <<proc, serves, lapsed, nextId, asked, client, tools, reader, runs,
                 loaded, asking, ghosts, faults, crashed, halted>>

(* The handler of a tool call returns: its result goes to the child there  *)
(* is now, whichever child has called.                                     *)
ToolReturns(c) ==
  /\ tools' = tools \ {c} /\ Reply(c.id)
  /\ stolen' = stolen \cup {w.id : w \in {w \in wants \ wants' : ~w.tool}}
  /\ UNCHANGED <<proc, stdout, serves, turn, lapsed, nextId, asked, client, reader,
                 runs, loaded, asking, guessed, abandoned, outlived, faults, halted>>

-----------------------------------------------------------------------------
(* The child works on a turn (external).                                   *)

ChildAsks(t, n, kind) ==
  /\ asked < MaxAsks /\ asked' = asked + 1
  /\ wants' = wants \cup
       {[id |-> nextId, t |-> t, n |-> n, tool |-> kind = "tool"]}
  /\ nextId' = nextId + 1
  /\ stdout' = Append(stdout, Line(kind, t, n, nextId))
  /\ UNCHANGED <<proc, serves, turn, lapsed, client, tools, reader, runs, loaded,
                 asking, ghosts, faults, crashed, halted>>

(* A question lapses (autoResolutionMs).                                   *)
ChildResolves(w) ==
  /\ ~w.tool /\ wants' = wants \ {w} /\ lapsed' = lapsed \cup {w.id}
  /\ stdout' = Append(stdout, Line("resolved", w.t, w.n, w.id))
  /\ UNCHANGED <<proc, serves, turn, nextId, asked, client, tools, reader, runs, loaded,
                 asking, ghosts, faults, crashed, halted>>

ChildErrs(t, n) ==
  /\ Fault /\ stdout' = Append(stdout, Line("error", t, n, 0))
  /\ UNCHANGED <<proc, child, client, tools, reader, runs, loaded, asking,
                 ghosts, crashed, halted>>

ChildCompletes(t, n) ==
  /\ n \in turn[t] /\ \A w \in wants : w.t # t \/ w.n # n
  /\ turn' = Set(turn, t, turn[t] \ {n})
  /\ stdout' = Append(stdout, Line("completed", t, n, 0))
  /\ UNCHANGED <<proc, serves, wants, lapsed, nextId, asked, client, tools, reader,
                 runs, loaded, asking, ghosts, faults, crashed, halted>>

-----------------------------------------------------------------------------
(* Faults.                                                                 *)

Waiting == {t \in Thread : step[t] \in {"starting", "opening", "turning"}}

(* failAll: pending requests are rejected and open queues fail.            *)
FailAll ==
  /\ step' = [t \in Thread |-> IF t \in Waiting THEN "idle" ELSE step[t]]
  /\ verdict' = [t \in Thread |-> IF t \in Waiting THEN "failed" ELSE verdict[t]]
  /\ ended' = [t \in Thread |-> IF active[t] # 0 /\ t \notin Waiting /\ Listening(t)
                                THEN "failed" ELSE ended[t]]
  /\ queue' = [t \in Thread |-> IF t \in Waiting THEN <<>> ELSE queue[t]]
  /\ active' = [t \in Thread |-> 0] /\ knows' = {} /\ userInputs' = {}
  /\ UNCHANGED <<run, answered, asking>>

(* The child exits; some of its last lines may still be read.  Nothing     *)
(* tells the adapter that its loadedThreads are gone.                      *)
Exit ==
  /\ \/ proc \in {"starting", "ready"} /\ Fault
     \/ proc \in {"killed", "stopping"} /\ UNCHANGED faults
  /\ proc' = "none" /\ stdout' \in {<<>>, stdout}
  /\ serves' = {} /\ turn' = [t \in Thread |-> {}] /\ wants' = {}
  /\ lapsed' = {} /\ stolen' = {} /\ nextId' = 1 /\ UNCHANGED asked
  /\ tools' = {[c EXCEPT !.stale = TRUE] : c \in tools}
  /\ loaded' = IF proc = "stopping" THEN {} ELSE loaded
  /\ outlived' = outlived \cup {t \in Thread : step[t] = "reading"}
  /\ FailAll
  /\ UNCHANGED <<guessed, abandoned, crashed, halted>>

(* A line that is no JSON fails everything, but the child goes on.         *)
BrokenLine ==
  /\ proc \in {"starting", "ready"} /\ Fault
  /\ proc' = IF proc = "starting" THEN "killed" ELSE proc
  /\ abandoned' = abandoned \cup {t \in Thread : turn[t] # {} \/ active[t] # 0}
  /\ FailAll
  /\ UNCHANGED <<stdout, child, tools, loaded, guessed, outlived, stolen, crashed, halted>>

(* The request a run waits for is given up; the child may still serve it.  *)
Timeout(t) ==
  /\ t \in Waiting /\ Fault
  /\ proc' = IF step[t] = "starting" THEN "killed" ELSE proc
  /\ active' = IF step[t] = "turning" THEN Set(active, t, 0) ELSE active
  /\ abandoned' = IF step[t] = "turning" THEN abandoned \cup {t} ELSE abandoned
  /\ End(t, "failed")
  /\ UNCHANGED <<stdout, child, knows, userInputs, tools, ended, run, answered,
                 loaded, guessed, outlived, stolen, crashed, halted>>

(* Gateway.stop drains the runs before it stops the adapter.               *)
Stop ==
  /\ ~halted /\ \A t \in Thread : step[t] = "idle"
  /\ halted' = TRUE /\ proc' = IF proc = "none" THEN proc ELSE "stopping"
  /\ loaded' = IF proc = "none" THEN {} ELSE loaded
  /\ UNCHANGED <<stdout, child, client, tools, reader, runs, asking, ghosts,
                 faults, crashed>>

ChildStep ==
  /\ proc = "ready"
  /\ \/ \E t \in Thread : \E n \in turn[t] :
          \/ \E kind \in {"ask", "tool"} : ChildAsks(t, n, kind)
          \/ ChildErrs(t, n) \/ ChildCompletes(t, n)
     \/ \E w \in wants : ChildResolves(w)

Next ==
  /\ ~crashed
  /\ \/ \E t \in Thread : \/ Begin(t) \/ Read(t) \/ ReadFailure(t) \/ Answer(t)
                          \/ Cancel(t) \/ Timeout(t)
     \/ \E c \in tools : ToolReturns(c)
     \/ Deliver \/ ChildStep \/ Exit \/ BrokenLine \/ Stop

Spec == Init /\ [][Next]_vars

-----------------------------------------------------------------------------
(* Properties.                                                             *)

TypeOK ==
  /\ proc \in {"none", "starting", "ready", "killed", "stopping"}
  /\ serves \subseteq Thread /\ turn \in [Thread -> SUBSET Nat]
  /\ active \in [Thread -> Nat]
  /\ run \in [Thread -> Nat] /\ \A t \in Thread : run[t] <= MaxRuns[t]
  /\ knows \subseteq Thread /\ userInputs \subseteq 1..MaxAsks
  /\ ended \in [Thread -> {"open", "closed", "failed"}]
  /\ step \in [Thread -> {"idle", "starting", "opening", "turning", "reading"}]
  /\ asking \in [Thread -> 0..MaxAsks] /\ loaded \subseteq Thread

(* A run answers with the completion of another turn only if it was taken  *)
(* before turn/start had returned (the filter of handleLine), and is       *)
(* refused as busy only because an entry was left behind: both need an     *)
(* earlier run of the thread that had ended before its turn.               *)
TroubleNeedsAbandonedRun ==
  \A t \in Thread :
    /\ answered[t] \notin {0, run[t]} => t \in guessed /\ t \in abandoned
    /\ verdict[t] = "busy" => t \in abandoned

(* The adapter answers a question with nothing only while another question *)
(* of the run is open, or was resolved by the child without the adapter    *)
(* hearing of it, or got an answer that was meant for an earlier child, or *)
(* the turn is over.                                                       *)
DeclinedBehindAQuestion ==
  \A t \in Thread :
    (/\ step[t] = "reading" /\ ended[t] = "open" /\ asking[t] # 0
     /\ queue[t] # <<>> /\ Head(queue[t]).e = "ask")
      => \/ run[t] \notin turn[t] \/ asking[t] \in lapsed \cup stolen
         \/ \E w \in wants : w.id = asking[t] /\ w.t = t

(* A question is answered by the run of its own thread, unless a run of    *)
(* another thread still reads what a child that is gone had asked: the next *)
(* child counts its requests from the start again.                         *)
AnswersStayInTheirThread ==
  [][\A w \in wants \ wants' :
       \A t \in Thread \ {w.t} :
         (w.id \in userInputs \ userInputs' /\ (Answer(t) \/ Read(t))) => t \in outlived]_vars

(* A turn that waits for an answer of the client gets one: the request is  *)
(* still to be read, a handler works on it, or a run holds the question    *)
(* where an answer of the user finds it; unless its run was abandoned.     *)
BlockedTurnHasKeeper ==
  \A w \in wants :
    \/ \E i \in DOMAIN stdout : stdout[i].m \in {"ask", "tool"} /\ stdout[i].id = w.id
    \/ w.tool /\ \E c \in tools : c.id = w.id
    \/ /\ w.id \in userInputs /\ step[w.t] \in {"turning", "reading"}
       /\ \/ asking[w.t] = w.id
          \/ \E i \in DOMAIN queue[w.t] : queue[w.t][i] = Event("ask", w.n, w.id)
    \/ w.t \in abandoned \/ halted \/ crashed

(* Not kept by the code (README, What does not hold): no run lists it.     *)
(* The child is asked for a turn of a thread it has loaded (the test       *)
(* "resumes an existing opaque session once per process").                 *)
TurnsOnLoadedThreads == \A i \in DOMAIN stdout : stdout[i].m # "unloaded"

(* Lines, events, handlers and the child go on; open questions are         *)
(* answered or expire (the gateway), a child that was killed exits.        *)
Fairness ==
  /\ WF_vars(~crashed /\ Deliver)
  /\ WF_vars(~crashed /\ Exit /\ UNCHANGED faults)
  /\ \A t \in Thread :
       /\ WF_vars(~crashed /\ (Read(t) \/ ReadFailure(t)))
       /\ WF_vars(~crashed /\ Answer(t))
       /\ \A n \in 1..MaxRuns[t] :
            WF_vars(~crashed /\ proc = "ready" /\ ChildCompletes(t, n))
  /\ WF_vars(~crashed /\ \E c \in tools : ToolReturns(c))

Busy == {t \in Thread : step[t] # "idle" /\ ~crashed}

FairSpec == Spec /\ Fairness

(* Every run returns, whatever the child does, unless the process crashed. *)
RunsReturn == \A t \in Thread : t \in Busy ~> t \notin Busy
=============================================================================
