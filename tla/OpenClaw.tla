------------------------------- MODULE OpenClaw -------------------------------
(***************************************************************************)
(* The OpenClaw adapter: runs of agent sessions over the WebSocket of an   *)
(* OpenClaw server.  A run sends chat.send and listens to chat events; in  *)
(* case they get lost it also waits for the end of its turn, and then      *)
(* takes the last assistant message of the session if it is another one    *)
(* than before the run (the baseline).                                     *)
(*                                                                         *)
(* A client reconnects by itself.  start() makes another one whenever the  *)
(* adapter is not ready, and does not stop the one before.  The turn of    *)
(* run n of session s, and the message it leaves, is n.                    *)
(***************************************************************************)
EXTENDS Naturals, Sequences

CONSTANTS
  Session,
  MaxRuns,     \* bound: MaxRuns[s], the runs of session s
  MaxClients,  \* bound: clients the adapter makes
  MaxFaults    \* bound: connections and events lost, requests that time out

(* What the constants have to be: the MC module assumes it.                *)
OpenClawAssumption ==
  MaxRuns \in [Session -> Nat] /\ MaxClients \in Nat /\ MaxFaults \in Nat

Client == 1..MaxClients

VARIABLES
  link,      \* link[c]: "new", "connecting", "up", "down", "closed"
  newest,    \* this.client, 0 when there is none
  ready, starting,
  wire,      \* wire[c]: what client c was sent and has not handled
  waits,     \* server: agent.wait requests that were not answered
  works,     \* server: turns under way
  renamed,   \* server: turns whose runId is not the idempotency key
  last,      \* server: last[s], turn of the last assistant message or 0
  outcome,   \* server: turns that ended in an error
  step,      \* step[s]: where the run of s is
  run,       \* run[s]: number of the last run of s
  baseline,  \* baseline[s]: message before the run, 0 if none or not readable
  heard,     \* heard[s]: lastSeq
  deltas,    \* deltas[s]: text deltas the run has passed on
  settled,   \* settled[s]: "open", "done" or "failed", the end of the queue
  answer,    \* answer[s]: turn whose message is the answer
  verdict,   \* verdict[s]: how the last run of s that is over has ended
  blind,     \* sessions whose run could not read its baseline
  abandoned, \* sessions with a run that ended before its turn did
  faults, halted

adapter == <<link, newest, ready, starting>>
server  == <<waits, works, renamed, last, outcome>>
pending == <<heard, deltas, settled, answer>>
runs    == <<step, run, baseline, verdict>>
ghosts  == <<blind, abandoned>>
vars    == <<adapter, wire, server, pending, runs, ghosts, faults, halted>>

Line(m, s, n, v) == [m |-> m, s |-> s, n |-> n, v |-> v]
Set(f, x, v)     == [f EXCEPT ![x] = v]
Connected        == newest # 0 /\ link[newest] = "up"
Pending(s)       == step[s] \in {"sending", "reading"}
Fault            == faults < MaxFaults /\ faults' = faults + 1

Init ==
  /\ link = [c \in Client |-> "new"] /\ newest = 0 /\ ready = FALSE
  /\ starting = FALSE /\ wire = [c \in Client |-> <<>>] /\ waits = {}
  /\ works = {} /\ renamed = {} /\ last = [s \in Session |-> 0] /\ outcome = {}
  /\ step = [s \in Session |-> "idle"] /\ run = [s \in Session |-> 0]
  /\ baseline = [s \in Session |-> 0] /\ heard = [s \in Session |-> 0]
  /\ deltas = [s \in Session |-> 0] /\ settled = [s \in Session |-> "open"]
  /\ answer = [s \in Session |-> 0] /\ verdict = [s \in Session |-> "none"]
  /\ blind = {} /\ abandoned = {} /\ faults = 0 /\ halted = FALSE

-----------------------------------------------------------------------------
(* The connection.                                                         *)

(* start(): nothing when ready; one promise for all callers; else a client *)
Begin(s) ==
  /\ ~halted /\ step[s] = "idle" /\ run[s] < MaxRuns[s]
  /\ run' = Set(run, s, run[s] + 1) /\ answer' = Set(answer, s, 0)
  /\ \/ /\ ready /\ step' = Set(step, s, "started") /\ UNCHANGED adapter
     \/ /\ ~ready /\ starting /\ step' = Set(step, s, "connecting")
        /\ UNCHANGED adapter
     \/ /\ ~ready /\ ~starting /\ newest < MaxClients
        /\ newest' = newest + 1 /\ link' = Set(link, newest + 1, "connecting")
        /\ starting' = TRUE /\ step' = Set(step, s, "connecting")
        /\ UNCHANGED ready
  /\ UNCHANGED <<wire, server, heard, deltas, settled, baseline, verdict, ghosts,
                 faults, halted>>

(* onHello: of any client the adapter has made.                            *)
Hello(c) ==
  /\ link[c] \in {"connecting", "down"} /\ link' = Set(link, c, "up")
  /\ ready' = TRUE
  /\ starting' = (starting /\ c # newest)
  /\ step' = [s \in Session |-> IF c = newest /\ step[s] = "connecting"
                                THEN "started" ELSE step[s]]
  /\ UNCHANGED <<newest, wire, server, pending, run, baseline, verdict, ghosts,
                 faults, halted>>

(* The connect timer, or onError: every run that waits fails.              *)
ConnectFails ==
  /\ starting /\ Fault /\ starting' = FALSE
  /\ step' = [s \in Session |-> IF step[s] = "connecting" THEN "idle" ELSE step[s]]
  /\ verdict' = [s \in Session |-> IF step[s] = "connecting" THEN "failed"
                                   ELSE verdict[s]]
  /\ UNCHANGED <<link, newest, ready, wire, server, pending, run, baseline, ghosts,
                 halted>>

(* onClose: of any client; all pending runs fail.  The client forgets what *)
(* it was sent, and its requests are rejected.                             *)
Close(c) ==
  /\ link[c] = "up" /\ Fault /\ link' = Set(link, c, "down") /\ ready' = FALSE
  /\ wire' = Set(wire, c, <<>>) /\ waits' = {w \in waits : w.c # c}
  /\ settled' = [s \in Session |-> IF Pending(s) /\ settled[s] = "open"
                                   THEN "failed" ELSE settled[s]]
  /\ abandoned' = abandoned \cup {s \in Session : Pending(s)}
  /\ LET lost(s, m) == \E i \in DOMAIN wire[c] : /\ wire[c][i].m = m /\ wire[c][i].s = s
                                                 /\ wire[c][i].n = run[s]
     IN /\ step' = [s \in Session |->
             CASE step[s] = "asking" /\ lost(s, "history") -> "asked"
               [] step[s] = "sending" /\ lost(s, "sent")   -> "idle"
               [] OTHER -> step[s]]
        /\ verdict' = [s \in Session |-> IF step[s] = "sending" /\ lost(s, "sent")
                                         THEN "failed" ELSE verdict[s]]
        /\ baseline' = [s \in Session |-> IF step[s] = "asking" /\ lost(s, "history")
                                          THEN 0 ELSE baseline[s]]
        /\ blind' = blind \cup {s \in Session : step[s] = "asking" /\ lost(s, "history")}
  /\ UNCHANGED <<newest, starting, works, renamed, last, outcome, heard, deltas,
                 answer, run, halted>>

-----------------------------------------------------------------------------
(* The run.                                                                *)

Post(line) == wire' = Set(wire, newest, Append(wire[newest], line))

(* readLatestAssistantSnapshot before the turn: a failure reads as none.   *)
ReadBaseline(s) ==
  /\ step[s] = "started"
  /\ \/ /\ Connected /\ Post(Line("history", s, run[s], last[s]))
        /\ step' = Set(step, s, "asking") /\ blind' = blind \ {s}
        /\ UNCHANGED baseline
     \/ /\ ~Connected /\ step' = Set(step, s, "asked")
        /\ baseline' = Set(baseline, s, 0) /\ blind' = blind \cup {s}
        /\ UNCHANGED wire
  /\ UNCHANGED <<adapter, server, pending, run, verdict, abandoned, faults, halted>>

(* chat.send: the entry of the run is set, and the server starts the turn. *)
Send(s) ==
  /\ step[s] = "asked"
  /\ heard' = Set(heard, s, 0) /\ deltas' = Set(deltas, s, 0)
  /\ settled' = Set(settled, s, "open")
  /\ \/ /\ Connected /\ step' = Set(step, s, "sending")
        /\ works' = works \cup {<<s, run[s]>>}
        /\ renamed' \in {renamed, renamed \cup {<<s, run[s]>>}}
        /\ Post(Line("sent", s, run[s], 0)) /\ UNCHANGED verdict
     \/ /\ ~Connected /\ step' = Set(step, s, "idle")
        /\ verdict' = Set(verdict, s, "failed")
        /\ UNCHANGED <<works, renamed, wire>>
  /\ UNCHANGED <<adapter, waits, last, outcome, answer, run, baseline, ghosts, faults,
                 halted>>

(* The finally block: the queue has ended or failed.                       *)
Finish(s) ==
  /\ step[s] = "reading" /\ settled[s] # "open" /\ step' = Set(step, s, "idle")
  /\ verdict' = Set(verdict, s, IF settled[s] = "done" THEN "completed" ELSE "failed")
  /\ UNCHANGED <<adapter, wire, server, pending, run, baseline, ghosts, faults, halted>>

(* The timer of the run: the server is not told.                           *)
Timeout(s) ==
  /\ Pending(s) /\ settled[s] = "open" /\ settled' = Set(settled, s, "failed")
  /\ abandoned' = abandoned \cup {s}
  /\ UNCHANGED <<adapter, wire, server, heard, deltas, answer, runs, blind, faults,
                 halted>>

(* chat.send is not answered in time.                                      *)
SendTimesOut(s) ==
  /\ step[s] = "sending" /\ Fault /\ step' = Set(step, s, "idle")
  /\ verdict' = Set(verdict, s, "failed") /\ abandoned' = abandoned \cup {s}
  /\ UNCHANGED <<adapter, wire, server, pending, run, baseline, blind, halted>>

(* stop(), when no run is left: of the clients only the newest is stopped. *)
Stop ==
  /\ ~halted /\ ~starting /\ \A s \in Session : step[s] = "idle"
  /\ halted' = TRUE /\ ready' = FALSE
  /\ link' = IF newest = 0 THEN link ELSE Set(link, newest, "closed")
  /\ UNCHANGED <<newest, starting, wire, server, pending, runs, ghosts, faults>>

-----------------------------------------------------------------------------
(* Lines of a client.                                                      *)

Reads(c, kinds) == wire[c] # <<>> /\ Head(wire[c]).m \in kinds
Mine(line, at)  == step[line.s] = at /\ run[line.s] = line.n

Baselined(c) ==
  /\ Reads(c, {"history"})
  /\ LET line == Head(wire[c])
     IN IF Mine(line, "asking")
        THEN /\ step' = Set(step, line.s, "asked")
             /\ baseline' = Set(baseline, line.s, line.v)
        ELSE UNCHANGED <<step, baseline>>
  /\ wire' = Set(wire, c, Tail(wire[c]))
  /\ UNCHANGED <<adapter, server, pending, run, verdict, ghosts, faults, halted>>

(* chat.send was answered: the entry moves to the runId of the server, and *)
(* reconcileRun asks for the end of the turn.                              *)
Sent(c) ==
  /\ Reads(c, {"sent"})
  /\ LET line == Head(wire[c])  s == line.s  turn == <<s, line.n>>
         rest == Set(wire, c, Tail(wire[c]))
     IN \/ /\ Mine(line, "sending") /\ Connected
           /\ step' = Set(step, s, "reading")
           /\ waits' = IF turn \in works
                       THEN waits \cup {[c |-> newest, turn |-> turn]} ELSE waits
           /\ wire' = IF turn \in works THEN rest
                      ELSE Set(rest, newest, Append(rest[newest],
                                  Line("waited", s, line.n, 0)))
           /\ UNCHANGED <<settled, abandoned>>
        \/ /\ Mine(line, "sending") /\ ~Connected
           /\ step' = Set(step, s, "reading") /\ wire' = rest
           /\ settled' = IF settled[s] = "open" THEN Set(settled, s, "failed")
                         ELSE settled
           /\ abandoned' = abandoned \cup {s} /\ UNCHANGED waits
        \/ /\ ~Mine(line, "sending") /\ wire' = rest
           /\ UNCHANGED <<step, waits, settled, abandoned>>
  /\ UNCHANGED <<adapter, works, renamed, last, outcome, heard, deltas, answer, run,
                 baseline, verdict, blind, faults, halted>>

(* handleGatewayEvent: the entry has the runId of the event, which is new. *)
Takes(line) ==
  /\ Pending(line.s) /\ run[line.s] = line.n
  /\ step[line.s] = "reading" \/ <<line.s, line.n>> \notin renamed
  /\ line.v > heard[line.s]

ChatEvent(c) ==
  /\ Reads(c, {"delta", "final", "error"})
  /\ LET line == Head(wire[c])  s == line.s  open == settled[s] = "open"
     IN \/ /\ Takes(line) /\ heard' = Set(heard, s, line.v)
           /\ deltas' = IF line.m = "delta" /\ open THEN Set(deltas, s, deltas[s] + 1)
                        ELSE deltas
           /\ settled' = IF open /\ line.m # "delta"
                         THEN Set(settled, s, IF line.m = "final" THEN "done" ELSE "failed")
                         ELSE settled
           /\ answer' = IF open /\ line.m = "final" THEN Set(answer, s, line.n) ELSE answer
        \/ ~Takes(line) /\ UNCHANGED pending
  /\ wire' = Set(wire, c, Tail(wire[c]))
  /\ UNCHANGED <<adapter, server, runs, ghosts, faults, halted>>

(* reconcileRun: a message that is there and not the baseline answers.     *)
Reconciled(c) ==
  /\ Reads(c, {"latest"})
  /\ LET line == Head(wire[c])  s == line.s
         open == Mine(line, "reading") /\ settled[s] = "open"
         new  == line.v # 0 /\ line.v # baseline[s]
     IN /\ settled' = IF open THEN Set(settled, s, IF new THEN "done" ELSE "failed")
                      ELSE settled
        /\ answer' = IF open /\ new THEN Set(answer, s, line.v) ELSE answer
  /\ wire' = Set(wire, c, Tail(wire[c]))
  /\ UNCHANGED <<adapter, server, heard, deltas, runs, ghosts, faults, halted>>

(* agent.wait was answered: unless settled, the last message is asked for. *)
Waited(c) ==
  /\ Reads(c, {"waited"})
  /\ LET line == Head(wire[c])  s == line.s  rest == Set(wire, c, Tail(wire[c]))
         open == Mine(line, "reading") /\ settled[s] = "open"
         fine == <<s, line.n>> \notin outcome
     IN \/ /\ open /\ fine /\ Connected
           /\ wire' = Set(rest, newest, Append(rest[newest],
                             Line("latest", s, line.n, last[s])))
           /\ UNCHANGED settled
        \/ /\ open /\ ~(fine /\ Connected)
           /\ settled' = Set(settled, s, "failed") /\ wire' = rest
        \/ ~open /\ wire' = rest /\ UNCHANGED settled
  /\ UNCHANGED <<adapter, server, heard, deltas, answer, runs, ghosts, faults, halted>>

Deliver(c) == Baselined(c) \/ Sent(c) \/ ChatEvent(c) \/ Waited(c) \/ Reconciled(c)

-----------------------------------------------------------------------------
(* The server (external): events go to every client that is connected.     *)

(* What client c gets when a turn ends: the event, unless it gets lost, and *)
(* the answer to its agent.wait.                                           *)
LastLines(c, s, n, m) ==
  (IF m = "lost" THEN <<>> ELSE <<Line(m, s, n, 2)>>) \o
  (IF [c |-> c, turn |-> <<s, n>>] \in waits THEN <<Line("waited", s, n, 0)>> ELSE <<>>)

Broadcast(lines(_)) ==
  wire' = [c \in Client |-> IF link[c] = "up" THEN wire[c] \o lines(c) ELSE wire[c]]

Speaks(t) ==
  /\ LET s == t[1]  n == t[2]
     IN /\ \A c \in Client : \A i \in DOMAIN wire[c] : wire[c][i] # Line("delta", s, n, 1)
        /\ heard[s] = 0
        /\ LET line(c) == <<Line("delta", s, n, 1)>> IN Broadcast(line)
  /\ UNCHANGED <<adapter, server, pending, runs, ghosts, faults, halted>>

(* A turn ends with a message, without one, or in an error.                *)
Ends(t, m, writes) ==
  /\ works' = works \ {t} /\ waits' = {w \in waits : w.turn # t}
  /\ last' = IF writes THEN Set(last, t[1], t[2]) ELSE last
  /\ outcome' = IF m = "error" THEN outcome \cup {t} ELSE outcome
  /\ LET lines(c) == LastLines(c, t[1], t[2], m) IN Broadcast(lines)
  /\ UNCHANGED <<adapter, renamed, pending, runs, ghosts, halted>>

Completes(t)    == \E writes \in BOOLEAN : Ends(t, "final", writes) /\ UNCHANGED faults
EndsUnheard(t)  == \E writes \in BOOLEAN : Ends(t, "lost", writes) /\ Fault
Fails(t)        == Ends(t, "error", FALSE) /\ UNCHANGED faults

(* cancel: chat.abort with the runId of the entry.                         *)
Cancel(s) ==
  /\ Pending(s) /\ Connected /\ <<s, run[s]>> \in works
  /\ step[s] = "reading" \/ <<s, run[s]>> \notin renamed
  /\ Fails(<<s, run[s]>>)

Next ==
  \/ \E s \in Session : \/ Begin(s) \/ ReadBaseline(s) \/ Send(s) \/ Finish(s)
                        \/ Timeout(s) \/ SendTimesOut(s) \/ Cancel(s)
  \/ \E c \in Client : Hello(c) \/ Close(c) \/ Deliver(c)
  \/ \E t \in works : Speaks(t) \/ Completes(t) \/ EndsUnheard(t) \/ Fails(t)
  \/ ConnectFails \/ Stop

Spec == Init /\ [][Next]_vars

-----------------------------------------------------------------------------
(* Properties.                                                             *)

TypeOK ==
  /\ link \in [Client -> {"new", "connecting", "up", "down", "closed"}]
  /\ newest \in 0..MaxClients /\ ready \in BOOLEAN /\ starting \in BOOLEAN
  /\ step \in [Session -> {"idle", "connecting", "started", "asking", "asked",
                           "sending", "reading"}]
  /\ settled \in [Session -> {"open", "done", "failed"}]
  /\ run \in [Session -> Nat] /\ baseline \in [Session -> Nat]

(* A run answers with the message of its own turn.  The reconciliation     *)
(* takes another one only if the baseline could not be read, or an earlier *)
(* turn of the session was still under way when its run had ended.         *)
OwnWords ==
  \A s \in Session : answer[s] \notin {0, run[s]} => s \in blind \/ s \in abandoned

(* No text is passed on twice, though two clients may hear the same event. *)
TextOnce == \A s \in Session : deltas[s] <= 1

(* Clients connect or give up, lines are handled, and the timer fires.     *)
Fairness ==
  /\ WF_vars(ConnectFails \/ \E c \in {newest} \cap Client :
                             link[c] = "connecting" /\ Hello(c))
  /\ \A c \in Client : WF_vars(Deliver(c))
  /\ \A s \in Session : /\ WF_vars(ReadBaseline(s) \/ Send(s))
                        /\ WF_vars(Finish(s))
                        /\ WF_vars(Timeout(s))

Busy == {s \in Session : step[s] # "idle"}

FairSpec == Spec /\ Fairness

(* Every run returns.                                                      *)
RunsReturn == \A s \in Session : s \in Busy ~> s \notin Busy
=============================================================================
