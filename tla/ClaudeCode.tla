------------------------------ MODULE ClaudeCode ------------------------------
(***************************************************************************)
(* The Claude Code adapter: each run is a query of the agent SDK with a    *)
(* stream of messages of its own.  The map activeRuns tells which run owns *)
(* a session, so that cancel finds it and no other run enters the session. *)
(***************************************************************************)
EXTENDS Naturals, Sequences

CONSTANTS
  Run,        \* calls of run()
  Session,
  NoRun, NoSession,
  MaxLines,   \* bound: messages of one stream, the last is a result
  MaxBuffer,  \* bound: messages of a stream that wait to be read
  MaxFaults   \* bound: wrong sessions, and streams that break

(* What the constants have to be: the MC module assumes it.                *)
ClaudeCodeAssumption ==
  /\ MaxLines \in Nat /\ MaxBuffer \in Nat /\ MaxFaults \in Nat
  /\ NoRun \notin Run /\ NoSession \notin Session

VARIABLES
  activeRuns,  \* activeRuns[s]: the run that owns session s, or NoRun
  step,        \* step[r]: "new", "reading" or "over"
  mine,        \* mine[r]: activeSessionId
  wanted,      \* wanted[r]: request.sessionId
  speaks,      \* SDK: speaks[r], the session its stream speaks of
  stream,      \* SDK: stream[r], messages the run has not read
  lines,       \* SDK: lines[r], number of messages it has sent
  open,        \* SDK: runs whose stream goes on
  aborted,     \* runs whose controller cancel() has aborted
  words,       \* words[r]: sessions whose text the run has passed on
  verdict,     \* verdict[r]: its last event
  faults

sdk  == <<speaks, lines, open>>
vars == <<activeRuns, step, mine, wanted, sdk, stream, aborted, words, verdict, faults>>

Set(f, x, v) == [f EXCEPT ![x] = v]
Fault        == faults < MaxFaults /\ faults' = faults + 1
Line(m, s)   == [m |-> m, s |-> s]

Init ==
  /\ activeRuns = [s \in Session |-> NoRun] /\ step = [r \in Run |-> "new"]
  /\ mine = [r \in Run |-> NoSession] /\ wanted = [r \in Run |-> NoSession]
  /\ speaks = [r \in Run |-> NoSession] /\ stream = [r \in Run |-> <<>>]
  /\ lines = [r \in Run |-> 0] /\ open = {} /\ aborted = {}
  /\ words = [r \in Run |-> {}] /\ verdict = [r \in Run |-> "none"] /\ faults = 0

-----------------------------------------------------------------------------
(* The stream (external).                                                  *)

Known == {wanted[r] : r \in Run} \cup {speaks[r] : r \in Run}

(* The query of run r for session s: a new session gets a new id.          *)
Query(r, s) ==
  \E q \in Session :
    /\ speaks' = Set(speaks, r, q) /\ open' = open \cup {r}
    /\ IF q = s \/ (s = NoSession /\ q \notin Known) THEN UNCHANGED faults ELSE Fault

(* The first message of a stream is init; others may be text or a result.  *)
Speaks(r, m) ==
  /\ r \in open /\ Len(stream[r]) < MaxBuffer
  /\ (lines[r] = 0) = (m = "init") /\ (lines[r] = MaxLines - 1 => m \in {"success", "error"})
  /\ lines' = Set(lines, r, lines[r] + 1)
  /\ open' = IF m \in {"success", "error"} THEN open \ {r} ELSE open
  /\ \E s \in Session :
       /\ stream' = Set(stream, r, Append(stream[r], Line(m, s)))
       /\ IF s = speaks[r] THEN UNCHANGED faults ELSE Fault
  /\ UNCHANGED <<activeRuns, step, mine, wanted, speaks, aborted, words, verdict>>

(* It ends without a result; an aborted query does at any time.            *)
Breaks(r) ==
  /\ r \in open /\ open' = open \ {r}
  /\ IF r \in aborted THEN UNCHANGED faults ELSE Fault
  /\ UNCHANGED <<activeRuns, step, mine, wanted, speaks, lines, stream, aborted,
                 words, verdict>>

-----------------------------------------------------------------------------
(* The run.                                                                *)

(* run() up to its query: a session that has a run is refused.             *)
Begin(r, s) ==
  /\ step[r] = "new" /\ wanted' = Set(wanted, r, s)
  /\ \/ /\ s # NoSession /\ activeRuns[s] # NoRun
        /\ step' = Set(step, r, "over") /\ verdict' = Set(verdict, r, "busy")
        /\ UNCHANGED <<activeRuns, mine, speaks, open, faults>>
     \/ /\ s # NoSession => activeRuns[s] = NoRun
        /\ activeRuns' = [q \in Session |-> IF q = s THEN r ELSE activeRuns[q]]
        /\ mine' = Set(mine, r, s) /\ step' = Set(step, r, "reading")
        /\ Query(r, s) /\ UNCHANGED verdict
  /\ UNCHANGED <<lines, stream, aborted, words>>

(* The finally block: the query is aborted, and the session s released if  *)
(* it is still the run's own.                                              *)
End(r, v, s) ==
  /\ step' = Set(step, r, "over") /\ verdict' = Set(verdict, r, v)
  /\ activeRuns' = IF s # NoSession /\ activeRuns[s] = r
                   THEN Set(activeRuns, s, NoRun) ELSE activeRuns
  /\ open' = open \ {r}

(* Mutation: a run enters a session that another run owns.                 *)
EntersAny(r, s) == mine[r] \in {NoSession, s}

(* An init message: its session is the run's, and no other run owns it.    *)
Enters(r, s) == mine[r] \in {NoSession, s} /\ activeRuns[s] \in {NoRun, r}

ReadInit(r, s) ==
  \/ /\ Enters(r, s) /\ mine' = Set(mine, r, s)
     /\ activeRuns' = Set(activeRuns, s, r)
     /\ UNCHANGED <<step, verdict, open, words>>
  \/ ~Enters(r, s) /\ End(r, "failed", mine[r]) /\ UNCHANGED <<mine, words>>

(* Text, and a result, count only for the session of the run.              *)
ReadText(r, s) ==
  \/ /\ mine[r] = s /\ words' = Set(words, r, words[r] \cup {s})
     /\ UNCHANGED <<activeRuns, step, verdict, open, mine>>
  \/ mine[r] # s /\ End(r, "failed", mine[r]) /\ UNCHANGED <<mine, words>>

ReadResult(r, m, s) ==
  /\ End(r, IF m = "success" /\ mine[r] = s THEN "completed" ELSE "failed", mine[r])
  /\ UNCHANGED <<mine, words>>

(* One message of the stream; a cancellation wins over what it says.       *)
Read(r) ==
  /\ step[r] = "reading" /\ stream[r] # <<>>
  /\ LET m == Head(stream[r]).m  s == Head(stream[r]).s
     IN \/ r \in aborted /\ End(r, "cancelled", mine[r]) /\ UNCHANGED <<mine, words>>
        \/ r \notin aborted /\ m = "init"  /\ ReadInit(r, s)
        \/ r \notin aborted /\ m = "delta" /\ ReadText(r, s)
        \/ r \notin aborted /\ m \in {"success", "error"} /\ ReadResult(r, m, s)
  /\ stream' = Set(stream, r, Tail(stream[r]))
  /\ UNCHANGED <<wanted, speaks, lines, aborted, faults>>

(* The stream is over without a result, or has thrown.                     *)
StreamOver(r) ==
  /\ step[r] = "reading" /\ stream[r] = <<>> /\ r \notin open
  /\ End(r, IF r \in aborted THEN "cancelled" ELSE "failed", mine[r])
  /\ UNCHANGED <<mine, wanted, speaks, lines, stream, aborted, words, faults>>

(* The consumer stops iterating before the run is over.                    *)
Dropped(r) ==
  /\ step[r] = "reading" /\ Fault /\ End(r, "dropped", mine[r])
  /\ UNCHANGED <<mine, wanted, speaks, lines, stream, aborted, words>>

(* cancel: the run that owns the session, if there is one.                 *)
Cancel(s) ==
  /\ activeRuns[s] # NoRun /\ aborted' = aborted \cup {activeRuns[s]}
  /\ UNCHANGED <<activeRuns, step, mine, wanted, sdk, stream, words, verdict, faults>>

Next ==
  \/ \E r \in Run : \/ \E s \in Session \cup {NoSession} : Begin(r, s)
                    \/ Read(r) \/ StreamOver(r) \/ Dropped(r) \/ Breaks(r)
                    \/ \E m \in {"init", "delta", "success", "error"} : Speaks(r, m)
  \/ \E s \in Session : Cancel(s)

Spec == Init /\ [][Next]_vars

-----------------------------------------------------------------------------
(* Properties.                                                             *)

TypeOK ==
  /\ activeRuns \in [Session -> Run \cup {NoRun}]
  /\ step \in [Run -> {"new", "reading", "over"}]
  /\ mine \in [Run -> Session \cup {NoSession}]
  /\ words \in [Run -> SUBSET Session]

(* A session is owned by the one run that is in it, for as long as it is:  *)
(* otherwise cancel would stop another run, or the session be refused for  *)
(* good.                                                                   *)
SessionsHaveOwners ==
  /\ \A s \in Session :
       activeRuns[s] # NoRun => /\ step[activeRuns[s]] = "reading"
                                /\ mine[activeRuns[s]] = s
  /\ \A r \in Run :
       step[r] = "reading" /\ mine[r] # NoSession => activeRuns[mine[r]] = r

(* A run passes on text of its own session only, that of its request if it *)
(* has one, and never completes once it was cancelled.                     *)
OwnWords ==
  \A r \in Run :
    /\ words[r] \subseteq {mine[r]}
    /\ wanted[r] # NoSession => mine[r] \in {wanted[r], NoSession}
    /\ verdict[r] = "completed" => r \notin aborted

(* Runs go on with their messages, and the stream ends at some time.       *)
Fairness ==
  \A r \in Run :
    /\ WF_vars(Read(r) \/ StreamOver(r))
    /\ WF_vars(\E m \in {"init", "delta", "success"} : Speaks(r, m) /\ UNCHANGED faults)

Busy == {r \in Run : step[r] = "reading"}

FairSpec == Spec /\ Fairness

(* Every run is over at some time.                                         *)
RunsReturn == \A r \in Run : r \in Busy ~> r \notin Busy
===============================================================================
