----------------------------- MODULE PiPoolProofs -----------------------------
(***************************************************************************)
(* The workers of the Pi pool are conserved, no agent waits for a dialog   *)
(* that nobody has, and no run completes with the words of another session,*)
(* for any number of sessions, workers, runs, dialogs and faults.          *)
(*                                                                         *)
(* The first invariant (PiInv) says who holds what: the runs past the queue*)
(* each hold a worker of their own, the free workers are those nobody      *)
(* holds, and the queue has waiting runs only, each once, so that whoever  *)
(* is handed a worker holds none. Lines and agents name turns of sessions: *)
(* an answer reaches the run of a session.                                 *)
(*                                                                         *)
(* The second (KeeperInv) follows a request for a dialog from the wire to  *)
(* the run that holds the worker, and says that no agent is at work while  *)
(* its run aborts.                                                         *)
(*                                                                         *)
(* The third (OwnInv) holds as long as no run was dropped with its agent at*)
(* work. A worker then serves its active run alone: nothing was left       *)
(* behind, the agent at work is that of the prompt, and every line the run *)
(* will hear is its own, because the answer that makes it active has no    *)
(* text or end of an earlier agent behind it. Once the agent has settled,  *)
(* what it wrote is in the file of its session. A step touches one run and *)
(* one worker; OwnLocal settles the others once for all.                   *)
(***************************************************************************)
EXTENDS PiPool, TLAPS, FiniteSetTheorems

Turns == Session \X Nat
Lines == [m : Responses \cup {"delta", "dialog", "settled", "text"}, turn : Turns]
Held  == {"granted", "preparing", "prompting", "reading", "aborting"}

(* Lines, agents and orphans name turns of sessions.                       *)
WireTypes ==
  /\ run \in [Session -> Nat] /\ agent \in [Worker -> Turns \cup {NoOne}]
  /\ wire \in [Worker -> Seq(Lines)] /\ orphans \in [Worker -> SUBSET Turns]

(* Who is where in the pool.                                               *)
PoolTypes ==
  /\ available \subseteq Worker /\ on \in [Session -> Worker \cup {NoOne}]
  /\ step \in [Session -> Held \cup {"idle", "waiting"}]
  /\ active \in [Worker -> Session \cup {NoOne}] /\ waiters \in Seq(Session)

(* The runs past the queue each hold a worker of their own, the free       *)
(* workers are those nobody holds.                                         *)
Holders ==
  /\ \A s \in Session : on[s] # NoOne <=> step[s] \in Held
  /\ \A s, t \in Session : on[s] = on[t] /\ on[s] # NoOne => s = t
  /\ \A w \in Worker : w \in available <=> \A s \in Session : on[s] # w
  /\ \A w \in Worker : active[w] # NoOne => on[active[w]] = w

(* Who waits, waits once, and only while no worker is free.                *)
Queue ==
  /\ \A i \in DOMAIN waiters : step[waiters[i]] = "waiting"
  /\ \A i, j \in DOMAIN waiters : waiters[i] = waiters[j] => i = j
  /\ available # {} => waiters = <<>>

PoolInv == NoOne \notin Session \cup Worker /\ PoolTypes /\ Holders /\ Queue

PiInv == PoolInv /\ WireTypes

(* Every worker is free and nobody runs.                                   *)
LEMMA PiInit == PiAssumption /\ Init => PiInv
<1> SUFFICES ASSUME PiAssumption, Init PROVE PiInv
  OBVIOUS
<1>1. PoolTypes /\ Queue
  BY DEF Init, PoolTypes, Queue
<1>2. Holders
  BY DEF Init, Holders, Held, PiAssumption
<1>3. WireTypes
  BY DEF Init, WireTypes
<1> QED BY <1>1, <1>2, <1>3 DEF PiInv, PoolInv, PiAssumption

-----------------------------------------------------------------------------
(* The pool under the steps of a run.                                      *)

(* Nothing of the pool changes.                                            *)
LEMMA PoolSame ==
  ASSUME PoolInv, UNCHANGED <<pool, step, active>> PROVE PoolInv'
BY DEF PoolInv, PoolTypes, Holders, Queue, pool

(* A run that holds a worker goes on, and may make itself its active run.  *)
LEMMA PoolMove ==
  ASSUME PoolInv, NEW s \in Session, on[s] # NoOne, NEW x \in Held,
         UNCHANGED pool, step' = [step EXCEPT ![s] = x],
         active' \in {active, [active EXCEPT ![on[s]] = s]}
  PROVE  PoolInv'
<1>1. on[s] \in Worker /\ step[s] \in Held
  BY DEF PoolInv, PoolTypes, Holders
<1>2. PoolTypes'
  BY <1>1 DEF PoolInv, PoolTypes, pool
<1>3. Holders'
  BY <1>1 DEF PoolInv, PoolTypes, Holders, pool
<1>4. Queue'
  BY <1>1 DEF PoolInv, PoolTypes, Queue, Held, pool
<1> QED BY <1>2, <1>3, <1>4 DEF PoolInv

(* A run leaves: its worker is free, or goes to the first in the queue.    *)
LEMMA PoolLeave ==
  ASSUME PoolInv, NEW s \in Session, on[s] # NoOne, NEW v, Leave(s, v)
  PROVE  PoolInv'
<1> DEFINE w == on[s]
<1>1. w \in Worker /\ step[s] \in Held /\ active' = [active EXCEPT ![w] = NoOne]
  BY DEF PoolInv, PoolTypes, Holders, Leave, Set
<1>2. CASE /\ waiters = <<>> /\ UNCHANGED waiters /\ available' = available \cup {w}
           /\ on' = [on EXCEPT ![s] = NoOne] /\ step' = [step EXCEPT ![s] = "idle"]
  <2>1. PoolTypes'
    BY <1>1, <1>2 DEF PoolInv, PoolTypes
  <2>2. Holders'
    BY <1>1, <1>2 DEF PoolInv, PoolTypes, Holders, Held
  <2>3. Queue'
    BY <1>2 DEF Queue
  <2> QED BY <2>1, <2>2, <2>3 DEF PoolInv
<1>3. CASE /\ waiters # <<>> /\ waiters' = Tail(waiters) /\ UNCHANGED available
           /\ on' = [on EXCEPT ![s] = NoOne, ![Head(waiters)] = w]
           /\ step' = [step EXCEPT ![s] = "idle", ![Head(waiters)] = "granted"]
  <2> DEFINE h == Head(waiters)
  <2>1. /\ h \in Session /\ step[h] = "waiting" /\ 1 \in DOMAIN waiters /\ h = waiters[1]
        /\ Tail(waiters) \in Seq(Session)
    BY <1>3 DEF PoolInv, PoolTypes, Queue
  <2>2. h # s /\ on[h] = NoOne
    BY <1>1, <2>1 DEF PoolInv, Holders, Held
  <2>3. PoolTypes'
    BY <1>1, <1>3, <2>1 DEF PoolInv, PoolTypes, Held
  <2>4. Holders'
    <3>1. \A t \in Session : on'[t] = IF t = h THEN w ELSE IF t = s THEN NoOne ELSE on[t]
      BY <1>3, <2>1 DEF PoolInv, PoolTypes
    <3>2. \A t \in Session :
            step'[t] = IF t = h THEN "granted" ELSE IF t = s THEN "idle" ELSE step[t]
      BY <1>3, <2>1, <2>2 DEF PoolInv, PoolTypes
    <3>3. \A t \in Session : on'[t] # NoOne <=> step'[t] \in Held
      BY <1>1, <3>1, <3>2, <2>2 DEF PoolInv, Holders, Held
    <3>4. \A t, u \in Session : on'[t] = on'[u] /\ on'[t] # NoOne => t = u
      BY <3>1, <2>2 DEF PoolInv, Holders
    <3>5. \A x \in Worker : x \in available' <=> \A t \in Session : on'[t] # x
      <4>1. TAKE x \in Worker
      <4>2. CASE x = w
        BY <1>3, <2>1, <3>1, <4>2 DEF PoolInv, Holders
      <4>3. CASE x # w
        <5>1. \A t \in Session : on'[t] = x <=> on[t] = x
          BY <2>2, <3>1, <4>3 DEF PoolInv
        <5> QED BY <1>3, <5>1 DEF PoolInv, Holders
      <4> QED BY <4>2, <4>3
    <3>6. \A x \in Worker : active'[x] # NoOne => on'[active'[x]] = x
      BY <1>1, <2>1, <2>2, <3>1 DEF PoolInv, PoolTypes, Holders
    <3> QED BY <3>3, <3>4, <3>5, <3>6 DEF Holders
  <2>5. Queue'
    <3>1. \A i \in DOMAIN waiters' :
            i \in Nat \ {0} /\ i + 1 \in DOMAIN waiters /\ waiters'[i] = waiters[i + 1]
      BY <1>3 DEF PoolInv, PoolTypes
    <3>2. \A i \in DOMAIN waiters' : waiters'[i] # h /\ step[waiters'[i]] = "waiting"
      BY <2>1, <3>1 DEF PoolInv, Queue
    <3>3. \A i \in DOMAIN waiters' : waiters'[i] \in Session
      BY <3>1 DEF PoolInv, PoolTypes
    <3>4. \A i \in DOMAIN waiters' : step'[waiters'[i]] = "waiting"
      BY <1>1, <1>3, <3>2, <3>3 DEF PoolInv, PoolTypes, Held
    <3>5. \A i, j \in DOMAIN waiters' : waiters'[i] = waiters'[j] => i = j
      BY <3>1 DEF PoolInv, Queue
    <3>6. available' = {}
      BY <1>3 DEF PoolInv, Queue
    <3> QED BY <3>4, <3>5, <3>6 DEF Queue
  <2> QED BY <2>3, <2>4, <2>5 DEF PoolInv
<1> QED BY <1>2, <1>3 DEF Leave, Set

(* A run begins: it takes a free worker, or joins the queue.               *)
LEMMA PoolBegin ==
  ASSUME PoolInv, NEW s \in Session, Begin(s) PROVE PoolInv'
<1>1. step[s] = "idle" /\ on[s] = NoOne /\ UNCHANGED active
  BY DEF PoolInv, Holders, Held, Begin, adapter
<1>2. CASE \E w \in available :
             /\ available' = available \ {w} /\ on' = [on EXCEPT ![s] = w]
             /\ step' = [step EXCEPT ![s] = "granted"] /\ UNCHANGED waiters
  <2>1. PICK w \in available :
          /\ available' = available \ {w} /\ on' = [on EXCEPT ![s] = w]
          /\ step' = [step EXCEPT ![s] = "granted"] /\ UNCHANGED waiters
    BY <1>2
  <2>2. w \in Worker /\ waiters = <<>>
    BY DEF PoolInv, PoolTypes, Queue
  <2>3. PoolTypes'
    BY <1>1, <2>1, <2>2 DEF PoolInv, PoolTypes, Held
  <2>4. Holders'
    BY <1>1, <2>1, <2>2 DEF PoolInv, PoolTypes, Holders, Held
  <2>5. Queue'
    BY <2>1, <2>2 DEF Queue
  <2> QED BY <2>3, <2>4, <2>5 DEF PoolInv
<1>3. CASE /\ available = {} /\ waiters' = Append(waiters, s)
           /\ step' = [step EXCEPT ![s] = "waiting"] /\ UNCHANGED <<available, on>>
  <2>1. PoolTypes'
    BY <1>1, <1>3 DEF PoolInv, PoolTypes
  <2>2. Holders'
    BY <1>1, <1>3 DEF PoolInv, PoolTypes, Holders, Held
  <2>3. Queue'
    <3>1. waiters \in Seq(Session) /\ Len(waiters) \in Nat /\ DOMAIN waiters = 1..Len(waiters)
      BY DEF PoolInv, PoolTypes
    <3>2. /\ DOMAIN waiters' = 1..(Len(waiters) + 1) /\ waiters'[Len(waiters) + 1] = s
          /\ \A i \in DOMAIN waiters : waiters'[i] = waiters[i]
      BY <1>3, <3>1
    <3>3. \A i \in DOMAIN waiters : waiters[i] # s /\ step[waiters[i]] = "waiting"
                                   /\ waiters[i] \in Session
      BY <1>1, <3>1 DEF PoolInv, PoolTypes, Queue
    <3>4. \A i \in DOMAIN waiters' : i \in DOMAIN waiters \/ i = Len(waiters) + 1
      BY <3>1, <3>2
    <3>5. \A i \in DOMAIN waiters' : step'[waiters'[i]] = "waiting"
      BY <1>3, <3>2, <3>3, <3>4 DEF PoolInv, PoolTypes
    <3>6. \A i, j \in DOMAIN waiters' : waiters'[i] = waiters'[j] => i = j
      BY <3>2, <3>3, <3>4 DEF PoolInv, Queue
    <3> QED BY <1>3, <3>5, <3>6 DEF Queue
  <2> QED BY <2>1, <2>2, <2>3 DEF PoolInv
<1> QED BY <1>2, <1>3 DEF Begin, Set

-----------------------------------------------------------------------------
(* The lines under the steps of a process.                                 *)

(* A list of lines without the first one, or with more.                    *)
LEMMA LinesTail ==
  ASSUME NEW l \in Seq(Lines), l # <<>>
  PROVE  Head(l) \in Lines /\ Head(l).turn[1] \in Session /\ Tail(l) \in Seq(Lines)
<1>1. Head(l) \in Lines /\ Tail(l) \in Seq(Lines)
  OBVIOUS
<1>2. Head(l).turn \in Turns
  BY <1>1 DEF Lines
<1>3. Head(l).turn[1] \in Session
  BY <1>2 DEF Turns
<1> QED BY <1>1, <1>3

(* A line of the turn of a session is a line.                              *)
LEMMA LinesOfTurn ==
  ASSUME WireTypes, NEW s \in Session
  PROVE  /\ Turn(s) \in Turns
         /\ \A m \in Responses \cup {"delta", "dialog", "settled", "text"} :
              Line(m, Turn(s)) \in Lines
BY DEF WireTypes, Turn, Turns, Line, Lines

(* What an abort adds is a list of lines.                                  *)
LEMMA LinesOfAbort ==
  ASSUME WireTypes, NEW w \in Worker PROVE Aborted(w) \in Seq(Lines)
<1>1. CASE agent[w] = NoOne
  BY <1>1 DEF Aborted
<1>2. CASE agent[w] # NoOne
  BY <1>2 DEF Aborted, WireTypes, Lines, Line
<1> QED BY <1>1, <1>2

(* A run that gives up: the lines, and the agent.                          *)
LEMMA GiveupStep ==
  ASSUME PiInv, NEW s \in Session, NEW w \in Worker, on[s] = w,
         NEW lines \in Seq(Lines), Giveup(w, s, lines),
         UNCHANGED <<pool, active, run, orphans>>
  PROVE  PiInv'
<1>1. PoolInv'
  <2>1. on[s] # NoOne /\ "aborting" \in Held
    BY DEF PiInv, PoolInv, Held
  <2> QED BY <2>1, PoolMove DEF Giveup, Set, PiInv
<1>2. WireTypes'
  <2>1. lines \o Aborted(w) \o <<Line("aborted", Turn(s))>> \in Seq(Lines)
    <3>1. Line("aborted", Turn(s)) \in Lines
      BY LinesOfTurn DEF PiInv, Responses
    <3>2. Aborted(w) \in Seq(Lines)
      BY LinesOfAbort DEF PiInv
    <3> QED BY <3>1, <3>2
  <2> QED BY <2>1 DEF PiInv, WireTypes, Giveup, Set
<1> QED BY <1>1, <1>2 DEF PiInv

(* A run that leaves while the lines shrink or the agent ends.             *)
LEMMA LeaveStep ==
  ASSUME PiInv, NEW s \in Session, NEW w \in Worker, on[s] = w, NEW v, Leave(s, v), WireTypes'
  PROVE  PiInv'
<1>1. on[s] # NoOne
  BY DEF PiInv, PoolInv
<1> QED BY <1>1, PoolLeave DEF PiInv

(* The pool stays, the lines keep their types.                             *)
LEMMA QuietStep ==
  ASSUME PiInv, UNCHANGED <<pool, step, active>>, WireTypes' PROVE PiInv'
BY PoolSame DEF PiInv

-----------------------------------------------------------------------------
(* The steps.                                                              *)

(* Begin takes a free worker or the last place in the queue.               *)
LEMMA BeginStep == ASSUME PiInv, NEW s \in Session, Begin(s) PROVE PiInv'
<1>1. WireTypes'
  BY DEF Begin, Set, process, PiInv, WireTypes
<1> QED BY <1>1, PoolBegin DEF PiInv

(* Start: the new process, the failed start, the session at hand, the      *)
(* switch.                                                                 *)
LEMMA StartStep == ASSUME PiInv, NEW s \in Session, Start(s) PROVE PiInv'
<1> DEFINE w == on[s]
<1>1. w \in Worker /\ w # NoOne /\ "preparing" \in Held
  BY DEF Start, PiInv, PoolInv, PoolTypes, Holders, Held
<1>2. Line("prepared", Turn(s)) \in Lines
  BY LinesOfTurn DEF PiInv, Responses
<1>3. CASE /\ orphans' \in {orphans, [orphans EXCEPT ![w] = orphans[w] \cup {agent[w]}]}
           /\ orphans' # orphans => agent[w] # NoOne
           /\ agent' = [agent EXCEPT ![w] = NoOne]
           /\ wire' = [wire EXCEPT ![w] = <<Line("prepared", Turn(s))>>]
           /\ step' = [step EXCEPT ![s] = "preparing"] /\ UNCHANGED <<pool, active, run>>
  <2>1. PoolInv'
    BY <1>1, <1>3, PoolMove DEF PiInv
  <2>2. orphans' \in [Worker -> SUBSET Turns]
    <3>1. CASE UNCHANGED orphans
      BY <3>1 DEF PiInv, WireTypes
    <3>2. CASE ~UNCHANGED orphans
      <4>1. orphans[w] \cup {agent[w]} \in SUBSET Turns
        BY <1>1, <1>3, <3>2 DEF PiInv, WireTypes
      <4> QED BY <1>3, <3>2, <4>1 DEF PiInv, WireTypes
    <3> QED BY <3>1, <3>2
  <2>3. wire' \in [Worker -> Seq(Lines)]
    <3>1. <<Line("prepared", Turn(s))>> \in Seq(Lines)
      BY <1>2
    <3> QED BY <1>3, <3>1 DEF PiInv, WireTypes
  <2> QED BY <1>3, <2>1, <2>2, <2>3 DEF PiInv, WireTypes
<1>4. CASE Leave(s, "failed") /\ UNCHANGED <<run, agent, wire, orphans>>
  BY <1>1, <1>4, LeaveStep DEF PiInv, WireTypes
<1>5. CASE /\ wire' = [wire EXCEPT ![w] = wire[w] \o <<Line("prepared", Turn(s))>>]
           /\ step' = [step EXCEPT ![s] = "preparing"]
           /\ UNCHANGED <<pool, active, run, agent, orphans>>
  <2>1. PoolInv'
    BY <1>1, <1>5, PoolMove DEF PiInv
  <2>2. wire' \in [Worker -> Seq(Lines)]
    BY <1>1, <1>2, <1>5 DEF PiInv, WireTypes
  <2> QED BY <1>5, <2>1, <2>2 DEF PiInv, WireTypes
<1>6. CASE /\ Abort(w, <<Line("prepared", Turn(s))>>)
           /\ step' = [step EXCEPT ![s] = "preparing"]
           /\ UNCHANGED <<pool, active, run, orphans>>
  <2>1. PoolInv'
    BY <1>1, <1>6, PoolMove DEF PiInv
  <2>2. wire' \in [Worker -> Seq(Lines)]
    <3>1. Aborted(w) \in Seq(Lines)
      BY <1>1, LinesOfAbort DEF PiInv
    <3>2. wire[w] \o (Aborted(w) \o <<Line("prepared", Turn(s))>>) \in Seq(Lines)
      BY <1>1, <1>2, <3>1 DEF PiInv, WireTypes
    <3> QED BY <1>6, <3>2 DEF PiInv, WireTypes, Abort, Put, Set
  <2> QED BY <1>6, <2>1, <2>2 DEF PiInv, WireTypes, Abort, Set
<1> QED
  <2>1. UNCHANGED run
    BY DEF Start
  <2> QED BY <1>3, <1>4, <1>5, <1>6, <2>1 DEF Start, Put, Set, adapter

(* The session of the first line, and what is left of the lines.           *)
LEMMA FirstLine ==
  ASSUME PiInv, NEW w \in Worker, wire[w] # <<>>
  PROVE  /\ Head(wire[w]).turn[1] \in Session /\ Tail(wire[w]) \in Seq(Lines)
         /\ w # NoOne
<1>1. wire[w] \in Seq(Lines)
  BY DEF PiInv, WireTypes
<1> QED BY <1>1, LinesTail DEF PiInv, PoolInv

(* An answer moves the run it belongs to, or is dropped.                   *)
LEMMA ResponseStep == ASSUME PiInv, NEW w \in Worker, Response(w) PROVE PiInv'
<1> DEFINE s == Head(wire[w]).turn[1]
           rest == Tail(wire[w])
<1>1. s \in Session /\ rest \in Seq(Lines) /\ w # NoOne /\ UNCHANGED <<run, orphans>>
  BY FirstLine DEF Response
<1>2. CASE on[s] = w /\ Prepared(w, s)
  <2>1. PoolInv'
    BY <1>1, <1>2, PoolMove DEF PiInv, Prepared, Set, Held
  <2>2. /\ Turn(s) \in Turns
        /\ Append(rest, Line("prompted", Turn(s))) \in Seq(Lines)
        /\ Append(rest, Line("rejected", Turn(s))) \in Seq(Lines)
    BY <1>1, LinesOfTurn DEF PiInv, Responses
  <2>3. WireTypes'
    BY <1>1, <1>2, <2>2 DEF PiInv, WireTypes, Prepared, Set
  <2> QED BY <2>1, <2>3 DEF PiInv
<1>3. CASE on[s] = w /\ Reading(w, s)
  <2>1. PoolInv'
    BY <1>1, <1>3, PoolMove DEF PiInv, Reading, Set, Held
  <2>2. WireTypes'
    BY <1>1, <1>3 DEF PiInv, WireTypes, Reading, Set
  <2> QED BY <2>1, <2>2 DEF PiInv
<1>4. CASE on[s] = w /\ Giveup(w, s, rest) /\ UNCHANGED <<pool, active>>
  BY <1>1, <1>4, GiveupStep
<1>5. CASE on[s] = w /\ Leave(s, "failed") /\ wire' = [wire EXCEPT ![w] = rest]
           /\ UNCHANGED agent
  <2>1. WireTypes'
    BY <1>1, <1>5 DEF PiInv, WireTypes
  <2> QED BY <1>1, <1>5, <2>1, LeaveStep
<1>6. CASE wire' = [wire EXCEPT ![w] = rest] /\ UNCHANGED <<pool, step, active, agent>>
  <2>1. WireTypes'
    BY <1>1, <1>6 DEF PiInv, WireTypes
  <2> QED BY <1>6, <2>1, QuietStep
<1> QED BY <1>2, <1>3, <1>4, <1>5, <1>6 DEF Response, Set

(* A worker that hears an end asks for the last text.                      *)
LEMMA HearStep ==
  ASSUME PiInv, NEW w \in Worker, NEW lines \in Seq(Lines), HearSettled(w, lines)
  PROVE  wire' \in [Worker -> Seq(Lines)]
<1>1. CASE active[w] # NoOne /\ wire' = [wire EXCEPT ![w] =
             Append(lines, Line("text", Turn(active[w])))]
  <2>1. active[w] \in Session
    BY <1>1 DEF PiInv, PoolInv, PoolTypes
  <2>2. Line("text", Turn(active[w])) \in Lines
    BY <2>1, LinesOfTurn DEF PiInv
  <2>3. Append(lines, Line("text", Turn(active[w]))) \in Seq(Lines)
    BY <2>2
  <2> QED BY <1>1, <2>3 DEF PiInv, WireTypes
<1>2. CASE wire' = [wire EXCEPT ![w] = lines]
  BY <1>2 DEF PiInv, WireTypes
<1> QED BY <1>1, <1>2 DEF HearSettled, Set

(* Text and the end of the agent leave the pool alone.                     *)
LEMMA EventStep == ASSUME PiInv, NEW w \in Worker, Event(w) PROVE PiInv'
<1>1. /\ Tail(wire[w]) \in Seq(Lines)
      /\ UNCHANGED <<pool, step, active, run, agent, orphans>>
  BY FirstLine DEF Event
<1>2. wire' \in [Worker -> Seq(Lines)]
  <2>1. CASE wire' = [wire EXCEPT ![w] = Tail(wire[w])]
    BY <1>1, <2>1 DEF PiInv, WireTypes
  <2>2. CASE HearSettled(w, Tail(wire[w]))
    BY <1>1, <2>2, HearStep
  <2> QED BY <2>1, <2>2 DEF Event, Set
<1> QED BY <1>1, <1>2, QuietStep DEF PiInv, WireTypes

(* A request for a dialog leaves the pool alone.                           *)
LEMMA DialogStep == ASSUME PiInv, NEW w \in Worker, DialogRequested(w) PROVE PiInv'
<1>1. Tail(wire[w]) \in Seq(Lines)
  BY FirstLine DEF DialogRequested
<1>2. WireTypes'
  BY <1>1 DEF DialogRequested, Set, PiInv, WireTypes
<1> QED BY <1>2, QuietStep DEF DialogRequested, adapter

(* The last text ends the run or makes it give up.                         *)
LEMMA CompletedStep == ASSUME PiInv, NEW w \in Worker, Completed(w) PROVE PiInv'
<1> DEFINE s == Head(wire[w]).turn[1]
           rest == Tail(wire[w])
<1>1. s \in Session /\ rest \in Seq(Lines) /\ UNCHANGED <<run, orphans>>
  BY FirstLine DEF Completed
<1>2. CASE on[s] = w /\ Leave(s, "completed") /\ wire' = [wire EXCEPT ![w] = rest]
           /\ UNCHANGED agent
  <2>1. WireTypes'
    BY <1>1, <1>2 DEF PiInv, WireTypes
  <2> QED BY <1>1, <1>2, <2>1, LeaveStep
<1>3. CASE on[s] = w /\ Giveup(w, s, rest) /\ UNCHANGED <<pool, active>>
  BY <1>1, <1>3, GiveupStep
<1>4. CASE wire' = [wire EXCEPT ![w] = rest] /\ UNCHANGED <<pool, step, active, agent>>
  <2>1. WireTypes'
    BY <1>1, <1>4 DEF PiInv, WireTypes
  <2> QED BY <1>4, <2>1, QuietStep
<1> QED BY <1>2, <1>3, <1>4 DEF Completed, Set

(* A dialog is offered, or its run is dropped.                             *)
LEMMA OfferStep == ASSUME PiInv, NEW s \in Session, Offer(s) PROVE PiInv'
<1>1. on[s] \in Worker /\ UNCHANGED <<run, agent, wire, orphans>>
  BY DEF Offer, PiInv, PoolInv, PoolTypes, Holders, Held
<1>2. WireTypes'
  BY <1>1 DEF PiInv, WireTypes
<1>3. CASE UNCHANGED <<pool, step, active>>
  BY <1>2, <1>3, QuietStep
<1>4. CASE Leave(s, "dropped")
  BY <1>1, <1>2, <1>4, LeaveStep
<1> QED BY <1>3, <1>4 DEF Offer

(* An abort without an end of the run.                                     *)
LEMMA AbortStep ==
  ASSUME PiInv, NEW w \in Worker, Abort(w, <<>>),
         UNCHANGED <<pool, step, active, run, orphans>>
  PROVE  PiInv'
<1>1. wire[w] \o (Aborted(w) \o <<>>) \in Seq(Lines)
  BY LinesOfAbort DEF PiInv, WireTypes
<1>2. WireTypes'
  BY <1>1 DEF Abort, Put, Set, PiInv, WireTypes
<1> QED BY <1>2, QuietStep

(* The agent adds lines of its own turn.                                   *)
LEMMA SpeaksStep == ASSUME PiInv, NEW w \in Worker, Speaks(w) \/ Asks(w) PROVE PiInv'
<1>1. /\ agent[w] \in Turns
      /\ UNCHANGED <<pool, step, active, run, agent, orphans>>
  BY DEF Speaks, Asks, runs, adapter, PiInv, WireTypes
<1>2. Line("delta", agent[w]) \in Lines /\ Line("dialog", agent[w]) \in Lines
  BY <1>1 DEF Line, Lines
<1>3. /\ wire[w] \o <<Line("delta", agent[w])>> \in Seq(Lines)
      /\ wire[w] \o <<Line("dialog", agent[w])>> \in Seq(Lines)
  BY <1>2 DEF PiInv, WireTypes
<1>4. wire' \in [Worker -> Seq(Lines)]
  BY <1>3 DEF Speaks, Asks, Put, Set, PiInv, WireTypes
<1> QED BY <1>1, <1>4, QuietStep DEF PiInv, WireTypes

(* A process that was left adds what its worker makes of it.               *)
LEMMA OrphanStep ==
  ASSUME PiInv, NEW w \in Worker, OrphanSpeaks(w) \/ OrphanSettles(w) PROVE PiInv'
<1>1. UNCHANGED <<pool, step, active, run, agent>>
  BY DEF OrphanSpeaks, OrphanSettles, runs, adapter
<1>2. orphans' \in [Worker -> SUBSET Turns]
  BY DEF OrphanSpeaks, OrphanSettles, Set, PiInv, WireTypes
<1>3. wire' \in [Worker -> Seq(Lines)]
  <2>1. wire[w] \in Seq(Lines)
    BY DEF PiInv, WireTypes
  <2>2. CASE OrphanSpeaks(w)
    BY <2>2 DEF OrphanSpeaks, PiInv, WireTypes
  <2>3. CASE OrphanSettles(w)
    BY <2>1, <2>3, HearStep DEF OrphanSettles
  <2> QED BY <2>2, <2>3
<1> QED BY <1>1, <1>2, <1>3, QuietStep DEF PiInv, WireTypes

(* An error of a process: the run that holds the worker gives up or ends.  *)
LEMMA FailsStep ==
  ASSUME PiInv, NEW w \in Worker, NEW alive \in BOOLEAN, Fails(w, alive),
         orphans' \in [Worker -> SUBSET Turns]
  PROVE  PiInv'
<1>1. UNCHANGED run
  BY DEF Fails
<1>2. ASSUME Remains(w, alive) PROVE WireTypes'
  BY <1>1, <1>2 DEF Remains, Set, PiInv, WireTypes
<1>3. CASE \E s \in Session : on[s] = w /\ Giveup(w, s, wire[w]) /\ UNCHANGED <<pool, active>>
  <2>1. PICK s \in Session : on[s] = w /\ Giveup(w, s, wire[w]) /\ UNCHANGED <<pool, active>>
    BY <1>3
  <2>2. wire[w] \o Aborted(w) \o <<Line("aborted", Turn(s))>> \in Seq(Lines)
    <3>1. wire[w] \in Seq(Lines) /\ Aborted(w) \in Seq(Lines)
      BY LinesOfAbort DEF PiInv, WireTypes
    <3>2. Line("aborted", Turn(s)) \in Lines
      BY LinesOfTurn DEF PiInv, Responses
    <3> QED BY <3>1, <3>2
  <2>3. WireTypes'
    BY <1>1, <2>1, <2>2 DEF Giveup, Set, PiInv, WireTypes
  <2>4. on[s] # NoOne /\ "aborting" \in Held
    BY <2>1 DEF PiInv, PoolInv, Held
  <2>5. PoolInv'
    BY <2>1, <2>4, PoolMove DEF Giveup, Set, PiInv
  <2> QED BY <2>3, <2>5 DEF PiInv
<1>4. CASE \E s \in Session : on[s] = w /\ Leave(s, "failed") /\ Remains(w, alive)
  BY <1>2, <1>4, LeaveStep
<1>5. CASE Remains(w, alive) /\ UNCHANGED <<pool, step, active>>
  BY <1>2, <1>5, QuietStep
<1> QED BY <1>3, <1>4, <1>5 DEF Fails

(* Every step keeps the invariant.                                         *)
LEMMA PiStep == PiInv /\ [Next]_vars => PiInv'
<1> SUFFICES ASSUME PiInv, [Next]_vars PROVE PiInv'
  OBVIOUS
<1>1. ASSUME NEW s \in Session, Answer(s) PROVE PiInv'
  <2>1. UNCHANGED <<pool, step, active, run, agent, wire, orphans>>
    BY <1>1 DEF Answer, adapter
  <2> QED BY <2>1, QuietStep DEF PiInv, WireTypes
<1>2. ASSUME NEW s \in Session, Cancel(s) PROVE PiInv'
  <2>1. on[s] \in Worker
    BY <1>2 DEF Cancel, PiInv, PoolInv, PoolTypes
  <2> QED BY <1>2, <2>1, AbortStep DEF Cancel, runs, adapter
<1>3. ASSUME NEW s \in Session, Timeout(s) PROVE PiInv'
  <2>1. on[s] \in Worker
    BY <1>3 DEF Timeout, PiInv, PoolInv, PoolTypes, Holders, Held
  <2>2. wire[on[s]] \in Seq(Lines)
    BY <2>1 DEF PiInv, WireTypes
  <2> QED BY <1>3, <2>1, <2>2, GiveupStep DEF Timeout, adapter
<1>4. ASSUME NEW w \in Worker, Settles(w) PROVE PiInv'
  BY <1>4, AbortStep DEF Settles, runs, adapter
<1>5. ASSUME NEW w \in Worker, Exit(w) \/ BrokenLine(w) \/ OrphanExits(w) PROVE PiInv'
  <2>1. orphans' \in [Worker -> SUBSET Turns]
    BY <1>5 DEF Exit, BrokenLine, OrphanExits, Set, PiInv, WireTypes
  <2> QED BY <1>5, <2>1, FailsStep DEF Exit, BrokenLine, OrphanExits
<1>6. CASE UNCHANGED vars
  BY <1>6, QuietStep DEF vars, runs, adapter, process, PiInv, WireTypes
<1> QED
  BY <1>1, <1>2, <1>3, <1>4, <1>5, <1>6, BeginStep, StartStep, OfferStep, ResponseStep,
     EventStep, DialogStep, CompletedStep, SpeaksStep, OrphanStep DEF Next, Deliver

(* The invariant of every reachable state.                                 *)
THEOREM PiInvariant == PiAssumption /\ Spec => []PiInv
  BY PiInit, PiStep, PTL DEF Spec

(* A worker is free or held by exactly one run, a run waits only while     *)
(* every worker is held, and a worker hears events for the run that holds  *)
(* it: the pool neither loses a worker nor lends it twice.                 *)
THEOREM PiWorkersConserved == PiAssumption /\ Spec => []WorkersConserved
<1>1. PiInv => WorkersConserved
  <2> SUFFICES ASSUME PiInv PROVE WorkersConserved
    OBVIOUS
  <2>1. ASSUME NEW w \in Worker
        PROVE  Cardinality({s \in Session : on[s] = w}) = IF w \in available THEN 0 ELSE 1
    <3>1. CASE w \in available
      <4>1. {s \in Session : on[s] = w} = {}
        BY <3>1 DEF PiInv, PoolInv, Holders
      <4> QED BY <3>1, <4>1, FS_EmptySet
    <3>2. CASE w \notin available
      <4>1. PICK t \in Session : on[t] = w
        BY <3>2 DEF PiInv, PoolInv, Holders
      <4>2. \A s \in Session : on[s] = w => s = t
        BY <4>1 DEF PiInv, PoolInv, Holders
      <4>3. {s \in Session : on[s] = w} = {t}
        BY <4>1, <4>2
      <4> QED BY <3>2, <4>3, FS_Singleton
    <3> QED BY <3>1, <3>2
  <2> QED BY <2>1 DEF WorkersConserved, PiInv, PoolInv, Holders, Queue
<1> QED BY <1>1, PiInvariant, PTL
-----------------------------------------------------------------------------
(* The other types.                                                        *)

(* The rest of the state has its types.                                    *)
PiTypes ==
  /\ broken \in [Worker -> {"no", "alive", "dead"}]
  /\ dialog \in [Session -> {"none", "new", "open"}]
  /\ verdict \in [Session -> {"none", "completed", "failed", "dropped"}]
  /\ settling \subseteq Worker /\ blocked \subseteq Worker
  /\ words \in [Session -> SUBSET Turns]
  /\ last \in [Session -> Turns \cup {NoOne}] /\ spoken \subseteq Turns

(* The turn of the first line.                                             *)
LEMMA FirstTurn ==
  ASSUME PiInv, NEW w \in Worker, wire[w] # <<>>
  PROVE  /\ Head(wire[w]) \in Lines /\ Head(wire[w]).turn \in Turns
         /\ Head(wire[w]).turn[1] \in Session
<1>1. wire[w] \in Seq(Lines)
  BY DEF PiInv, WireTypes
<1>2. Head(wire[w]) \in Lines
  BY <1>1, LinesTail
<1> QED BY <1>2 DEF Lines, Turns

(* What is recorded is a turn.                                             *)
LEMMA RecordedTypes ==
  ASSUME PiTypes, NEW t \in Turns PROVE Recorded(t) \in [Session -> Turns \cup {NoOne}]
BY DEF PiTypes, Recorded, Set, Turns

(* The session files name turns.                                           *)
LEMMA AgentTypes ==
  ASSUME PiInv, PiTypes, NEW w \in Worker,
         last' = IF agent[w] = NoOne THEN last ELSE Recorded(agent[w])
  PROVE  last' \in [Session -> Turns \cup {NoOne}]
<1>1. CASE agent[w] = NoOne
  BY <1>1 DEF PiTypes
<1>2. CASE agent[w] # NoOne
  BY <1>2, RecordedTypes DEF PiInv, WireTypes
<1> QED BY <1>1, <1>2

(* Types are kept by what the handlers share.                              *)
LEMMA TypesParts ==
  ASSUME PiInv, PiTypes
  PROVE  /\ \A s \in Session, v \in {"none", "completed", "failed", "dropped"} :
              Leave(s, v) => /\ dialog' \in [Session -> {"none", "new", "open"}]
                             /\ verdict' \in [Session -> {"none", "completed", "failed", "dropped"}]
                             /\ settling' \subseteq Worker
         /\ \A s \in Session : CancelDialog(s) => blocked' \subseteq Worker
         /\ \A w \in Worker, s \in Session : \A lines : Giveup(w, s, lines) =>
              blocked' \subseteq Worker /\ last' \in [Session -> Turns \cup {NoOne}]
         /\ \A w \in Worker : \A lines : Abort(w, lines) =>
              blocked' \subseteq Worker /\ last' \in [Session -> Turns \cup {NoOne}]
<1>1. \A s \in Session, v \in {"none", "completed", "failed", "dropped"} :
        Leave(s, v) => /\ dialog' \in [Session -> {"none", "new", "open"}]
                       /\ verdict' \in [Session -> {"none", "completed", "failed", "dropped"}]
                       /\ settling' \subseteq Worker
  BY DEF PiTypes, Leave, Set
<1>2. \A s \in Session : CancelDialog(s) => blocked' \subseteq Worker
  BY DEF PiTypes, CancelDialog
<1>3. \A w \in Worker, s \in Session : \A lines : Giveup(w, s, lines) =>
        blocked' \subseteq Worker /\ last' \in [Session -> Turns \cup {NoOne}]
  BY AgentTypes DEF PiTypes, Giveup
<1>4. \A w \in Worker : \A lines : Abort(w, lines) =>
        blocked' \subseteq Worker /\ last' \in [Session -> Turns \cup {NoOne}]
  BY AgentTypes DEF PiTypes, Abort
<1> QED BY <1>1, <1>2, <1>3, <1>4

(* Every step keeps the types.                                             *)
LEMMA TypesStep == ASSUME PiInv, PiTypes, [Next]_vars PROVE PiTypes'
<1>1. ASSUME NEW s \in Session, Begin(s) PROVE PiTypes'
  BY <1>1 DEF Begin, PiTypes, Set, adapter, process
<1>2. ASSUME NEW s \in Session, Start(s) PROVE PiTypes'
  <2>1. UNCHANGED <<words, spoken>> /\ on[s] \in Worker
    BY <1>2 DEF Start, PiInv, PoolInv, PoolTypes, Holders, Held
  <2>2. CASE Leave(s, "failed") /\ UNCHANGED <<broken, blocked, last>>
    BY <2>1, <2>2, TypesParts DEF PiTypes
  <2>3. CASE Abort(on[s], <<Line("prepared", Turn(s))>>) /\ UNCHANGED <<dialog, verdict, adapter>>
    BY <2>1, <2>3, TypesParts DEF PiTypes, adapter
  <2> QED BY <1>2, <2>1, <2>2, <2>3 DEF Start, PiTypes, Set, adapter
<1>3. ASSUME NEW w \in Worker, Response(w) PROVE PiTypes'
  <2> DEFINE s == Head(wire[w]).turn[1]
  <2>1. s \in Session /\ UNCHANGED <<broken, spoken>>
    BY <1>3, FirstTurn DEF Response
  <2>2. CASE Prepared(w, s)
    BY <2>1, <2>2 DEF Prepared, PiTypes
  <2>3. CASE Reading(w, s)
    BY <2>1, <2>3 DEF Reading, PiTypes
  <2>4. CASE Giveup(w, s, Tail(wire[w])) /\ UNCHANGED <<pool, words, dialog, verdict, current, active, settling>>
    BY <2>1, <2>4, TypesParts DEF PiTypes
  <2>5. CASE Leave(s, "failed") /\ CancelDialog(s) /\ UNCHANGED <<words, current, agent, last>>
    BY <2>1, <2>5, TypesParts DEF PiTypes
  <2>6. CASE UNCHANGED <<pool, words, step, dialog, verdict, current, active, settling, agent, blocked, last>>
    BY <2>1, <2>6 DEF PiTypes
  <2> QED BY <1>3, <2>2, <2>3, <2>4, <2>5, <2>6 DEF Response
<1>4. ASSUME NEW w \in Worker, Event(w) PROVE PiTypes'
  <2>1. Head(wire[w]).turn \in Turns
    BY <1>4, FirstTurn DEF Event
  <2>2. words' \in [Session -> SUBSET Turns]
    BY <1>4, <2>1 DEF Event, HearText, Set, PiTypes
  <2>3. settling' \subseteq Worker
    BY <1>4 DEF Event, HearSettled, PiTypes
  <2> QED BY <1>4, <2>2, <2>3 DEF Event, PiTypes
<1>5. ASSUME NEW w \in Worker, DialogRequested(w) PROVE PiTypes'
  BY <1>5 DEF DialogRequested, PiTypes, Set, adapter
<1>6. ASSUME NEW w \in Worker, Completed(w) PROVE PiTypes'
  <2> DEFINE s == Head(wire[w]).turn[1]
             said == IF words[s] = {} /\ last[s] # NoOne THEN {last[s]} ELSE words[s]
  <2>1. s \in Session /\ UNCHANGED <<broken, spoken>>
    BY <1>6, FirstTurn DEF Completed
  <2>2. said \in SUBSET Turns
    BY <2>1 DEF PiTypes
  <2>3. CASE words' = Set(words, s, said) /\ Leave(s, "completed") /\ CancelDialog(s) /\ UNCHANGED <<agent, last>>
    <3>1. words' \in [Session -> SUBSET Turns]
      BY <2>1, <2>2, <2>3 DEF PiTypes, Set
    <3> QED BY <2>1, <2>3, <3>1, TypesParts DEF PiTypes
  <2>4. CASE Giveup(w, s, Tail(wire[w])) /\ UNCHANGED <<pool, words, dialog, verdict, active, settling>>
    BY <2>1, <2>4, TypesParts DEF PiTypes
  <2>5. CASE UNCHANGED <<pool, words, step, dialog, verdict, active, settling, agent, blocked, last>>
    BY <2>1, <2>5 DEF PiTypes
  <2> HIDE DEF said
  <2> QED BY <1>6, <2>3, <2>4, <2>5 DEF Completed, said
<1>7. ASSUME NEW s \in Session, Offer(s) PROVE PiTypes'
  <2>1. UNCHANGED <<broken, words, last, spoken>>
    BY <1>7 DEF Offer
  <2>2. CASE CancelDialog(s) /\ Leave(s, "dropped")
    BY <2>1, <2>2, TypesParts DEF PiTypes
  <2>3. CASE dialog' = Set(dialog, s, "open") /\ UNCHANGED <<verdict, settling, blocked>>
    BY <2>1, <2>3 DEF PiTypes, Set
  <2> QED BY <1>7, <2>2, <2>3 DEF Offer
<1>8. ASSUME NEW s \in Session, Answer(s) PROVE PiTypes'
  BY <1>8 DEF Answer, PiTypes, Set, adapter
<1>9. ASSUME NEW s \in Session, Cancel(s) PROVE PiTypes'
  <2>1. on[s] \in Worker
    BY <1>9 DEF Cancel, PiInv, PoolInv, PoolTypes
  <2> QED BY <1>9, <2>1, TypesParts DEF Cancel, PiTypes, runs, adapter
<1>10. ASSUME NEW s \in Session, Timeout(s) PROVE PiTypes'
  <2>1. on[s] \in Worker
    BY <1>10 DEF Timeout, PiInv, PoolInv, PoolTypes, Holders, Held
  <2> QED BY <1>10, <2>1, TypesParts DEF Timeout, PiTypes, adapter
<1>11. ASSUME NEW w \in Worker, Speaks(w) \/ Asks(w) PROVE PiTypes'
  <2>1. agent[w] \in Turns
    BY <1>11 DEF Speaks, Asks, PiInv, WireTypes
  <2> QED BY <1>11, <2>1 DEF Speaks, Asks, PiTypes, runs, adapter
<1>12. ASSUME NEW w \in Worker, Settles(w) PROVE PiTypes'
  BY <1>12, TypesParts DEF Settles, PiTypes, runs, adapter
<1>13. ASSUME NEW w \in Worker, OrphanSpeaks(w) PROVE PiTypes'
  <2>1. PICK t \in orphans[w] \ spoken : HearText(w, t) /\ spoken' = spoken \cup {t}
    BY <1>13 DEF OrphanSpeaks
  <2>2. t \in Turns
    BY DEF PiInv, WireTypes
  <2>3. words' \in [Session -> SUBSET Turns]
    BY <2>1, <2>2 DEF HearText, Set, PiTypes
  <2> QED BY <1>13, <2>1, <2>2, <2>3 DEF OrphanSpeaks, PiTypes, adapter
<1>14. ASSUME NEW w \in Worker, OrphanSettles(w) PROVE PiTypes'
  <2>1. PICK t \in orphans[w] : last' = Recorded(t) /\ HearSettled(w, wire[w])
    BY <1>14 DEF OrphanSettles
  <2>2. t \in Turns
    BY DEF PiInv, WireTypes
  <2>3. last' \in [Session -> Turns \cup {NoOne}] /\ settling' \subseteq Worker
    BY <2>1, <2>2, RecordedTypes DEF HearSettled, PiTypes
  <2> QED BY <1>14, <2>3 DEF OrphanSettles, PiTypes, runs
<1>15. ASSUME NEW w \in Worker, Exit(w) \/ BrokenLine(w) \/ OrphanExits(w) PROVE PiTypes'
  <2>1. PICK alive \in BOOLEAN : Fails(w, alive)
    BY <1>15 DEF Exit, BrokenLine, OrphanExits
  <2>2. UNCHANGED <<words, spoken>> /\ broken' \in [Worker -> {"no", "alive", "dead"}]
    BY <2>1 DEF Fails, Set, PiTypes
  <2>3. Remains(w, alive) => blocked' \subseteq Worker /\ last' = last
    BY DEF Remains, PiTypes
  <2>4. CASE \E s \in Session : Giveup(w, s, wire[w]) /\ UNCHANGED <<pool, dialog, verdict, active, settling>>
    BY <2>2, <2>4, TypesParts DEF PiTypes
  <2>5. CASE \E s \in Session : Leave(s, "failed") /\ Remains(w, alive)
    BY <2>2, <2>3, <2>5, TypesParts DEF PiTypes
  <2>6. CASE Remains(w, alive) /\ UNCHANGED <<pool, step, dialog, verdict, active, settling>>
    BY <2>2, <2>3, <2>6 DEF PiTypes
  <2> QED BY <2>1, <2>4, <2>5, <2>6 DEF Fails
<1>16. CASE UNCHANGED vars
  BY <1>16 DEF vars, runs, adapter, process, PiTypes
<1> QED
  BY <1>1, <1>2, <1>3, <1>4, <1>5, <1>6, <1>7, <1>8, <1>9, <1>10, <1>11, <1>12, <1>13,
     <1>14, <1>15, <1>16 DEF Next, Deliver

-----------------------------------------------------------------------------
(* Dialogs.                                                                *)

(* There is a request for a dialog among the lines q.                      *)
DialogIn(q) == \E i \in 1 .. Len(q) : q[i].m = "dialog"

(* An agent that waits for a dialog still has its request on the wire, or   *)
(* the run that holds the worker has it.                                   *)
KeeperAt(w) ==
  w \in blocked => DialogIn(wire[w]) \/ \E s \in Session : on[s] = w /\ dialog[s] # "none"

(* A worker is active, and a dialog open, for a run past its prompt; an    *)
(* agent that waits is at work, and none is while its run aborts.          *)
Blocks ==
  /\ \A w \in Worker : active[w] # NoOne => step[active[w]] \in {"prompting", "reading", "aborting"}
  /\ \A s \in Session : dialog[s] # "none" => on[s] # NoOne /\ active[on[s]] = s
  /\ \A s \in Session : step[s] = "aborting" => agent[on[s]] = NoOne
  /\ \A w \in blocked : agent[w] # NoOne

(* The invariant for dialogs.                                              *)
KeeperInv == Blocks /\ \A w \in Worker : KeeperAt(w)

(* A request stays among the lines that are left.                          *)
LEMMA DialogKept ==
  ASSUME NEW q \in Seq(Lines), NEW r \in Seq(Lines), DialogIn(q)
  PROVE  DialogIn(q \o r) /\ (Head(q).m # "dialog" => DialogIn(Tail(q)))
<1>1. PICK i \in 1 .. Len(q) : q[i].m = "dialog"
  BY DEF DialogIn
<1>2. i \in 1 .. Len(q \o r) /\ (q \o r)[i] = q[i]
  OBVIOUS
<1>3. ASSUME Head(q).m # "dialog" PROVE DialogIn(Tail(q))
  <2>1. i # 1
    BY <1>1, <1>3
  <2>2. i - 1 \in 1 .. Len(Tail(q)) /\ Tail(q)[i - 1] = q[i]
    BY <2>1
  <2> QED BY <1>1, <2>2 DEF DialogIn
<1> QED BY <1>1, <1>2, <1>3 DEF DialogIn

(* A line added keeps a request.                                           *)
LEMMA DialogKeptBy ==
  ASSUME NEW q \in Seq(Lines), NEW x \in Lines, DialogIn(q)
  PROVE  DialogIn(q \o <<x>>) /\ DialogIn(Append(q, x))
<1>1. <<x>> \in Seq(Lines) /\ Append(q, x) = q \o <<x>>
  OBVIOUS
<1> QED BY <1>1, DialogKept

(* What Leave does to the runs: its worker goes to nobody, or to a run     *)
(* that waited.                                                            *)
LEMMA LeaveFacts ==
  ASSUME PiInv, PiTypes, NEW s \in Session, NEW w \in Worker, on[s] = w, NEW v, Leave(s, v)
  PROVE  /\ w # NoOne /\ step'[s] = "idle" /\ on'[s] = NoOne
         /\ active' = [active EXCEPT ![w] = NoOne] /\ settling' = settling \ {w}
         /\ dialog' = [dialog EXCEPT ![s] = "none"] /\ verdict' = [verdict EXCEPT ![s] = v]
         /\ \A t \in Session : t # s =>
              \/ on'[t] = on[t] /\ step'[t] = step[t]
              \/ on[t] = NoOne /\ on'[t] = w /\ step[t] = "waiting" /\ step'[t] = "granted"
<1>1. /\ active' = [active EXCEPT ![w] = NoOne] /\ settling' = settling \ {w}
      /\ dialog' = [dialog EXCEPT ![s] = "none"] /\ verdict' = [verdict EXCEPT ![s] = v]
      /\ w # NoOne
  BY DEF Leave, Set, PiInv, PoolInv
<1>2. CASE on' = [on EXCEPT ![s] = NoOne] /\ step' = [step EXCEPT ![s] = "idle"]
  BY <1>1, <1>2 DEF PiInv, PoolInv, PoolTypes
<1>3. CASE /\ waiters # <<>>
           /\ on' = [on EXCEPT ![s] = NoOne, ![Head(waiters)] = w]
           /\ step' = [step EXCEPT ![s] = "idle", ![Head(waiters)] = "granted"]
  <2> DEFINE h == Head(waiters)
  <2>1. h \in Session /\ step[h] = "waiting" /\ 1 \in DOMAIN waiters
    BY <1>3 DEF PiInv, PoolInv, PoolTypes, Queue
  <2>2. on[h] = NoOne /\ h # s
    BY <1>1, <2>1 DEF PiInv, PoolInv, Holders, Held
  <2> QED BY <1>1, <1>3, <2>1, <2>2 DEF PiInv, PoolInv, PoolTypes
<1> QED BY <1>1, <1>2, <1>3 DEF Leave, Set

(* A run leaves, and its agent waits for no dialog of its own.             *)
LEMMA KeeperLeave ==
  ASSUME PiInv, PiTypes, KeeperInv, NEW s \in Session, NEW w \in Worker, on[s] = w, NEW v,
         Leave(s, v), agent' \in {agent, [agent EXCEPT ![w] = NoOne]},
         blocked' \in {blocked, blocked \ {w}},
         w \in blocked' => /\ dialog[s] = "none" /\ agent'[w] = agent[w]
                           /\ DialogIn(wire[w]) => DialogIn(wire'[w]),
         \A x \in Worker \ {w} : wire'[x] = wire[x]
  PROVE  KeeperInv'
<1>1. /\ w # NoOne /\ step'[s] = "idle" /\ on'[s] = NoOne
      /\ active' = [active EXCEPT ![w] = NoOne] /\ dialog' = [dialog EXCEPT ![s] = "none"]
      /\ \A t \in Session : t # s =>
           \/ on'[t] = on[t] /\ step'[t] = step[t]
           \/ on[t] = NoOne /\ on'[t] = w /\ step[t] = "waiting" /\ step'[t] = "granted"
  BY LeaveFacts
<1>2. /\ \A x \in Worker : active'[x] = IF x = w THEN NoOne ELSE active[x]
      /\ \A t \in Session : dialog'[t] = IF t = s THEN "none" ELSE dialog[t]
      /\ \A x \in Worker \ {w} : agent'[x] = agent[x]
  BY <1>1 DEF PiInv, PoolInv, PoolTypes, PiTypes, WireTypes
<1>3. /\ \A x \in Worker : active[x] # NoOne => active[x] \in Session /\ on[active[x]] = x
      /\ \A t \in Session : on[t] \in Worker \cup {NoOne}
      /\ \A t, u \in Session : on[t] = on[u] /\ on[t] # NoOne => t = u
      /\ \A t \in Session : step[t] = "aborting" => on[t] # NoOne
  BY DEF PiInv, PoolInv, PoolTypes, Holders, Held
<1>4. Blocks'
  <2>1. ASSUME NEW x \in Worker, active'[x] # NoOne
        PROVE  step'[active'[x]] \in {"prompting", "reading", "aborting"}
    <3>1. x # w /\ active'[x] = active[x] /\ active[x] \in Session /\ on[active[x]] = x
      BY <1>2, <1>3, <2>1
    <3>2. active[x] # s /\ on[active[x]] # NoOne
      BY <3>1 DEF PiInv, PoolInv
    <3>3. step'[active[x]] = step[active[x]]
      BY <1>1, <3>1, <3>2
    <3> QED BY <2>1, <3>1, <3>3 DEF KeeperInv, Blocks
  <2>2. ASSUME NEW t \in Session, dialog'[t] # "none"
        PROVE  on'[t] # NoOne /\ active'[on'[t]] = t
    <3>1. t # s /\ on[t] # NoOne /\ active[on[t]] = t /\ on[t] \in Worker
      BY <1>2, <1>3, <2>2 DEF KeeperInv, Blocks
    <3> QED BY <1>1, <1>2, <1>3, <3>1
  <2>3. ASSUME NEW t \in Session, step'[t] = "aborting" PROVE agent'[on'[t]] = NoOne
    <3>1. t # s /\ on'[t] = on[t] /\ step[t] = "aborting"
      BY <1>1, <2>3
    <3> QED BY <1>2, <1>3, <3>1 DEF KeeperInv, Blocks
  <2>4. ASSUME NEW x \in blocked' PROVE agent'[x] # NoOne
    BY <1>2 DEF KeeperInv, Blocks, PiTypes
  <2> QED BY <2>1, <2>2, <2>3, <2>4 DEF Blocks
<1>5. ASSUME NEW x \in Worker, x # w PROVE KeeperAt(x)'
  BY <1>1, <1>2, <1>5 DEF KeeperInv, KeeperAt, PiInv, PoolInv
<1>6. KeeperAt(w)'
  BY <1>1, <1>3 DEF KeeperInv, KeeperAt
<1> QED BY <1>4, <1>5, <1>6 DEF KeeperInv

(* A run gives up: its agent has settled and waits for nothing.            *)
LEMMA KeeperGiveup ==
  ASSUME PiInv, PiTypes, KeeperInv, NEW s \in Session, NEW w \in Worker, on[s] = w, NEW lines,
         Giveup(w, s, lines), UNCHANGED <<pool, dialog, active>>
  PROVE  KeeperInv'
<1>1. w # NoOne /\ step' = [step EXCEPT ![s] = "aborting"] /\ agent' = [agent EXCEPT ![w] = NoOne]
      /\ blocked' = blocked \ {w} /\ \A x \in Worker \ {w} : wire'[x] = wire[x]
  BY DEF Giveup, Set, PiInv, PoolInv, WireTypes
<1>2. Blocks'
  BY <1>1 DEF KeeperInv, Blocks, PiInv, PoolInv, PoolTypes, Holders, Held, WireTypes, PiTypes, pool
<1>3. ASSUME NEW x \in Worker PROVE KeeperAt(x)'
  BY <1>1, <1>3 DEF KeeperInv, KeeperAt, pool
<1> QED BY <1>2, <1>3 DEF KeeperInv

(* The agent of one worker settles, or nothing of it changes.              *)
LEMMA KeeperQuiet ==
  ASSUME PiInv, PiTypes, KeeperInv, NEW w \in Worker, UNCHANGED <<pool, step, dialog, active>>,
         \/ agent' = agent /\ blocked' \in {blocked, blocked \ {w}}
         \/ agent' = [agent EXCEPT ![w] = NoOne] /\ blocked' = blocked \ {w},
         \A x \in Worker \ {w} : wire'[x] = wire[x],
         w \in blocked' /\ DialogIn(wire[w]) => DialogIn(wire'[w])
  PROVE  KeeperInv'
<1>1. Blocks'
  BY DEF KeeperInv, Blocks, PiInv, PoolInv, PoolTypes, Holders, Held, WireTypes, PiTypes, pool
<1>2. ASSUME NEW x \in Worker PROVE KeeperAt(x)'
  BY <1>2 DEF KeeperInv, KeeperAt, pool
<1> QED BY <1>1, <1>2 DEF KeeperInv

(* A run goes on to a step before its prompt.                              *)
LEMMA KeeperMove ==
  ASSUME PiInv, PiTypes, KeeperInv, NEW s \in Session, NEW w \in Worker, on[s] = w,
         UNCHANGED <<dialog, active, pool>>, step[s] = "granted",
         step' = [step EXCEPT ![s] = "preparing"],
         \/ agent' = agent /\ blocked' = blocked
         \/ agent' = [agent EXCEPT ![w] = NoOne] /\ blocked' = blocked \ {w},
         \A x \in Worker \ {w} : wire'[x] = wire[x],
         w \in blocked' /\ DialogIn(wire[w]) => DialogIn(wire'[w])
  PROVE  KeeperInv'
<1>1. Blocks'
  BY DEF KeeperInv, Blocks, PiInv, PoolInv, PoolTypes, Holders, Held, WireTypes, PiTypes, pool
<1>2. ASSUME NEW x \in Worker PROVE KeeperAt(x)'
  BY <1>2 DEF KeeperInv, KeeperAt, pool
<1> QED BY <1>1, <1>2 DEF KeeperInv

(* The lines of a worker as a sequence, and those of the others.           *)
LEMMA WireAt ==
  ASSUME PiInv, NEW w \in Worker
  PROVE  /\ wire[w] \in Seq(Lines) /\ Aborted(w) \in Seq(Lines)
         /\ \A q : wire' = [wire EXCEPT ![w] = q] =>
              wire'[w] = q /\ \A x \in Worker \ {w} : wire'[x] = wire[x]
BY LinesOfAbort DEF PiInv, WireTypes

(* A run that begins has no worker yet, or one nobody used.                *)
LEMMA KeeperBegin == ASSUME PiInv, PiTypes, KeeperInv, NEW s \in Session, Begin(s) PROVE KeeperInv'
<1>1. /\ step[s] = "idle" /\ UNCHANGED <<dialog, active, agent, blocked, wire>>
      /\ \A t \in Session : t # s => on'[t] = on[t] /\ step'[t] = step[t]
      /\ on[s] = NoOne
  BY DEF Begin, Set, adapter, process, PiInv, PoolInv, PoolTypes, Holders, Held
<1>2. step'[s] \in {"granted", "waiting"}
  BY DEF Begin, Set, PiInv, PoolInv, PoolTypes
<1>3. Blocks'
  BY <1>1, <1>2 DEF KeeperInv, Blocks, PiInv, PoolInv, PoolTypes, Holders, Held
<1>4. ASSUME NEW x \in Worker PROVE KeeperAt(x)'
  BY <1>1, <1>4 DEF KeeperInv, KeeperAt, PiInv, PoolInv
<1> QED BY <1>3, <1>4 DEF KeeperInv

(* The agent of a worker that changes its session is aborted, or its       *)
(* process left.                                                           *)
LEMMA KeeperStart == ASSUME PiInv, PiTypes, KeeperInv, NEW s \in Session, Start(s) PROVE KeeperInv'
<1> DEFINE w == on[s]
<1>1. w \in Worker /\ step[s] = "granted" /\ dialog[s] = "none"
  BY DEF Start, PiInv, PoolInv, PoolTypes, Holders, Held, KeeperInv, Blocks
<1>2. Line("prepared", Turn(s)) \in Lines
  BY LinesOfTurn DEF PiInv, Responses
<1>3. CASE /\ blocked' = blocked \ {w} /\ agent' = [agent EXCEPT ![w] = NoOne]
           /\ \E q : wire' = [wire EXCEPT ![w] = q]
           /\ step' = [step EXCEPT ![s] = "preparing"] /\ UNCHANGED <<pool, dialog, active>>
  BY <1>1, <1>3, WireAt, KeeperMove
<1>4. CASE Leave(s, "failed") /\ UNCHANGED <<agent, blocked, wire>>
  BY <1>1, <1>4, KeeperLeave
<1>5. CASE /\ wire' = [wire EXCEPT ![w] = wire[w] \o <<Line("prepared", Turn(s))>>]
           /\ step' = [step EXCEPT ![s] = "preparing"]
           /\ UNCHANGED <<pool, dialog, active, agent, blocked>>
  <2>1. DialogIn(wire[w]) => DialogIn(wire'[w])
    BY <1>1, <1>2, <1>5, WireAt, DialogKeptBy
  <2> QED BY <1>1, <1>5, <2>1, WireAt, KeeperMove
<1>6. CASE /\ Abort(w, <<Line("prepared", Turn(s))>>)
           /\ step' = [step EXCEPT ![s] = "preparing"] /\ UNCHANGED <<pool, dialog, active>>
  BY <1>1, <1>6, WireAt, KeeperMove DEF Abort, Put, Set
<1> QED BY <1>3, <1>4, <1>5, <1>6 DEF Start, Put, Set, adapter

(* The answers move runs, none of them is a request.                       *)
LEMMA KeeperResponse ==
  ASSUME PiInv, PiTypes, KeeperInv, NEW w \in Worker, Response(w) PROVE KeeperInv'
<1> DEFINE s == Head(wire[w]).turn[1]
           rest == Tail(wire[w])
<1>1. s \in Session /\ w # NoOne /\ wire[w] # <<>>
  BY FirstLine DEF Response
<1>2. wire[w] \in Seq(Lines) /\ rest \in Seq(Lines)
  BY <1>1, WireAt, FirstLine
<1>3. Head(wire[w]).m # "dialog" /\ (DialogIn(wire[w]) => DialogIn(rest))
  BY <1>2, DialogKept DEF Response, Responses
<1>4. CASE on[s] = w /\ step[s] = "preparing" /\ Prepared(w, s)
  <2>1. /\ active' = [active EXCEPT ![w] = s] /\ step' = [step EXCEPT ![s] = "prompting"]
        /\ agent' = agent \/ (agent[w] = NoOne /\ agent' = [agent EXCEPT ![w] = Turn(s)])
        /\ UNCHANGED <<pool, dialog, blocked>>
    BY <1>4 DEF Prepared, Set
  <2>2. \A x \in Worker \ {w} : wire'[x] = wire[x]
    BY <1>4, WireAt DEF Prepared, Set
  <2>3. DialogIn(wire[w]) => DialogIn(wire'[w])
    <3>1. PICK m \in Responses : wire' = [wire EXCEPT ![w] = Append(rest, Line(m, Turn(s)))]
      BY <1>4 DEF Prepared, Set, Responses
    <3>2. Line(m, Turn(s)) \in Lines
      BY <1>1, LinesOfTurn DEF PiInv
    <3>3. wire'[w] = Append(rest, Line(m, Turn(s)))
      BY <3>1, WireAt
    <3> QED BY <1>2, <1>3, <3>2, <3>3, DialogKeptBy
  <2>4. Blocks'
    BY <1>1, <1>4, <2>1 DEF KeeperInv, Blocks, PiInv, PoolInv, PoolTypes, Holders, Held, WireTypes,
       PiTypes, pool
  <2>5. ASSUME NEW x \in Worker PROVE KeeperAt(x)'
    BY <2>1, <2>2, <2>3, <2>5 DEF KeeperInv, KeeperAt, pool
  <2> QED BY <2>4, <2>5 DEF KeeperInv
<1>5. CASE on[s] = w /\ step[s] = "prompting" /\ Reading(w, s)
  <2>1. /\ step' = [step EXCEPT ![s] = "reading"] /\ wire' = [wire EXCEPT ![w] = rest]
        /\ UNCHANGED <<pool, dialog, active, agent, blocked>>
    BY <1>5 DEF Reading, Set
  <2>2. Blocks'
    BY <1>1, <1>5, <2>1 DEF KeeperInv, Blocks, PiInv, PoolInv, PoolTypes, Holders, Held, pool
  <2>3. ASSUME NEW x \in Worker PROVE KeeperAt(x)'
    BY <1>3, <2>1, <2>3, WireAt DEF KeeperInv, KeeperAt, pool
  <2> QED BY <2>2, <2>3 DEF KeeperInv
<1>6. CASE on[s] = w /\ Giveup(w, s, rest) /\ UNCHANGED <<pool, dialog, active>>
  BY <1>1, <1>6, KeeperGiveup
<1>7. CASE /\ on[s] = w /\ Leave(s, "failed") /\ CancelDialog(s)
           /\ wire' = [wire EXCEPT ![w] = rest] /\ UNCHANGED agent
  <2>1. blocked' \in {blocked, blocked \ {w}} /\ (w \in blocked' => dialog[s] = "none")
    BY <1>7 DEF CancelDialog
  <2>2. wire'[w] = rest /\ \A x \in Worker \ {w} : wire'[x] = wire[x]
    BY <1>7, WireAt
  <2> QED BY <1>1, <1>3, <1>7, <2>1, <2>2, KeeperLeave
<1>8. CASE wire' = [wire EXCEPT ![w] = rest] /\ UNCHANGED <<pool, step, dialog, active, agent, blocked>>
  BY <1>3, <1>8, WireAt, KeeperQuiet
<1> QED BY <1>4, <1>5, <1>6, <1>7, <1>8 DEF Response, Set

(* Asking for the last text keeps the requests.                            *)
LEMMA KeeperHears ==
  ASSUME PiInv, NEW w \in Worker, NEW q \in Seq(Lines), HearSettled(w, q)
  PROVE  /\ DialogIn(q) => DialogIn(wire'[w])
         /\ \A x \in Worker \ {w} : wire'[x] = wire[x]
<1>1. CASE active[w] # NoOne /\ wire' = [wire EXCEPT ![w] = Append(q, Line("text", Turn(active[w])))]
  <2>1. active[w] \in Session
    BY <1>1 DEF PiInv, PoolInv, PoolTypes
  <2>2. Line("text", Turn(active[w])) \in Lines
    BY <2>1, LinesOfTurn DEF PiInv
  <2>3. /\ wire'[w] = Append(q, Line("text", Turn(active[w])))
        /\ \A x \in Worker \ {w} : wire'[x] = wire[x]
    BY <1>1, WireAt
  <2> QED BY <2>2, <2>3, DialogKeptBy
<1>2. CASE wire' = [wire EXCEPT ![w] = q]
  BY <1>2, WireAt
<1> QED BY <1>1, <1>2 DEF HearSettled, Set

(* Text and the end of the agent keep the requests.                        *)
LEMMA KeeperEvent ==
  ASSUME PiInv, PiTypes, KeeperInv, NEW w \in Worker, Event(w) PROVE KeeperInv'
<1>1. wire[w] # <<>> /\ Head(wire[w]).m # "dialog" /\ wire[w] \in Seq(Lines) /\ Tail(wire[w]) \in Seq(Lines)
  BY WireAt, FirstLine DEF Event
<1>2. DialogIn(wire[w]) => DialogIn(Tail(wire[w]))
  BY <1>1, DialogKept
<1>3. /\ DialogIn(wire[w]) => DialogIn(wire'[w])
      /\ \A x \in Worker \ {w} : wire'[x] = wire[x]
  BY <1>1, <1>2, WireAt, KeeperHears DEF Event, Set
<1> QED BY <1>3, KeeperQuiet DEF Event

(* The active run takes the request, or it is cancelled.                   *)
LEMMA KeeperDialog ==
  ASSUME PiInv, PiTypes, KeeperInv, NEW w \in Worker, DialogRequested(w) PROVE KeeperInv'
<1>1. UNCHANGED <<pool, step, active, agent>> /\ \A x \in Worker \ {w} : wire'[x] = wire[x]
  BY WireAt DEF DialogRequested, Set, adapter
<1>2. CASE active[w] # NoOne /\ dialog' = [dialog EXCEPT ![active[w]] = "new"] /\ UNCHANGED blocked
  <2>1. active[w] \in Session /\ on[active[w]] = w /\ w # NoOne
    BY <1>2 DEF PiInv, PoolInv, PoolTypes, Holders
  <2>2. Blocks'
    BY <1>1, <1>2, <2>1 DEF KeeperInv, Blocks, PiTypes, pool
  <2>3. ASSUME NEW x \in Worker PROVE KeeperAt(x)'
    BY <1>1, <1>2, <2>1, <2>3 DEF KeeperInv, KeeperAt, PiTypes, pool
  <2> QED BY <2>2, <2>3 DEF KeeperInv
<1>3. CASE blocked' = blocked \ {w} /\ UNCHANGED dialog
  BY <1>1, <1>3, KeeperQuiet
<1> QED BY <1>2, <1>3 DEF DialogRequested, Set

(* A run that is over cancels its dialog.                                  *)
LEMMA KeeperCompleted ==
  ASSUME PiInv, PiTypes, KeeperInv, NEW w \in Worker, Completed(w) PROVE KeeperInv'
<1> DEFINE s == Head(wire[w]).turn[1]
           rest == Tail(wire[w])
<1>1. s \in Session /\ w # NoOne /\ wire[w] # <<>> /\ Head(wire[w]).m = "text"
  BY FirstLine DEF Completed
<1>2. DialogIn(wire[w]) => DialogIn(rest)
  BY <1>1, WireAt, FirstLine, DialogKept
<1>3. CASE on[s] = w /\ Leave(s, "completed") /\ CancelDialog(s)
           /\ wire' = [wire EXCEPT ![w] = rest] /\ UNCHANGED agent
  BY <1>1, <1>2, <1>3, WireAt, KeeperLeave DEF CancelDialog
<1>4. CASE on[s] = w /\ Giveup(w, s, rest) /\ UNCHANGED <<pool, dialog, active>>
  BY <1>1, <1>4, KeeperGiveup
<1>5. CASE wire' = [wire EXCEPT ![w] = rest] /\ UNCHANGED <<pool, step, dialog, active, agent, blocked>>
  BY <1>2, <1>5, WireAt, KeeperQuiet
<1> QED BY <1>3, <1>4, <1>5 DEF Completed, Set

(* Offered, answered, cancelled, timed out.                                *)
LEMMA KeeperGateway ==
  ASSUME PiInv, PiTypes, KeeperInv, NEW s \in Session, Offer(s) \/ Answer(s) \/ Cancel(s) \/ Timeout(s)
  PROVE  KeeperInv'
<1>1. CASE Offer(s)
  <2>1. on[s] \in Worker /\ UNCHANGED <<agent, wire>>
    BY <1>1 DEF Offer, PiInv, PoolInv, PoolTypes, Holders, Held
  <2>2. CASE CancelDialog(s) /\ Leave(s, "dropped")
    BY <1>1, <2>1, <2>2, KeeperLeave DEF CancelDialog, Offer
  <2>3. CASE dialog' = [dialog EXCEPT ![s] = "open"] /\ UNCHANGED <<pool, step, active, blocked>>
    <3>1. Blocks'
      BY <1>1, <2>1, <2>3 DEF KeeperInv, Blocks, PiTypes, pool, Offer
    <3>2. ASSUME NEW x \in Worker PROVE KeeperAt(x)'
      BY <1>1, <2>1, <2>3, <3>2 DEF KeeperInv, KeeperAt, PiTypes, pool, Offer
    <3> QED BY <3>1, <3>2 DEF KeeperInv
  <2> QED BY <1>1, <2>2, <2>3 DEF Offer, Set
<1>2. CASE Answer(s)
  <2>1. /\ dialog' = [dialog EXCEPT ![s] = "none"] /\ blocked' = blocked \ {on[s]}
        /\ UNCHANGED <<pool, step, active, agent, wire>>
    BY <1>2 DEF Answer, Set, adapter
  <2>2. Blocks'
    BY <2>1 DEF KeeperInv, Blocks, PiTypes, pool
  <2>3. ASSUME NEW x \in Worker PROVE KeeperAt(x)'
    BY <2>1, <2>3 DEF KeeperInv, KeeperAt, PiTypes, pool
  <2> QED BY <2>2, <2>3 DEF KeeperInv
<1>3. CASE Cancel(s)
  <2>1. on[s] \in Worker
    BY <1>3 DEF Cancel, PiInv, PoolInv, PoolTypes
  <2>2. /\ agent' = [agent EXCEPT ![on[s]] = NoOne] /\ blocked' = blocked \ {on[s]}
        /\ UNCHANGED <<pool, step, dialog, active>> /\ \A x \in Worker \ {on[s]} : wire'[x] = wire[x]
    BY <1>3, <2>1, WireAt DEF Cancel, Abort, Put, Set, runs, adapter
  <2> QED BY <2>1, <2>2, KeeperQuiet
<1>4. CASE Timeout(s)
  <2>1. on[s] \in Worker
    BY <1>4 DEF Timeout, PiInv, PoolInv, PoolTypes, Holders, Held
  <2> QED BY <1>4, <2>1, KeeperGiveup DEF Timeout, adapter
<1> QED BY <1>1, <1>2, <1>3, <1>4

(* The agent asks, and then it waits with its request on the wire.         *)
LEMMA KeeperAgent ==
  ASSUME PiInv, PiTypes, KeeperInv, NEW w \in Worker, Speaks(w) \/ Asks(w) \/ Settles(w)
  PROVE  KeeperInv'
<1>1. agent[w] # NoOne /\ UNCHANGED <<pool, step, dialog, active>>
  BY DEF Speaks, Asks, Settles, runs, adapter
<1>2. Line("delta", agent[w]) \in Lines /\ Line("dialog", agent[w]) \in Lines
  BY <1>1 DEF PiInv, WireTypes, Line, Lines
<1>3. CASE Speaks(w)
  <2>1. wire'[w] \in {wire[w], wire[w] \o <<Line("delta", agent[w])>>}
    BY <1>3, WireAt DEF Speaks, Put, Set
  <2>11. DialogIn(wire[w]) => DialogIn(wire'[w])
    <3>1. CASE wire'[w] = wire[w]
      BY <3>1
    <3>2. CASE wire'[w] = wire[w] \o <<Line("delta", agent[w])>>
      <4>1. wire[w] \in Seq(Lines)
        BY WireAt
      <4>2. <<Line("delta", agent[w])>> \in Seq(Lines)
        <5> DEFINE l == Line("delta", agent[w])
        <5>1. l \in Lines
          BY <1>2
        <5> HIDE DEF l
        <5>2. <<l>> \in Seq(Lines)
          BY <5>1
        <5> QED BY <5>2 DEF l
      <4> QED BY <3>2, <4>1, <4>2, DialogKeptBy
    <3> QED BY <2>1, <3>1, <3>2
  <2>2. \A x \in Worker \ {w} : wire'[x] = wire[x]
    BY <1>3, WireAt DEF Speaks, Put, Set
  <2> QED BY <1>1, <1>3, <2>11, <2>2, KeeperQuiet DEF Speaks
<1>4. CASE Asks(w)
  <2>1. /\ wire'[w] = wire[w] \o <<Line("dialog", agent[w])>> /\ agent' = agent
        /\ blocked' = blocked \cup {w} /\ \A x \in Worker \ {w} : wire'[x] = wire[x]
    BY <1>4, WireAt DEF Asks, Put, Set
  <2>2. DialogIn(wire'[w])
    <3>1. wire[w] \in Seq(Lines)
      BY WireAt
    <3>2. /\ Len(wire[w]) + 1 \in 1 .. Len(wire'[w])
          /\ wire'[w][Len(wire[w]) + 1] = Line("dialog", agent[w])
      BY <1>2, <2>1, <3>1
    <3> QED BY <3>2 DEF DialogIn, Line
  <2>3. Blocks'
    BY <1>1, <2>1 DEF KeeperInv, Blocks, pool
  <2>4. ASSUME NEW x \in Worker PROVE KeeperAt(x)'
    BY <1>1, <2>1, <2>2, <2>4 DEF KeeperInv, KeeperAt, pool
  <2> QED BY <2>3, <2>4 DEF KeeperInv
<1>5. CASE Settles(w)
  <2>1. /\ agent' = [agent EXCEPT ![w] = NoOne] /\ blocked' = blocked \ {w}
        /\ \A x \in Worker \ {w} : wire'[x] = wire[x]
    BY <1>5, WireAt DEF Settles, Abort, Put, Set
  <2> QED BY <1>1, <2>1, KeeperQuiet
<1> QED BY <1>3, <1>4, <1>5

(* A process that was left has no agent that waits.                        *)
LEMMA KeeperOrphan ==
  ASSUME PiInv, PiTypes, KeeperInv, NEW w \in Worker, OrphanSpeaks(w) \/ OrphanSettles(w)
  PROVE  KeeperInv'
<1>1. UNCHANGED <<pool, step, dialog, active, agent, blocked>>
  BY DEF OrphanSpeaks, OrphanSettles, runs, adapter
<1>2. /\ DialogIn(wire[w]) => DialogIn(wire'[w])
      /\ \A x \in Worker \ {w} : wire'[x] = wire[x]
  BY WireAt, KeeperHears DEF OrphanSpeaks, OrphanSettles
<1> QED BY <1>1, <1>2, KeeperQuiet

(* An agent whose process is gone waits for nothing.                       *)
LEMMA KeeperFails ==
  ASSUME PiInv, PiTypes, KeeperInv, NEW w \in Worker, NEW alive \in BOOLEAN, Fails(w, alive)
  PROVE  KeeperInv'
<1>1. ASSUME Remains(w, alive)
      PROVE  /\ \A x \in Worker \ {w} : wire'[x] = wire[x]
             /\ \/ alive /\ UNCHANGED <<agent, blocked, wire>>
                \/ agent' = [agent EXCEPT ![w] = NoOne] /\ blocked' = blocked \ {w}
  BY <1>1, WireAt DEF Remains, Set
<1>2. CASE \E s \in Session : on[s] = w /\ Giveup(w, s, wire[w]) /\ UNCHANGED <<pool, dialog, active>>
  BY <1>2, KeeperGiveup
<1>3. ASSUME NEW s \in Session, on[s] = w, step[s] # "granted",
             alive => step[s] \notin {"prompting", "reading"}, Leave(s, "failed"), Remains(w, alive)
      PROVE  KeeperInv'
  <2>1. CASE ~UNCHANGED <<agent, blocked, wire>>
    BY <1>1, <1>3, <2>1, KeeperLeave
  <2>2. CASE alive /\ UNCHANGED <<agent, blocked, wire>>
    <3>1. w \in blocked => dialog[s] = "none"
      BY <1>3, <2>2 DEF KeeperInv, Blocks, PiInv, PoolInv, PoolTypes
    <3> QED BY <1>3, <2>2, <3>1, KeeperLeave
  <2>3. CASE ~alive
    BY <1>1, <1>3, <2>3, KeeperLeave
  <2> QED BY <1>1, <1>3, <2>1, <2>2, <2>3
<1>4. CASE Remains(w, alive) /\ UNCHANGED <<pool, step, dialog, active>>
  BY <1>1, <1>4, KeeperQuiet
<1> QED BY <1>2, <1>3, <1>4 DEF Fails

(* Every step keeps the invariant for dialogs.                             *)
LEMMA KeeperStep == ASSUME PiInv, PiTypes, KeeperInv, [Next]_vars PROVE KeeperInv'
<1>1. ASSUME NEW w \in Worker, Exit(w) \/ BrokenLine(w) \/ OrphanExits(w) PROVE KeeperInv'
  BY <1>1, KeeperFails DEF Exit, BrokenLine, OrphanExits
<1>2. CASE UNCHANGED vars
  BY <1>2 DEF vars, runs, adapter, process, pool, KeeperInv, Blocks, KeeperAt
<1> QED
  BY <1>1, <1>2, KeeperBegin, KeeperStart, KeeperGateway, KeeperResponse, KeeperEvent,
     KeeperDialog, KeeperCompleted, KeeperAgent, KeeperOrphan DEF Next, Deliver

-----------------------------------------------------------------------------
(* Whose words a run completes with.                                       *)

(* The line x is in q; y is behind x in q.                                 *)
Has(q, x)       == \E i \in 1 .. Len(q) : q[i] = x
Behind(q, x, y) == \E i, j \in 1 .. Len(q) : i < j /\ q[i] = x /\ q[j] = y

(* The steps before the prompt, by how far they are, and those after.      *)
Queued == {"waiting", "granted"}
Early  == {"waiting", "granted", "preparing"}
Late   == {"prompting", "reading", "aborting"}

(* A worker has no process but its own, and the agent of that one works on *)
(* the prompt of the active run.                                           *)
AgentAlone(w) ==
  /\ orphans[w] = {}
  /\ agent[w] # NoOne => /\ active[w] # NoOne /\ agent[w] = Turn(active[w])
                         /\ step[active[w]] \in {"prompting", "reading"} /\ w \notin settling

(* What an active run will hear is its own; once the agent has settled, or *)
(* the last text was asked for, nobody is at work.                         *)
LinesAlone(w) ==
  active[w] # NoOne => \A x : Has(wire[w], x) =>
    /\ x.m \in {"delta", "settled"} => x.turn = Turn(active[w])
    /\ x.m = "settled" \/ (x.m = "text" /\ x.turn = Turn(active[w])) => agent[w] = NoOne

(* Nothing of an earlier turn is behind the answer that makes a run active. *)
Clean(w) ==
  \A s \in Session : on[s] = w /\ step[s] = "preparing" =>
    \A x : Behind(wire[w], Line("prepared", Turn(s)), x) => x.m \notin {"delta", "settled"}

(* A worker serves its active run and nobody else.                         *)
AloneAt(w) == AgentAlone(w) /\ LinesAlone(w) /\ Clean(w)

(* A turn of a run that has begun, past these steps if it is the last.     *)
Past(t, early) == t[2] <= run[t[1]] /\ (t = Turn(t[1]) => step[t[1]] \notin early)

(* A line tells of text that was written, and of a run that has got that   *)
(* far.                                                                    *)
Told(x) ==
  /\ x.m = "delta" => x.turn \in spoken
  /\ x.m = "prepared" => Past(x.turn, Queued)
  /\ x.m = "text" => Past(x.turn, Early)

(* The property for one session.                                           *)
Own(s) ==
  verdict[s] = "completed" /\ step[s] = "idle" =>
    IF Turn(s) \in spoken THEN words[s] = {Turn(s)}
    ELSE \E n \in 1..run[s] : words[s] = {<<s, n>>}

(* The text of a run is its own, and is in the session file once its agent *)
(* has settled; the file has texts of the session only.                    *)
Story(s) ==
  /\ step[s] \in Early => words[s] = {} /\ Turn(s) \notin spoken
  /\ step[s] \in Late => active[on[s]] = s
  /\ step[s] # "idle" => run[s] # 0
  /\ words[s] # {} /\ step[s] # "idle" => words[s] = {Turn(s)} /\ Turn(s) \in spoken
  /\ last[s] # NoOne => \E n \in 1 .. run[s] : last[s] = <<s, n>>
  /\ step[s] \in {"prompting", "reading"} /\ agent[on[s]] = NoOne /\ Turn(s) \in spoken =>
       last[s] = Turn(s)
  /\ Own(s)

(* The invariant for the words of a run.                                   *)
OwnInv ==
  /\ NoOne \notin Turns
  /\ \A w \in Worker : AloneAt(w) /\ \A x : Has(wire[w], x) => Told(x)
  /\ \A s \in Session : Story(s)
  /\ \A t \in spoken : t[2] <= run[t[1]]

(* What is on lists of lines.                                              *)
LEMMA HasTail ==
  ASSUME NEW q \in Seq(Lines), q # <<>>
  PROVE  /\ Has(q, Head(q))
         /\ \A x : Has(Tail(q), x) => Has(q, x) /\ Behind(q, Head(q), x)
         /\ \A x, y : Behind(Tail(q), x, y) => Behind(q, x, y)
<1>1. 1 \in 1 .. Len(q) /\ Head(q) = q[1] /\ Len(Tail(q)) = Len(q) - 1 /\ Len(q) \in Nat
  OBVIOUS
<1>2. \A i \in 1 .. Len(Tail(q)) : i + 1 \in 1 .. Len(q) /\ Tail(q)[i] = q[i + 1] /\ 1 < i + 1
  OBVIOUS
<1>3. \A x : Has(Tail(q), x) => Has(q, x) /\ Behind(q, Head(q), x)
  BY <1>1, <1>2 DEF Has, Behind
<1>4. \A x, y : Behind(Tail(q), x, y) => Behind(q, x, y)
  <2>1. TAKE x, y
  <2>2. HAVE Behind(Tail(q), x, y)
  <2>3. PICK i, j \in 1 .. Len(Tail(q)) : i < j /\ Tail(q)[i] = x /\ Tail(q)[j] = y
    BY <2>2 DEF Behind
  <2>4. i + 1 \in 1 .. Len(q) /\ j + 1 \in 1 .. Len(q) /\ i + 1 < j + 1 /\ q[i + 1] = x /\ q[j + 1] = y
    BY <1>2, <2>3
  <2> QED BY <2>4 DEF Behind
<1> QED BY <1>1, <1>3, <1>4 DEF Has

(* Lists put together.                                                     *)
LEMMA HasConcat ==
  ASSUME NEW q \in Seq(Lines), NEW r \in Seq(Lines)
  PROVE  /\ \A x : Has(q \o r, x) => Has(q, x) \/ Has(r, x)
         /\ \A x, y : Behind(q \o r, x, y) => Behind(q, x, y) \/ Has(r, y)
<1>1. Len(q) \in Nat /\ Len(r) \in Nat /\ Len(q \o r) = Len(q) + Len(r)
  OBVIOUS
<1>2. \A i \in 1 .. Len(q \o r) :
        \/ i \in 1 .. Len(q) /\ (q \o r)[i] = q[i]
        \/ i > Len(q) /\ i - Len(q) \in 1 .. Len(r) /\ (q \o r)[i] = r[i - Len(q)]
  OBVIOUS
<1>3. \A x : Has(q \o r, x) => Has(q, x) \/ Has(r, x)
  BY <1>2 DEF Has
<1>4. \A x, y : Behind(q \o r, x, y) => Behind(q, x, y) \/ Has(r, y)
  <2>1. TAKE x, y
  <2>2. HAVE Behind(q \o r, x, y)
  <2>3. PICK i, j \in 1 .. Len(q \o r) : i < j /\ (q \o r)[i] = x /\ (q \o r)[j] = y
    BY <2>2 DEF Behind
  <2>4. CASE j \in 1 .. Len(q)
    <3>1. i \in 1 .. Len(q) /\ q[i] = x /\ q[j] = y
      BY <1>1, <1>2, <2>3, <2>4
    <3> QED BY <2>3, <2>4, <3>1 DEF Behind
  <2>5. CASE j \notin 1 .. Len(q)
    <3>1. j - Len(q) \in 1 .. Len(r) /\ y = r[j - Len(q)]
      BY <1>2, <2>3, <2>5
    <3> QED BY <3>1 DEF Has
  <2> QED BY <2>4, <2>5
<1> QED BY <1>3, <1>4

(* No line, and a single one.                                              *)
LEMMA HasOne ==
  /\ \A x : ~Has(<<>>, x)
  /\ \A x, y : ~Behind(<<>>, x, y)
  /\ \A x, y : Has(<<x>>, y) => y = x
  /\ \A x, y, z : ~Behind(<<x>>, y, z)
<1>1. \A x : ~Has(<<>>, x)
  BY DEF Has
<1>2. \A x, y : ~Behind(<<>>, x, y)
  BY DEF Behind
<1>3. \A x, y : Has(<<x>>, y) => y = x
  BY DEF Has
<1>4. \A x, y, z : ~Behind(<<x>>, y, z)
  BY DEF Behind
<1> QED BY <1>1, <1>2, <1>3, <1>4

(* A line added to a list.                                                 *)
LEMMA HasMore ==
  ASSUME NEW q \in Seq(Lines), NEW l \in Lines
  PROVE  /\ \A x : Has(q \o <<l>>, x) \/ Has(Append(q, l), x) => Has(q, x) \/ x = l
         /\ \A x, y : Behind(q \o <<l>>, x, y) \/ Behind(Append(q, l), x, y) => Behind(q, x, y) \/ y = l
<1>1. <<l>> \in Seq(Lines) /\ Append(q, l) = q \o <<l>>
  OBVIOUS
<1>2. \A x : Has(q \o <<l>>, x) => Has(q, x) \/ x = l
  BY <1>1, HasConcat, HasOne
<1>3. \A x, y : Behind(q \o <<l>>, x, y) => Behind(q, x, y) \/ y = l
  BY <1>1, HasConcat, HasOne
<1> QED BY <1>1, <1>2, <1>3

(* The same for a list known to be the longer one.                         *)
LEMMA MoreHas ==
  ASSUME NEW q \in Seq(Lines), NEW l \in Lines, NEW p, p = q \o <<l>> \/ p = Append(q, l)
  PROVE  /\ \A x : Has(p, x) => Has(q, x) \/ x = l
         /\ \A x, y : Behind(p, x, y) => Behind(q, x, y) \/ y = l
<1>1. /\ \A x : Has(q \o <<l>>, x) => Has(q, x) \/ x = l
      /\ \A x, y : Behind(q \o <<l>>, x, y) => Behind(q, x, y) \/ y = l
      /\ \A x : Has(Append(q, l), x) => Has(q, x) \/ x = l
      /\ \A x, y : Behind(Append(q, l), x, y) => Behind(q, x, y) \/ y = l
  BY HasMore
<1>2. CASE p = q \o <<l>>
  BY <1>1, <1>2
<1>3. CASE p = Append(q, l)
  BY <1>1, <1>3
<1> QED BY <1>2, <1>3

(* What is on the lines of a worker is a line.                             *)
LEMMA HasLine ==
  ASSUME PiInv, NEW w \in Worker, NEW x, Has(wire[w], x)
  PROVE  x \in Lines /\ x.turn \in Turns /\ x.turn = <<x.turn[1], x.turn[2]>>
         /\ x.turn[1] \in Session /\ x.turn[2] \in Nat
<1>1. wire[w] \in Seq(Lines)
  BY DEF PiInv, WireTypes
<1>2. x \in Lines
  BY <1>1 DEF Has
<1> QED BY <1>2 DEF Lines, Turns

(* Nothing but the run of s and worker w changes, and runs that get w.     *)
Apart(s, w) ==
  /\ \A t \in Session \ {s} :
       /\ words'[t] = words[t] /\ run'[t] = run[t] /\ last'[t] = last[t] /\ verdict'[t] = verdict[t]
       /\ \/ on'[t] = on[t] /\ step'[t] = step[t]
          \/ on[t] = NoOne /\ on'[t] = w /\ step[t] = "waiting" /\ step'[t] = "granted"
  /\ (\E t \in Session \ {s} : on[t] = w) => UNCHANGED <<agent, active>>
  /\ \A x \in Worker \ {w} :
       /\ agent'[x] = agent[x] /\ active'[x] = active[x] /\ wire'[x] = wire[x]
       /\ orphans'[x] = orphans[x] /\ (x \in settling' => x \in settling)
  /\ s \in Session => on[s] \in {w, NoOne} /\ on'[s] \in {w, NoOne}
  /\ spoken' = spoken \/ (s \in Session /\ run' = run /\ spoken' = spoken \cup {Turn(s)})

(* A run goes on, or the next one of its session begins.                   *)
Onward(s) ==
  \/ /\ run'[s] = run[s] /\ (step'[s] \in Queued => step[s] \in Queued)
     /\ (step'[s] \in Early => step[s] \in Early)
  \/ run'[s] = run[s] + 1

(* A step that touches one run and one worker has to keep the invariant    *)
(* there; everybody else keeps it.                                         *)
LEMMA OwnLocal ==
  ASSUME PiInv, PiTypes, KeeperInv, OwnInv, NEW s \in Session \cup {NoOne},
         NEW w \in Worker \cup {NoOne}, Apart(s, w), s \in Session => Story(s)' /\ Onward(s),
         w \in Worker => AloneAt(w)' /\ \A x : Has(wire'[w], x) => Has(wire[w], x) \/ Told(x)'
  PROVE  OwnInv'
<1>1. NoOne \notin Session \cup Worker /\ NoOne \notin Turns
  BY DEF PiInv, PoolInv, OwnInv
<1>2. ASSUME NEW t \in Session \ {s} PROVE Story(t)'
  <2>1. Turn(t)' = Turn(t) /\ words'[t] = words[t] /\ run'[t] = run[t] /\ last'[t] = last[t]
        /\ verdict'[t] = verdict[t]
    BY <1>2 DEF Apart, Turn
  <2>2. Turn(t) \in spoken' <=> Turn(t) \in spoken
    BY <1>2 DEF Apart, Turn
  <2>3. CASE on'[t] = on[t] /\ step'[t] = step[t]
    <3>1. step[t] \in Late => active'[on[t]] = active[on[t]] /\ agent'[on[t]] = agent[on[t]]
      <4>1. step[t] \in Late => on[t] \in Worker
        BY DEF PiInv, PoolInv, PoolTypes, Holders, Held, Late
      <4> QED BY <1>2, <4>1 DEF Apart
    <3>2. Own(t)'
      BY <2>1, <2>2, <2>3 DEF OwnInv, Story, Own
    <3> QED BY <2>1, <2>2, <2>3, <3>1, <3>2 DEF OwnInv, Story, Late
  <2>4. CASE step[t] = "waiting" /\ step'[t] = "granted"
    BY <2>1, <2>2, <2>4 DEF OwnInv, Story, Own, Early, Late
  <2> QED BY <1>2, <2>3, <2>4 DEF Apart
<1>3. ASSUME NEW t \in Session PROVE Onward(t)
  BY <1>3 DEF Apart, Onward, Queued, Early
<1>4. ASSUME NEW x \in Worker, x # w PROVE AloneAt(x)'
  <2>1. /\ agent'[x] = agent[x] /\ active'[x] = active[x] /\ wire'[x] = wire[x]
        /\ orphans'[x] = orphans[x] /\ (x \in settling' => x \in settling)
    BY <1>4 DEF Apart
  <2>2. ASSUME NEW t \in Session, on[t] = x \/ on'[t] = x
        PROVE  run'[t] = run[t] /\ on'[t] = x /\ on[t] = x /\ step'[t] = step[t]
    <3>1. t # s /\ x # NoOne
      BY <1>1, <1>4, <2>2 DEF Apart
    <3> QED BY <1>4, <2>2, <3>1 DEF Apart
  <2>3. active[x] # NoOne => run'[active[x]] = run[active[x]] /\ step'[active[x]] = step[active[x]]
    BY <2>2 DEF PiInv, PoolInv, PoolTypes, Holders
  <2>4. active[x] # NoOne => Turn(active[x])' = Turn(active[x]) /\ step'[active'[x]] = step[active[x]]
    BY <2>1, <2>3 DEF Turn
  <2>5. AgentAlone(x) /\ LinesAlone(x) /\ Clean(x)
    BY DEF OwnInv, AloneAt
  <2>6. AgentAlone(x)'
    BY <2>1, <2>4, <2>5 DEF AgentAlone
  <2>7. LinesAlone(x)'
    BY <2>1, <2>4, <2>5 DEF LinesAlone
  <2>8. Clean(x)'
    BY <2>1, <2>2, <2>5 DEF Clean, Turn
  <2> QED BY <2>6, <2>7, <2>8 DEF AloneAt
<1>5. ASSUME NEW x \in Worker, NEW l, Has(wire[x], l) PROVE Told(l)'
  <2>1. Told(l)
    BY <1>5 DEF OwnInv
  <2>2. l.turn = <<l.turn[1], l.turn[2]>> /\ l.turn[1] \in Session /\ l.turn[2] \in Nat
    BY <1>5, HasLine
  <2>3. run[l.turn[1]] \in Nat /\ Onward(l.turn[1])
    BY <1>3, <2>2 DEF PiInv, WireTypes
  <2>4. \A E \in {Queued, Early} : Past(l.turn, E) => Past(l.turn, E)'
    BY <2>2, <2>3 DEF Past, Onward, Turn
  <2>5. spoken \subseteq spoken'
    BY DEF Apart
  <2> QED BY <2>1, <2>4, <2>5 DEF Told
<1>6. ASSUME NEW x \in Worker, NEW l, Has(wire'[x], l) PROVE Told(l)'
  BY <1>5, <1>6 DEF Apart
<1>7. ASSUME NEW t \in spoken' PROVE t[2] <= run'[t[1]]
  <2>1. CASE t \in spoken
    <3>1. t[1] \in Session /\ t[2] \in Nat /\ run[t[1]] \in Nat
      BY <2>1 DEF PiTypes, Turns, PiInv, WireTypes
    <3> QED BY <1>3, <2>1, <3>1 DEF Onward, OwnInv
  <2>2. CASE s \in Session /\ run' = run /\ t = Turn(s)
    BY <2>2 DEF PiInv, WireTypes, Turn
  <2> QED BY <1>7, <2>1, <2>2 DEF Apart
<1>8. \A x \in Worker : AloneAt(x)'
  BY <1>4
<1>9. \A t \in Session : Story(t)'
  BY <1>2
<1>10. \A x \in Worker : \A l : Has(wire'[x], l) => Told(l)'
  BY <1>6
<1> QED BY <1>1, <1>7, <1>8, <1>9, <1>10 DEF OwnInv

-----------------------------------------------------------------------------
(* What the handlers do to whose words they are.                           *)

(* A run on its worker: nobody else has it, and the agent is its own.      *)
LEMMA OwnHolder ==
  ASSUME PiInv, PiTypes, KeeperInv, OwnInv, NEW s \in Session, NEW w \in Worker, on[s] = w
  PROVE  /\ \A t \in Session \ {s} : on[t] # w
         /\ w # NoOne /\ step[s] \in Held /\ active[w] \in {s, NoOne} /\ run[s] \in Nat
         /\ step[s] \in {"granted", "preparing"} => active[w] = NoOne /\ agent[w] = NoOne
         /\ step[s] \in Late => active[w] = s
         /\ step[s] = "aborting" => agent[w] = NoOne
         /\ agent[w] # NoOne => agent[w] = Turn(s) /\ active[w] = s /\ step[s] \in {"prompting", "reading"}
         /\ AgentAlone(w) /\ LinesAlone(w) /\ Clean(w) /\ Story(s)
<1>1. w # NoOne /\ step[s] \in Held /\ (\A t \in Session \ {s} : on[t] # w) /\ run[s] \in Nat
  BY DEF PiInv, PoolInv, PoolTypes, Holders, WireTypes
<1>2. AgentAlone(w) /\ LinesAlone(w) /\ Clean(w) /\ Story(s)
  BY DEF OwnInv, AloneAt
<1>3. active[w] \in {s, NoOne}
  BY <1>1 DEF PiInv, PoolInv, PoolTypes, Holders
<1>4. step[s] \in {"granted", "preparing"} => active[w] = NoOne /\ agent[w] = NoOne
  BY <1>2, <1>3 DEF KeeperInv, Blocks, AgentAlone
<1>5. (step[s] \in Late => active[w] = s) /\ (step[s] = "aborting" => agent[w] = NoOne)
  BY <1>2 DEF Story, AgentAlone, KeeperInv, Blocks
<1>6. agent[w] # NoOne => agent[w] = Turn(s) /\ active[w] = s /\ step[s] \in {"prompting", "reading"}
  BY <1>2, <1>3 DEF AgentAlone
<1> QED BY <1>1, <1>2, <1>3, <1>4, <1>5, <1>6

(* A worker with an active run has nobody else at work.                    *)
LEMMA OwnActive ==
  ASSUME PiInv, PiTypes, KeeperInv, OwnInv, NEW w \in Worker, active[w] # NoOne \/ agent[w] # NoOne
  PROVE  active[w] \in Session /\ on[active[w]] = w
<1>1. active[w] # NoOne
  BY DEF OwnInv, AloneAt, AgentAlone
<1> QED BY <1>1 DEF PiInv, PoolInv, PoolTypes, Holders

(* The only line an abort adds is the end of the agent.                    *)
LEMMA HasAborted ==
  ASSUME NEW w, NEW x, Has(Aborted(w), x)
  PROVE  agent[w] # NoOne /\ x = Line("settled", agent[w])
BY HasOne DEF Aborted

(* What is behind, and what is before, is there.                           *)
LEMMA BehindHas == \A q, x, y : Behind(q, x, y) => Has(q, x) /\ Has(q, y)
BY DEF Behind, Has

(* The text of the turn that ends goes into the file of its session.       *)
LEMMA OwnRecorded ==
  ASSUME PiInv, PiTypes, KeeperInv, OwnInv, NEW s \in Session, NEW w \in Worker, on[s] = w,
         last' = IF agent[w] = NoOne THEN last ELSE Recorded(agent[w])
  PROVE  /\ \A t \in Session \ {s} : last'[t] = last[t]
         /\ last'[s] # NoOne => \E n \in 1 .. run[s] : last'[s] = <<s, n>>
         /\ agent[w] # NoOne /\ Turn(s) \in spoken => last'[s] = Turn(s)
         /\ agent[w] = NoOne => last' = last
<1>1. /\ agent[w] # NoOne => agent[w] = Turn(s) /\ step[s] \in {"prompting", "reading"}
      /\ run[s] \in Nat /\ Story(s)
  BY OwnHolder
<1>2. last[s] # NoOne => \E n \in 1 .. run[s] : last[s] = <<s, n>>
  BY <1>1 DEF Story
<1>3. CASE UNCHANGED last /\ ~(agent[w] # NoOne /\ Turn(s) \in spoken)
  BY <1>2, <1>3
<1>4. CASE agent[w] # NoOne /\ Turn(s) \in spoken
  <2>1. Turn(s)[1] = s /\ last' = [last EXCEPT ![s] = Turn(s)]
    <3>1. last' = Recorded(Turn(s))
      BY <1>1, <1>4
    <3>2. Turn(s)[1] = s
      BY DEF Turn
    <3> QED BY <1>4, <3>1, <3>2 DEF Recorded, Set
  <2>2. run[s] # 0
    BY <1>1, <1>4 DEF Story
  <2>3. run[s] \in 1 .. run[s]
    BY <1>1, <2>2
  <2> QED BY <1>4, <2>1, <2>3 DEF PiTypes, Turn
<1> QED BY <1>1, <1>3, <1>4 DEF Recorded

(* A run is over with no agent at work: its worker is as if never used.    *)
LEMMA OwnLeave ==
  ASSUME PiInv, PiTypes, KeeperInv, OwnInv, NEW s \in Session, NEW w \in Worker, on[s] = w, NEW v,
         Leave(s, v), agent' \in {agent, [agent EXCEPT ![w] = NoOne]}, agent'[w] = NoOne,
         UNCHANGED <<run, last, spoken>>, \A t \in Session \ {s} : words'[t] = words[t],
         v = "completed" => IF Turn(s) \in spoken THEN words'[s] = {Turn(s)}
                            ELSE \E n \in 1..run[s] : words'[s] = {<<s, n>>},
         \A x \in Worker \ {w} : wire'[x] = wire[x] /\ orphans'[x] = orphans[x],
         orphans'[w] \in {orphans[w], {}}, \A x : Has(wire'[w], x) => Has(wire[w], x)
  PROVE  OwnInv'
<1>1. /\ \A t \in Session \ {s} : on[t] # w
      /\ w # NoOne /\ AgentAlone(w) /\ Story(s)
  BY OwnHolder
<1>2. /\ step'[s] = "idle" /\ on'[s] = NoOne
      /\ active' = [active EXCEPT ![w] = NoOne] /\ settling' = settling \ {w}
      /\ verdict' = [verdict EXCEPT ![s] = v]
      /\ \A t \in Session : t # s =>
           \/ on'[t] = on[t] /\ step'[t] = step[t]
           \/ on[t] = NoOne /\ on'[t] = w /\ step[t] = "waiting" /\ step'[t] = "granted"
  BY LeaveFacts
<1>3. /\ active'[w] = NoOne /\ verdict'[s] = v
      /\ \A x \in Worker \ {w} : active'[x] = active[x] /\ agent'[x] = agent[x]
      /\ \A t \in Session \ {s} : verdict'[t] = verdict[t]
  BY <1>2 DEF PiInv, PoolInv, PoolTypes, PiTypes, WireTypes
<1>4. Apart(s, w)
  BY <1>1, <1>2, <1>3 DEF Apart
<1>5. Onward(s)
  BY <1>2 DEF Onward, Queued, Early
<1>6. Story(s)'
  BY <1>1, <1>2, <1>3 DEF Story, Own, Early, Late, Turn
<1>7. AloneAt(w)'
  <2>1. AgentAlone(w)' /\ LinesAlone(w)'
    BY <1>1, <1>3 DEF AgentAlone, LinesAlone
  <2>2. Clean(w)'
    BY <1>1, <1>2 DEF Clean
  <2> QED BY <2>1, <2>2 DEF AloneAt
<1> QED BY <1>4, <1>5, <1>6, <1>7, OwnLocal

(* A run gives up: its agent settles, its text goes into the file.         *)
LEMMA OwnGiveup ==
  ASSUME PiInv, PiTypes, KeeperInv, OwnInv, NEW s \in Session, NEW w \in Worker, on[s] = w,
         step[s] \in {"prompting", "reading"}, NEW q \in Seq(Lines), Giveup(w, s, q),
         \A x : Has(q, x) => Has(wire[w], x),
         UNCHANGED <<pool, verdict, active, settling, words, run, spoken>>,
         \A x \in Worker \ {w} : orphans'[x] = orphans[x], orphans'[w] \in {orphans[w], {}}
  PROVE  OwnInv'
<1>1. /\ \A t \in Session \ {s} : on[t] # w
      /\ w # NoOne /\ AgentAlone(w) /\ LinesAlone(w) /\ Story(s) /\ active[w] = s /\ run[s] \in Nat
      /\ agent[w] # NoOne => agent[w] = Turn(s)
  BY OwnHolder DEF Late
<1>2. /\ step' = [step EXCEPT ![s] = "aborting"] /\ agent' = [agent EXCEPT ![w] = NoOne]
      /\ wire' = [wire EXCEPT ![w] = q \o Aborted(w) \o <<Line("aborted", Turn(s))>>]
      /\ last' = IF agent[w] = NoOne THEN last ELSE Recorded(agent[w])
  BY DEF Giveup, Set
<1>3. /\ step'[s] = "aborting" /\ agent'[w] = NoOne
      /\ wire'[w] = q \o Aborted(w) \o <<Line("aborted", Turn(s))>>
      /\ \A t \in Session \ {s} : step'[t] = step[t]
      /\ \A x \in Worker \ {w} : agent'[x] = agent[x] /\ wire'[x] = wire[x]
  BY <1>2 DEF PiInv, PoolInv, PoolTypes, WireTypes
<1>4. /\ \A t \in Session \ {s} : last'[t] = last[t]
      /\ last'[s] # NoOne => \E n \in 1 .. run[s] : last'[s] = <<s, n>>
  BY <1>2, OwnRecorded
<1>5. Apart(s, w) /\ Onward(s)
  BY <1>1, <1>3, <1>4 DEF Apart, Onward, Queued, Early, pool
<1>6. Story(s)'
  BY <1>1, <1>3, <1>4 DEF Story, Own, Early, Late, Turn, pool
<1>7. ASSUME NEW x, Has(wire'[w], x)
      PROVE  \/ Has(wire[w], x) \/ x = Line("aborted", Turn(s))
             \/ agent[w] # NoOne /\ x = Line("settled", agent[w])
  <2>1. Aborted(w) \in Seq(Lines) /\ Line("aborted", Turn(s)) \in Lines
    BY WireAt, LinesOfTurn DEF PiInv, Responses
  <2>2. q \o Aborted(w) \in Seq(Lines)
    BY <2>1
  <2>3. Has(q \o Aborted(w), x) \/ x = Line("aborted", Turn(s))
    <3> DEFINE p == q \o Aborted(w)
               l == Line("aborted", Turn(s))
    <3>1. Has(p \o <<l>>, x) /\ p \in Seq(Lines) /\ l \in Lines
      BY <1>3, <1>7, <2>1, <2>2
    <3> HIDE DEF p, l
    <3>2. Has(p, x) \/ x = l
      BY <3>1, HasMore
    <3> QED BY <3>2 DEF p, l
  <2>4. Has(q \o Aborted(w), x) => Has(q, x) \/ Has(Aborted(w), x)
    BY <2>1, HasConcat
  <2> QED BY <2>3, <2>4, HasAborted
<1>8. AloneAt(w)'
  <2>1. AgentAlone(w)'
    BY <1>1, <1>3 DEF AgentAlone
  <2>2. LinesAlone(w)'
    <3>1. ASSUME NEW x, Has(wire'[w], x), x.m \in {"delta", "settled"} PROVE x.turn = Turn(s)
      BY <1>1, <1>7, <3>1 DEF LinesAlone, Line, PiInv, PoolInv
    <3>2. active'[w] = s /\ Turn(s)' = Turn(s)
      BY <1>1 DEF Turn
    <3> QED BY <1>3, <3>1, <3>2 DEF LinesAlone, Turn
  <2>3. Clean(w)'
    BY <1>1, <1>3 DEF Clean, pool
  <2> QED BY <2>1, <2>2, <2>3 DEF AloneAt
<1>9. ASSUME NEW x, Has(wire'[w], x) PROVE Has(wire[w], x) \/ Told(x)'
  BY <1>7, <1>9 DEF Told, Line
<1> QED BY <1>5, <1>6, <1>8, <1>9, OwnLocal

(* The agent settles, by itself or because it is told to.                  *)
LEMMA OwnSettle ==
  ASSUME PiInv, PiTypes, KeeperInv, OwnInv, NEW w \in Worker, agent[w] # NoOne, Abort(w, <<>>),
         UNCHANGED <<pool, step, run, words, verdict, active, settling, orphans, spoken>>
  PROVE  OwnInv'
<1> DEFINE s == active[w]
<1>1. s \in Session /\ on[s] = w
  BY OwnActive
<1>2. /\ \A t \in Session \ {s} : on[t] # w
      /\ w # NoOne /\ AgentAlone(w) /\ LinesAlone(w) /\ Clean(w) /\ Story(s) /\ run[s] \in Nat
      /\ agent[w] = Turn(s) /\ step[s] \in {"prompting", "reading"}
  BY <1>1, OwnHolder
<1>3. /\ last' = IF agent[w] = NoOne THEN last ELSE Recorded(agent[w])
      /\ agent' = [agent EXCEPT ![w] = NoOne]
      /\ wire' = [wire EXCEPT ![w] = wire[w] \o (<<Line("settled", agent[w])>> \o <<>>)]
  BY DEF Abort, Put, Set, Aborted
<1>4. Line("settled", agent[w]) \in Lines /\ wire[w] \in Seq(Lines)
  BY <1>1, <1>2, WireAt, LinesOfTurn DEF PiInv
<1>5. /\ agent'[w] = NoOne /\ wire'[w] = wire[w] \o <<Line("settled", agent[w])>>
      /\ \A x \in Worker \ {w} : agent'[x] = agent[x] /\ wire'[x] = wire[x]
  <2>1. <<Line("settled", agent[w])>> \o <<>> = <<Line("settled", agent[w])>>
    BY <1>4
  <2> QED BY <1>3, <2>1 DEF PiInv, WireTypes
<1>6. /\ \A t \in Session \ {s} : last'[t] = last[t]
      /\ last'[s] # NoOne => \E n \in 1 .. run[s] : last'[s] = <<s, n>>
      /\ Turn(s) \in spoken => last'[s] = Turn(s)
  BY <1>1, <1>3, OwnRecorded
<1>7. Apart(s, w) /\ Onward(s)
  BY <1>1, <1>2, <1>5, <1>6 DEF Apart, Onward, pool
<1>8. Story(s)'
  <2> DEFINE t == s
  <2>1. /\ t \in Session /\ on[t] = w /\ active[w] = t /\ Story(t) /\ step[t] \in {"prompting", "reading"}
        /\ last'[t] # NoOne => \E n \in 1 .. run[t] : last'[t] = <<t, n>>
        /\ Turn(t) \in spoken => last'[t] = Turn(t)
    BY <1>1, <1>2, <1>6
  <2> QED
    <3>1. ASSUME NEW z \in Session, z = t PROVE Story(z)'
      BY <2>1, <3>1 DEF Story, Own, Early, Late, Turn, pool
    <3>2. active' = active
      OBVIOUS
    <3> QED BY <1>1, <3>1, <3>2
<1>9. ASSUME NEW x, Has(wire'[w], x) PROVE Has(wire[w], x) \/ x = Line("settled", agent[w])
  BY <1>4, <1>5, <1>9, HasMore
<1>10. AloneAt(w)'
  <2>1. AgentAlone(w)'
    BY <1>2, <1>5 DEF AgentAlone
  <2>2. LinesAlone(w)'
    BY <1>2, <1>5, <1>9 DEF LinesAlone, Line, Turn
  <2>3. Clean(w)'
    BY <1>1, <1>2 DEF Clean, pool
  <2> QED BY <2>1, <2>2, <2>3 DEF AloneAt
<1>11. ASSUME NEW x, Has(wire'[w], x) PROVE Has(wire[w], x) \/ Told(x)'
  BY <1>9, <1>11 DEF Told, Line
<1> QED BY <1>1, <1>7, <1>8, <1>10, <1>11, OwnLocal

(* A new run has no text, and its turn none either.                        *)
LEMMA OwnBegin ==
  ASSUME PiInv, PiTypes, KeeperInv, OwnInv, NEW s \in Session, Begin(s) PROVE OwnInv'
<1>1. /\ step[s] = "idle" /\ on[s] = NoOne /\ run' = [run EXCEPT ![s] = run[s] + 1]
      /\ words' = [words EXCEPT ![s] = {}] /\ step'[s] \in Queued
      /\ UNCHANGED <<verdict, active, settling, agent, last, wire, orphans, spoken>>
      /\ run[s] \in Nat /\ Story(s)
  <2>1. step'[s] \in Queued
    BY DEF Begin, Set, PiInv, PoolInv, PoolTypes, Queued
  <2>2. run[s] \in Nat /\ Story(s) /\ on[s] = NoOne
    BY DEF Begin, PiInv, PoolInv, Holders, Held, WireTypes, OwnInv
  <2> QED BY <2>1, <2>2 DEF Begin, Set, adapter, process
<1>2. PICK w \in Worker \cup {NoOne} :
        /\ on'[s] = w /\ \A t \in Session : on[t] = w => w = NoOne
        /\ \A t \in Session \ {s} : on'[t] = on[t] /\ step'[t] = step[t]
  BY <1>1 DEF Begin, Set, PiInv, PoolInv, PoolTypes, Holders
<1>3. \A t \in Session \ {s} : words'[t] = words[t] /\ run'[t] = run[t]
  BY <1>1 DEF PiTypes, PiInv, WireTypes
<1>4. run'[s] = run[s] + 1 /\ words'[s] = {}
  BY <1>1 DEF PiTypes, PiInv, WireTypes
<1>5. Apart(s, w) /\ Onward(s)
  BY <1>1, <1>2, <1>3, <1>4 DEF Apart, Onward
<1>6. Story(s)'
  <2>1. step'[s] # "idle" /\ step'[s] \notin Late /\ run'[s] # 0
    BY <1>1, <1>4 DEF Queued, Late
  <2>2. Turn(s)' \notin spoken
    <3>1. ASSUME <<s, run[s] + 1>> \in spoken PROVE FALSE
      BY <1>1, <3>1 DEF OwnInv
    <3> QED BY <1>4, <3>1 DEF Turn
  <2>3. last'[s] # NoOne => \E n \in 1 .. run'[s] : last'[s] = <<s, n>>
    <3>1. 1 .. run[s] \subseteq 1 .. (run[s] + 1)
      BY <1>1
    <3> QED BY <1>1, <1>4, <3>1 DEF Story
  <2> QED BY <1>1, <1>4, <2>1, <2>2, <2>3 DEF Story, Own, Late
<1>7. ASSUME w \in Worker PROVE AloneAt(w)'
  <2>1. active[w] = NoOne
    BY <1>2, <1>7 DEF PiInv, PoolInv, PoolTypes, Holders
  <2>2. AgentAlone(w)' /\ LinesAlone(w)'
    BY <1>1, <1>7, <2>1 DEF AgentAlone, LinesAlone, OwnInv, AloneAt
  <2>3. Clean(w)'
    BY <1>1, <1>2, <1>7 DEF Clean, Queued, PiInv, PoolInv
  <2> QED BY <2>2, <2>3 DEF AloneAt
<1> QED BY <1>1, <1>5, <1>6, <1>7, OwnLocal

(* A run asks its worker for the session.                                  *)
LEMMA OwnAsk ==
  ASSUME PiInv, PiTypes, KeeperInv, OwnInv, NEW s \in Session, NEW w \in Worker, on[s] = w,
         step[s] = "granted", step' = [step EXCEPT ![s] = "preparing"],
         UNCHANGED <<pool, run, words, verdict, active, settling, agent, last, orphans, spoken>>,
         NEW q \in {<<>>, wire[w]}, wire' = [wire EXCEPT ![w] = q \o <<Line("prepared", Turn(s))>>]
  PROVE  OwnInv'
<1> DEFINE l == Line("prepared", Turn(s))
<1>1. /\ \A t \in Session \ {s} : on[t] # w
      /\ w # NoOne /\ AgentAlone(w) /\ Story(s) /\ active[w] = NoOne /\ agent[w] = NoOne
  BY OwnHolder
<1>2. /\ step'[s] = "preparing" /\ wire'[w] = q \o <<l>>
      /\ \A t \in Session \ {s} : step'[t] = step[t]
      /\ \A x \in Worker \ {w} : wire'[x] = wire[x]
  BY DEF PiInv, PoolInv, PoolTypes, WireTypes
<1>3. Apart(s, w) /\ Onward(s)
  BY <1>1, <1>2 DEF Apart, Onward, Queued, Early, pool
<1>4. Story(s)'
  BY <1>1, <1>2 DEF Story, Own, Early, Late, Turn
<1>5. l \in Lines /\ q \in Seq(Lines)
  <2>1. l \in Lines
    BY LinesOfTurn DEF PiInv, Responses
  <2>2. wire[w] \in Seq(Lines)
    BY WireAt
  <2>3. <<>> \in Seq(Lines)
    OBVIOUS
  <2> QED BY <2>1, <2>2, <2>3
<1>6. \A x : Has(q, x) => Has(wire[w], x)
  BY HasOne
<1>7. ASSUME NEW x, Has(wire'[w], x) PROVE Has(wire[w], x) \/ x = l
  <2> HIDE DEF l
  <2>1. Has(q, x) \/ x = l
    BY <1>2, <1>5, <1>7, MoreHas
  <2> QED BY <1>6, <2>1
<1>8. ASSUME NEW x, x = l PROVE Told(x)'
  BY <1>2, <1>8 DEF Told, Past, Turn, Line, Queued, PiInv, WireTypes
<1>9. ASSUME NEW x, Behind(wire'[w], l, x) PROVE x = l
  <2>1. ~Has(wire[w], l)
    BY DEF OwnInv, Told, Past, Turn, Line, Queued
  <2> HIDE DEF l
  <2>2. Behind(q, l, x) \/ x = l
    BY <1>2, <1>5, <1>9, MoreHas
  <2> QED BY <1>6, <2>1, <2>2, BehindHas
<1>10. AloneAt(w)'
  <2>1. AgentAlone(w)' /\ LinesAlone(w)'
    BY <1>1 DEF AgentAlone, LinesAlone
  <2>2. Clean(w)'
    BY <1>1, <1>9 DEF Clean, Line, Turn, pool
  <2> QED BY <2>1, <2>2 DEF AloneAt
<1> HIDE DEF l
<1> QED BY <1>3, <1>4, <1>7, <1>8, <1>10, OwnLocal

(* Whatever the state of its process, the worker of a run that starts has  *)
(* no agent at work.                                                       *)
LEMMA OwnStart ==
  ASSUME PiInv, PiTypes, KeeperInv, OwnInv, NEW s \in Session, Start(s) PROVE OwnInv'
<1> DEFINE w == on[s]
           l == Line("prepared", Turn(s))
<1>1. w \in Worker /\ step[s] = "granted" /\ UNCHANGED <<run, words, spoken>>
  BY DEF Start, PiInv, PoolInv, PoolTypes, Holders, Held
<1>2. agent[w] = NoOne /\ l \in Lines /\ wire[w] \in Seq(Lines) /\ [agent EXCEPT ![w] = NoOne] = agent
  <2>1. agent[w] = NoOne
    BY <1>1, OwnHolder
  <2>2. [agent EXCEPT ![w] = NoOne] = agent
    BY <1>1, <2>1 DEF PiInv, WireTypes
  <2> QED BY <1>1, <2>1, <2>2, LinesOfTurn, WireAt DEF PiInv, Responses
<1>3. CASE /\ UNCHANGED <<pool, verdict, active, settling, last, orphans, agent>>
           /\ wire' = [wire EXCEPT ![w] = <<l>>] /\ step' = [step EXCEPT ![s] = "preparing"]
  <2>1. <<>> \o <<l>> = <<l>>
    BY <1>2
  <2> QED BY <1>1, <1>3, <2>1, OwnAsk
<1>4. CASE Leave(s, "failed") /\ UNCHANGED <<agent, last, wire, orphans>>
  <2>1. agent'[w] = NoOne /\ agent' \in {agent, [agent EXCEPT ![w] = NoOne]}
    BY <1>2, <1>4
  <2>2. \A x \in Worker \ {w} : wire'[x] = wire[x] /\ orphans'[x] = orphans[x]
    BY <1>4
  <2> QED BY <1>1, <1>4, <2>1, <2>2, OwnLeave
<1>5. CASE /\ UNCHANGED <<pool, verdict, active, settling, last, orphans, agent>>
           /\ wire' = [wire EXCEPT ![w] = wire[w] \o <<l>>] /\ step' = [step EXCEPT ![s] = "preparing"]
  BY <1>1, <1>5, OwnAsk
<1>6. Aborted(w) \o <<l>> = <<l>>
  BY <1>2 DEF Aborted
<1> HIDE DEF l
<1>7. CASE Abort(w, <<l>>) /\ step' = [step EXCEPT ![s] = "preparing"]
           /\ UNCHANGED <<pool, verdict, active, settling, orphans>>
  BY <1>2, <1>5, <1>6, <1>7 DEF Abort, Put, Set
<1> QED
  <2>1. CASE broken[w] # "no" /\ step' = [step EXCEPT ![s] = "preparing"] /\ agent' = Set(agent, w, NoOne)
             /\ wire' = Set(wire, w, <<l>>)
             /\ orphans' = (IF agent[w] = NoOne \/ w \in blocked THEN orphans
                            ELSE Set(orphans, w, orphans[w] \cup {agent[w]}))
             /\ UNCHANGED <<pool, verdict, active, settling, last>>
    BY <1>2, <1>3, <2>1 DEF Set
  <2> QED BY <1>4, <1>5, <1>7, <2>1 DEF Start, Put, Set, adapter, l

(* The answer makes the run active, and its prompt sets the agent to work. *)
LEMMA OwnPrepared ==
  ASSUME PiInv, PiTypes, KeeperInv, OwnInv, NEW s \in Session, NEW w \in Worker, on[s] = w,
         step[s] = "preparing", wire[w] # <<>>, Head(wire[w]) = Line("prepared", Turn(s)),
         Prepared(w, s), UNCHANGED <<run, orphans, spoken>>
  PROVE  OwnInv'
<1> DEFINE l == Line("prompted", Turn(s))
<1>1. /\ \A t \in Session \ {s} : on[t] # w
      /\ w # NoOne /\ AgentAlone(w) /\ Clean(w) /\ Story(s) /\ agent[w] = NoOne /\ s # NoOne
  BY OwnHolder DEF PiInv, PoolInv
<1>2. /\ active' = [active EXCEPT ![w] = s] /\ settling' = settling \ {w}
      /\ step' = [step EXCEPT ![s] = "prompting"] /\ agent' = [agent EXCEPT ![w] = Turn(s)]
      /\ wire' = [wire EXCEPT ![w] = Append(Tail(wire[w]), l)]
      /\ UNCHANGED <<pool, words, verdict, last>>
  BY <1>1 DEF Prepared, Set
<1>3. /\ active'[w] = s /\ step'[s] = "prompting" /\ agent'[w] = Turn(s)
      /\ wire'[w] = Append(Tail(wire[w]), l) /\ w \notin settling'
      /\ \A t \in Session \ {s} : step'[t] = step[t]
      /\ \A x \in Worker \ {w} : agent'[x] = agent[x] /\ active'[x] = active[x] /\ wire'[x] = wire[x]
  BY <1>2 DEF PiInv, PoolInv, PoolTypes, WireTypes
<1>4. Turn(s) # NoOne /\ l \in Lines /\ wire[w] \in Seq(Lines) /\ Tail(wire[w]) \in Seq(Lines)
  BY LinesOfTurn, WireAt, FirstLine DEF PiInv, Responses, OwnInv
<1>5. Apart(s, w) /\ Onward(s)
  BY <1>1, <1>2, <1>3 DEF Apart, Onward, Queued, Early, pool
<1>6. Story(s)'
  BY <1>1, <1>2, <1>3, <1>4 DEF Story, Own, Early, Late, Turn, pool
<1>7. ASSUME NEW x, Has(wire'[w], x)
      PROVE  x = l \/ (Has(wire[w], x) /\ x.m \notin {"delta", "settled"})
  <2> HIDE DEF l
  <2>1. x = l \/ Has(Tail(wire[w]), x)
    BY <1>3, <1>4, <1>7, MoreHas
  <2>2. Has(Tail(wire[w]), x) => Has(wire[w], x) /\ Behind(wire[w], Line("prepared", Turn(s)), x)
    BY <1>4, HasTail
  <2> QED BY <1>1, <2>1, <2>2 DEF Clean
<1>8. ASSUME NEW x, Has(wire[w], x) PROVE ~(x.m = "text" /\ x.turn = Turn(s))
  <2>1. Told(x)
    BY <1>8 DEF OwnInv
  <2> QED BY <2>1 DEF Told, Past, Turn, Early
<1>9. AloneAt(w)'
  <2>1. AgentAlone(w)'
    BY <1>1, <1>2, <1>3 DEF AgentAlone, Turn
  <2>2. LinesAlone(w)'
    <3>1. ASSUME NEW x, Has(wire'[w], x)
          PROVE  x.m \notin {"delta", "settled"} /\ ~(x.m = "text" /\ x.turn = Turn(s))
      BY <1>7, <1>8, <3>1 DEF Line
    <3> QED BY <1>3, <3>1 DEF LinesAlone, Turn
  <2>3. Clean(w)'
    BY <1>1, <1>2, <1>3 DEF Clean, pool
  <2> QED BY <2>1, <2>2, <2>3 DEF AloneAt
<1>10. ASSUME NEW x, Has(wire'[w], x) PROVE Has(wire[w], x) \/ Told(x)'
  BY <1>7, <1>10 DEF Told, Line
<1> QED BY <1>5, <1>6, <1>9, <1>10, OwnLocal

(* The runs stay as they are: a line of no weight comes, or some go.       *)
LEMMA OwnQuiet ==
  ASSUME PiInv, PiTypes, KeeperInv, OwnInv, NEW w \in Worker,
         UNCHANGED <<pool, step, run, words, verdict, active, agent, last, spoken>>,
         settling' \subseteq settling,
         \A x \in Worker \ {w} : wire'[x] = wire[x] /\ orphans'[x] = orphans[x],
         orphans'[w] \in {orphans[w], {}},
         \A x : Has(wire'[w], x) => Has(wire[w], x) \/ x.m = "dialog",
         \A x, y : Behind(wire'[w], x, y) => Behind(wire[w], x, y) \/ y.m = "dialog"
  PROVE  OwnInv'
<1>1. NoOne \notin Session /\ AgentAlone(w) /\ LinesAlone(w) /\ Clean(w)
  BY DEF PiInv, PoolInv, OwnInv, AloneAt
<1>2. Apart(NoOne, w)
  BY <1>1 DEF Apart, pool
<1>3. AloneAt(w)'
  <2>1. AgentAlone(w)'
    BY <1>1 DEF AgentAlone, Turn
  <2>2. LinesAlone(w)'
    BY <1>1 DEF LinesAlone, Turn
  <2>3. Clean(w)'
    BY <1>1 DEF Clean, Turn, pool
  <2> QED BY <2>1, <2>2, <2>3 DEF AloneAt
<1>4. ASSUME NEW x, Has(wire'[w], x) PROVE Has(wire[w], x) \/ Told(x)'
  BY <1>4 DEF Told
<1> QED BY <1>1, <1>2, <1>3, <1>4, OwnLocal

(* A line is gone.                                                         *)
LEMMA OwnDrop ==
  ASSUME PiInv, NEW w \in Worker, wire[w] # <<>>, wire' = [wire EXCEPT ![w] = Tail(wire[w])]
  PROVE  /\ \A x \in Worker \ {w} : wire'[x] = wire[x]
         /\ \A x : Has(wire'[w], x) => Has(wire[w], x)
         /\ \A x, y : Behind(wire'[w], x, y) => Behind(wire[w], x, y)
         /\ Has(wire[w], Head(wire[w])) /\ wire'[w] = Tail(wire[w])
<1>1. wire[w] \in Seq(Lines) /\ wire'[w] = Tail(wire[w]) /\ \A x \in Worker \ {w} : wire'[x] = wire[x]
  BY WireAt
<1> QED BY <1>1, HasTail

(* The prompt was taken.                                                   *)
LEMMA OwnReading ==
  ASSUME PiInv, PiTypes, KeeperInv, OwnInv, NEW s \in Session, NEW w \in Worker, on[s] = w,
         step[s] = "prompting", wire[w] # <<>>, Reading(w, s), UNCHANGED <<run, orphans, spoken>>
  PROVE  OwnInv'
<1>1. /\ \A t \in Session \ {s} : on[t] # w
      /\ w # NoOne /\ AgentAlone(w) /\ LinesAlone(w) /\ Story(s) /\ active[w] = s
  BY OwnHolder DEF Late
<1>2. /\ step' = [step EXCEPT ![s] = "reading"] /\ wire' = [wire EXCEPT ![w] = Tail(wire[w])]
      /\ UNCHANGED <<pool, words, verdict, active, settling, agent, last>>
  BY DEF Reading, Set
<1>3. /\ step'[s] = "reading" /\ \A t \in Session \ {s} : step'[t] = step[t]
  BY <1>2 DEF PiInv, PoolInv, PoolTypes
<1>4. /\ \A x \in Worker \ {w} : wire'[x] = wire[x]
      /\ \A x : Has(wire'[w], x) => Has(wire[w], x)
  BY <1>2, OwnDrop
<1>5. Apart(s, w) /\ Onward(s)
  BY <1>1, <1>2, <1>3, <1>4 DEF Apart, Onward, Queued, Early, pool
<1>6. Story(s)'
  BY <1>1, <1>2, <1>3 DEF Story, Own, Early, Late, Turn, pool
<1>7. AloneAt(w)'
  <2>1. AgentAlone(w)'
    BY <1>1, <1>2, <1>3 DEF AgentAlone, Turn
  <2>2. LinesAlone(w)'
    BY <1>1, <1>2, <1>4 DEF LinesAlone, Turn
  <2>3. Clean(w)'
    BY <1>1, <1>2, <1>3 DEF Clean, pool
  <2> QED BY <2>1, <2>2, <2>3 DEF AloneAt
<1> QED BY <1>4, <1>5, <1>6, <1>7, OwnLocal

(* An answer to the run it belongs to, or to one that has gone.            *)
LEMMA OwnResponse ==
  ASSUME PiInv, PiTypes, KeeperInv, OwnInv, NEW w \in Worker, Response(w) PROVE OwnInv'
<1> DEFINE h == Head(wire[w])
           s == h.turn[1]
<1>1. wire[w] # <<>> /\ h \in Lines /\ h.turn \in Turns /\ s \in Session /\ Tail(wire[w]) \in Seq(Lines)
      /\ UNCHANGED <<run, orphans, spoken>>
  BY FirstTurn, FirstLine DEF Response
<1>2. CASE h.m = "prepared" /\ Turn(s) = h.turn /\ on[s] = w /\ step[s] = "preparing" /\ Prepared(w, s)
  <2>1. h = Line("prepared", Turn(s))
    BY <1>1, <1>2 DEF Lines, Line
  <2> QED BY <1>1, <1>2, <2>1, OwnPrepared
<1>3. CASE on[s] = w /\ step[s] = "prompting" /\ Reading(w, s)
  BY <1>1, <1>3, OwnReading
<1>4. CASE on[s] = w /\ step[s] = "prompting" /\ Giveup(w, s, Tail(wire[w]))
           /\ UNCHANGED <<pool, words, verdict, active, settling>>
  <2>1. \A x : Has(Tail(wire[w]), x) => Has(wire[w], x)
    BY <1>1, WireAt, HasTail
  <2> QED BY <1>1, <1>4, <2>1, OwnGiveup
<1>5. CASE on[s] = w /\ step[s] = "aborting" /\ Leave(s, "failed")
           /\ wire' = Set(wire, w, Tail(wire[w])) /\ UNCHANGED <<words, agent, last>>
  <2>1. agent[w] = NoOne
    BY <1>1, <1>5, OwnHolder
  <2>2. /\ \A x \in Worker \ {w} : wire'[x] = wire[x]
        /\ \A x : Has(wire'[w], x) => Has(wire[w], x)
    BY <1>1, <1>5, OwnDrop DEF Set
  <2> QED BY <1>1, <1>5, <2>1, <2>2, OwnLeave
<1>6. CASE wire' = Set(wire, w, Tail(wire[w]))
           /\ UNCHANGED <<pool, words, step, verdict, active, settling, agent, last>>
  <2>1. /\ \A x \in Worker \ {w} : wire'[x] = wire[x]
        /\ \A x : Has(wire'[w], x) => Has(wire[w], x)
        /\ \A x, y : Behind(wire'[w], x, y) => Behind(wire[w], x, y)
    BY <1>1, <1>6, OwnDrop DEF Set
  <2> QED BY <1>1, <1>6, <2>1, OwnQuiet
<1> QED BY <1>2, <1>3, <1>4, <1>5, <1>6 DEF Response

(* The active run hears its own text.                                      *)
LEMMA OwnText ==
  ASSUME PiInv, PiTypes, KeeperInv, OwnInv, NEW w \in Worker, Event(w), Head(wire[w]).m = "delta"
  PROVE  OwnInv'
<1> DEFINE h == Head(wire[w])
           s == active[w]
<1>1. /\ wire[w] # <<>> /\ wire' = [wire EXCEPT ![w] = Tail(wire[w])]
      /\ words' = IF s = NoOne THEN words ELSE [words EXCEPT ![s] = words[s] \cup {h.turn}]
      /\ UNCHANGED <<pool, step, run, verdict, active, settling, agent, last, orphans, spoken>>
  BY DEF Event, HearText, Set
<1>2. /\ \A x \in Worker \ {w} : wire'[x] = wire[x]
      /\ \A x : Has(wire'[w], x) => Has(wire[w], x)
      /\ \A x, y : Behind(wire'[w], x, y) => Behind(wire[w], x, y)
      /\ Has(wire[w], h)
  BY <1>1, OwnDrop
<1>3. CASE s = NoOne
  BY <1>1, <1>2, <1>3, OwnQuiet
<1>4. CASE s # NoOne
  <2>1. s \in Session /\ on[s] = w
    BY <1>4, OwnActive
  <2>2. /\ \A t \in Session \ {s} : on[t] # w
        /\ w # NoOne /\ AgentAlone(w) /\ LinesAlone(w) /\ Clean(w) /\ Story(s) /\ step[s] \in Late
    BY <1>4, <2>1, OwnHolder DEF KeeperInv, Blocks, Late
  <2>3. h.turn = Turn(s) /\ Turn(s) \in spoken
    BY <1>2, <1>4, <2>2 DEF LinesAlone, OwnInv, Told
  <2>4. words'[s] = words[s] \cup {Turn(s)} /\ \A t \in Session \ {s} : words'[t] = words[t]
    BY <1>1, <1>4, <2>1, <2>3 DEF PiTypes
  <2>5. Apart(s, w) /\ Onward(s)
    BY <1>1, <1>2, <2>1, <2>2, <2>4 DEF Apart, Onward, pool
  <2>6. ASSUME NEW z \in Session, z = s PROVE Story(z)'
    <3>1. words'[z] = {Turn(z)} /\ step[z] \in Late /\ Story(z) /\ Turn(z) \in spoken
      BY <2>2, <2>3, <2>4, <2>6 DEF Story, Late
    <3> QED BY <1>1, <3>1 DEF Story, Own, Early, Late, Turn, pool
  <2>7. AloneAt(w)'
    <3>1. AgentAlone(w)'
      BY <1>1, <2>2 DEF AgentAlone, Turn
    <3>2. LinesAlone(w)'
      BY <1>1, <1>2, <2>2 DEF LinesAlone, Turn
    <3>3. Clean(w)'
      BY <1>1, <1>2, <2>2 DEF Clean, Turn, pool
    <3> QED BY <3>1, <3>2, <3>3 DEF AloneAt
  <2>8. PICK z \in Session : z = s
    BY <2>1
  <2>9. Apart(z, w) /\ Onward(z) /\ Story(z)'
    BY <2>5, <2>6, <2>8
  <2> QED BY <1>2, <2>7, <2>9, OwnLocal
<1> QED BY <1>3, <1>4

(* The active run has heard that its agent has settled.                    *)
LEMMA OwnSettled ==
  ASSUME PiInv, PiTypes, KeeperInv, OwnInv, NEW w \in Worker, Event(w), Head(wire[w]).m = "settled"
  PROVE  OwnInv'
<1> DEFINE h == Head(wire[w])
           s == active[w]
           l == Line("text", Turn(s))
<1>1. /\ wire[w] # <<>> /\ HearSettled(w, Tail(wire[w]))
      /\ UNCHANGED <<pool, step, run, words, verdict, active, agent, last, orphans, spoken>>
  BY DEF Event
<1>2. wire[w] \in Seq(Lines) /\ Tail(wire[w]) \in Seq(Lines) /\ Has(wire[w], h)
      /\ (\A x : Has(Tail(wire[w]), x) => Has(wire[w], x))
      /\ (\A x, y : Behind(Tail(wire[w]), x, y) => Behind(wire[w], x, y))
  BY <1>1, WireAt, FirstLine, HasTail
<1>3. CASE wire' = Set(wire, w, Tail(wire[w])) /\ UNCHANGED settling
  <2>1. /\ \A x \in Worker \ {w} : wire'[x] = wire[x]
        /\ \A x : Has(wire'[w], x) => Has(wire[w], x)
        /\ \A x, y : Behind(wire'[w], x, y) => Behind(wire[w], x, y)
    BY <1>1, <1>3, OwnDrop DEF Set
  <2> QED BY <1>1, <1>3, <2>1, OwnQuiet
<1>4. CASE s # NoOne /\ settling' = settling \cup {w} /\ wire' = Set(wire, w, Append(Tail(wire[w]), l))
  <2>1. s \in Session /\ on[s] = w
    BY <1>4, OwnActive
  <2>2. /\ \A t \in Session \ {s} : on[t] # w
        /\ w # NoOne /\ AgentAlone(w) /\ LinesAlone(w) /\ Clean(w) /\ Story(s) /\ step[s] \in Late
    BY <1>4, <2>1, OwnHolder DEF KeeperInv, Blocks, Late
  <2>3. agent[w] = NoOne
    BY <1>2, <1>4, <2>2 DEF LinesAlone
  <2>4. wire'[w] = Append(Tail(wire[w]), l) /\ \A x \in Worker \ {w} : wire'[x] = wire[x]
    BY <1>4, WireAt DEF Set
  <2>5. l \in Lines
    BY <2>1, LinesOfTurn DEF PiInv
  <2>6. Apart(s, w) /\ Onward(s)
    BY <1>1, <1>4, <2>1, <2>2, <2>4 DEF Apart, Onward, pool
  <2>7. ASSUME NEW z \in Session, z = s PROVE Story(z)'
    BY <1>1, <2>2, <2>7 DEF Story, Own, Early, Late, Turn, pool
  <2>8. ASSUME NEW x, Has(wire'[w], x) PROVE Has(wire[w], x) \/ x = l
    <3> HIDE DEF l
    <3>1. Has(Tail(wire[w]), x) \/ x = l
      BY <1>2, <2>4, <2>5, <2>8, MoreHas
    <3> QED BY <1>2, <3>1
  <2>9. ASSUME NEW x, x = l PROVE Told(x)'
    BY <1>1, <2>1, <2>2, <2>9 DEF Told, Past, Turn, Line, Early, Late, PiInv, WireTypes
  <2>10. AloneAt(w)'
    <3>1. AgentAlone(w)'
      BY <1>1, <2>2, <2>3 DEF AgentAlone
    <3>2. LinesAlone(w)'
      BY <1>1, <2>2, <2>3, <2>8 DEF LinesAlone, Turn, Line
    <3>3. Clean(w)'
      <4>1. \A t \in Session : on'[t] = w => step'[t] # "preparing"
        BY <1>1, <2>2 DEF Late, pool
      <4> QED BY <4>1 DEF Clean
    <3> QED BY <3>1, <3>2, <3>3 DEF AloneAt
  <2>11. PICK z \in Session : z = s
    BY <2>1
  <2>12. Apart(z, w) /\ Onward(z) /\ Story(z)'
    BY <2>6, <2>7, <2>11
  <2>13. \A x : Has(wire'[w], x) => Has(wire[w], x) \/ Told(x)'
    BY <2>8, <2>9
  <2> QED BY <2>10, <2>12, <2>13, OwnLocal
<1> QED BY <1>1, <1>3, <1>4 DEF HearSettled

(* A request for a dialog has no words.                                    *)
LEMMA OwnDialog ==
  ASSUME PiInv, PiTypes, KeeperInv, OwnInv, NEW w \in Worker, DialogRequested(w) PROVE OwnInv'
<1>1. wire[w] # <<>> /\ wire' = [wire EXCEPT ![w] = Tail(wire[w])]
      /\ UNCHANGED <<pool, step, run, words, verdict, active, settling, agent, last, orphans, spoken>>
  BY DEF DialogRequested, Set, adapter
<1>2. /\ \A x \in Worker \ {w} : wire'[x] = wire[x]
      /\ \A x : Has(wire'[w], x) => Has(wire[w], x)
      /\ \A x, y : Behind(wire'[w], x, y) => Behind(wire[w], x, y)
  BY <1>1, OwnDrop
<1> QED BY <1>1, <1>2, OwnQuiet

(* The run has its last text: of its own turn if that wrote any.           *)
LEMMA OwnCompleted ==
  ASSUME PiInv, PiTypes, KeeperInv, OwnInv, NEW w \in Worker, Completed(w) PROVE OwnInv'
<1> DEFINE h == Head(wire[w])
           s == h.turn[1]
           said == IF words[s] = {} /\ last[s] # NoOne THEN {last[s]} ELSE words[s]
<1>1. /\ wire[w] # <<>> /\ h.m = "text" /\ s \in Session /\ Tail(wire[w]) \in Seq(Lines)
      /\ UNCHANGED <<run, orphans, spoken>>
  BY FirstLine DEF Completed
<1>2. Has(wire[w], h) /\ \A x : Has(Tail(wire[w]), x) => Has(wire[w], x)
  BY <1>1, WireAt, HasTail
<1>3. CASE /\ Turn(s) = h.turn /\ on[s] = w /\ step[s] = "reading" /\ said # {}
           /\ words' = [words EXCEPT ![s] = said] /\ Leave(s, "completed")
           /\ wire' = [wire EXCEPT ![w] = Tail(wire[w])] /\ UNCHANGED <<agent, last>>
  <2>1. /\ s # NoOne /\ active[w] = s /\ LinesAlone(w) /\ Story(s)
    BY <1>1, <1>3, OwnHolder DEF Late, PiInv, PoolInv
  <2>2. agent[w] = NoOne
    BY <1>1, <1>2, <1>3, <2>1 DEF LinesAlone
  <2>3. words'[s] = said /\ \A t \in Session \ {s} : words'[t] = words[t]
    BY <1>1, <1>3 DEF PiTypes
  <2>4. /\ Turn(s) \in spoken => last[s] = Turn(s)
        /\ last[s] # NoOne => \E n \in 1 .. run[s] : last[s] = <<s, n>>
        /\ words[s] # {} => words[s] = {Turn(s)} /\ Turn(s) \in spoken
        /\ Turn(s) # NoOne
    BY <1>1, <1>3, <2>1, <2>2, LinesOfTurn DEF Story, OwnInv, PiInv
  <2>5. IF Turn(s) \in spoken THEN words'[s] = {Turn(s)} ELSE \E n \in 1..run[s] : words'[s] = {<<s, n>>}
    <3>1. CASE Turn(s) \in spoken
      BY <2>3, <2>4, <3>1
    <3>2. CASE Turn(s) \notin spoken
      <4>1. words[s] = {} /\ last[s] # NoOne /\ words'[s] = {last[s]}
        BY <1>3, <2>3, <2>4, <3>2
      <4> QED BY <2>4, <3>2, <4>1
    <3> QED BY <3>1, <3>2
  <2>6. /\ \A x \in Worker \ {w} : wire'[x] = wire[x]
        /\ \A x : Has(wire'[w], x) => Has(wire[w], x)
    BY <1>1, <1>3, OwnDrop
  <2> HIDE DEF said
  <2> QED BY <1>1, <1>3, <2>2, <2>3, <2>5, <2>6, OwnLeave
<1>4. CASE on[s] = w /\ step[s] = "reading" /\ Giveup(w, s, Tail(wire[w]))
           /\ UNCHANGED <<pool, words, verdict, active, settling>>
  BY <1>1, <1>2, <1>4, OwnGiveup
<1>5. CASE wire' = [wire EXCEPT ![w] = Tail(wire[w])]
           /\ UNCHANGED <<pool, words, step, verdict, active, settling, agent, last>>
  <2>1. /\ \A x \in Worker \ {w} : wire'[x] = wire[x]
        /\ \A x : Has(wire'[w], x) => Has(wire[w], x)
        /\ \A x, y : Behind(wire'[w], x, y) => Behind(wire[w], x, y)
    BY <1>1, <1>5, OwnDrop
  <2> QED BY <1>1, <1>5, <2>1, OwnQuiet
<1> HIDE DEF said
<1> QED BY <1>3, <1>4, <1>5 DEF Completed, Set, said

(* The gateway and the timer, while no run is dropped.                     *)
LEMMA OwnGateway ==
  ASSUME PiInv, PiTypes, KeeperInv, OwnInv, NEW s \in Session, dropped' = {},
         Offer(s) \/ Answer(s) \/ Cancel(s) \/ Timeout(s)
  PROVE  OwnInv'
<1> DEFINE w == on[s]
<1>1. ASSUME w \in Worker, UNCHANGED <<pool, step, run, words, verdict, active, settling, agent,
                                       last, wire, orphans, spoken>>
      PROVE  OwnInv'
  BY <1>1, OwnQuiet
<1>2. CASE Offer(s) \/ Answer(s)
  <2>1. w \in Worker
    BY <1>2 DEF Offer, Answer, KeeperInv, Blocks, PiInv, PoolInv, PoolTypes
  <2> QED BY <1>1, <1>2, <2>1 DEF Offer, Answer, adapter
<1>3. CASE Cancel(s)
  <2>1. w \in Worker
    BY <1>3 DEF Cancel, PiInv, PoolInv, PoolTypes
  <2> QED BY <1>3, <2>1, OwnSettle DEF Cancel, runs, adapter
<1>4. CASE Timeout(s)
  <2>1. w \in Worker
    BY <1>4 DEF Timeout, PiInv, PoolInv, PoolTypes, Holders, Held
  <2>2. wire[w] \in Seq(Lines)
    BY <2>1, WireAt
  <2> QED BY <1>4, <2>1, <2>2, OwnGiveup DEF Timeout, adapter
<1> QED BY <1>2, <1>3, <1>4

(* The agent writes text of its own turn.                                  *)
LEMMA OwnSpeaks ==
  ASSUME PiInv, PiTypes, KeeperInv, OwnInv, NEW w \in Worker, Speaks(w) PROVE OwnInv'
<1> DEFINE s == active[w]
           l == Line("delta", agent[w])
<1>1. /\ agent[w] # NoOne /\ spoken' = spoken \cup {agent[w]}
      /\ UNCHANGED <<pool, step, run, words, verdict, active, settling, agent, last, orphans>>
      /\ wire' = wire \/ wire' = [wire EXCEPT ![w] = wire[w] \o <<l>>]
  BY DEF Speaks, Put, Set, runs, adapter
<1>2. s \in Session /\ on[s] = w
  BY <1>1, OwnActive
<1>3. /\ \A t \in Session \ {s} : on[t] # w
      /\ w # NoOne /\ AgentAlone(w) /\ LinesAlone(w) /\ Clean(w) /\ Story(s)
      /\ step[s] \in {"prompting", "reading"} /\ agent[w] = Turn(s)
  BY <1>1, <1>2, OwnHolder
<1>4. l \in Lines /\ wire[w] \in Seq(Lines)
  BY <1>1, <1>2, <1>3, WireAt, LinesOfTurn DEF PiInv
<1>5. /\ \A x \in Worker \ {w} : wire'[x] = wire[x]
      /\ wire'[w] = wire[w] \/ wire'[w] = wire[w] \o <<l>>
  BY <1>1, WireAt
<1>6. ASSUME NEW x, Has(wire'[w], x) PROVE Has(wire[w], x) \/ x = l
  <2> HIDE DEF l
  <2> QED BY <1>4, <1>5, <1>6, MoreHas
<1>7. Apart(s, w) /\ Onward(s)
  BY <1>1, <1>2, <1>3, <1>5 DEF Apart, Onward, pool
<1>8. ASSUME NEW z \in Session, z = s PROVE Story(z)'
  <2>1. /\ on[z] = w /\ active[w] = z /\ Story(z) /\ step[z] \in {"prompting", "reading"}
        /\ agent[w] # NoOne /\ spoken' = spoken \cup {Turn(z)}
    BY <1>1, <1>2, <1>3, <1>8
  <2> QED BY <1>1, <2>1 DEF Story, Own, Early, Late, Turn, pool
<1>9. ASSUME NEW x, x = l PROVE Told(x)'
  BY <1>1, <1>9 DEF Told, Line
<1>10. AloneAt(w)'
  <2>1. AgentAlone(w)'
    BY <1>1, <1>3 DEF AgentAlone, Turn
  <2>2. LinesAlone(w)'
    BY <1>1, <1>3, <1>6 DEF LinesAlone, Turn, Line
  <2>3. Clean(w)'
    <3>1. \A t \in Session : on'[t] = w => step'[t] # "preparing"
      BY <1>1, <1>3 DEF pool
    <3> QED BY <3>1 DEF Clean
  <2> QED BY <2>1, <2>2, <2>3 DEF AloneAt
<1>11. PICK z \in Session : z = s
  BY <1>2
<1>12. Apart(z, w) /\ Onward(z) /\ Story(z)'
  BY <1>7, <1>8, <1>11
<1>13. \A x : Has(wire'[w], x) => Has(wire[w], x) \/ Told(x)'
  BY <1>6, <1>9
<1> QED BY <1>10, <1>12, <1>13, OwnLocal

(* What an agent does by itself; nobody was left.                          *)
LEMMA OwnAgent ==
  ASSUME PiInv, PiTypes, KeeperInv, OwnInv, NEW w \in Worker,
         Speaks(w) \/ Asks(w) \/ Settles(w) \/ OrphanSpeaks(w) \/ OrphanSettles(w)
  PROVE  OwnInv'
<1>1. CASE Asks(w)
  <2> DEFINE l == Line("dialog", agent[w])
  <2>1. /\ agent[w] # NoOne /\ wire' = [wire EXCEPT ![w] = wire[w] \o <<l>>]
        /\ UNCHANGED <<pool, step, run, words, verdict, active, settling, agent, last, orphans, spoken>>
    BY <1>1 DEF Asks, Put, Set, runs, adapter
  <2>2. l \in Lines /\ wire[w] \in Seq(Lines) /\ l.m = "dialog"
    BY <2>1, WireAt DEF PiInv, WireTypes, Line, Lines
  <2>3. wire'[w] = wire[w] \o <<l>> /\ \A x \in Worker \ {w} : wire'[x] = wire[x]
    BY <2>1, WireAt
  <2> HIDE DEF l
  <2>4. /\ \A x : Has(wire'[w], x) => Has(wire[w], x) \/ x = l
        /\ \A x, y : Behind(wire'[w], x, y) => Behind(wire[w], x, y) \/ y = l
    BY <2>2, <2>3, MoreHas
  <2> QED BY <2>1, <2>2, <2>3, <2>4, OwnQuiet
<1>2. CASE Settles(w)
  BY <1>2, OwnSettle DEF Settles, runs, adapter
<1>3. orphans[w] = {}
  BY DEF OwnInv, AloneAt, AgentAlone
<1> QED BY <1>1, <1>2, <1>3, OwnSpeaks DEF OrphanSpeaks, OrphanSettles

(* The process fails: its run gives up or is over, or nobody was active.   *)
LEMMA OwnFails ==
  ASSUME PiInv, PiTypes, KeeperInv, OwnInv, NEW w \in Worker, NEW alive \in BOOLEAN, Fails(w, alive),
         \A x \in Worker \ {w} : orphans'[x] = orphans[x], orphans'[w] \in {orphans[w], {}}
  PROVE  OwnInv'
<1>1. UNCHANGED <<run, words, spoken>>
  BY DEF Fails
<1>2. ASSUME Remains(w, alive)
      PROVE  /\ \A x \in Worker \ {w} : wire'[x] = wire[x]
             /\ \A x : Has(wire'[w], x) => Has(wire[w], x)
             /\ \A x, y : Behind(wire'[w], x, y) => Behind(wire[w], x, y)
             /\ agent' \in {agent, [agent EXCEPT ![w] = NoOne]} /\ UNCHANGED last
             /\ ~alive => agent' = [agent EXCEPT ![w] = NoOne]
  BY <1>2, WireAt, HasOne DEF Remains, Set
<1>3. ASSUME NEW s \in Session, on[s] = w, step[s] \in {"prompting", "reading"}, Giveup(w, s, wire[w]),
             UNCHANGED <<pool, verdict, active, settling>>
      PROVE  OwnInv'
  <2>1. wire[w] \in Seq(Lines)
    BY WireAt
  <2> QED BY <1>1, <1>3, <2>1, OwnGiveup
<1>4. ASSUME NEW s \in Session, on[s] = w, step[s] # "granted",
             ~(alive /\ step[s] \in {"prompting", "reading"}), Leave(s, "failed"), Remains(w, alive)
      PROVE  OwnInv'
  <2>1. alive => agent[w] = NoOne
    BY <1>4, OwnHolder
  <2>2. agent'[w] = NoOne
    BY <1>2, <1>4, <2>1 DEF PiInv, WireTypes
  <2> QED BY <1>1, <1>2, <1>4, <2>2, OwnLeave
<1>5. CASE /\ \A s \in Session : on[s] = w => step[s] = "granted"
           /\ Remains(w, alive) /\ UNCHANGED <<pool, step, verdict, active, settling>>
  <2>1. agent[w] = NoOne
    <3>1. ASSUME agent[w] # NoOne PROVE FALSE
      <4>1. active[w] \in Session /\ on[active[w]] = w
        BY <3>1, OwnActive
      <4> QED BY <1>5, <3>1, <4>1, OwnHolder
    <3> QED BY <3>1
  <2>2. agent' = agent
    BY <1>2, <1>5, <2>1 DEF PiInv, WireTypes
  <2> QED BY <1>1, <1>2, <1>5, <2>2, OwnQuiet
<1> QED BY <1>3, <1>4, <1>5 DEF Fails

(* Every step that drops no run keeps it.                                  *)
LEMMA OwnStep ==
  ASSUME PiInv, PiTypes, KeeperInv, dropped = {} => OwnInv, [Next]_vars
  PROVE  dropped' = {} => OwnInv'
<1> SUFFICES ASSUME dropped' = {} PROVE OwnInv'
  OBVIOUS
<1>1. OwnInv
  BY DEF Next, Deliver, Begin, Start, Offer, Answer, Cancel, Timeout, Response, Event, DialogRequested,
     Completed, Speaks, Asks, Settles, OrphanSpeaks, OrphanSettles, Exit, BrokenLine, OrphanExits, Fails, vars
<1>2. ASSUME NEW w \in Worker, Exit(w) \/ BrokenLine(w) \/ OrphanExits(w) PROVE OwnInv'
  <2>1. (\A x \in Worker \ {w} : orphans'[x] = orphans[x]) /\ orphans'[w] \in {orphans[w], {}}
    BY <1>2 DEF Exit, BrokenLine, OrphanExits, Set, PiInv, WireTypes
  <2> QED BY <1>1, <1>2, <2>1, OwnFails DEF Exit, BrokenLine, OrphanExits
<1>3. ASSUME NEW w \in Worker, Event(w) PROVE OwnInv'
  BY <1>1, <1>3, OwnText, OwnSettled DEF Event
<1>4. CASE UNCHANGED vars
  <2>1. UNCHANGED <<available, waiters, on, step, run, words, verdict, active, settling, agent, last, wire,
                    orphans, spoken>>
    BY <1>4 DEF vars, pool, runs, adapter, process
  <2> QED BY <1>1, <2>1 DEF OwnInv, AloneAt, AgentAlone, LinesAlone, Clean, Told, Past, Story, Own, Turn
<1> QED
  BY <1>1, <1>2, <1>3, <1>4, OwnBegin, OwnStart, OwnGateway, OwnResponse, OwnDialog, OwnCompleted, OwnAgent
     DEF Next, Deliver

(* Nothing was said yet.                                                   *)
LEMMA OwnInit == PiAssumption /\ Init => OwnInv
<1> SUFFICES ASSUME PiAssumption, Init PROVE OwnInv
  OBVIOUS
<1>1. NoOne \notin Turns
  BY DEF PiAssumption, Turns
<1>2. ASSUME NEW w \in Worker PROVE AloneAt(w) /\ \A x : Has(wire[w], x) => Told(x)
  <2>1. wire[w] = <<>> /\ orphans[w] = {} /\ agent[w] = NoOne /\ active[w] = NoOne
    BY DEF Init
  <2>2. \A s \in Session : step[s] # "preparing"
    BY DEF Init
  <2> QED BY <2>1, <2>2, HasOne DEF AloneAt, AgentAlone, LinesAlone, Clean
<1>3. ASSUME NEW s \in Session PROVE Story(s)
  BY DEF Init, Story, Own, Early, Late
<1> QED BY <1>1, <1>2, <1>3 DEF OwnInv, Init

-----------------------------------------------------------------------------
(* What holds in every reachable state.                                    *)

(* The types hold at first.                                                *)
LEMMA TypesInit == Init => PiTypes
BY DEF Init, PiTypes

(* Nobody waits at first.                                                  *)
LEMMA KeeperInit == Init => KeeperInv
BY DEF Init, KeeperInv, Blocks, KeeperAt

(* The invariants together; the one for words as long as no run was        *)
(* dropped.                                                                *)
PiAll == PiInv /\ PiTypes /\ KeeperInv /\ (dropped = {} => OwnInv)

(* They hold in every reachable state.                                     *)
THEOREM PiAllInvariant == PiAssumption /\ Spec => []PiAll
<1>1. PiAssumption /\ Init => PiAll
  BY PiInit, TypesInit, KeeperInit, OwnInit DEF PiAll
<1>2. PiAll /\ [Next]_vars => PiAll'
  BY PiStep, TypesStep, KeeperStep, OwnStep DEF PiAll
<1> QED BY <1>1, <1>2, PTL DEF Spec

(* Every variable keeps its type.                                          *)
THEOREM PiTypeOK == PiAssumption /\ Spec => []TypeOK
<1>1. PiAll => TypeOK
  BY DEF PiAll, PiInv, PoolInv, PoolTypes, PiTypes, TypeOK, Held
<1> QED BY <1>1, PiAllInvariant, PTL

(* An agent that waits for a dialog is not forgotten: its request is still *)
(* to be read, or the run that holds its worker has the dialog and cancels *)
(* it when it is over (extension_ui_request, releaseWorker, the finally    *)
(* blocks of run).                                                         *)
THEOREM PiDialogHasKeeper == PiAssumption /\ Spec => []DialogHasKeeper
<1>1. PiAll => DialogHasKeeper
  <2> SUFFICES ASSUME PiAll, NEW w \in blocked
               PROVE  \/ \E i \in DOMAIN wire[w] : wire[w][i].m = "dialog"
                      \/ \E s \in Session : on[s] = w /\ dialog[s] # "none"
    BY DEF DialogHasKeeper
  <2>1. w \in Worker /\ KeeperAt(w)
    BY DEF PiAll, PiTypes, KeeperInv
  <2>2. DOMAIN wire[w] = 1 .. Len(wire[w])
    BY <2>1, WireAt DEF PiAll
  <2> QED BY <2>1, <2>2 DEF KeeperAt, DialogIn
<1> QED BY <1>1, PiAllInvariant, PTL

(* A run completes with the text of its own turn, or, if that has written  *)
(* none, with the last text of its own session, whatever failed or was     *)
(* started anew, unless a run has left a worker without aborting its agent *)
(* (completeActiveRun, handleMessage).                                     *)
THEOREM PiOwnWords == PiAssumption /\ Spec => []OwnWords
<1>1. PiAll => OwnWords
  BY DEF PiAll, OwnInv, Story, Own, OwnWords
<1> QED BY <1>1, PiAllInvariant, PTL
=============================================================================
