------------------------- MODULE CodexAppServerProofs -------------------------
(***************************************************************************)
(* What a run of the Codex client answers with, who keeps its questions,   *)
(* and what became of them, for any number of threads, runs, requests and  *)
(* faults. Names with Cx are those of this proof.                          *)
(*                                                                         *)
(* The invariant has four parts. CxBase: the types, and how the step of a  *)
(* run, its entry in the client (activeTurns, turns, requests) and the     *)
(* life of the process agree. CxOrder: every turn of the child and every   *)
(* line that is still to be read belongs to a run that has begun; unless a *)
(* run of the thread was abandoned they are those of its last run, a turn  *)
(* ends once, and the child does not work on a turn whose end was written. *)
(* This makes the filter of notifications by thread safe although it       *)
(* cannot know the turn before turn/start is answered.                     *)
(*                                                                         *)
(* CxQuestions: in a child that is running, a request has an id of its     *)
(* own, and a keeper: its line, a tool handler, or the run of its thread.  *)
(* CxFates: the question that a run holds is open, or closed by the child, *)
(* or its turn has ended, or the line that says so comes before the one    *)
(* that accepts the run. The last two are needed for each other: a         *)
(* question is declined only behind another one of the same run.           *)
(*                                                                         *)
(* The lemmas with Does say what an action does to each variable, once and *)
(* for all; those with Base, Order, Questions and Fates, that it keeps a   *)
(* part of the invariant.                                                  *)
(***************************************************************************)
EXTENDS CodexAppServer, TLAPS

(* The lines of the child, the events of a run and the requests of the     *)
(* child, with their fields.                                               *)
CxKinds == {"initialized", "opened", "turned", "unloaded", "occupied", "ask", "tool",
            "resolved", "error", "completed"}
CxLines ==
  {l \in [m : CxKinds, t : Thread, n : Nat, id : Nat] : l.m = "ask" => l.id \in 1..MaxAsks}
CxEvents ==
  {e \in [e : {"ask", "error", "completed"}, n : Nat, id : Nat] :
     e.e = "ask" => e.id \in 1..MaxAsks}
CxWants == [id : Nat, t : Thread, n : Nat, tool : BOOLEAN]
CxSteps == {"idle", "starting", "opening", "turning", "reading"}
CxEnds  == {"open", "closed", "failed"}
CxVerdicts == {"none", "busy", "failed", "dropped", "completed"}

USE DEF CxSteps, CxEnds, CxVerdicts

(* The types of what is kept of the runs, of the lines and requests of the *)
(* child, and of the sets.                                                 *)
CxRunTypes ==
  /\ proc \in {"none", "starting", "ready", "killed", "stopping"}
  /\ turn \in [Thread -> SUBSET Nat] /\ active \in [Thread -> Nat]
  /\ run \in [Thread -> Nat] /\ (\A t \in Thread : run[t] <= MaxRuns[t])
  /\ ended \in [Thread -> CxEnds] /\ step \in [Thread -> CxSteps]
  /\ asking \in [Thread -> 0..MaxAsks] /\ queue \in [Thread -> Seq(CxEvents)]
  /\ verdict \in [Thread -> CxVerdicts] /\ answered \in [Thread -> Nat]

CxLineTypes ==
  /\ stdout \in Seq(CxLines) /\ wants \subseteq CxWants /\ (\A c \in tools : c.id \in Nat)
  /\ lapsed \subseteq Nat /\ stolen \subseteq Nat
  /\ asked \in 0..MaxAsks /\ nextId \in 1..(asked + 1)

CxSetTypes ==
  /\ serves \subseteq Thread /\ knows \subseteq Thread /\ userInputs \subseteq 1..MaxAsks
  /\ loaded \subseteq Thread /\ guessed \subseteq Thread /\ abandoned \subseteq Thread
  /\ outlived \subseteq Thread

CxTypes == CodexAssumption /\ CxRunTypes /\ CxLineTypes /\ CxSetTypes

(* A run that has not sent its turn yet.                                   *)
Young(t) == step[t] \in {"starting", "opening"}

(* What a step of a run tells of the process it runs in.                   *)
CxAt(t) ==
  /\ halted => step[t] = "idle"
  /\ turn[t] # {} \/ active[t] # 0 => proc \in {"ready", "stopping"}
  /\ step[t] = "starting" => proc = "starting"
  /\ step[t] \in {"opening", "turning"} => proc = "ready"
  /\ step[t] = "reading" => proc = "ready" \/ t \in outlived

CxWhen ==
  /\ proc = "stopping" => halted
  /\ wants # {} => proc \in {"ready", "stopping"}
  /\ \A t \in Thread : CxAt(t)
  /\ \A s, t \in Thread : step[s] = "starting" /\ step[t] = "starting" => s = t

(* How the step, the queue, the question and the entry of a thread         *)
(* (activeTurns, turns, requests) agree.                                   *)
CxThread(t) ==
  /\ step[t] # "idle" => run[t] # 0
  /\ queue[t] # <<>> => HasRequest(t)
  /\ asking[t] # 0 => step[t] = "reading"
  /\ t \in outlived => /\ step[t] \in {"idle", "reading"} /\ turn[t] = {} /\ active[t] = 0
                       /\ (step[t] = "reading" => ended[t] # "open")
  /\ HasRequest(t) => active[t] \in {0, run[t]} /\ (ended[t] = "open" => active[t] = run[t])
  /\ step[t] = "turning" => t \notin knows
  /\ step[t] = "reading" /\ active[t] # 0 => t \in knows
  /\ active[t] # 0 /\ t \notin abandoned => HasRequest(t) /\ ended[t] = "open"
  /\ verdict[t] = "busy" => t \in abandoned
  /\ \A i \in DOMAIN queue[t] :
       queue[t][i].e = "completed" => active[t] = 0 \/ t \in abandoned

(* The base of the invariant.                                              *)
CxBase == CxTypes /\ CxWhen /\ \A t \in Thread : CxThread(t)

(* A step that leaves the runs of thread x alone.                          *)
CxSame(x) ==
  /\ step'[x] = step[x] /\ run'[x] = run[x] /\ verdict'[x] = verdict[x]
  /\ answered'[x] = answered[x] /\ queue'[x] = queue[x] /\ ended'[x] = ended[x]
  /\ asking'[x] = asking[x] /\ active'[x] = active[x] /\ turn'[x] = turn[x]
  /\ (x \in knows') = (x \in knows) /\ (x \in outlived') = (x \in outlived)
  /\ (x \in abandoned') = (x \in abandoned) /\ (x \in guessed') = (x \in guessed)

(* What is known of a thread that a step leaves alone is known after it.   *)
LEMMA CxSameThread ==
  ASSUME NEW x \in Thread, CxThread(x), CxSame(x)
  PROVE  CxThread(x)'
BY DEF CxThread, CxSame, HasRequest

-----------------------------------------------------------------------------
(* A line of the child has the fields it was written with.                 *)
LEMMA CxLineType ==
  ASSUME NEW m \in CxKinds, NEW t \in Thread, NEW n \in Nat, NEW id \in Nat,
         m = "ask" => id \in 1..MaxAsks
  PROVE  /\ Line(m, t, n, id) \in CxLines /\ Line(m, t, n, id).m = m
         /\ Line(m, t, n, id).t = t /\ Line(m, t, n, id).n = n /\ Line(m, t, n, id).id = id
BY DEF Line, CxLines

(* The same for the end of a turn.                                         *)
LEMMA CxDoneLine ==
  ASSUME NEW t \in Thread, NEW n \in Nat
  PROVE  /\ Line("completed", t, n, 0) \in CxLines /\ Line("completed", t, n, 0).m = "completed"
         /\ Line("completed", t, n, 0).t = t /\ Line("completed", t, n, 0).n = n
BY DEF Line, CxLines, CxKinds

(* The same for a request of the child.                                    *)
LEMMA CxAskLine ==
  ASSUME NEW kind \in {"ask", "tool"}, NEW t \in Thread, NEW n \in Nat, NEW id \in 1..MaxAsks,
         MaxAsks \in Nat
  PROVE  /\ Line(kind, t, n, id) \in CxLines /\ Line(kind, t, n, id).m = kind
         /\ Line(kind, t, n, id).t = t /\ Line(kind, t, n, id).n = n /\ Line(kind, t, n, id).id = id
BY DEF Line, CxLines, CxKinds

(* An event has the fields it was queued with.                             *)
LEMMA CxEventType ==
  ASSUME NEW e \in {"ask", "error", "completed"}, NEW n \in Nat, NEW id \in Nat,
         e = "ask" => id \in 1..MaxAsks
  PROVE  /\ Event(e, n, id) \in CxEvents /\ Event(e, n, id).e = e
         /\ Event(e, n, id).n = n /\ Event(e, n, id).id = id
BY DEF Event, CxEvents

(* The line that is read next is of its types, and so are the ones behind  *)
(* it.                                                                     *)
LEMMA CxHead ==
  ASSUME CxLineTypes, stdout # <<>>
  PROVE  /\ Head(stdout) \in CxLines /\ Head(stdout).m \in CxKinds /\ Head(stdout).t \in Thread
         /\ Head(stdout).n \in Nat /\ Head(stdout).id \in Nat
         /\ (Head(stdout).m = "ask" => Head(stdout).id \in 1..MaxAsks)
         /\ Tail(stdout) \in Seq(CxLines)
<1>1. Head(stdout) \in CxLines /\ Tail(stdout) \in Seq(CxLines)
  BY DEF CxLineTypes
<1> QED BY <1>1 DEF CxLines

(* The event that a run reads next is of its types, and so are the ones    *)
(* behind it.                                                              *)
LEMMA CxQueueHead ==
  ASSUME CxRunTypes, NEW t \in Thread, queue[t] # <<>>
  PROVE  /\ Head(queue[t]) \in CxEvents /\ Head(queue[t]).n \in Nat
         /\ (Head(queue[t]).e = "ask" => Head(queue[t]).id \in 1..MaxAsks)
         /\ Tail(queue[t]) \in Seq(CxEvents) /\ Head(queue[t]).id \in Nat
<1>1. queue[t] \in Seq(CxEvents)
  BY DEF CxRunTypes
<1>2. Head(queue[t]) \in CxEvents /\ Tail(queue[t]) \in Seq(CxEvents)
  BY <1>1
<1> QED BY <1>2 DEF CxEvents

(* When a run is over its step, verdict, question and queue say so, and no *)
(* other run is touched.                                                   *)
LEMMA CxEnd ==
  ASSUME CxTypes, NEW t \in Thread, NEW v \in CxVerdicts, End(t, v)
  PROVE  /\ step' \in [Thread -> CxSteps] /\ verdict' \in [Thread -> CxVerdicts]
         /\ asking' \in [Thread -> 0..MaxAsks] /\ queue' \in [Thread -> Seq(CxEvents)]
         /\ step'[t] = "idle" /\ verdict'[t] = v /\ asking'[t] = 0 /\ queue'[t] = <<>>
         /\ \A x \in Thread \ {t} : /\ step'[x] = step[x] /\ verdict'[x] = verdict[x]
                                    /\ asking'[x] = asking[x] /\ queue'[x] = queue[x]
<1>1. /\ step' = [step EXCEPT ![t] = "idle"] /\ verdict' = [verdict EXCEPT ![t] = v]
      /\ asking' = [asking EXCEPT ![t] = 0] /\ queue' = [queue EXCEPT ![t] = <<>>]
  BY DEF End, Set
<1>2. /\ step \in [Thread -> CxSteps] /\ verdict \in [Thread -> CxVerdicts]
      /\ asking \in [Thread -> 0..MaxAsks] /\ queue \in [Thread -> Seq(CxEvents)]
      /\ MaxAsks \in Nat
  BY DEF CxTypes, CxRunTypes, CodexAssumption
<1>3. step' \in [Thread -> CxSteps] /\ verdict' \in [Thread -> CxVerdicts]
  BY <1>1, <1>2
<1>4. asking' \in [Thread -> 0..MaxAsks]
  BY <1>1, <1>2
<1>5. <<>> \in Seq(CxEvents)
  OBVIOUS
<1>6. queue' \in [Thread -> Seq(CxEvents)]
  BY <1>1, <1>2, <1>5
<1> QED BY <1>1, <1>2, <1>3, <1>4, <1>6

(* What RunTurn does to the thread it is for, and to no other. *)
CxBusy(t, lines) ==
  /\ active[t] # 0 /\ step'[t] = "idle" /\ verdict'[t] = "busy" /\ asking'[t] = 0
  /\ queue'[t] = <<>> /\ active'[t] = active[t] /\ ended'[t] = ended[t] /\ turn'[t] = turn[t]
  /\ stdout' = lines /\ knows' = knows

CxStarted(t, n, lines, reply) ==
  /\ active[t] = 0 /\ active'[t] = n /\ knows' = knows \ {t} /\ queue'[t] = <<>>
  /\ ended'[t] = "open" /\ step'[t] = "turning" /\ stdout' = Append(lines, Line(reply, t, n, 0))
  /\ turn'[t] = (IF reply = "turned" THEN turn[t] \cup {n} ELSE turn[t])
  /\ verdict'[t] = verdict[t] /\ asking'[t] = asking[t]

CxOpens(t, n, lines) ==
  /\ step'[t] = "opening" /\ stdout' = Append(lines, Line("opened", t, n, 0))
  /\ active'[t] = active[t] /\ knows' = knows /\ queue'[t] = queue[t] /\ ended'[t] = ended[t]
  /\ turn'[t] = turn[t] /\ verdict'[t] = verdict[t] /\ asking'[t] = asking[t]

CxRest(t) ==
  \A x \in Thread \ {t} :
    /\ step'[x] = step[x] /\ verdict'[x] = verdict[x] /\ queue'[x] = queue[x]
    /\ ended'[x] = ended[x] /\ asking'[x] = asking[x] /\ active'[x] = active[x]
    /\ turn'[x] = turn[x]

CxLaunchTypes ==
  /\ turn' \in [Thread -> SUBSET Nat] /\ active' \in [Thread -> Nat]
  /\ ended' \in [Thread -> CxEnds] /\ step' \in [Thread -> CxSteps]
  /\ asking' \in [Thread -> 0..MaxAsks] /\ queue' \in [Thread -> Seq(CxEvents)]
  /\ verdict' \in [Thread -> CxVerdicts] /\ knows' \subseteq Thread
  /\ stdout' \in Seq(CxLines)

(* RunTurn refuses a thread with a turn, or sends turn/start and writes    *)
(* down its answer.                                                        *)
LEMMA CxRunTurn ==
  ASSUME CxTypes, NEW t \in Thread, NEW n \in Nat, NEW lines \in Seq(CxLines),
         RunTurn(t, n, lines)
  PROVE  /\ CxLaunchTypes /\ CxRest(t)
         /\ \/ CxBusy(t, lines)
            \/ \E reply \in {"turned", "unloaded", "occupied"} : CxStarted(t, n, lines, reply)
<1>0. /\ turn \in [Thread -> SUBSET Nat] /\ active \in [Thread -> Nat]
      /\ ended \in [Thread -> CxEnds] /\ step \in [Thread -> CxSteps]
      /\ asking \in [Thread -> 0..MaxAsks] /\ queue \in [Thread -> Seq(CxEvents)]
      /\ verdict \in [Thread -> CxVerdicts] /\ knows \subseteq Thread
  BY DEF CxTypes, CxRunTypes, CxSetTypes
<1>1. CASE active[t] # 0
  <2>1. End(t, "busy") /\ stdout' = lines /\ UNCHANGED <<turn, active, knows, ended>>
    BY <1>1 DEF RunTurn
  <2>2. "busy" \in CxVerdicts
    OBVIOUS
  <2>3. /\ step' \in [Thread -> CxSteps] /\ verdict' \in [Thread -> CxVerdicts]
        /\ asking' \in [Thread -> 0..MaxAsks] /\ queue' \in [Thread -> Seq(CxEvents)]
        /\ step'[t] = "idle" /\ verdict'[t] = "busy" /\ asking'[t] = 0 /\ queue'[t] = <<>>
        /\ \A x \in Thread \ {t} : /\ step'[x] = step[x] /\ verdict'[x] = verdict[x]
                                   /\ asking'[x] = asking[x] /\ queue'[x] = queue[x]
    BY <2>1, <2>2, CxEnd
  <2>4. CxLaunchTypes
    BY <1>0, <2>1, <2>3 DEF CxLaunchTypes
  <2>5. CxRest(t)
    BY <2>1, <2>3 DEF CxRest
  <2>6. CxBusy(t, lines)
    BY <1>1, <2>1, <2>3 DEF CxBusy
  <2> QED BY <2>4, <2>5, <2>6
<1>2. CASE active[t] = 0
  <2>1. PICK reply \in {"turned", "unloaded", "occupied"} :
          /\ active' = Set(active, t, n) /\ knows' = knows \ {t}
          /\ queue' = Set(queue, t, <<>>) /\ ended' = Set(ended, t, "open")
          /\ step' = Set(step, t, "turning")
          /\ turn' = IF reply = "turned" THEN Set(turn, t, turn[t] \cup {n}) ELSE turn
          /\ stdout' = Append(lines, Line(reply, t, n, 0))
          /\ UNCHANGED <<verdict, asking>>
    BY <1>2 DEF RunTurn
  <2>2. /\ active' = [active EXCEPT ![t] = n] /\ queue' = [queue EXCEPT ![t] = <<>>]
        /\ ended' = [ended EXCEPT ![t] = "open"] /\ step' = [step EXCEPT ![t] = "turning"]
    BY <2>1 DEF Set
  <2>3. turn' = [turn EXCEPT ![t] = IF reply = "turned" THEN turn[t] \cup {n} ELSE turn[t]]
    BY <1>0, <2>1 DEF Set
  <2>4. active' \in [Thread -> Nat] /\ ended' \in [Thread -> CxEnds] /\ step' \in [Thread -> CxSteps]
    BY <1>0, <2>2
  <2>5. queue' \in [Thread -> Seq(CxEvents)]
    <3>1. <<>> \in Seq(CxEvents)
      OBVIOUS
    <3> QED BY <1>0, <2>2, <3>1
  <2>6. turn' \in [Thread -> SUBSET Nat]
    <3>1. (IF reply = "turned" THEN turn[t] \cup {n} ELSE turn[t]) \in SUBSET Nat
      BY <1>0
    <3> QED BY <1>0, <2>3, <3>1
  <2>7. stdout' \in Seq(CxLines)
    <3>1. Line(reply, t, n, 0) \in CxLines
      BY CxLineType DEF CxKinds
    <3> QED BY <2>1, <3>1
  <2>8. CxLaunchTypes
    BY <1>0, <2>1, <2>4, <2>5, <2>6, <2>7 DEF CxLaunchTypes
  <2>9. CxRest(t)
    BY <1>0, <2>1, <2>2, <2>3 DEF CxRest
  <2>10. CxStarted(t, n, lines, reply)
    <3>1. turn'[t] = (IF reply = "turned" THEN turn[t] \cup {n} ELSE turn[t])
      BY <1>0, <2>3
    <3>2. /\ active'[t] = n /\ queue'[t] = <<>> /\ ended'[t] = "open" /\ step'[t] = "turning"
      BY <1>0, <2>2
    <3> QED BY <1>2, <2>1, <3>1, <3>2 DEF CxStarted
  <2> QED BY <2>8, <2>9, <2>10
<1> QED BY <1>0, <1>1, <1>2

(* Launch runs the turn, or first opens the thread in a child that does    *)
(* not know it.                                                            *)
LEMMA CxLaunch ==
  ASSUME CxTypes, NEW t \in Thread, NEW n \in Nat, NEW lines \in Seq(CxLines),
         Launch(t, n, lines)
  PROVE  /\ CxLaunchTypes /\ CxRest(t) /\ serves' \subseteq Thread
         /\ \/ CxBusy(t, lines) \/ CxOpens(t, n, lines)
            \/ \E reply \in {"turned", "unloaded", "occupied"} : CxStarted(t, n, lines, reply)
<1>1. CASE RunTurn(t, n, lines) /\ UNCHANGED serves
  BY <1>1, CxRunTurn DEF CxTypes, CxSetTypes
<1>2. CASE /\ step' = Set(step, t, "opening") /\ serves' = serves \cup {t}
           /\ stdout' = Append(lines, Line("opened", t, n, 0))
           /\ UNCHANGED <<turn, active, knows, reader, verdict, asking>>
  <2>0. /\ turn \in [Thread -> SUBSET Nat] /\ active \in [Thread -> Nat]
        /\ ended \in [Thread -> CxEnds] /\ step \in [Thread -> CxSteps]
        /\ asking \in [Thread -> 0..MaxAsks] /\ queue \in [Thread -> Seq(CxEvents)]
        /\ verdict \in [Thread -> CxVerdicts] /\ knows \subseteq Thread /\ serves \subseteq Thread
    BY DEF CxTypes, CxRunTypes, CxSetTypes
  <2>1. step' = [step EXCEPT ![t] = "opening"] /\ queue' = queue /\ ended' = ended
    BY <1>2 DEF Set, reader
  <2>2. step' \in [Thread -> CxSteps] /\ step'[t] = "opening"
        /\ \A x \in Thread \ {t} : step'[x] = step[x]
    BY <2>0, <2>1
  <2>3. stdout' \in Seq(CxLines)
    <3>1. Line("opened", t, n, 0) \in CxLines
      BY CxLineType DEF CxKinds
    <3> QED BY <1>2, <3>1
  <2>4. CxLaunchTypes
    BY <1>2, <2>0, <2>1, <2>2, <2>3 DEF CxLaunchTypes
  <2>5. CxRest(t)
    BY <1>2, <2>1, <2>2 DEF CxRest
  <2>6. CxOpens(t, n, lines)
    BY <1>2, <2>1, <2>2 DEF CxOpens
  <2> QED BY <1>2, <2>0, <2>4, <2>5, <2>6
<1> QED BY <1>1, <1>2 DEF Launch

-----------------------------------------------------------------------------
(* A step of thread t alone; the end of its run; the ways a run of it is   *)
(* launched.                                                               *)
CxOthers(t) == \A x \in Thread \ {t} : CxSame(x)

CxEnded(t, v) ==
  step'[t] = "idle" /\ verdict'[t] = v /\ asking'[t] = 0 /\ queue'[t] = <<>>

CxLaunched(t, lines) ==
  \/ CxBusy(t, lines) \/ CxOpens(t, run'[t], lines)
  \/ \E reply \in {"turned", "unloaded", "occupied"} : CxStarted(t, run'[t], lines, reply)

(* What happens when a run begins (Begin), variable by variable.           *)
LEMMA CxBeginDoes ==
  ASSUME CxTypes, NEW t \in Thread, Begin(t)
  PROVE  /\ CxTypes' /\ CxOthers(t) /\ run'[t] = run[t] + 1 /\ run[t] \in Nat /\ answered'[t] = 0
         /\ t \notin guessed' /\ t \notin outlived' /\ step[t] = "idle" /\ ~halted
         /\ UNCHANGED <<wants, lapsed, nextId, asked, userInputs, tools, abandoned, stolen,
                        crashed, halted>>
         /\ \/ proc = "ready" /\ proc' = "ready" /\ CxLaunched(t, stdout)
            \/ /\ proc = "none" /\ proc' = "starting" /\ step'[t] = "starting"
               /\ stdout' = Append(stdout, Line("initialized", t, run'[t], 0))
               /\ turn' = turn /\ active' = active /\ knows' = knows
               /\ queue' = queue /\ ended' = ended /\ verdict' = verdict /\ asking' = asking
            \/ /\ proc \in {"starting", "killed", "stopping"} /\ proc' = proc
               /\ CxEnded(t, "failed") /\ stdout' = stdout
               /\ turn' = turn /\ active' = active /\ knows' = knows /\ ended' = ended
<1>0. /\ stdout \in Seq(CxLines) /\ run \in [Thread -> Nat] /\ run[t] \in Nat
      /\ answered \in [Thread -> Nat] /\ run[t] + 1 \in Nat /\ MaxRuns \in [Thread -> Nat]
      /\ \A x \in Thread : run[x] <= MaxRuns[x]
  BY DEF CxTypes, CxRunTypes, CxLineTypes, CodexAssumption
<1>1. /\ run' = [run EXCEPT ![t] = run[t] + 1] /\ answered' = [answered EXCEPT ![t] = 0]
      /\ guessed' = guessed \ {t} /\ outlived' = outlived \ {t}
      /\ step[t] = "idle" /\ ~halted /\ run[t] < MaxRuns[t]
      /\ UNCHANGED <<wants, lapsed, nextId, asked, userInputs, tools, abandoned, stolen,
                     crashed, halted>> /\ loaded' = loaded
  BY DEF Begin, Set
<1>2. /\ run' \in [Thread -> Nat] /\ answered' \in [Thread -> Nat] /\ answered'[t] = 0
      /\ run'[t] = run[t] + 1 /\ \A x \in Thread : run'[x] <= MaxRuns[x]
      /\ \A x \in Thread \ {t} : run'[x] = run[x] /\ answered'[x] = answered[x]
  <2>1. run' \in [Thread -> Nat] /\ answered' \in [Thread -> Nat]
    BY <1>0, <1>1
  <2>2. run'[t] = run[t] + 1 /\ answered'[t] = 0
        /\ \A x \in Thread \ {t} : run'[x] = run[x] /\ answered'[x] = answered[x]
    BY <1>0, <1>1
  <2>3. run[t] + 1 <= MaxRuns[t]
    BY <1>0, <1>1
  <2>4. \A x \in Thread : run'[x] <= MaxRuns[x]
    BY <1>0, <2>2, <2>3
  <2> QED BY <2>1, <2>2, <2>4
<1>3. CASE proc = "ready" /\ Launch(t, run[t] + 1, stdout) /\ UNCHANGED proc
  <2>1. /\ CxLaunchTypes /\ CxRest(t) /\ serves' \subseteq Thread
        /\ \/ CxBusy(t, stdout) \/ CxOpens(t, run[t] + 1, stdout)
           \/ \E reply \in {"turned", "unloaded", "occupied"} :
                CxStarted(t, run[t] + 1, stdout, reply)
    BY <1>0, <1>3, CxLaunch
  <2>2. CxTypes'
    BY <1>1, <1>2, <1>3, <2>1 DEF CxTypes, CxRunTypes, CxLineTypes, CxSetTypes, CxLaunchTypes,
                                  CodexAssumption
  <2>3. \A x \in Thread \ {t} : (x \in knows') = (x \in knows)
    BY <2>1 DEF CxBusy, CxOpens, CxStarted
  <2>4. CxOthers(t)
    BY <1>1, <1>2, <2>1, <2>3 DEF CxOthers, CxSame, CxRest
  <2>5. CxLaunched(t, stdout)
    BY <1>2, <2>1 DEF CxLaunched
  <2> QED BY <1>0, <1>1, <1>2, <1>3, <2>2, <2>4, <2>5
<1>4. CASE /\ proc = "none" /\ proc' = "starting" /\ step' = Set(step, t, "starting")
           /\ stdout' = Append(stdout, Line("initialized", t, run[t] + 1, 0))
           /\ UNCHANGED <<serves, turn, active, knows, reader, verdict, asking>>
  <2>1. step' = [step EXCEPT ![t] = "starting"] /\ step \in [Thread -> CxSteps]
        /\ queue' = queue /\ ended' = ended
    BY <1>4 DEF CxTypes, CxRunTypes, Set, reader
  <2>2. step' \in [Thread -> CxSteps] /\ step'[t] = "starting"
        /\ \A x \in Thread \ {t} : step'[x] = step[x]
    BY <2>1
  <2>3. stdout' \in Seq(CxLines)
    <3>1. Line("initialized", t, run[t] + 1, 0) \in CxLines
      BY <1>0, CxLineType DEF CxKinds
    <3> QED BY <1>0, <1>4, <3>1
  <2>4. CxTypes'
    BY <1>1, <1>2, <1>4, <2>1, <2>2, <2>3
       DEF CxTypes, CxRunTypes, CxLineTypes, CxSetTypes, CodexAssumption
  <2>5. CxOthers(t)
    BY <1>1, <1>2, <1>4, <2>1, <2>2 DEF CxOthers, CxSame
  <2> QED BY <1>0, <1>1, <1>2, <1>4, <2>1, <2>2, <2>4, <2>5
<1>5. CASE /\ proc \in {"starting", "killed", "stopping"} /\ End(t, "failed")
           /\ UNCHANGED <<proc, stdout, serves, turn, active, knows, ended>>
  <2>1. /\ step' \in [Thread -> CxSteps] /\ verdict' \in [Thread -> CxVerdicts]
        /\ asking' \in [Thread -> 0..MaxAsks] /\ queue' \in [Thread -> Seq(CxEvents)]
        /\ CxEnded(t, "failed")
        /\ \A x \in Thread \ {t} : /\ step'[x] = step[x] /\ verdict'[x] = verdict[x]
                                   /\ asking'[x] = asking[x] /\ queue'[x] = queue[x]
    BY <1>5, CxEnd DEF CxEnded
  <2>2. CxTypes'
    BY <1>1, <1>2, <1>5, <2>1
       DEF CxTypes, CxRunTypes, CxLineTypes, CxSetTypes, CodexAssumption
  <2>3. CxOthers(t)
    BY <1>1, <1>2, <1>5, <2>1 DEF CxOthers, CxSame
  <2> QED BY <1>0, <1>1, <1>2, <1>5, <2>1, <2>2, <2>3
<1> QED BY <1>3, <1>4, <1>5 DEF Begin

(* Reading a line leaves lines.                                            *)
LEMMA CxReadsOne ==
  ASSUME CxTypes, stdout' = Tail(stdout), stdout # <<>>
  PROVE  stdout' \in Seq(CxLines)
BY CxHead DEF CxTypes

(* What happens when the answer to initialize is read, variable by         *)
(* variable.                                                               *)
LEMMA CxInitializedDoes ==
  ASSUME CxTypes, NEW t, t = Head(stdout).t, Initialized
  PROVE  /\ t \in Thread /\ stdout # <<>> /\ Head(stdout).m = "initialized"
         /\ CxTypes' /\ CxOthers(t) /\ run'[t] = run[t] /\ run[t] \in Nat
         /\ UNCHANGED <<wants, lapsed, nextId, asked, userInputs, tools, answered, ghosts,
                        crashed, halted>>
         /\ \/ /\ step[t] = "starting" /\ run[t] = Head(stdout).n /\ proc' = "ready"
               /\ CxLaunched(t, Tail(stdout))
            \/ /\ ~(step[t] = "starting" /\ run[t] = Head(stdout).n)
               /\ stdout' = Tail(stdout) /\ CxSame(t) /\ proc' = proc /\ knows' = knows
<1>0. /\ t \in Thread /\ stdout # <<>> /\ Head(stdout).m = "initialized"
      /\ Tail(stdout) \in Seq(CxLines) /\ run[t] \in Nat
  <2>1. stdout # <<>> /\ Head(stdout).m = "initialized"
    BY DEF Initialized, Reads
  <2>2. Head(stdout).t \in Thread /\ Tail(stdout) \in Seq(CxLines)
    BY <2>1, CxHead DEF CxTypes
  <2> QED BY <2>1, <2>2 DEF CxTypes, CxRunTypes
<1>1. /\ UNCHANGED <<wants, lapsed, nextId, asked, userInputs, tools, run, answered, ghosts,
                     crashed, halted>>
      /\ loaded' = loaded /\ guessed' = guessed /\ abandoned' = abandoned
      /\ outlived' = outlived /\ stolen' = stolen
  BY DEF Initialized, ghosts
<1>2. CASE /\ step[t] = "starting" /\ run[t] = Head(stdout).n /\ proc' = "ready"
           /\ Launch(t, run[t], Tail(stdout))
  <2>1. /\ CxLaunchTypes /\ CxRest(t) /\ serves' \subseteq Thread
        /\ \/ CxBusy(t, Tail(stdout)) \/ CxOpens(t, run[t], Tail(stdout))
           \/ \E reply \in {"turned", "unloaded", "occupied"} :
                CxStarted(t, run[t], Tail(stdout), reply)
    BY <1>0, <1>2, CxLaunch
  <2>2. CxTypes'
    BY <1>1, <1>2, <2>1 DEF CxTypes, CxRunTypes, CxLineTypes, CxSetTypes, CxLaunchTypes,
                                  CodexAssumption
  <2>3. \A x \in Thread \ {t} : (x \in knows') = (x \in knows)
    BY <2>1 DEF CxBusy, CxOpens, CxStarted
  <2>4. CxOthers(t)
    BY <1>1, <2>1, <2>3 DEF CxOthers, CxSame, CxRest
  <2>5. CxLaunched(t, Tail(stdout))
    BY <1>1, <2>1 DEF CxLaunched
  <2> QED BY <1>0, <1>1, <1>2, <2>2, <2>4, <2>5
<1>3. CASE /\ ~(step[t] = "starting" /\ run[t] = Head(stdout).n) /\ stdout' = Tail(stdout)
           /\ UNCHANGED <<proc, serves, turn, active, knows, reader, step, verdict, asking>>
  <2>1. queue' = queue /\ ended' = ended
    BY <1>3 DEF reader
  <2>2. CxTypes'
    BY <1>0, <1>1, <1>3, <2>1 DEF CxTypes, CxRunTypes, CxLineTypes, CxSetTypes, CodexAssumption
  <2>3. \A x \in Thread : CxSame(x)
    BY <1>1, <1>3, <2>1 DEF CxSame
  <2> QED BY <1>0, <1>1, <1>3, <2>2, <2>3 DEF CxOthers
<1> QED BY <1>0, <1>2, <1>3 DEF Initialized

(* What happens when the answer to thread/start is read, variable by       *)
(* variable.                                                               *)
LEMMA CxOpenedDoes ==
  ASSUME CxTypes, NEW t, t = Head(stdout).t, Opened
  PROVE  /\ t \in Thread /\ stdout # <<>> /\ Head(stdout).m = "opened"
         /\ CxTypes' /\ CxOthers(t) /\ run'[t] = run[t] /\ run[t] \in Nat
         /\ UNCHANGED <<proc, wants, lapsed, nextId, asked, userInputs, tools, answered, ghosts,
                        crashed, halted>>
         /\ \/ /\ step[t] = "opening" /\ run[t] = Head(stdout).n /\ CxLaunched(t, Tail(stdout))
            \/ stdout' = Tail(stdout) /\ CxSame(t) /\ knows' = knows
<1>0. /\ t \in Thread /\ stdout # <<>> /\ Head(stdout).m = "opened"
      /\ Tail(stdout) \in Seq(CxLines) /\ run[t] \in Nat
  <2>1. stdout # <<>> /\ Head(stdout).m = "opened"
    BY DEF Opened, Reads
  <2>2. Head(stdout).t \in Thread /\ Tail(stdout) \in Seq(CxLines)
    BY <2>1, CxHead DEF CxTypes
  <2> QED BY <2>1, <2>2 DEF CxTypes, CxRunTypes
<1>1. /\ UNCHANGED <<proc, wants, lapsed, nextId, asked, userInputs, tools, run, answered,
                     ghosts, crashed, halted>>
      /\ serves' = serves /\ guessed' = guessed /\ abandoned' = abandoned
      /\ outlived' = outlived /\ stolen' = stolen
  BY DEF Opened, ghosts
<1>2. CASE /\ step[t] = "opening" /\ run[t] = Head(stdout).n
           /\ loaded' = loaded \cup {t} /\ RunTurn(t, run[t], Tail(stdout))
  <2>1. /\ CxLaunchTypes /\ CxRest(t)
        /\ \/ CxBusy(t, Tail(stdout))
           \/ \E reply \in {"turned", "unloaded", "occupied"} :
                CxStarted(t, run[t], Tail(stdout), reply)
    BY <1>0, <1>2, CxRunTurn
  <2>2. CxTypes'
    BY <1>0, <1>1, <1>2, <2>1 DEF CxTypes, CxRunTypes, CxLineTypes, CxSetTypes, CxLaunchTypes,
                                  CodexAssumption
  <2>3. \A x \in Thread \ {t} : (x \in knows') = (x \in knows)
    BY <2>1 DEF CxBusy, CxOpens, CxStarted
  <2>4. CxOthers(t)
    BY <1>1, <2>1, <2>3 DEF CxOthers, CxSame, CxRest
  <2>5. CxLaunched(t, Tail(stdout))
    BY <1>1, <2>1 DEF CxLaunched
  <2> QED BY <1>0, <1>1, <1>2, <2>2, <2>4, <2>5
<1>3. CASE /\ stdout' = Tail(stdout)
           /\ UNCHANGED <<loaded, turn, active, knows, reader, step, verdict, asking>>
  <2>1. queue' = queue /\ ended' = ended
    BY <1>3 DEF reader
  <2>2. CxTypes'
    BY <1>0, <1>1, <1>3, <2>1 DEF CxTypes, CxRunTypes, CxLineTypes, CxSetTypes, CodexAssumption
  <2>3. \A x \in Thread : CxSame(x)
    BY <1>1, <1>3, <2>1 DEF CxSame
  <2> QED BY <1>0, <1>1, <1>3, <2>2, <2>3 DEF CxOthers
<1> QED BY <1>0, <1>2, <1>3 DEF Opened

(* What happens when the answer to turn/start is read, variable by         *)
(* variable.                                                               *)
LEMMA CxTurnedDoes ==
  ASSUME CxTypes, NEW t, t = Head(stdout).t, Turned
  PROVE  /\ t \in Thread /\ stdout # <<>> /\ Head(stdout).m = "turned"
         /\ CxTypes' /\ CxOthers(t) /\ stdout' = Tail(stdout)
         /\ UNCHANGED <<proc, child, active, userInputs, tools, reader, run, verdict,
                        answered, asking, ghosts, crashed, halted>>
         /\ \/ /\ step[t] = "turning" /\ run[t] = Head(stdout).n /\ step'[t] = "reading"
               /\ (t \in knows') = (active[t] = run[t] \/ t \in knows)
            \/ /\ ~(step[t] = "turning" /\ run[t] = Head(stdout).n)
               /\ step'[t] = step[t] /\ (t \in knows') = (t \in knows)
<1>0. /\ t \in Thread /\ stdout # <<>> /\ Head(stdout).m = "turned"
      /\ Tail(stdout) \in Seq(CxLines) /\ step \in [Thread -> CxSteps] /\ knows \subseteq Thread
  <2>1. stdout # <<>> /\ Head(stdout).m = "turned"
    BY DEF Turned, Reads
  <2>2. Head(stdout).t \in Thread /\ Tail(stdout) \in Seq(CxLines)
    BY <2>1, CxHead DEF CxTypes
  <2> QED BY <2>1, <2>2 DEF CxTypes, CxRunTypes, CxSetTypes
<1> DEFINE mine == step[t] = "turning" /\ run[t] = Head(stdout).n
<1>1. /\ step' = (IF mine THEN [step EXCEPT ![t] = "reading"] ELSE step)
      /\ knows' = (IF mine /\ active[t] = run[t] THEN knows \cup {t} ELSE knows)
      /\ stdout' = Tail(stdout) /\ loaded' = loaded
      /\ UNCHANGED <<proc, child, active, userInputs, tools, reader, run, verdict,
                     answered, asking, ghosts, crashed, halted>>
  BY DEF Turned, Set
<1>2. /\ serves' = serves /\ turn' = turn /\ wants' = wants /\ lapsed' = lapsed
      /\ nextId' = nextId /\ asked' = asked /\ queue' = queue /\ ended' = ended
      /\ guessed' = guessed /\ abandoned' = abandoned /\ outlived' = outlived
      /\ stolen' = stolen
  BY <1>1 DEF child, reader, ghosts
<1>3. /\ step' \in [Thread -> CxSteps] /\ knows' \subseteq Thread
      /\ step'[t] = (IF mine THEN "reading" ELSE step[t])
      /\ \A x \in Thread \ {t} : step'[x] = step[x] /\ (x \in knows') = (x \in knows)
  BY <1>0, <1>1
<1>4. CxTypes'
  BY <1>0, <1>1, <1>2, <1>3 DEF CxTypes, CxRunTypes, CxLineTypes, CxSetTypes, CodexAssumption
<1>5. CxOthers(t)
  BY <1>1, <1>2, <1>3 DEF CxOthers, CxSame
<1>6. CASE mine
  BY <1>0, <1>1, <1>3, <1>4, <1>5, <1>6
<1>7. CASE ~mine
  BY <1>0, <1>1, <1>3, <1>4, <1>5, <1>7
<1> QED BY <1>6, <1>7

(* What happens when a refused turn is read (TurnRefused), variable by     *)
(* variable.                                                               *)
LEMMA CxRefusedDoes ==
  ASSUME CxTypes, NEW t, t = Head(stdout).t, TurnRefused
  PROVE  /\ t \in Thread /\ stdout # <<>> /\ Head(stdout).m \in {"unloaded", "occupied"}
         /\ CxTypes' /\ CxOthers(t) /\ stdout' = Tail(stdout)
         /\ UNCHANGED <<proc, child, knows, userInputs, tools, ended, run,
                        answered, ghosts, crashed, halted>>
         /\ \/ /\ step[t] = "turning" /\ run[t] = Head(stdout).n
               /\ CxEnded(t, "failed") /\ active'[t] = 0
            \/ /\ ~(step[t] = "turning" /\ run[t] = Head(stdout).n) /\ CxSame(t)
<1>0. /\ t \in Thread /\ stdout # <<>> /\ Head(stdout).m \in {"unloaded", "occupied"}
      /\ Tail(stdout) \in Seq(CxLines) /\ active \in [Thread -> Nat]
  <2>1. stdout # <<>> /\ Head(stdout).m \in {"unloaded", "occupied"}
    BY DEF TurnRefused, Reads
  <2>2. Head(stdout).t \in Thread /\ Tail(stdout) \in Seq(CxLines)
    BY <2>1, CxHead DEF CxTypes
  <2> QED BY <2>1, <2>2 DEF CxTypes, CxRunTypes
<1>1. /\ stdout' = Tail(stdout) /\ loaded' = loaded
      /\ UNCHANGED <<proc, child, knows, userInputs, tools, ended, run,
                     answered, ghosts, crashed, halted>>
  BY DEF TurnRefused
<1>2. /\ serves' = serves /\ turn' = turn /\ wants' = wants /\ lapsed' = lapsed
      /\ nextId' = nextId /\ asked' = asked
      /\ guessed' = guessed /\ abandoned' = abandoned /\ outlived' = outlived
      /\ stolen' = stolen
  BY <1>1 DEF child, ghosts
<1>3. CASE /\ step[t] = "turning" /\ run[t] = Head(stdout).n
           /\ End(t, "failed") /\ active' = Set(active, t, 0)
  <2>1. /\ step' \in [Thread -> CxSteps] /\ verdict' \in [Thread -> CxVerdicts]
        /\ asking' \in [Thread -> 0..MaxAsks] /\ queue' \in [Thread -> Seq(CxEvents)]
        /\ CxEnded(t, "failed")
        /\ \A x \in Thread \ {t} : /\ step'[x] = step[x] /\ verdict'[x] = verdict[x]
                                   /\ asking'[x] = asking[x] /\ queue'[x] = queue[x]
    BY <1>0, <1>3, CxEnd DEF CxEnded
  <2>2. active' \in [Thread -> Nat] /\ active'[t] = 0
        /\ \A x \in Thread \ {t} : active'[x] = active[x]
    BY <1>0, <1>3 DEF Set
  <2>3. CxTypes'
    BY <1>0, <1>1, <1>2, <2>1, <2>2
       DEF CxTypes, CxRunTypes, CxLineTypes, CxSetTypes, CodexAssumption
  <2>4. CxOthers(t)
    BY <1>1, <1>2, <2>1, <2>2 DEF CxOthers, CxSame
  <2> QED BY <1>0, <1>1, <1>3, <2>1, <2>2, <2>3, <2>4
<1>4. CASE /\ ~(step[t] = "turning" /\ run[t] = Head(stdout).n)
           /\ UNCHANGED <<active, step, verdict, asking, queue>>
  <2>1. CxTypes'
    BY <1>0, <1>1, <1>2, <1>4 DEF CxTypes, CxRunTypes, CxLineTypes, CxSetTypes, CodexAssumption
  <2>2. \A x \in Thread : CxSame(x)
    BY <1>1, <1>2, <1>4 DEF CxSame
  <2> QED BY <1>0, <1>1, <1>4, <2>1, <2>2 DEF CxOthers
<1> QED BY <1>0, <1>3, <1>4 DEF TurnRefused

(* Nothing that CxSame speaks of moves. *)
CxAllSame ==
  UNCHANGED <<step, run, verdict, answered, queue, ended, asking, active, turn, knows,
              outlived, abandoned, guessed>>

(* Every thread is the same when nothing moves.                            *)
LEMMA CxStill ==
  ASSUME CxAllSame
  PROVE  \A x \in Thread : CxSame(x)
BY DEF CxAllSame, CxSame

(* What happens when a request for user input is read, variable by         *)
(* variable.                                                               *)
LEMMA CxAskedDoes ==
  ASSUME CxTypes, NEW t, t = Head(stdout).t, NEW id, id = Head(stdout).id, UserInputRequested
  PROVE  /\ t \in Thread /\ stdout # <<>> /\ Head(stdout).m = "ask" /\ id \in 1..MaxAsks
         /\ CxTypes' /\ CxOthers(t) /\ stdout' = Tail(stdout)
         /\ UNCHANGED <<proc, serves, turn, lapsed, nextId, asked, active, knows, tools,
                        ended, runs, asking, ghosts, halted>>
         /\ \/ /\ Accepts(t, Head(stdout).n) /\ id \notin userInputs
               /\ userInputs' = userInputs \cup {id} /\ wants' = wants /\ crashed' = crashed
               /\ queue'[t] = (IF Listening(t)
                               THEN Append(queue[t], Event("ask", Head(stdout).n, id))
                               ELSE queue[t])
            \/ /\ ~Accepts(t, Head(stdout).n) \/ id \in userInputs
               /\ userInputs' = userInputs /\ queue' = queue
               /\ wants' = (IF Writable THEN Without(id) ELSE wants) /\ crashed' = ~Writable
<1>0. /\ t \in Thread /\ stdout # <<>> /\ Head(stdout).m = "ask" /\ id \in 1..MaxAsks
      /\ Head(stdout).n \in Nat /\ id \in Nat
      /\ Tail(stdout) \in Seq(CxLines) /\ queue \in [Thread -> Seq(CxEvents)]
  <2>1. stdout # <<>> /\ Head(stdout).m = "ask"
    BY DEF UserInputRequested, Reads
  <2>2. Head(stdout).t \in Thread /\ Tail(stdout) \in Seq(CxLines) /\ Head(stdout).n \in Nat
        /\ Head(stdout).id \in Nat /\ Head(stdout).id \in 1..MaxAsks
    BY <2>1, CxHead DEF CxTypes
  <2> QED BY <2>1, <2>2 DEF CxTypes, CxRunTypes
<1> DEFINE event == Event("ask", Head(stdout).n, id)
           more  == IF Listening(t) THEN Append(queue[t], event) ELSE queue[t]
<1>1. /\ stdout' = Tail(stdout) /\ loaded' = loaded
      /\ UNCHANGED <<proc, serves, turn, lapsed, nextId, asked, active, knows, tools,
                     ended, runs, asking, ghosts, halted>>
      /\ step' = step /\ run' = run /\ verdict' = verdict /\ answered' = answered
      /\ guessed' = guessed /\ abandoned' = abandoned /\ outlived' = outlived
      /\ stolen' = stolen
  BY DEF UserInputRequested, runs, ghosts
<1>2. CASE /\ Accepts(t, Head(stdout).n) /\ id \notin userInputs
           /\ userInputs' = userInputs \cup {id}
           /\ queue' = IF Listening(t) THEN Set(queue, t, Append(queue[t], event)) ELSE queue
           /\ UNCHANGED <<wants, crashed>>
  <2>1. event \in CxEvents /\ queue[t] \in Seq(CxEvents)
    BY <1>0, CxEventType
  <2>2. more \in Seq(CxEvents)
    BY <2>1
  <2>3. queue' = [queue EXCEPT ![t] = more]
    BY <1>0, <1>2 DEF Set
  <2>4. /\ queue' \in [Thread -> Seq(CxEvents)] /\ queue'[t] = more
        /\ \A x \in Thread \ {t} : queue'[x] = queue[x]
    BY <1>0, <2>2, <2>3
  <2>5. CxTypes'
    BY <1>0, <1>1, <1>2, <2>4 DEF CxTypes, CxRunTypes, CxLineTypes, CxSetTypes, CodexAssumption
  <2>6. CxOthers(t)
    BY <1>1, <2>4 DEF CxOthers, CxSame
  <2> QED BY <1>0, <1>1, <1>2, <2>4, <2>5, <2>6
<1>3. CASE /\ ~Accepts(t, Head(stdout).n) \/ id \in userInputs
           /\ Reply(id) /\ UNCHANGED <<userInputs, queue>>
  <2>1. wants' = (IF Writable THEN Without(id) ELSE wants) /\ crashed' = ~Writable
    BY <1>3 DEF Reply
  <2>2. wants' \subseteq wants
    BY <2>1 DEF Without
  <2>3. CxTypes'
    BY <1>0, <1>1, <1>3, <2>2 DEF CxTypes, CxRunTypes, CxLineTypes, CxSetTypes, CodexAssumption
  <2>4. CxOthers(t)
    BY <1>1, <1>3 DEF CxOthers, CxSame
  <2> QED BY <1>0, <1>1, <1>3, <2>1, <2>3, <2>4
<1> QED BY <1>0, <1>2, <1>3 DEF UserInputRequested

(* What happens when a call of a dynamic tool is read, variable by         *)
(* variable.                                                               *)
LEMMA CxToolDoes ==
  ASSUME CxTypes, ToolCalled
  PROVE  /\ stdout # <<>> /\ Head(stdout).m = "tool" /\ CxTypes' /\ CxAllSame
         /\ stdout' = Tail(stdout)
         /\ UNCHANGED <<proc, serves, lapsed, nextId, asked, userInputs, ghosts, halted>>
         /\ \/ /\ tools' = tools \cup {[id |-> Head(stdout).id, stale |-> FALSE]}
               /\ wants' = wants /\ crashed' = crashed
            \/ /\ ~HasRequest(Head(stdout).t) /\ tools' = tools
               /\ wants' = (IF Writable THEN Without(Head(stdout).id) ELSE wants)
               /\ crashed' = ~Writable
<1>0. stdout # <<>> /\ Head(stdout).m = "tool" /\ Head(stdout).id \in Nat
      /\ Tail(stdout) \in Seq(CxLines)
  <2>1. stdout # <<>> /\ Head(stdout).m = "tool"
    BY DEF ToolCalled, Reads
  <2> QED BY <2>1, CxHead DEF CxTypes
<1>1. /\ stdout' = Tail(stdout) /\ loaded' = loaded /\ CxAllSame
      /\ UNCHANGED <<proc, serves, lapsed, nextId, asked, userInputs, ghosts, halted>>
      /\ stolen' = stolen
  BY DEF ToolCalled, client, reader, runs, ghosts, CxAllSame
<1>2. CASE /\ tools' = tools \cup {[id |-> Head(stdout).id, stale |-> FALSE]}
           /\ UNCHANGED <<wants, crashed>>
  <2>1. \A c \in tools' : c \in tools \/ c.id = Head(stdout).id
    BY <1>2
  <2>2. CxTypes'
    BY <1>0, <1>1, <1>2, <2>1
       DEF CxTypes, CxRunTypes, CxLineTypes, CxSetTypes, CodexAssumption, CxAllSame
  <2> QED BY <1>0, <1>1, <1>2, <2>2
<1>3. CASE ~HasRequest(Head(stdout).t) /\ Reply(Head(stdout).id) /\ UNCHANGED tools
  <2>1. wants' = (IF Writable THEN Without(Head(stdout).id) ELSE wants) /\ crashed' = ~Writable
    BY <1>3 DEF Reply
  <2>2. wants' \subseteq wants
    BY <2>1 DEF Without
  <2>3. CxTypes'
    BY <1>0, <1>1, <1>3, <2>2
       DEF CxTypes, CxRunTypes, CxLineTypes, CxSetTypes, CodexAssumption, CxAllSame
  <2> QED BY <1>0, <1>1, <1>3, <2>1, <2>3
<1> QED BY <1>2, <1>3 DEF ToolCalled

(* What happens when the end of a request is read, variable by variable.   *)
LEMMA CxResolvedDoes ==
  ASSUME CxTypes, Resolved
  PROVE  /\ stdout # <<>> /\ Head(stdout).m = "resolved" /\ CxTypes' /\ CxAllSame
         /\ stdout' = Tail(stdout) /\ userInputs' = userInputs \ {Head(stdout).id}
         /\ UNCHANGED <<proc, child, tools, ghosts, crashed, halted>>
<1>0. stdout # <<>> /\ Head(stdout).m = "resolved" /\ Tail(stdout) \in Seq(CxLines)
  <2>1. stdout # <<>> /\ Head(stdout).m = "resolved"
    BY DEF Resolved, Reads
  <2> QED BY <2>1, CxHead DEF CxTypes
<1>1. /\ stdout' = Tail(stdout) /\ loaded' = loaded /\ CxAllSame
      /\ userInputs' = userInputs \ {Head(stdout).id}
      /\ UNCHANGED <<proc, child, tools, ghosts, crashed, halted>>
      /\ UNCHANGED <<serves, wants, lapsed, nextId, asked, stolen>>
  BY DEF Resolved, child, reader, runs, ghosts, CxAllSame
<1>2. CxTypes'
  BY <1>0, <1>1 DEF CxTypes, CxRunTypes, CxLineTypes, CxSetTypes, CodexAssumption, CxAllSame
<1> QED BY <1>0, <1>1, <1>2

(* What happens when an error or the end of a turn is read, variable by    *)
(* variable.                                                               *)
LEMMA CxEventDoes ==
  ASSUME CxTypes, NEW t, t = Head(stdout).t, NEW n, n = Head(stdout).n, TurnEvent
  PROVE  /\ t \in Thread /\ n \in Nat /\ stdout # <<>> /\ Head(stdout).m \in {"error", "completed"}
         /\ CxTypes' /\ CxOthers(t) /\ stdout' = Tail(stdout)
         /\ UNCHANGED <<proc, child, knows, userInputs, tools, runs, asking,
                        abandoned, outlived, stolen, crashed, halted>>
         /\ \/ /\ Accepts(t, n)
               /\ queue'[t] = (IF Listening(t)
                               THEN Append(queue[t], Event(Head(stdout).m, n, 0)) ELSE queue[t])
               /\ ended'[t] = (IF Head(stdout).m = "completed" /\ Listening(t)
                               THEN "closed" ELSE ended[t])
               /\ active'[t] = (IF Head(stdout).m = "completed" THEN 0 ELSE active[t])
               /\ (t \in guessed') = (\/ t \in guessed
                                      \/ /\ Head(stdout).m = "completed" /\ Listening(t)
                                         /\ t \notin knows)
            \/ ~Accepts(t, n) /\ CxSame(t)
<1> DEFINE kind == Head(stdout).m
<1>0. /\ t \in Thread /\ n \in Nat /\ stdout # <<>> /\ kind \in {"error", "completed"}
      /\ Tail(stdout) \in Seq(CxLines) /\ queue \in [Thread -> Seq(CxEvents)]
      /\ ended \in [Thread -> CxEnds] /\ active \in [Thread -> Nat] /\ guessed \subseteq Thread
  <2>1. stdout # <<>> /\ kind \in {"error", "completed"}
    BY DEF TurnEvent, Reads
  <2>2. Head(stdout).t \in Thread /\ Tail(stdout) \in Seq(CxLines) /\ Head(stdout).n \in Nat
    BY <2>1, CxHead DEF CxTypes
  <2> QED BY <2>1, <2>2 DEF CxTypes, CxRunTypes, CxSetTypes
<1> DEFINE event == Event(kind, n, 0)
           more  == IF Listening(t) THEN Append(queue[t], event) ELSE queue[t]
           last  == kind = "completed"
<1>1. /\ stdout' = Tail(stdout) /\ loaded' = loaded
      /\ UNCHANGED <<proc, child, knows, userInputs, tools, runs, asking,
                     abandoned, outlived, stolen, crashed, halted>>
      /\ step' = step /\ run' = run /\ verdict' = verdict /\ answered' = answered
      /\ UNCHANGED <<serves, turn, wants, lapsed, nextId, asked>>
  BY DEF TurnEvent, runs, child
<1>2. CASE /\ Accepts(t, n)
           /\ queue' = IF Listening(t) THEN Set(queue, t, Append(queue[t], event)) ELSE queue
           /\ ended' = IF last /\ Listening(t) THEN Set(ended, t, "closed") ELSE ended
           /\ active' = IF last THEN Set(active, t, 0) ELSE active
           /\ guessed' = IF last /\ Listening(t) /\ t \notin knows
                         THEN guessed \cup {t} ELSE guessed
  <2>1. event \in CxEvents /\ queue[t] \in Seq(CxEvents)
    BY <1>0, CxEventType
  <2>2. more \in Seq(CxEvents)
    BY <2>1
  <2>3. queue' = [queue EXCEPT ![t] = more]
    BY <1>0, <1>2 DEF Set
  <2>4. /\ queue' \in [Thread -> Seq(CxEvents)] /\ queue'[t] = more
        /\ \A x \in Thread \ {t} : queue'[x] = queue[x]
    BY <1>0, <2>2, <2>3
  <2>5. /\ ended' \in [Thread -> CxEnds]
        /\ ended'[t] = (IF last /\ Listening(t) THEN "closed" ELSE ended[t])
        /\ \A x \in Thread \ {t} : ended'[x] = ended[x]
    BY <1>0, <1>2 DEF Set
  <2>6. /\ active' \in [Thread -> Nat] /\ active'[t] = (IF last THEN 0 ELSE active[t])
        /\ \A x \in Thread \ {t} : active'[x] = active[x]
    BY <1>0, <1>2 DEF Set
  <2>7. /\ guessed' \subseteq Thread
        /\ (t \in guessed') = (t \in guessed \/ (last /\ Listening(t) /\ t \notin knows))
        /\ \A x \in Thread \ {t} : (x \in guessed') = (x \in guessed)
    BY <1>0, <1>2
  <2>8. CxTypes'
    BY <1>0, <1>1, <2>4, <2>5, <2>6, <2>7
       DEF CxTypes, CxRunTypes, CxLineTypes, CxSetTypes, CodexAssumption
  <2>9. CxOthers(t)
    BY <1>1, <2>4, <2>5, <2>6, <2>7 DEF CxOthers, CxSame
  <2>10. /\ queue'[t] = more /\ ended'[t] = (IF last /\ Listening(t) THEN "closed" ELSE ended[t])
         /\ active'[t] = (IF last THEN 0 ELSE active[t])
         /\ (t \in guessed') = (t \in guessed \/ (last /\ Listening(t) /\ t \notin knows))
    BY <2>4, <2>5, <2>6, <2>7
  <2> QED BY <1>0, <1>1, <1>2, <2>8, <2>9, <2>10
<1>3. CASE ~Accepts(t, n) /\ UNCHANGED <<queue, ended, active, guessed>>
  <2>1. CxTypes'
    BY <1>0, <1>1, <1>3 DEF CxTypes, CxRunTypes, CxLineTypes, CxSetTypes, CodexAssumption
  <2>2. \A x \in Thread : CxSame(x)
    BY <1>1, <1>3 DEF CxSame
  <2> QED BY <1>0, <1>1, <1>3, <2>1, <2>2 DEF CxOthers
<1> QED BY <1>0, <1>2, <1>3 DEF TurnEvent

(* What every read of an event leaves as it is. *)
CxReadKeeps ==
  UNCHANGED <<proc, stdout, serves, turn, lapsed, nextId, asked, active, knows,
              tools, ended, run, loaded, guessed, outlived, crashed, halted>>

(* The run of t is over: its queue and its question are gone. *)
LEMMA CxReadEnds ==
  ASSUME CxTypes, NEW t \in Thread, NEW v \in CxVerdicts, CxReadKeeps, End(t, v),
         wants' = wants, userInputs' = userInputs, stolen' = stolen,
         answered' \in [Thread -> Nat], \A x \in Thread \ {t} : answered'[x] = answered[x],
         abandoned' = abandoned \cup {t} \/ abandoned' = abandoned
  PROVE  CxTypes' /\ CxOthers(t) /\ CxEnded(t, v)
<1>1. /\ step' \in [Thread -> CxSteps] /\ verdict' \in [Thread -> CxVerdicts]
      /\ asking' \in [Thread -> 0..MaxAsks] /\ queue' \in [Thread -> Seq(CxEvents)]
      /\ CxEnded(t, v)
      /\ \A x \in Thread \ {t} : /\ step'[x] = step[x] /\ verdict'[x] = verdict[x]
                                 /\ asking'[x] = asking[x] /\ queue'[x] = queue[x]
  BY CxEnd DEF CxEnded
<1>2. abandoned' \subseteq Thread
  BY DEF CxTypes, CxSetTypes
<1>3. CxTypes'
  BY <1>1, <1>2 DEF CxTypes, CxRunTypes, CxLineTypes, CxSetTypes, CodexAssumption, CxReadKeeps
<1>4. \A x \in Thread \ {t} : (x \in abandoned') = (x \in abandoned)
  OBVIOUS
<1>5. CxOthers(t)
  BY <1>1, <1>4 DEF CxOthers, CxSame, CxReadKeeps
<1> QED BY <1>1, <1>3, <1>5

(* What happens when a run reads its queue, variable by variable.          *)
LEMMA CxReadDoes ==
  ASSUME CxTypes, NEW t \in Thread, Read(t), NEW id, id = Head(queue[t]).id
  PROVE  /\ step[t] = "reading" /\ queue[t] # <<>> /\ CxTypes' /\ CxOthers(t) /\ CxReadKeeps
         /\ \/ /\ Head(queue[t]).e = "ask" /\ id \in 1..MaxAsks
               /\ queue'[t] = Tail(queue[t])
               /\ UNCHANGED <<step, verdict, answered, abandoned>>
               /\ \/ /\ asking[t] = 0 /\ asking'[t] = id
                     /\ UNCHANGED <<wants, userInputs, stolen>>
                  \/ /\ asking[t] # 0 /\ id \in userInputs /\ Writable /\ asking' = asking
                     /\ wants' = Without(id) /\ userInputs' = userInputs \ {id}
                     /\ stolen' = stolen \cup Foreign(id, t)
            \/ /\ \E v \in {"failed", "dropped"} : CxEnded(t, v)
               /\ abandoned' = abandoned \cup {t}
               /\ UNCHANGED <<wants, userInputs, stolen, answered>>
            \/ /\ Head(queue[t]).e = "completed" /\ CxEnded(t, "completed")
               /\ answered'[t] = Head(queue[t]).n
               /\ UNCHANGED <<wants, userInputs, stolen, abandoned>>
<1>1. step[t] = "reading" /\ queue[t] # <<>> /\ CxReadKeeps
  BY DEF Read, CxReadKeeps
<1>2. /\ Head(queue[t]).n \in Nat /\ (Head(queue[t]).e = "ask" => id \in 1..MaxAsks)
      /\ Tail(queue[t]) \in Seq(CxEvents) /\ id \in Nat
      /\ queue \in [Thread -> Seq(CxEvents)] /\ asking \in [Thread -> 0..MaxAsks]
      /\ answered \in [Thread -> Nat] /\ stolen \subseteq Nat /\ wants \subseteq CxWants
      /\ userInputs \subseteq 1..MaxAsks /\ abandoned \subseteq Thread /\ MaxAsks \in Nat
  BY <1>1, CxQueueHead DEF CxTypes, CxRunTypes, CxLineTypes, CxSetTypes, CodexAssumption
<1>3. CASE /\ Head(queue[t]).e = "ask" /\ asking[t] = 0 /\ asking' = Set(asking, t, id)
           /\ queue' = Set(queue, t, Tail(queue[t])) /\ UNCHANGED answered
           /\ UNCHANGED <<wants, userInputs, step, verdict, abandoned, stolen, faults>>
  <2>1. /\ queue' = [queue EXCEPT ![t] = Tail(queue[t])] /\ asking' = [asking EXCEPT ![t] = id]
        /\ id \in 0..MaxAsks
    BY <1>2, <1>3 DEF Set
  <2>2. /\ queue' \in [Thread -> Seq(CxEvents)] /\ queue'[t] = Tail(queue[t])
        /\ \A x \in Thread \ {t} : queue'[x] = queue[x]
    BY <1>2, <2>1
  <2>3. /\ asking' \in [Thread -> 0..MaxAsks] /\ asking'[t] = id
        /\ \A x \in Thread \ {t} : asking'[x] = asking[x]
    BY <1>2, <2>1
  <2>4. CxTypes'
    BY <1>1, <1>3, <2>2, <2>3
       DEF CxTypes, CxRunTypes, CxLineTypes, CxSetTypes, CodexAssumption, CxReadKeeps
  <2>5. CxOthers(t)
    BY <1>1, <1>3, <2>2, <2>3 DEF CxOthers, CxSame, CxReadKeeps
  <2> QED BY <1>1, <1>2, <1>3, <2>2, <2>3, <2>4, <2>5
<1>4. CASE /\ Head(queue[t]).e = "ask" /\ asking[t] # 0 /\ id \in userInputs /\ Writable
           /\ wants' = Without(id) /\ userInputs' = userInputs \ {id}
           /\ stolen' = stolen \cup Foreign(id, t) /\ queue' = Set(queue, t, Tail(queue[t]))
           /\ UNCHANGED answered
           /\ UNCHANGED <<asking, step, verdict, abandoned, faults>>
  <2>1. queue' = [queue EXCEPT ![t] = Tail(queue[t])]
    BY <1>4 DEF Set
  <2>2. /\ queue' \in [Thread -> Seq(CxEvents)] /\ queue'[t] = Tail(queue[t])
        /\ \A x \in Thread \ {t} : queue'[x] = queue[x]
    BY <1>2, <2>1
  <2>3. Foreign(id, t) \subseteq Nat /\ wants' \subseteq CxWants
    BY <1>2, <1>4 DEF Foreign, Without, CxWants
  <2>4. CxTypes'
    BY <1>1, <1>2, <1>4, <2>2, <2>3
       DEF CxTypes, CxRunTypes, CxLineTypes, CxSetTypes, CodexAssumption, CxReadKeeps
  <2>5. CxOthers(t)
    BY <1>1, <1>4, <2>2 DEF CxOthers, CxSame, CxReadKeeps
  <2> QED BY <1>1, <1>2, <1>4, <2>2, <2>4, <2>5
<1>5. CASE /\ \E v \in {"failed", "dropped"} : End(t, v)
           /\ abandoned' = abandoned \cup {t} /\ UNCHANGED answered
           /\ UNCHANGED <<wants, userInputs, stolen>>
  <2>1. PICK v \in {"failed", "dropped"} : End(t, v)
    BY <1>5
  <2>2. CxTypes' /\ CxOthers(t) /\ CxEnded(t, v)
    BY <1>1, <1>2, <1>5, <2>1, CxReadEnds
  <2> QED BY <1>1, <1>5, <2>2
<1>6. CASE /\ Head(queue[t]).e = "completed"
           /\ End(t, "completed") /\ answered' = Set(answered, t, Head(queue[t]).n)
           /\ UNCHANGED <<wants, userInputs, abandoned, stolen, faults>>
  <2>1. /\ answered' \in [Thread -> Nat] /\ answered'[t] = Head(queue[t]).n
        /\ \A x \in Thread \ {t} : answered'[x] = answered[x]
    BY <1>2, <1>6 DEF Set
  <2>2. CxTypes' /\ CxOthers(t) /\ CxEnded(t, "completed")
    BY <1>1, <1>6, <2>1, CxReadEnds
  <2> QED BY <1>1, <1>6, <2>1, <2>2
<1> QED BY <1>3, <1>4, <1>5, <1>6 DEF Read, ReadAsk, ReadError

(* What happens when a run reads the failure of its queue, variable by     *)
(* variable.                                                               *)
LEMMA CxReadFailureDoes ==
  ASSUME CxTypes, NEW t \in Thread, ReadFailure(t)
  PROVE  /\ step[t] = "reading" /\ ended[t] = "failed" /\ CxTypes' /\ CxOthers(t)
         /\ CxEnded(t, "failed")
         /\ UNCHANGED <<proc, stdout, child, client, tools, ended, run, answered,
                        ghosts, crashed, halted>>
<1>1. /\ step[t] = "reading" /\ ended[t] = "failed" /\ End(t, "failed") /\ loaded' = loaded
      /\ UNCHANGED <<proc, stdout, child, client, tools, ended, run, answered,
                     ghosts, crashed, halted>>
  BY DEF ReadFailure
<1>2. UNCHANGED <<serves, turn, wants, lapsed, nextId, asked, active, knows, userInputs,
                  guessed, abandoned, outlived, stolen>>
  BY <1>1 DEF child, client, ghosts
<1>3. /\ step' \in [Thread -> CxSteps] /\ verdict' \in [Thread -> CxVerdicts]
      /\ asking' \in [Thread -> 0..MaxAsks] /\ queue' \in [Thread -> Seq(CxEvents)]
      /\ CxEnded(t, "failed")
      /\ \A x \in Thread \ {t} : /\ step'[x] = step[x] /\ verdict'[x] = verdict[x]
                                 /\ asking'[x] = asking[x] /\ queue'[x] = queue[x]
  BY <1>1, CxEnd DEF CxEnded
<1>4. CxTypes'
  BY <1>1, <1>2, <1>3 DEF CxTypes, CxRunTypes, CxLineTypes, CxSetTypes, CodexAssumption
<1>5. CxOthers(t)
  BY <1>1, <1>2, <1>3 DEF CxOthers, CxSame
<1> QED BY <1>1, <1>3, <1>4, <1>5

(* What happens when the user answers, variable by variable.               *)
LEMMA CxAnswerDoes ==
  ASSUME CxTypes, NEW t \in Thread, Answer(t)
  PROVE  /\ asking[t] # 0 /\ asking[t] \in userInputs /\ Writable /\ CxTypes' /\ CxOthers(t)
         /\ wants' = Without(asking[t]) /\ userInputs' = userInputs \ {asking[t]}
         /\ asking'[t] = 0 /\ stolen' = stolen \cup Foreign(asking[t], t)
         /\ UNCHANGED <<proc, stdout, serves, turn, lapsed, nextId, asked, active, knows,
                        tools, reader, runs, guessed, abandoned, outlived, crashed, halted>>
<1>1. /\ asking[t] # 0 /\ asking[t] \in userInputs /\ Writable
      /\ wants' = Without(asking[t]) /\ userInputs' = userInputs \ {asking[t]}
      /\ asking' = [asking EXCEPT ![t] = 0] /\ stolen' = stolen \cup Foreign(asking[t], t)
      /\ UNCHANGED <<proc, stdout, serves, turn, lapsed, nextId, asked, active, knows,
                     tools, reader, runs, guessed, abandoned, outlived, crashed, halted>>
      /\ loaded' = loaded
      /\ UNCHANGED <<queue, ended, step, run, verdict, answered>>
  BY DEF Answer, Set, reader, runs
<1>2. asking \in [Thread -> 0..MaxAsks] /\ MaxAsks \in Nat /\ wants \subseteq CxWants
  BY DEF CxTypes, CxRunTypes, CxLineTypes, CodexAssumption
<1>3. /\ asking' \in [Thread -> 0..MaxAsks] /\ asking'[t] = 0
      /\ \A x \in Thread \ {t} : asking'[x] = asking[x]
  BY <1>1, <1>2
<1>4. Foreign(asking[t], t) \subseteq Nat /\ wants' \subseteq CxWants
  BY <1>1, <1>2 DEF Foreign, Without, CxWants
<1>5. CxTypes'
  BY <1>1, <1>3, <1>4 DEF CxTypes, CxRunTypes, CxLineTypes, CxSetTypes, CodexAssumption
<1>6. CxOthers(t)
  BY <1>1, <1>3 DEF CxOthers, CxSame
<1> QED BY <1>1, <1>3, <1>5, <1>6

(* The child ends turn n of thread t, and writes it. *)
LEMMA CxCompletesTypes ==
  ASSUME CxTypes, NEW t \in Thread, NEW n \in Nat, turn' = Set(turn, t, turn[t] \ {n}),
         stdout' = Append(stdout, Line("completed", t, n, 0))
  PROVE  /\ turn' \in [Thread -> SUBSET Nat] /\ turn'[t] = turn[t] \ {n}
         /\ (\A x \in Thread \ {t} : turn'[x] = turn[x])
         /\ stdout' \in Seq(CxLines)
<1>1. turn \in [Thread -> SUBSET Nat] /\ stdout \in Seq(CxLines)
  BY DEF CxTypes, CxRunTypes, CxLineTypes
<1>2. Line("completed", t, n, 0) \in CxLines
  BY CxLineType DEF CxKinds
<1>3. stdout' \in Seq(CxLines)
  BY <1>1, <1>2
<1>4. turn[t] \ {n} \in SUBSET Nat
  BY <1>1
<1> QED BY <1>1, <1>3, <1>4 DEF Set

(* What happens when a run is cancelled, variable by variable.             *)
LEMMA CxCancelDoes ==
  ASSUME CxTypes, NEW t \in Thread, Cancel(t)
  PROVE  /\ step[t] = "reading" /\ t \in knows /\ active[t] # 0 /\ Writable
         /\ active[t] \in turn[t] /\ active[t] \in Nat /\ CxTypes' /\ CxOthers(t)
         /\ turn'[t] = turn[t] \ {active[t]}
         /\ wants' = {w \in wants : w.t # t \/ w.n # active[t]}
         /\ stdout' = Append(stdout, Line("completed", t, active[t], 0))
         /\ UNCHANGED <<proc, serves, lapsed, nextId, asked, client, tools, reader, runs,
                        asking, ghosts, crashed, halted>>
<1>1. /\ step[t] = "reading" /\ t \in knows /\ active[t] # 0 /\ Writable
      /\ active[t] \in turn[t]
      /\ turn' = Set(turn, t, turn[t] \ {active[t]})
      /\ wants' = {w \in wants : w.t # t \/ w.n # active[t]}
      /\ stdout' = Append(stdout, Line("completed", t, active[t], 0))
      /\ UNCHANGED <<proc, serves, lapsed, nextId, asked, client, tools, reader, runs,
                     asking, ghosts, crashed, halted>>
      /\ loaded' = loaded
  BY DEF Cancel
<1>2. UNCHANGED <<active, knows, userInputs, queue, ended, step, run, verdict, answered,
                  guessed, abandoned, outlived, stolen>>
  BY <1>1 DEF client, reader, runs, ghosts
<1>3. active[t] \in Nat
  BY DEF CxTypes, CxRunTypes
<1>4. /\ turn' \in [Thread -> SUBSET Nat] /\ turn'[t] = turn[t] \ {active[t]}
      /\ (\A x \in Thread \ {t} : turn'[x] = turn[x])
      /\ stdout' \in Seq(CxLines)
  BY <1>1, <1>3, CxCompletesTypes
<1>5. wants' \subseteq wants
  BY <1>1
<1>6. CxTypes'
  BY <1>1, <1>2, <1>4, <1>5 DEF CxTypes, CxRunTypes, CxLineTypes, CxSetTypes, CodexAssumption
<1>7. CxOthers(t)
  BY <1>1, <1>2, <1>4 DEF CxOthers, CxSame
<1> QED BY <1>1, <1>3, <1>4, <1>6, <1>7

(* What happens when the child ends a turn, variable by variable.          *)
LEMMA CxCompletesDoes ==
  ASSUME CxTypes, NEW t \in Thread, NEW n \in turn[t], ChildCompletes(t, n)
  PROVE  /\ n \in Nat /\ CxTypes' /\ CxOthers(t) /\ turn'[t] = turn[t] \ {n}
         /\ (\A w \in wants : w.t # t \/ w.n # n)
         /\ stdout' = Append(stdout, Line("completed", t, n, 0))
         /\ UNCHANGED <<proc, serves, wants, lapsed, nextId, asked, client, tools, reader,
                        runs, asking, ghosts, crashed, halted>>
<1>1. /\ turn' = Set(turn, t, turn[t] \ {n}) /\ (\A w \in wants : w.t # t \/ w.n # n)
      /\ stdout' = Append(stdout, Line("completed", t, n, 0))
      /\ UNCHANGED <<proc, serves, wants, lapsed, nextId, asked, client, tools, reader,
                     runs, asking, ghosts, crashed, halted>>
      /\ loaded' = loaded
  BY DEF ChildCompletes
<1>2. UNCHANGED <<active, knows, userInputs, queue, ended, step, run, verdict, answered,
                  guessed, abandoned, outlived, stolen>>
  BY <1>1 DEF client, reader, runs, ghosts
<1>3. n \in Nat
  BY DEF CxTypes, CxRunTypes
<1>4. /\ turn' \in [Thread -> SUBSET Nat] /\ turn'[t] = turn[t] \ {n}
      /\ (\A x \in Thread \ {t} : turn'[x] = turn[x])
      /\ stdout' \in Seq(CxLines)
  BY <1>1, <1>3, CxCompletesTypes
<1>6. CxTypes'
  BY <1>1, <1>2, <1>4 DEF CxTypes, CxRunTypes, CxLineTypes, CxSetTypes, CodexAssumption
<1>7. CxOthers(t)
  BY <1>1, <1>2, <1>4 DEF CxOthers, CxSame
<1> QED BY <1>1, <1>3, <1>4, <1>6, <1>7

(* A line that the child writes. *)
LEMMA CxWrites ==
  ASSUME CxTypes, NEW m \in CxKinds, NEW t \in Thread, NEW n \in Nat, NEW id \in Nat,
         m = "ask" => id \in 1..MaxAsks
  PROVE  Append(stdout, Line(m, t, n, id)) \in Seq(CxLines)
<1>1. Line(m, t, n, id) \in CxLines /\ stdout \in Seq(CxLines)
  BY CxLineType DEF CxTypes, CxLineTypes
<1> QED BY <1>1

(* What happens when the handler of a tool returns, variable by variable.  *)
LEMMA CxToolReturnsDoes ==
  ASSUME CxTypes, NEW c \in tools, ToolReturns(c)
  PROVE  /\ CxTypes' /\ CxAllSame /\ c.id \in Nat /\ tools' = tools \ {c}
         /\ wants' = (IF Writable THEN Without(c.id) ELSE wants) /\ crashed' = ~Writable
         /\ stolen' = stolen \cup {w.id : w \in {w \in wants \ wants' : ~w.tool}}
         /\ UNCHANGED <<proc, stdout, lapsed, nextId, asked, userInputs, guessed, abandoned,
                        outlived, halted>>
<1>1. /\ tools' = tools \ {c} /\ loaded' = loaded /\ serves' = serves
      /\ wants' = (IF Writable THEN Without(c.id) ELSE wants) /\ crashed' = ~Writable
      /\ stolen' = stolen \cup {w.id : w \in {w \in wants \ wants' : ~w.tool}}
      /\ UNCHANGED <<proc, stdout, lapsed, nextId, asked, userInputs, guessed, abandoned,
                     outlived, halted>>
      /\ CxAllSame
  BY DEF ToolReturns, Reply, client, reader, runs, CxAllSame
<1>2. wants \subseteq CxWants /\ \A d \in tools : d.id \in Nat
  BY DEF CxTypes, CxLineTypes
<1>3. wants' \subseteq wants
  BY <1>1 DEF Without
<1>4. {w.id : w \in {w \in wants \ wants' : ~w.tool}} \subseteq Nat
  BY <1>2 DEF CxWants
<1>5. CxTypes'
  BY <1>1, <1>2, <1>3, <1>4
     DEF CxTypes, CxRunTypes, CxLineTypes, CxSetTypes, CodexAssumption, CxAllSame
<1> QED BY <1>1, <1>2, <1>5

(* What happens when the child asks, variable by variable.                 *)
LEMMA CxAsksDoes ==
  ASSUME CxTypes, NEW t \in Thread, NEW n \in turn[t], NEW kind \in {"ask", "tool"},
         ChildAsks(t, n, kind)
  PROVE  /\ n \in Nat /\ CxTypes' /\ CxAllSame /\ nextId \in 1..MaxAsks /\ nextId' = nextId + 1
         /\ wants' = wants \cup {[id |-> nextId, t |-> t, n |-> n, tool |-> kind = "tool"]}
         /\ stdout' = Append(stdout, Line(kind, t, n, nextId))
         /\ UNCHANGED <<proc, lapsed, userInputs, tools, ghosts, crashed, halted>>
<1>1. /\ asked < MaxAsks /\ asked' = asked + 1 /\ nextId' = nextId + 1
      /\ wants' = wants \cup {[id |-> nextId, t |-> t, n |-> n, tool |-> kind = "tool"]}
      /\ stdout' = Append(stdout, Line(kind, t, n, nextId))
      /\ UNCHANGED <<proc, lapsed, userInputs, tools, ghosts, crashed, halted>>
      /\ CxAllSame /\ UNCHANGED <<serves, loaded, stolen>>
  BY DEF ChildAsks, client, reader, runs, ghosts, CxAllSame
<1>2. /\ n \in Nat /\ MaxAsks \in Nat /\ asked \in 0..MaxAsks /\ nextId \in 1..(asked + 1)
      /\ wants \subseteq CxWants
  BY DEF CxTypes, CxRunTypes, CxLineTypes, CodexAssumption
<1>3. /\ nextId \in 1..MaxAsks /\ nextId \in Nat /\ asked' \in 0..MaxAsks
      /\ nextId' \in 1..(asked' + 1)
  BY <1>1, <1>2
<1>4. wants' \subseteq CxWants
  <2>1. [id |-> nextId, t |-> t, n |-> n, tool |-> kind = "tool"] \in CxWants
    BY <1>2, <1>3 DEF CxWants
  <2> QED BY <1>1, <1>2, <2>1
<1>5. stdout' \in Seq(CxLines)
  BY <1>1, <1>2, <1>3, CxWrites DEF CxKinds
<1>6. CxTypes'
  BY <1>1, <1>3, <1>4, <1>5
     DEF CxTypes, CxRunTypes, CxLineTypes, CxSetTypes, CodexAssumption, CxAllSame
<1> QED BY <1>1, <1>2, <1>3, <1>6

(* What happens when the child closes its request, variable by variable.   *)
LEMMA CxResolvesDoes ==
  ASSUME CxTypes, NEW w \in wants, ChildResolves(w)
  PROVE  /\ CxTypes' /\ CxAllSame /\ ~w.tool /\ w.t \in Thread /\ w.n \in Nat /\ w.id \in Nat
         /\ wants' = wants \ {w} /\ lapsed' = lapsed \cup {w.id}
         /\ stdout' = Append(stdout, Line("resolved", w.t, w.n, w.id))
         /\ UNCHANGED <<proc, nextId, asked, userInputs, tools, ghosts, crashed, halted>>
<1>1. /\ ~w.tool /\ wants' = wants \ {w} /\ lapsed' = lapsed \cup {w.id}
      /\ stdout' = Append(stdout, Line("resolved", w.t, w.n, w.id))
      /\ UNCHANGED <<proc, nextId, asked, userInputs, tools, ghosts, crashed, halted>>
      /\ CxAllSame /\ UNCHANGED <<serves, loaded, stolen>>
  BY DEF ChildResolves, client, reader, runs, ghosts, CxAllSame
<1>2. w.t \in Thread /\ w.n \in Nat /\ w.id \in Nat
  BY DEF CxTypes, CxLineTypes, CxWants
<1>3. stdout' \in Seq(CxLines)
  BY <1>1, <1>2, CxWrites DEF CxKinds
<1>4. CxTypes'
  BY <1>1, <1>2, <1>3
     DEF CxTypes, CxRunTypes, CxLineTypes, CxSetTypes, CodexAssumption, CxAllSame
<1> QED BY <1>1, <1>2, <1>4

(* What happens when the child reports an error, variable by variable.     *)
LEMMA CxErrsDoes ==
  ASSUME CxTypes, NEW t \in Thread, NEW n \in turn[t], ChildErrs(t, n)
  PROVE  /\ n \in Nat /\ CxTypes' /\ CxAllSame
         /\ stdout' = Append(stdout, Line("error", t, n, 0))
         /\ UNCHANGED <<proc, child, userInputs, tools, ghosts, crashed, halted>>
<1>1. /\ stdout' = Append(stdout, Line("error", t, n, 0))
      /\ UNCHANGED <<proc, child, userInputs, tools, ghosts, crashed, halted>>
      /\ CxAllSame /\ UNCHANGED <<serves, wants, lapsed, nextId, asked, loaded, stolen>>
  BY DEF ChildErrs, child, client, reader, runs, ghosts, CxAllSame
<1>2. n \in Nat
  BY DEF CxTypes, CxRunTypes
<1>3. stdout' \in Seq(CxLines)
  BY <1>1, <1>2, CxWrites DEF CxKinds
<1>4. CxTypes'
  BY <1>1, <1>3 DEF CxTypes, CxRunTypes, CxLineTypes, CxSetTypes, CodexAssumption, CxAllSame
<1> QED BY <1>1, <1>2, <1>4

(* failAll: who waits for a response has failed, and every entry is gone. *)
CxFailed(x) ==
  /\ active'[x] = 0 /\ x \notin knows' /\ run'[x] = run[x] /\ answered'[x] = answered[x]
  /\ asking'[x] = asking[x]
  /\ \/ /\ step[x] \in {"starting", "opening", "turning"} /\ step'[x] = "idle"
        /\ verdict'[x] = "failed" /\ queue'[x] = <<>> /\ ended'[x] = ended[x]
     \/ /\ step[x] \in {"idle", "reading"} /\ step'[x] = step[x] /\ verdict'[x] = verdict[x]
        /\ queue'[x] = queue[x]
        /\ ended'[x] = (IF active[x] # 0 /\ Listening(x) THEN "failed" ELSE ended[x])

(* When all runs fail, those that wait for a response are over, those that *)
(* read have the failure in their queue, and no entry is left (failAll).   *)
LEMMA CxFailAll ==
  ASSUME CxTypes, FailAll
  PROVE  /\ step' \in [Thread -> CxSteps] /\ verdict' \in [Thread -> CxVerdicts]
         /\ ended' \in [Thread -> CxEnds] /\ queue' \in [Thread -> Seq(CxEvents)]
         /\ active' \in [Thread -> Nat] /\ knows' = {} /\ userInputs' = {}
         /\ run' = run /\ answered' = answered /\ asking' = asking
         /\ \A x \in Thread : CxFailed(x)
<1>0. /\ step \in [Thread -> CxSteps] /\ verdict \in [Thread -> CxVerdicts]
      /\ ended \in [Thread -> CxEnds] /\ queue \in [Thread -> Seq(CxEvents)]
  BY DEF CxTypes, CxRunTypes
<1>1. /\ step' = [t \in Thread |-> IF t \in Waiting THEN "idle" ELSE step[t]]
      /\ verdict' = [t \in Thread |-> IF t \in Waiting THEN "failed" ELSE verdict[t]]
      /\ ended' = [t \in Thread |-> IF active[t] # 0 /\ t \notin Waiting /\ Listening(t)
                                    THEN "failed" ELSE ended[t]]
      /\ queue' = [t \in Thread |-> IF t \in Waiting THEN <<>> ELSE queue[t]]
      /\ active' = [t \in Thread |-> 0] /\ knows' = {} /\ userInputs' = {}
      /\ run' = run /\ answered' = answered /\ asking' = asking
  BY DEF FailAll
<1>2. step' \in [Thread -> CxSteps] /\ verdict' \in [Thread -> CxVerdicts]
  BY <1>0, <1>1
<1>3. ended' \in [Thread -> CxEnds] /\ active' \in [Thread -> Nat]
  BY <1>0, <1>1
<1>4. queue' \in [Thread -> Seq(CxEvents)]
  <2>1. <<>> \in Seq(CxEvents)
    OBVIOUS
  <2>2. \A t \in Thread : (IF t \in Waiting THEN <<>> ELSE queue[t]) \in Seq(CxEvents)
    BY <1>0, <2>1
  <2> QED BY <1>1, <2>2
<1>5. ASSUME NEW x \in Thread PROVE CxFailed(x)
  <2>1. step[x] \in CxSteps
    BY <1>0
  <2>2. x \in Waiting <=> step[x] \in {"starting", "opening", "turning"}
    BY DEF Waiting
  <2>3. /\ step'[x] = (IF x \in Waiting THEN "idle" ELSE step[x])
        /\ verdict'[x] = (IF x \in Waiting THEN "failed" ELSE verdict[x])
        /\ ended'[x] = (IF active[x] # 0 /\ x \notin Waiting /\ Listening(x)
                        THEN "failed" ELSE ended[x])
        /\ queue'[x] = (IF x \in Waiting THEN <<>> ELSE queue[x]) /\ active'[x] = 0
    BY <1>1
  <2>4. CASE x \in Waiting
    BY <1>1, <2>2, <2>3, <2>4 DEF CxFailed
  <2>5. CASE x \notin Waiting
    <3>1. step[x] \in {"idle", "reading"}
      BY <2>1, <2>2, <2>5
    <3> QED BY <1>1, <2>3, <2>5, <3>1 DEF CxFailed
  <2> QED BY <2>4, <2>5
<1> QED BY <1>1, <1>2, <1>3, <1>4, <1>5

(* What happens when the process exits, variable by variable.              *)
LEMMA CxExitDoes ==
  ASSUME CxTypes, Exit
  PROVE  /\ CxTypes' /\ proc \in {"starting", "ready", "killed", "stopping"} /\ proc' = "none"
         /\ stdout' \in {<<>>, stdout} /\ (\A x \in Thread : turn'[x] = {}) /\ wants' = {}
         /\ lapsed' = {} /\ stolen' = {} /\ nextId' = 1 /\ knows' = {} /\ userInputs' = {}
         /\ (\A x \in Thread : CxFailed(x)) /\ run' = run /\ answered' = answered
         /\ asking' = asking
         /\ outlived' = outlived \cup {t \in Thread : step[t] = "reading"}
         /\ UNCHANGED <<guessed, abandoned, crashed, halted>>
<1>1. /\ step' \in [Thread -> CxSteps] /\ verdict' \in [Thread -> CxVerdicts]
      /\ ended' \in [Thread -> CxEnds] /\ queue' \in [Thread -> Seq(CxEvents)]
      /\ active' \in [Thread -> Nat] /\ knows' = {} /\ userInputs' = {}
      /\ run' = run /\ answered' = answered /\ asking' = asking
      /\ \A x \in Thread : CxFailed(x)
  BY CxFailAll DEF Exit
<1>2. /\ proc \in {"starting", "ready", "killed", "stopping"} /\ proc' = "none"
      /\ stdout' \in {<<>>, stdout} /\ serves' = {} /\ turn' = [t \in Thread |-> {}]
      /\ wants' = {} /\ lapsed' = {} /\ stolen' = {} /\ nextId' = 1 /\ asked' = asked
      /\ tools' = {[c EXCEPT !.stale = TRUE] : c \in tools}
      /\ loaded' = (IF proc = "stopping" THEN {} ELSE loaded)
      /\ outlived' = outlived \cup {t \in Thread : step[t] = "reading"}
      /\ UNCHANGED <<guessed, abandoned, crashed, halted>>
  BY DEF Exit
<1>3. stdout' \in Seq(CxLines)
  <2>1. stdout \in Seq(CxLines) /\ <<>> \in Seq(CxLines)
    BY DEF CxTypes, CxLineTypes
  <2> QED BY <1>2, <2>1
<1>4. turn' \in [Thread -> SUBSET Nat] /\ \A x \in Thread : turn'[x] = {}
  BY <1>2
<1>5. nextId' \in 1..(asked' + 1)
  BY <1>2 DEF CxTypes, CxLineTypes
<1>6. \A c \in tools' : c.id \in Nat
  <2>1. ASSUME NEW d \in tools PROVE [d EXCEPT !.stale = TRUE].id = d.id
    OBVIOUS
  <2> QED BY <1>2, <2>1 DEF CxTypes, CxLineTypes
<1>7. loaded' \subseteq Thread /\ outlived' \subseteq Thread
  BY <1>2 DEF CxTypes, CxSetTypes
<1>8. CxTypes'
  BY <1>1, <1>2, <1>3, <1>4, <1>5, <1>6, <1>7
     DEF CxTypes, CxRunTypes, CxLineTypes, CxSetTypes, CodexAssumption
<1> QED BY <1>1, <1>2, <1>4, <1>8

(* What happens when the child writes a broken line, variable by variable. *)
LEMMA CxBrokenDoes ==
  ASSUME CxTypes, BrokenLine
  PROVE  /\ CxTypes' /\ proc \in {"starting", "ready"}
         /\ proc' = (IF proc = "starting" THEN "killed" ELSE proc)
         /\ (\A x \in Thread : CxFailed(x)) /\ knows' = {} /\ userInputs' = {}
         /\ run' = run /\ answered' = answered /\ asking' = asking
         /\ abandoned' = abandoned \cup {t \in Thread : turn[t] # {} \/ active[t] # 0}
         /\ UNCHANGED <<stdout, child, tools, guessed, outlived, stolen, crashed, halted>>
<1>1. /\ step' \in [Thread -> CxSteps] /\ verdict' \in [Thread -> CxVerdicts]
      /\ ended' \in [Thread -> CxEnds] /\ queue' \in [Thread -> Seq(CxEvents)]
      /\ active' \in [Thread -> Nat] /\ knows' = {} /\ userInputs' = {}
      /\ run' = run /\ answered' = answered /\ asking' = asking
      /\ \A x \in Thread : CxFailed(x)
  BY CxFailAll DEF BrokenLine
<1>2. /\ proc \in {"starting", "ready"}
      /\ proc' = (IF proc = "starting" THEN "killed" ELSE proc)
      /\ abandoned' = abandoned \cup {t \in Thread : turn[t] # {} \/ active[t] # 0}
      /\ UNCHANGED <<stdout, child, tools, guessed, outlived, stolen, crashed, halted>>
      /\ loaded' = loaded /\ UNCHANGED <<serves, turn, wants, lapsed, nextId, asked>>
  BY DEF BrokenLine, child
<1>3. abandoned' \subseteq Thread
  BY <1>2 DEF CxTypes, CxSetTypes
<1>8. CxTypes'
  BY <1>1, <1>2, <1>3 DEF CxTypes, CxRunTypes, CxLineTypes, CxSetTypes, CodexAssumption
<1> QED BY <1>1, <1>2, <1>8

(* What happens when a response times out, variable by variable.           *)
LEMMA CxTimeoutDoes ==
  ASSUME CxTypes, NEW t \in Thread, Timeout(t)
  PROVE  /\ CxTypes' /\ CxOthers(t) /\ step[t] \in {"starting", "opening", "turning"}
         /\ proc' = (IF step[t] = "starting" THEN "killed" ELSE proc)
         /\ active'[t] = (IF step[t] = "turning" THEN 0 ELSE active[t])
         /\ (t \in abandoned') = (step[t] = "turning" \/ t \in abandoned)
         /\ CxEnded(t, "failed")
         /\ UNCHANGED <<stdout, child, knows, userInputs, tools, ended, run, answered,
                        guessed, outlived, stolen, crashed, halted>>
<1>1. /\ step[t] \in {"starting", "opening", "turning"} /\ End(t, "failed")
      /\ proc' = (IF step[t] = "starting" THEN "killed" ELSE proc)
      /\ active' = (IF step[t] = "turning" THEN [active EXCEPT ![t] = 0] ELSE active)
      /\ abandoned' = (IF step[t] = "turning" THEN abandoned \cup {t} ELSE abandoned)
      /\ UNCHANGED <<stdout, child, knows, userInputs, tools, ended, run, answered,
                     guessed, outlived, stolen, crashed, halted>>
      /\ loaded' = loaded /\ UNCHANGED <<serves, turn, wants, lapsed, nextId, asked>>
  BY DEF Timeout, Waiting, Set, child
<1>2. /\ step' \in [Thread -> CxSteps] /\ verdict' \in [Thread -> CxVerdicts]
      /\ asking' \in [Thread -> 0..MaxAsks] /\ queue' \in [Thread -> Seq(CxEvents)]
      /\ CxEnded(t, "failed")
      /\ \A x \in Thread \ {t} : /\ step'[x] = step[x] /\ verdict'[x] = verdict[x]
                                 /\ asking'[x] = asking[x] /\ queue'[x] = queue[x]
  BY <1>1, CxEnd DEF CxEnded
<1>3. active \in [Thread -> Nat] /\ abandoned \subseteq Thread /\ MaxAsks \in Nat
      /\ proc \in {"none", "starting", "ready", "killed", "stopping"}
  BY DEF CxTypes, CxRunTypes, CxSetTypes, CodexAssumption
<1>4. /\ active' \in [Thread -> Nat]
      /\ active'[t] = (IF step[t] = "turning" THEN 0 ELSE active[t])
      /\ \A x \in Thread \ {t} : active'[x] = active[x]
  BY <1>1, <1>3
<1>5. /\ abandoned' \subseteq Thread /\ (t \in abandoned') = (step[t] = "turning" \/ t \in abandoned)
      /\ \A x \in Thread \ {t} : (x \in abandoned') = (x \in abandoned)
  BY <1>1, <1>3
<1>6. proc' \in {"none", "starting", "ready", "killed", "stopping"}
  BY <1>1, <1>3
<1>8. CxTypes'
  BY <1>1, <1>2, <1>4, <1>5, <1>6
     DEF CxTypes, CxRunTypes, CxLineTypes, CxSetTypes, CodexAssumption
<1>9. CxOthers(t)
  BY <1>1, <1>2, <1>4, <1>5 DEF CxOthers, CxSame
<1> QED BY <1>1, <1>2, <1>4, <1>5, <1>8, <1>9

(* What happens when the adapter is stopped, variable by variable.         *)
LEMMA CxStopDoes ==
  ASSUME CxTypes, Stop
  PROVE  /\ CxTypes' /\ CxAllSame /\ ~halted /\ halted' = TRUE
         /\ (\A t \in Thread : step[t] = "idle")
         /\ proc' = (IF proc = "none" THEN proc ELSE "stopping")
         /\ UNCHANGED <<stdout, child, userInputs, tools, ghosts, crashed>>
<1>1. /\ ~halted /\ halted' = TRUE /\ (\A t \in Thread : step[t] = "idle")
      /\ proc' = (IF proc = "none" THEN proc ELSE "stopping")
      /\ loaded' = (IF proc = "none" THEN {} ELSE loaded)
      /\ UNCHANGED <<stdout, child, userInputs, tools, ghosts, crashed>>
      /\ CxAllSame /\ UNCHANGED <<serves, wants, lapsed, nextId, asked, stolen>>
  BY DEF Stop, child, client, reader, runs, ghosts, CxAllSame
<1>2. loaded' \subseteq Thread
  BY <1>1 DEF CxTypes, CxSetTypes
<1>3. CxTypes'
  BY <1>1, <1>2 DEF CxTypes, CxRunTypes, CxLineTypes, CxSetTypes, CodexAssumption, CxAllSame
<1> QED BY <1>1, <1>3

-----------------------------------------------------------------------------
(* One thread moves. *)
LEMMA CxMoves ==
  ASSUME CxBase, CxTypes', NEW t \in Thread, CxOthers(t), halted' = halted,
         \/ proc' = proc
         \/ proc = "none" /\ proc' = "starting"
         \/ proc = "starting" /\ step[t] = "starting" /\ proc' \in {"ready", "killed"},
         wants' # {} => wants # {} \/ proc = "ready",
         step'[t] = "starting" => step[t] = "starting" \/ proc = "none",
         CxAt(t)', CxThread(t)'
  PROVE  CxBase'
<1>1. /\ proc = "stopping" => halted
      /\ wants # {} => proc \in {"ready", "stopping"}
      /\ \A x \in Thread : CxAt(x) /\ CxThread(x)
      /\ \A r, x \in Thread : step[r] = "starting" /\ step[x] = "starting" => r = x
  BY DEF CxBase, CxWhen
<1>2. ASSUME NEW x \in Thread \ {t} PROVE CxAt(x)' /\ CxThread(x)' /\ step'[x] = step[x]
  <2>1. CxAt(x) /\ CxThread(x) /\ CxSame(x)
    BY <1>1, <1>2 DEF CxOthers
  <2>2. CxThread(x)'
    BY <2>1, CxSameThread
  <2>3. step[t] = "starting" => step[x] # "starting"
    BY <1>1, <1>2
  <2>4. CxAt(x)'
    BY <2>1, <2>3 DEF CxAt, CxSame
  <2> QED BY <2>1, <2>2, <2>4 DEF CxSame
<1>3. \A x \in Thread : CxAt(x)' /\ CxThread(x)'
  BY <1>2
<1>4. \A r, x \in Thread : step'[r] = "starting" /\ step'[x] = "starting" => r = x
  <2>1. \A x \in Thread : step[x] = "starting" => proc = "starting"
    BY <1>1 DEF CxAt
  <2> QED BY <1>1, <1>2, <2>1
<1>5. proc' = "stopping" => halted'
  BY <1>1
<1>6. wants' # {} => proc' \in {"ready", "stopping"}
  BY <1>1
<1> QED BY <1>3, <1>4, <1>5, <1>6 DEF CxBase, CxWhen

(* No thread moves. *)
LEMMA CxStays ==
  ASSUME CxBase, CxTypes', CxAllSame, proc' = proc, halted' = halted,
         wants' # {} => wants # {} \/ proc = "ready"
  PROVE  CxBase'
<1>1. /\ proc = "stopping" => halted
      /\ wants # {} => proc \in {"ready", "stopping"}
      /\ \A x \in Thread : CxAt(x) /\ CxThread(x)
      /\ \A r, x \in Thread : step[r] = "starting" /\ step[x] = "starting" => r = x
  BY DEF CxBase, CxWhen
<1>2. ASSUME NEW x \in Thread PROVE CxAt(x)' /\ CxThread(x)' /\ step'[x] = step[x]
  <2>1. CxAt(x) /\ CxThread(x) /\ CxSame(x)
    BY <1>1, CxStill
  <2>2. CxThread(x)'
    BY <2>1, CxSameThread
  <2>4. CxAt(x)'
    BY <2>1 DEF CxAt, CxSame
  <2> QED BY <2>1, <2>2, <2>4 DEF CxSame
<1> QED BY <1>1, <1>2 DEF CxBase, CxWhen

(* What is known of one thread. *)
LEMMA CxKnown ==
  ASSUME CxBase, NEW t \in Thread
  PROVE  /\ CxTypes /\ CxAt(t) /\ CxThread(t) /\ step[t] \in CxSteps /\ run[t] \in Nat
         /\ active[t] \in Nat /\ ended[t] \in CxEnds /\ asking[t] \in 0..MaxAsks /\ MaxAsks \in Nat
         /\ queue[t] \in Seq(CxEvents) /\ turn[t] \subseteq Nat /\ answered[t] \in Nat
BY DEF CxBase, CxWhen, CxTypes, CxRunTypes, CodexAssumption

(* A run that is over knows nothing, and a new one knows nothing of it. *)
LEMMA CxLaunchesBase ==
  ASSUME CxBase, NEW t \in Thread, NEW lines, CxLaunched(t, lines),
         step[t] \in {"idle", "starting", "opening"}, run'[t] # 0, proc' = "ready", ~halted',
         t \notin outlived', abandoned' = abandoned, step[t] = "idle" \/ t \notin outlived
  PROVE  CxAt(t)' /\ CxThread(t)' /\ step'[t] # "starting"
<1>1. /\ queue[t] = <<>> /\ asking[t] = 0 /\ (active[t] # 0 => t \in abandoned)
      /\ (verdict[t] = "busy" => t \in abandoned)
  BY CxKnown DEF CxThread, HasRequest
<1>2. CASE CxBusy(t, lines)
  BY <1>1, <1>2 DEF CxBusy, CxAt, CxThread, HasRequest
<1>3. CASE CxOpens(t, run'[t], lines)
  BY <1>1, <1>3 DEF CxOpens, CxAt, CxThread, HasRequest
<1>4. CASE \E reply \in {"turned", "unloaded", "occupied"} : CxStarted(t, run'[t], lines, reply)
  <2>1. PICK reply \in {"turned", "unloaded", "occupied"} : CxStarted(t, run'[t], lines, reply)
    BY <1>4
  <2>2. /\ active'[t] = run'[t] /\ t \notin knows' /\ queue'[t] = <<>> /\ ended'[t] = "open"
        /\ step'[t] = "turning" /\ verdict'[t] = verdict[t] /\ asking'[t] = 0
    BY <1>1, <2>1 DEF CxStarted
  <2> QED BY <1>1, <2>2 DEF CxAt, CxThread, HasRequest
<1> QED BY <1>2, <1>3, <1>4 DEF CxLaunched

(* The base of the invariant when a run begins (Begin).                    *)
LEMMA CxBeginBase ==
  ASSUME CxBase, NEW t \in Thread, Begin(t)
  PROVE  CxBase'
<1>1. /\ CxTypes' /\ CxOthers(t) /\ run'[t] = run[t] + 1 /\ run[t] \in Nat
      /\ t \notin outlived' /\ step[t] = "idle" /\ ~halted
      /\ UNCHANGED <<wants, abandoned, halted>>
      /\ \/ proc = "ready" /\ proc' = "ready" /\ CxLaunched(t, stdout)
         \/ /\ proc = "none" /\ proc' = "starting" /\ step'[t] = "starting"
            /\ turn' = turn /\ active' = active /\ knows' = knows
            /\ queue' = queue /\ ended' = ended /\ verdict' = verdict /\ asking' = asking
         \/ /\ proc \in {"starting", "killed", "stopping"} /\ proc' = proc
            /\ CxEnded(t, "failed")
            /\ turn' = turn /\ active' = active /\ knows' = knows /\ ended' = ended
  BY CxBeginDoes, CxKnown
<1>2. run'[t] # 0
  BY <1>1
<1>3. CASE proc = "ready" /\ proc' = "ready" /\ CxLaunched(t, stdout)
  <2>1. CxAt(t)' /\ CxThread(t)' /\ step'[t] # "starting"
    BY <1>1, <1>2, <1>3, CxLaunchesBase
  <2> QED BY <1>1, <1>3, <2>1, CxMoves
<1>4. CASE /\ proc = "none" /\ proc' = "starting" /\ step'[t] = "starting"
           /\ turn' = turn /\ active' = active /\ knows' = knows
           /\ queue' = queue /\ ended' = ended /\ verdict' = verdict /\ asking' = asking
  <2>1. CxAt(t)'
    BY <1>1, <1>4, CxKnown DEF CxAt
  <2>2. CxThread(t)'
    BY <1>1, <1>2, <1>4, CxKnown DEF CxThread, HasRequest
  <2> QED BY <1>1, <1>4, <2>1, <2>2, CxMoves
<1>5. CASE /\ proc \in {"starting", "killed", "stopping"} /\ proc' = proc
           /\ CxEnded(t, "failed")
           /\ turn' = turn /\ active' = active /\ knows' = knows /\ ended' = ended
  <2>1. CxAt(t)'
    BY <1>1, <1>5, CxKnown DEF CxAt, CxEnded
  <2>2. CxThread(t)'
    BY <1>1, <1>2, <1>5, CxKnown DEF CxThread, HasRequest, CxEnded
  <2>3. step'[t] # "starting"
    BY <1>5 DEF CxEnded
  <2> QED BY <1>1, <1>5, <2>1, <2>2, <2>3, CxMoves
<1> QED BY <1>1, <1>3, <1>4, <1>5

(* The base of the invariant when the answer to initialize is read.        *)
LEMMA CxInitializedBase ==
  ASSUME CxBase, NEW t, t = Head(stdout).t, Initialized
  PROVE  CxBase'
<1>1. /\ t \in Thread /\ CxTypes' /\ CxOthers(t) /\ run'[t] = run[t] /\ run[t] \in Nat
      /\ UNCHANGED <<wants, halted>> /\ abandoned' = abandoned /\ outlived' = outlived
      /\ \/ /\ step[t] = "starting" /\ proc' = "ready"
            /\ CxLaunched(t, Tail(stdout))
         \/ CxSame(t) /\ proc' = proc
  BY CxInitializedDoes DEF CxBase, ghosts
<1>2. CxAt(t) /\ CxThread(t)
  BY <1>1, CxKnown
<1>3. CASE step[t] = "starting" /\ proc' = "ready" /\ CxLaunched(t, Tail(stdout))
  <2>1. run'[t] # 0 /\ ~halted' /\ t \notin outlived /\ proc = "starting"
    BY <1>1, <1>2, <1>3 DEF CxAt, CxThread
  <2>2. CxAt(t)' /\ CxThread(t)' /\ step'[t] # "starting"
    BY <1>1, <1>3, <2>1, CxLaunchesBase
  <2> QED BY <1>1, <1>3, <2>1, <2>2, CxMoves
<1>4. CASE CxSame(t) /\ proc' = proc
  <2>1. CxThread(t)' /\ step'[t] = step[t]
    BY <1>1, <1>2, <1>4, CxSameThread DEF CxSame
  <2>2. CxAt(t)'
    BY <1>1, <1>2, <1>4 DEF CxAt, CxSame
  <2> QED BY <1>1, <1>4, <2>1, <2>2, CxMoves
<1> QED BY <1>1, <1>3, <1>4

(* The base of the invariant when the answer to thread/start is read.      *)
LEMMA CxOpenedBase ==
  ASSUME CxBase, NEW t, t = Head(stdout).t, Opened
  PROVE  CxBase'
<1>1. /\ t \in Thread /\ CxTypes' /\ CxOthers(t) /\ run'[t] = run[t] /\ run[t] \in Nat
      /\ UNCHANGED <<proc, wants, halted>> /\ abandoned' = abandoned /\ outlived' = outlived
      /\ \/ step[t] = "opening" /\ CxLaunched(t, Tail(stdout))
         \/ CxSame(t)
  BY CxOpenedDoes DEF CxBase, ghosts
<1>2. CxAt(t) /\ CxThread(t)
  BY <1>1, CxKnown
<1>3. CASE step[t] = "opening" /\ CxLaunched(t, Tail(stdout))
  <2>1. run'[t] # 0 /\ ~halted' /\ t \notin outlived /\ proc' = "ready"
    BY <1>1, <1>2, <1>3 DEF CxAt, CxThread
  <2>2. CxAt(t)' /\ CxThread(t)' /\ step'[t] # "starting"
    BY <1>1, <1>3, <2>1, CxLaunchesBase
  <2> QED BY <1>1, <1>3, <2>1, <2>2, CxMoves
<1>4. CASE CxSame(t)
  <2>1. CxThread(t)' /\ step'[t] = step[t]
    BY <1>1, <1>2, <1>4, CxSameThread DEF CxSame
  <2>2. CxAt(t)'
    BY <1>1, <1>2, <1>4 DEF CxAt, CxSame
  <2> QED BY <1>1, <1>4, <2>1, <2>2, CxMoves
<1> QED BY <1>1, <1>3, <1>4

(* The base of the invariant when the answer to turn/start is read.        *)
LEMMA CxTurnedBase ==
  ASSUME CxBase, NEW t, t = Head(stdout).t, Turned
  PROVE  CxBase'
<1>1. /\ t \in Thread /\ CxTypes' /\ CxOthers(t)
      /\ UNCHANGED <<proc, child, active, reader, run, verdict, answered, asking, ghosts, halted>>
      /\ \/ /\ step[t] = "turning" /\ step'[t] = "reading"
            /\ (t \in knows') = (active[t] = run[t] \/ t \in knows)
         \/ step'[t] = step[t] /\ (t \in knows') = (t \in knows)
  BY CxTurnedDoes DEF CxBase
<1>2. UNCHANGED <<turn, wants, queue, ended, guessed, abandoned, outlived>>
  BY <1>1 DEF child, reader, ghosts
<1>3. CxAt(t) /\ CxThread(t) /\ active[t] \in Nat /\ run[t] \in Nat
  BY <1>1, CxKnown
<1>4. step'[t] # "starting" \/ step'[t] = step[t]
  BY <1>1
<1>5. CxAt(t)'
  BY <1>1, <1>2, <1>3 DEF CxAt
<1>6. CxThread(t)'
  BY <1>1, <1>2, <1>3 DEF CxThread, HasRequest
<1> QED BY <1>1, <1>2, <1>4, <1>5, <1>6, CxMoves

(* The base of the invariant when a refused turn is read (TurnRefused).    *)
LEMMA CxRefusedBase ==
  ASSUME CxBase, NEW t, t = Head(stdout).t, TurnRefused
  PROVE  CxBase'
<1>1. /\ t \in Thread /\ CxTypes' /\ CxOthers(t)
      /\ UNCHANGED <<proc, child, knows, ended, run, answered, ghosts, halted>>
      /\ \/ /\ step[t] = "turning" /\ CxEnded(t, "failed") /\ active'[t] = 0
         \/ CxSame(t)
  BY CxRefusedDoes DEF CxBase
<1>2. UNCHANGED <<turn, wants, guessed, abandoned, outlived>>
  BY <1>1 DEF child, ghosts
<1>3. CxAt(t) /\ CxThread(t) /\ active[t] \in Nat /\ run[t] \in Nat
  BY <1>1, CxKnown
<1>4. CASE step[t] = "turning" /\ CxEnded(t, "failed") /\ active'[t] = 0
  <2>1. CxAt(t)' /\ step'[t] # "starting"
    BY <1>1, <1>2, <1>3, <1>4 DEF CxAt, CxEnded
  <2>2. CxThread(t)'
    BY <1>1, <1>2, <1>3, <1>4 DEF CxThread, HasRequest, CxEnded
  <2> QED BY <1>1, <1>2, <2>1, <2>2, CxMoves
<1>5. CASE CxSame(t)
  <2>1. CxThread(t)' /\ step'[t] = step[t]
    BY <1>1, <1>3, <1>5, CxSameThread DEF CxSame
  <2>2. CxAt(t)'
    BY <1>1, <1>2, <1>3, <1>5 DEF CxAt, CxSame
  <2> QED BY <1>1, <1>2, <2>1, <2>2, CxMoves
<1> QED BY <1>1, <1>4, <1>5

-----------------------------------------------------------------------------
(* What a list has after an Append. *)
LEMMA CxAppend ==
  ASSUME NEW S, NEW q \in Seq(S), NEW e \in S
  PROVE  /\ Append(q, e) # <<>> /\ Append(q, e) \in Seq(S) /\ Len(Append(q, e)) = Len(q) + 1
         /\ Len(q) \in Nat
         /\ \A i \in DOMAIN q : i \in DOMAIN Append(q, e) /\ Append(q, e)[i] = q[i]
                                /\ i \in 1..Len(q)
         /\ Append(q, e)[Len(q) + 1] = e /\ Len(q) + 1 \in DOMAIN Append(q, e)
         /\ \A i \in DOMAIN Append(q, e) : i \in DOMAIN q \/ i = Len(q) + 1
OBVIOUS

(* What a list has without its head. *)
LEMMA CxTail ==
  ASSUME NEW S, NEW q \in Seq(S), q # <<>>
  PROVE  /\ Tail(q) \in Seq(S) /\ Len(Tail(q)) = Len(q) - 1 /\ Len(q) \in Nat
         /\ \A i \in DOMAIN Tail(q) : i + 1 \in DOMAIN q /\ Tail(q)[i] = q[i + 1] /\ i \in 1..Len(Tail(q))
         /\ 1 \in DOMAIN q /\ q[1] = Head(q)
         /\ \A i \in DOMAIN q : i # 1 => i - 1 \in DOMAIN Tail(q) /\ Tail(q)[i - 1] = q[i]
OBVIOUS

(* The base of the invariant when an error or the end of a turn is read.   *)
LEMMA CxEventBase ==
  ASSUME CxBase, NEW t, t = Head(stdout).t, TurnEvent
  PROVE  CxBase'
<1> DEFINE n == Head(stdout).n  kind == Head(stdout).m
<1>1. /\ t \in Thread /\ n \in Nat /\ kind \in {"error", "completed"} /\ CxTypes' /\ CxOthers(t)
      /\ UNCHANGED <<proc, child, knows, runs, asking, abandoned, outlived, halted>>
      /\ \/ /\ Accepts(t, n)
            /\ queue'[t] = (IF Listening(t) THEN Append(queue[t], Event(kind, n, 0)) ELSE queue[t])
            /\ ended'[t] = (IF kind = "completed" /\ Listening(t) THEN "closed" ELSE ended[t])
            /\ active'[t] = (IF kind = "completed" THEN 0 ELSE active[t])
         \/ ~Accepts(t, n) /\ CxSame(t)
  BY CxEventDoes DEF CxBase
<1>2. UNCHANGED <<turn, wants, step, run, verdict, answered>>
  BY <1>1 DEF child, runs
<1>3. CxAt(t) /\ CxThread(t) /\ active[t] \in Nat /\ run[t] \in Nat /\ queue[t] \in Seq(CxEvents)
  BY <1>1, CxKnown
<1>4. CASE /\ Accepts(t, n)
           /\ queue'[t] = (IF Listening(t) THEN Append(queue[t], Event(kind, n, 0)) ELSE queue[t])
           /\ ended'[t] = (IF kind = "completed" /\ Listening(t) THEN "closed" ELSE ended[t])
           /\ active'[t] = (IF kind = "completed" THEN 0 ELSE active[t])
  <2>1. active[t] # 0 /\ t \notin outlived
    BY <1>3, <1>4 DEF Accepts, CxThread
  <2>2. CxAt(t)'
    BY <1>1, <1>2, <1>3, <1>4, <2>1 DEF CxAt
  <2>3. Listening(t) <=> HasRequest(t)
    BY <1>3, <2>1 DEF CxThread, Listening, HasRequest
  <2>4. /\ Event(kind, n, 0) \in CxEvents /\ Event(kind, n, 0).e = kind
    BY <1>1, CxEventType
  <2>5. \A i \in DOMAIN queue'[t] :
          queue'[t][i].e = "completed" => active'[t] = 0 \/ t \in abandoned
    <3>1. CASE kind = "completed"
      BY <1>4, <3>1
    <3>2. CASE kind # "completed" /\ Listening(t)
      BY <1>3, <1>4, <2>4, <3>2, CxAppend DEF CxThread
    <3>3. CASE kind # "completed" /\ ~Listening(t)
      BY <1>3, <1>4, <3>3 DEF CxThread
    <3> QED BY <3>1, <3>2, <3>3
  <2>6. queue'[t] # <<>> => HasRequest(t)
    BY <1>3, <1>4, <2>3 DEF CxThread
  <2>7. /\ HasRequest(t) => active'[t] \in {0, run[t]} /\ (ended'[t] = "open" => active'[t] = run[t])
        /\ active'[t] # 0 /\ t \notin abandoned => HasRequest(t) /\ ended'[t] = "open"
    BY <1>3, <1>4, <2>1, <2>3 DEF CxThread
  <2>8. CxThread(t)'
    BY <1>1, <1>2, <1>3, <2>1, <2>5, <2>6, <2>7 DEF CxThread, HasRequest
  <2> QED BY <1>1, <1>2, <2>2, <2>8, CxMoves
<1>5. CASE CxSame(t)
  <2>1. CxThread(t)' /\ step'[t] = step[t]
    BY <1>1, <1>3, <1>5, CxSameThread DEF CxSame
  <2>2. CxAt(t)'
    BY <1>1, <1>2, <1>3, <1>5 DEF CxAt, CxSame
  <2> QED BY <1>1, <1>2, <2>1, <2>2, CxMoves
<1> QED BY <1>1, <1>4, <1>5

(* The base of the invariant when a request for user input is read.        *)
LEMMA CxAskedBase ==
  ASSUME CxBase, NEW t, t = Head(stdout).t, UserInputRequested
  PROVE  CxBase'
<1> DEFINE n == Head(stdout).n  id == Head(stdout).id
<1>1. /\ t \in Thread /\ n \in Nat /\ id \in 1..MaxAsks /\ CxTypes' /\ CxOthers(t)
      /\ UNCHANGED <<proc, turn, active, knows, ended, runs, asking, ghosts, halted>>
      /\ \/ /\ Accepts(t, n) /\ wants' = wants
            /\ queue'[t] = (IF Listening(t) THEN Append(queue[t], Event("ask", n, id)) ELSE queue[t])
         \/ queue' = queue /\ wants' = (IF Writable THEN Without(id) ELSE wants)
  <2>1. CxTypes
    BY DEF CxBase
  <2>2. /\ t \in Thread /\ id \in 1..MaxAsks /\ CxTypes' /\ CxOthers(t) /\ stdout # <<>>
        /\ UNCHANGED <<proc, turn, active, knows, ended, runs, asking, ghosts, halted>>
        /\ \/ /\ Accepts(t, n) /\ wants' = wants
              /\ queue'[t] = (IF Listening(t) THEN Append(queue[t], Event("ask", n, id)) ELSE queue[t])
           \/ queue' = queue /\ wants' = (IF Writable THEN Without(id) ELSE wants)
    BY <2>1, CxAskedDoes
  <2>3. n \in Nat
    BY <2>1, <2>2, CxHead DEF CxTypes
  <2> QED BY <2>2, <2>3
<1>2. UNCHANGED <<step, run, verdict, answered, guessed, abandoned, outlived>>
  BY <1>1 DEF runs, ghosts
<1>3. /\ CxAt(t) /\ CxThread(t) /\ active[t] \in Nat /\ run[t] \in Nat
      /\ queue[t] \in Seq(CxEvents) /\ MaxAsks \in Nat
  BY <1>1, CxKnown
<1>4. wants' # {} => wants # {}
  BY <1>1 DEF Without
<1>5. CxAt(t)'
  BY <1>1, <1>2, <1>3 DEF CxAt
<1>6. CASE Accepts(t, n) /\ Listening(t) /\ queue'[t] = Append(queue[t], Event("ask", n, id))
  <2>1. Event("ask", n, id) \in CxEvents /\ Event("ask", n, id).e = "ask"
    BY <1>1, <1>3, CxEventType
  <2>2. HasRequest(t)
    BY <1>6 DEF Listening, HasRequest
  <2>3. \A i \in DOMAIN queue'[t] :
          queue'[t][i].e = "completed" => active[t] = 0 \/ t \in abandoned
    BY <1>3, <1>6, <2>1, CxAppend DEF CxThread
  <2>4. CxThread(t)'
    BY <1>1, <1>2, <1>3, <2>2, <2>3 DEF CxThread, HasRequest
  <2> QED BY <1>1, <1>2, <1>4, <1>5, <2>4, CxMoves
<1>7. CASE queue'[t] = queue[t]
  <2>1. CxThread(t)'
    BY <1>1, <1>2, <1>3, <1>7 DEF CxThread, HasRequest
  <2> QED BY <1>1, <1>2, <1>4, <1>5, <2>1, CxMoves
<1> QED BY <1>1, <1>6, <1>7

(* The base of the invariant when a run reads its queue.                   *)
LEMMA CxReadBase ==
  ASSUME CxBase, NEW t \in Thread, Read(t)
  PROVE  CxBase'
<1> DEFINE id == Head(queue[t]).id
<1>1. /\ step[t] = "reading" /\ queue[t] # <<>> /\ CxTypes' /\ CxOthers(t) /\ CxReadKeeps
      /\ \/ /\ id \in 1..MaxAsks /\ queue'[t] = Tail(queue[t])
            /\ UNCHANGED <<step, verdict, answered, abandoned>>
            /\ asking'[t] = id \/ asking' = asking
            /\ wants' = wants \/ wants' = Without(id)
         \/ /\ \E v \in {"failed", "dropped"} : CxEnded(t, v)
            /\ abandoned' = abandoned \cup {t} /\ wants' = wants
         \/ /\ Head(queue[t]).e = "completed" /\ CxEnded(t, "completed")
            /\ wants' = wants /\ abandoned' = abandoned
  BY CxReadDoes DEF CxBase
<1>2. UNCHANGED <<proc, turn, active, knows, ended, run, outlived, halted>>
  BY <1>1 DEF CxReadKeeps
<1>3. /\ CxAt(t) /\ CxThread(t) /\ active[t] \in Nat /\ run[t] \in Nat
      /\ queue[t] \in Seq(CxEvents) /\ MaxAsks \in Nat
  BY CxKnown
<1>4. wants' # {} => wants # {}
  BY <1>1 DEF Without
<1>5. CASE /\ queue'[t] = Tail(queue[t]) /\ UNCHANGED <<step, verdict, answered, abandoned>>
  <2>1. \A i \in DOMAIN queue'[t] :
          queue'[t][i].e = "completed" => active[t] = 0 \/ t \in abandoned
    BY <1>1, <1>3, <1>5, CxTail DEF CxThread
  <2>2. CxAt(t)'
    BY <1>2, <1>3, <1>5 DEF CxAt
  <2>3. CxThread(t)'
    BY <1>1, <1>2, <1>3, <1>5, <2>1 DEF CxThread, HasRequest
  <2> QED BY <1>1, <1>2, <1>4, <1>5, <2>2, <2>3, CxMoves
<1>6. CASE /\ \E v \in {"failed", "dropped"} : CxEnded(t, v)
           /\ abandoned' = abandoned \cup {t} /\ wants' = wants
  <2>1. /\ step'[t] = "idle" /\ asking'[t] = 0 /\ queue'[t] = <<>> /\ t \in abandoned'
    BY <1>6 DEF CxEnded
  <2>2. CxAt(t)'
    BY <1>2, <1>3, <2>1 DEF CxAt
  <2>3. CxThread(t)'
    BY <1>1, <1>2, <1>3, <2>1 DEF CxThread, HasRequest
  <2> QED BY <1>1, <1>2, <1>6, <2>1, <2>2, <2>3, CxMoves
<1>7. CASE /\ Head(queue[t]).e = "completed" /\ CxEnded(t, "completed")
           /\ wants' = wants /\ abandoned' = abandoned
  <2>1. /\ step'[t] = "idle" /\ asking'[t] = 0 /\ queue'[t] = <<>> /\ verdict'[t] = "completed"
    BY <1>7 DEF CxEnded
  <2>2. active[t] = 0 \/ t \in abandoned
    BY <1>1, <1>3, <1>7, CxTail DEF CxThread
  <2>3. CxAt(t)'
    BY <1>2, <1>3, <2>1 DEF CxAt
  <2>4. CxThread(t)'
    BY <1>1, <1>2, <1>3, <1>7, <2>1, <2>2 DEF CxThread, HasRequest
  <2> QED BY <1>1, <1>2, <1>7, <2>1, <2>3, <2>4, CxMoves
<1> QED BY <1>1, <1>5, <1>6, <1>7

(* The base of the invariant when a run reads the failure of its queue.    *)
LEMMA CxReadFailureBase ==
  ASSUME CxBase, NEW t \in Thread, ReadFailure(t)
  PROVE  CxBase'
<1>1. /\ step[t] = "reading" /\ ended[t] = "failed" /\ CxTypes' /\ CxOthers(t)
      /\ CxEnded(t, "failed")
      /\ UNCHANGED <<proc, child, client, ended, run, answered, ghosts, halted>>
  BY CxReadFailureDoes DEF CxBase
<1>2. UNCHANGED <<turn, wants, active, knows, abandoned, outlived>>
  BY <1>1 DEF child, client, ghosts
<1>3. CxAt(t) /\ CxThread(t)
  BY CxKnown
<1>4. CxAt(t)' /\ step'[t] # "starting"
  BY <1>1, <1>2, <1>3 DEF CxAt, CxEnded
<1>5. CxThread(t)'
  BY <1>1, <1>2, <1>3 DEF CxThread, HasRequest, CxEnded
<1> QED BY <1>1, <1>2, <1>4, <1>5, CxMoves

(* The base of the invariant when the user answers.                        *)
LEMMA CxAnswerBase ==
  ASSUME CxBase, NEW t \in Thread, Answer(t)
  PROVE  CxBase'
<1>1. /\ CxTypes' /\ CxOthers(t) /\ wants' = Without(asking[t]) /\ asking'[t] = 0
      /\ UNCHANGED <<proc, turn, active, knows, reader, runs, abandoned, outlived, halted>>
  BY CxAnswerDoes DEF CxBase
<1>2. UNCHANGED <<queue, ended, step, run, verdict, answered>>
  BY <1>1 DEF reader, runs
<1>3. CxAt(t) /\ CxThread(t)
  BY CxKnown
<1>4. CxAt(t)' /\ CxThread(t)'
  BY <1>1, <1>2, <1>3 DEF CxAt, CxThread, HasRequest
<1>5. wants' # {} => wants # {}
  BY <1>1 DEF Without
<1> QED BY <1>1, <1>2, <1>4, <1>5, CxMoves

(* The base of the invariant when a run is cancelled.                      *)
LEMMA CxCancelBase ==
  ASSUME CxBase, NEW t \in Thread, Cancel(t)
  PROVE  CxBase'
<1>1. /\ CxTypes' /\ CxOthers(t) /\ wants' \subseteq wants /\ turn'[t] \subseteq turn[t]
      /\ UNCHANGED <<proc, client, reader, runs, asking, ghosts, halted>>
  BY CxCancelDoes DEF CxBase
<1>2. UNCHANGED <<active, knows, queue, ended, step, run, verdict, answered, abandoned, outlived>>
  BY <1>1 DEF client, reader, runs, ghosts
<1>3. CxAt(t) /\ CxThread(t)
  BY CxKnown
<1>4. turn'[t] # {} => turn[t] # {}
  BY <1>1
<1>5. CxAt(t)' /\ CxThread(t)'
  BY <1>1, <1>2, <1>3, <1>4 DEF CxAt, CxThread, HasRequest
<1> QED BY <1>1, <1>2, <1>5, CxMoves

(* The base of the invariant when the child ends a turn.                   *)
LEMMA CxCompletesBase ==
  ASSUME CxBase, NEW t \in Thread, NEW n \in turn[t], ChildCompletes(t, n)
  PROVE  CxBase'
<1>1. /\ CxTypes' /\ CxOthers(t) /\ turn'[t] = turn[t] \ {n}
      /\ UNCHANGED <<proc, wants, client, reader, runs, asking, ghosts, halted>>
  BY CxCompletesDoes DEF CxBase
<1>2. UNCHANGED <<active, knows, queue, ended, step, run, verdict, answered, abandoned, outlived>>
  BY <1>1 DEF client, reader, runs, ghosts
<1>3. CxAt(t) /\ CxThread(t)
  BY CxKnown
<1>4. turn'[t] # {} => turn[t] # {}
  BY <1>1
<1>5. CxAt(t)' /\ CxThread(t)'
  BY <1>1, <1>2, <1>3, <1>4 DEF CxAt, CxThread, HasRequest
<1> QED BY <1>1, <1>2, <1>5, CxMoves

(* Steps that move no thread. *)
LEMMA CxQuietBase ==
  ASSUME CxBase,
         \/ ToolCalled \/ Resolved \/ \E c \in tools : ToolReturns(c)
         \/ /\ proc = "ready"
            /\ \/ \E w \in wants : ChildResolves(w)
               \/ \E t \in Thread : \E n \in turn[t] :
                    \/ ChildErrs(t, n)
                    \/ \E kind \in {"ask", "tool"} : ChildAsks(t, n, kind)
  PROVE  CxBase'
<1>0. CxTypes
  BY DEF CxBase
<1>1. CASE ToolCalled
  <2>1. /\ CxTypes' /\ CxAllSame /\ proc' = proc /\ halted' = halted
        /\ wants' = wants \/ wants' = Without(Head(stdout).id)
    BY <1>0, <1>1, CxToolDoes
  <2>2. wants' # {} => wants # {}
    BY <2>1 DEF Without
  <2> QED BY <2>1, <2>2, CxStays
<1>2. CASE Resolved
  <2>1. CxTypes' /\ CxAllSame /\ proc' = proc /\ halted' = halted /\ child' = child
    BY <1>0, <1>2, CxResolvedDoes
  <2>2. wants' = wants
    BY <2>1 DEF child
  <2> QED BY <2>1, <2>2, CxStays
<1>3. ASSUME NEW c \in tools, ToolReturns(c) PROVE CxBase'
  <2>1. /\ CxTypes' /\ CxAllSame /\ proc' = proc /\ halted' = halted
        /\ wants' = wants \/ wants' = Without(c.id)
    BY <1>0, <1>3, CxToolReturnsDoes
  <2>2. wants' # {} => wants # {}
    BY <2>1 DEF Without
  <2> QED BY <2>1, <2>2, CxStays
<1>4. ASSUME proc = "ready", NEW w \in wants, ChildResolves(w) PROVE CxBase'
  <2>1. CxTypes' /\ CxAllSame /\ proc' = proc /\ halted' = halted
    BY <1>0, <1>4, CxResolvesDoes
  <2> QED BY <1>4, <2>1, CxStays
<1>5. ASSUME proc = "ready", NEW t \in Thread, NEW n \in turn[t], ChildErrs(t, n) PROVE CxBase'
  <2>1. CxTypes' /\ CxAllSame /\ proc' = proc /\ halted' = halted
    BY <1>0, <1>5, CxErrsDoes
  <2> QED BY <1>5, <2>1, CxStays
<1>6. ASSUME proc = "ready", NEW t \in Thread, NEW n \in turn[t],
             NEW kind \in {"ask", "tool"}, ChildAsks(t, n, kind)
      PROVE  CxBase'
  <2>1. CxTypes' /\ CxAllSame /\ proc' = proc /\ halted' = halted
    BY <1>0, <1>6, CxAsksDoes
  <2> QED BY <1>6, <2>1, CxStays
<1> QED BY <1>1, <1>2, <1>3, <1>4, <1>5, <1>6

(* After failAll nobody waits for a response. *)
LEMMA CxFailedBase ==
  ASSUME CxBase, CxTypes', NEW x \in Thread, CxFailed(x),
         turn'[x] # {} => turn'[x] = turn[x] /\ (proc' = proc \/ proc = "starting"),
         halted' = halted, x \in abandoned => x \in abandoned',
         step[x] = "reading" => proc' = "ready" \/ x \in outlived',
         x \in outlived' => turn'[x] = {} /\ (x \in outlived \/ step[x] = "reading")
  PROVE  CxAt(x)' /\ CxThread(x)' /\ step'[x] # "starting"
<1>1. CxAt(x) /\ CxThread(x) /\ step[x] \in CxSteps
  BY CxKnown
<1>2. CASE /\ step[x] \in {"starting", "opening", "turning"} /\ step'[x] = "idle"
           /\ verdict'[x] = "failed" /\ queue'[x] = <<>> /\ ended'[x] = ended[x]
  <2>1. active'[x] = 0 /\ x \notin knows' /\ run'[x] = run[x] /\ asking'[x] = 0
    BY <1>1, <1>2 DEF CxFailed, CxThread
  <2>2. CxAt(x)'
    BY <1>1, <1>2, <2>1 DEF CxAt
  <2>3. CxThread(x)'
    BY <1>1, <1>2, <2>1 DEF CxThread, HasRequest
  <2> QED BY <1>2, <2>2, <2>3
<1>3. CASE /\ step[x] \in {"idle", "reading"} /\ step'[x] = step[x] /\ verdict'[x] = verdict[x]
           /\ queue'[x] = queue[x]
           /\ ended'[x] = (IF active[x] # 0 /\ Listening(x) THEN "failed" ELSE ended[x])
  <2>1. active'[x] = 0 /\ x \notin knows' /\ run'[x] = run[x] /\ asking'[x] = asking[x]
    BY DEF CxFailed
  <2>2. step[x] = "reading" => ended'[x] # "open"
    BY <1>1, <1>3 DEF CxThread, Listening, HasRequest
  <2>3. CxAt(x)'
    BY <1>1, <1>3, <2>1 DEF CxAt
  <2>4. CxThread(x)'
    BY <1>1, <1>3, <2>1, <2>2 DEF CxThread, HasRequest
  <2> QED BY <1>3, <2>3, <2>4
<1> QED BY <1>2, <1>3 DEF CxFailed

(* The base of the invariant when the process exits.                       *)
LEMMA CxExitBase ==
  ASSUME CxBase, Exit
  PROVE  CxBase'
<1>1. /\ CxTypes' /\ proc' = "none" /\ (\A x \in Thread : turn'[x] = {}) /\ wants' = {}
      /\ (\A x \in Thread : CxFailed(x))
      /\ outlived' = outlived \cup {t \in Thread : step[t] = "reading"}
      /\ abandoned' = abandoned /\ halted' = halted
  BY CxExitDoes DEF CxBase
<1>2. ASSUME NEW x \in Thread PROVE CxAt(x)' /\ CxThread(x)' /\ step'[x] # "starting"
  BY <1>1, CxFailedBase
<1> QED BY <1>1, <1>2 DEF CxBase, CxWhen

(* The base of the invariant when the child writes a broken line.          *)
LEMMA CxBrokenBase ==
  ASSUME CxBase, BrokenLine
  PROVE  CxBase'
<1>1. /\ CxTypes' /\ proc \in {"starting", "ready"}
      /\ proc' = (IF proc = "starting" THEN "killed" ELSE proc)
      /\ (\A x \in Thread : CxFailed(x))
      /\ abandoned' = abandoned \cup {t \in Thread : turn[t] # {} \/ active[t] # 0}
      /\ outlived' = outlived /\ halted' = halted /\ child' = child
  BY CxBrokenDoes DEF CxBase
<1>2. turn' = turn /\ wants' = wants
  BY <1>1 DEF child
<1>3. ASSUME NEW x \in Thread PROVE CxAt(x)' /\ CxThread(x)' /\ step'[x] # "starting"
  <2>1. CxAt(x) /\ CxThread(x)
    BY CxKnown
  <2>2. step[x] = "reading" => proc' = "ready" \/ x \in outlived'
    BY <1>1, <2>1 DEF CxAt
  <2>3. x \in outlived' => turn'[x] = {} /\ x \in outlived
    BY <1>1, <1>2, <2>1 DEF CxThread
  <2>4. turn'[x] = turn[x] /\ (proc' = proc \/ proc = "starting")
    BY <1>1, <1>2
  <2> QED BY <1>1, <2>2, <2>3, <2>4, CxFailedBase
<1>4. wants' # {} => proc' \in {"ready", "stopping"}
  BY <1>1, <1>2 DEF CxBase, CxWhen
<1>5. proc' # "stopping"
  BY <1>1
<1> QED BY <1>1, <1>3, <1>4, <1>5 DEF CxBase, CxWhen

(* The base of the invariant when a response times out.                    *)
LEMMA CxTimeoutBase ==
  ASSUME CxBase, NEW t \in Thread, Timeout(t)
  PROVE  CxBase'
<1>1. /\ CxTypes' /\ CxOthers(t) /\ step[t] \in {"starting", "opening", "turning"}
      /\ proc' = (IF step[t] = "starting" THEN "killed" ELSE proc)
      /\ active'[t] = (IF step[t] = "turning" THEN 0 ELSE active[t])
      /\ (t \in abandoned') = (step[t] = "turning" \/ t \in abandoned)
      /\ CxEnded(t, "failed")
      /\ UNCHANGED <<child, knows, ended, run, answered, outlived, halted>>
  BY CxTimeoutDoes DEF CxBase
<1>2. turn' = turn /\ wants' = wants
  BY <1>1 DEF child
<1>3. CxAt(t) /\ CxThread(t)
  BY CxKnown
<1>4. CxAt(t)' /\ step'[t] # "starting"
  BY <1>1, <1>2, <1>3 DEF CxAt, CxEnded
<1>5. CxThread(t)'
  BY <1>1, <1>2, <1>3 DEF CxThread, HasRequest, CxEnded
<1>6. step[t] = "starting" => proc = "starting"
  BY <1>3 DEF CxAt
<1> QED BY <1>1, <1>2, <1>4, <1>5, <1>6, CxMoves

(* The base of the invariant when the adapter is stopped.                  *)
LEMMA CxStopBase ==
  ASSUME CxBase, Stop
  PROVE  CxBase'
<1>1. /\ CxTypes' /\ CxAllSame /\ halted' = TRUE /\ (\A t \in Thread : step[t] = "idle")
      /\ proc' = (IF proc = "none" THEN proc ELSE "stopping") /\ child' = child
  BY CxStopDoes DEF CxBase
<1>2. wants' = wants
  BY <1>1 DEF child
<1>3. ASSUME NEW x \in Thread PROVE CxAt(x)' /\ CxThread(x)' /\ step'[x] = "idle"
  <2>1. CxAt(x) /\ CxThread(x) /\ CxSame(x)
    BY <1>1, CxKnown, CxStill
  <2>2. CxThread(x)'
    BY <2>1, CxSameThread
  <2>3. CxAt(x)'
    BY <1>1, <2>1 DEF CxAt, CxSame
  <2> QED BY <1>1, <2>1, <2>2, <2>3 DEF CxSame
<1>4. wants' # {} => proc' \in {"ready", "stopping"}
  BY <1>1, <1>2 DEF CxBase, CxWhen
<1> QED BY <1>1, <1>3, <1>4 DEF CxBase, CxWhen

(* The base of the invariant when the adapter is created.                  *)
LEMMA CxInitBase ==
  ASSUME CodexAssumption, Init
  PROVE  CxBase
<1>1. /\ step \in [Thread -> CxSteps] /\ verdict \in [Thread -> CxVerdicts]
      /\ ended \in [Thread -> CxEnds] /\ active \in [Thread -> Nat] /\ run \in [Thread -> Nat]
      /\ turn \in [Thread -> SUBSET Nat] /\ answered \in [Thread -> Nat]
  BY DEF Init
<1>2. asking \in [Thread -> 0..MaxAsks]
  BY DEF Init, CodexAssumption
<1>3. queue \in [Thread -> Seq(CxEvents)]
  BY DEF Init
<1>4. \A t \in Thread : run[t] <= MaxRuns[t]
  <2>1. \A t \in Thread : MaxRuns[t] \in Nat
    BY DEF CodexAssumption
  <2>2. \A t \in Thread : run[t] = 0
    BY DEF Init
  <2>3. \A n \in Nat : 0 <= n
    OBVIOUS
  <2> QED BY <2>1, <2>2, <2>3
<1>5. CxRunTypes
  BY <1>1, <1>2, <1>3, <1>4 DEF CxRunTypes, Init
<1>6. CxLineTypes /\ CxSetTypes
  BY DEF Init, CxLineTypes, CxSetTypes, CodexAssumption
<1>7. CxWhen
  BY DEF Init, CxWhen, CxAt
<1>8. \A t \in Thread : CxThread(t)
  BY DEF Init, CxThread, HasRequest
<1> QED BY <1>5, <1>6, <1>7, <1>8 DEF CxBase, CxTypes


-----------------------------------------------------------------------------
(* A list has a line, at some place. *)
CxHas(s, l) == \E i \in DOMAIN s : s[i] = l

(* What a list holds with one line more.                                   *)
LEMMA CxHasAppend ==
  ASSUME NEW S, NEW s \in Seq(S), NEW k \in S
  PROVE  \A l : CxHas(Append(s, k), l) <=> CxHas(s, l) \/ l = k
<1>1. ASSUME NEW l, CxHas(s, l) PROVE CxHas(Append(s, k), l)
  BY <1>1, CxAppend DEF CxHas
<1>2. CxHas(Append(s, k), k)
  BY CxAppend DEF CxHas
<1>3. ASSUME NEW l, CxHas(Append(s, k), l) PROVE CxHas(s, l) \/ l = k
  BY <1>3, CxAppend DEF CxHas
<1> QED BY <1>1, <1>2, <1>3

(* What a list holds with one line less.                                   *)
LEMMA CxHasTail ==
  ASSUME NEW S, NEW s \in Seq(S), s # <<>>
  PROVE  /\ \A l : CxHas(Tail(s), l) => CxHas(s, l)
         /\ \A l : CxHas(s, l) => CxHas(Tail(s), l) \/ l = Head(s)
         /\ CxHas(s, Head(s))
<1>1. ASSUME NEW l, CxHas(Tail(s), l) PROVE CxHas(s, l)
  BY <1>1, CxTail DEF CxHas
<1>2. ASSUME NEW l, CxHas(s, l) PROVE CxHas(Tail(s), l) \/ l = Head(s)
  <2>1. PICK i \in DOMAIN s : s[i] = l
    BY <1>2 DEF CxHas
  <2>2. CASE i = 1
    BY <2>1, <2>2, CxTail
  <2>3. CASE i # 1
    BY <2>1, <2>3, CxTail DEF CxHas
  <2> QED BY <2>2, <2>3
<1>3. CxHas(s, Head(s))
  BY CxTail DEF CxHas
<1> QED BY <1>1, <1>2, <1>3

(* An empty list holds nothing.                                            *)
LEMMA CxHasNothing == \A l : ~CxHas(<<>>, l)
BY DEF CxHas

(* A line that ends turn n of thread t, or says that there is none. *)
CxResults == {"completed", "unloaded", "occupied"}
CxRivals(k, l) == k.m \in CxResults /\ l.m \in CxResults /\ k.t = l.t /\ k.n = l.n

(* Lines that may be read before the turn of their run is accepted. *)
CxStarts == {"initialized", "opened", "resolved"}

(* The answer to initialize that a run waits for. *)
CxLive(l) == l.m = "initialized" /\ step[l.t] = "starting" /\ l.n = run[l.t]

(* A run answers with the end of its own turn, unless its thread completed *)
(* by a guess and an earlier run was abandoned.                            *)
CxOwn(t) ==
  /\ answered[t] \notin {0, run[t]} => t \in guessed /\ t \in abandoned
  /\ \A i \in DOMAIN queue[t] :
       queue[t][i].e = "completed" /\ queue[t][i].n # run[t] => t \in guessed /\ t \in abandoned

(* The child works on turns of runs that have begun, and on that of the    *)
(* last one only unless one was abandoned.                                 *)
CxTurn(t, n) ==
  /\ n # 0 /\ n <= run[t] /\ (n = run[t] => ~Young(t))
  /\ t \notin abandoned => n = run[t] /\ active[t] = n

(* A line belongs to a run that has begun, and the child does not work on  *)
(* a turn whose end is still to be read.                                   *)
CxLine(l) ==
  /\ l.m # "resolved" => l.n <= run[l.t]
  /\ l.m \notin CxStarts /\ l.n = run[l.t] => ~Young(l.t)
  /\ l.m \in CxResults => l.n \notin turn[l.t]
  /\ l.m = "completed" => l.n # 0
  /\ proc = "ready" /\ l.m = "completed" /\ l.t \notin abandoned
     => l.n = run[l.t] /\ active[l.t] = l.n

(* A turn ends once in what is still to be read, and the answer to         *)
(* initialize that a run waits for is the last line.                       *)
CxPlace ==
  /\ \A i, j \in DOMAIN stdout : CxRivals(stdout[i], stdout[j]) => i = j
  /\ \A i \in DOMAIN stdout : CxLive(stdout[i]) => i = Len(stdout)

(* Whose turn and line is whose.                                           *)
CxOrder ==
  /\ \A t \in Thread : CxOwn(t) /\ \A n \in turn[t] : CxTurn(t, n)
  /\ \A l \in CxLines : CxHas(stdout, l) => CxLine(l)
  /\ CxPlace

USE DEF CxResults, CxStarts

(* The fields of a line are of their types.                                *)
LEMMA CxLineFields ==
  ASSUME NEW l \in CxLines
  PROVE  l.m \in CxKinds /\ l.t \in Thread /\ l.n \in Nat /\ l.id \in Nat
BY DEF CxLines

(* A step that leaves the runs of x where they are. *)
CxKept(x) ==
  /\ run'[x] = run[x] /\ (Young(x)' => Young(x)) /\ turn'[x] \subseteq turn[x]
  /\ x \in abandoned => x \in abandoned'
  /\ x \notin abandoned' => active'[x] = active[x]

(* A step that leaves a thread alone leaves its runs where they are.       *)
LEMMA CxSameKept ==
  ASSUME NEW x \in Thread, CxSame(x)
  PROVE  CxKept(x) /\ (CxOwn(x) => CxOwn(x)')
BY DEF CxKept, CxSame, Young, CxOwn

(* What is known of a line is known after a step that leaves its runs      *)
(* where they are.                                                         *)
LEMMA CxKeptLine ==
  ASSUME NEW l \in CxLines, CxLine(l), CxKept(l.t), proc' = "ready" => proc = "ready"
  PROVE  CxLine(l)'
BY DEF CxLine, CxKept, Young

(* The same for a turn.                                                    *)
LEMMA CxKeptTurn ==
  ASSUME NEW x \in Thread, NEW n, CxTurn(x, n), CxKept(x)
  PROVE  CxTurn(x, n)'
BY DEF CxTurn, CxKept, Young

(* Runs stay where they are. *)
LEMMA CxOrderKeeps ==
  ASSUME CxTypes, CxOrder, CxPlace', \A x \in Thread : CxOwn(x)' /\ CxKept(x),
         proc' = "ready" => proc = "ready",
         \A l \in CxLines : CxHas(stdout', l) => CxHas(stdout, l) \/ CxLine(l)'
  PROVE  CxOrder'
<1>1. ASSUME NEW x \in Thread PROVE CxOwn(x)' /\ \A n \in turn'[x] : CxTurn(x, n)'
  <2>1. CxOwn(x)' /\ CxKept(x) /\ turn'[x] \subseteq turn[x]
    BY DEF CxKept
  <2>2. \A n \in turn[x] : CxTurn(x, n)'
    BY <2>1, CxKeptTurn DEF CxOrder
  <2> QED BY <2>1, <2>2
<1>2. ASSUME NEW l \in CxLines, CxHas(stdout', l) PROVE CxLine(l)'
  <2>1. CASE CxHas(stdout, l)
    <3>1. CxLine(l) /\ CxKept(l.t)
      BY <2>1, CxLineFields DEF CxOrder
    <3> QED BY <3>1, CxKeptLine
  <2> QED BY <1>2, <2>1
<1> QED BY <1>1, <1>2 DEF CxOrder, CxHas

(* One thread moves. *)
LEMMA CxOrderMoves ==
  ASSUME CxTypes, CxOrder, NEW t \in Thread, CxOthers(t), CxPlace',
         CxOwn(t)', \A n \in turn'[t] : CxTurn(t, n)',
         \A l \in CxLines : /\ CxHas(stdout', l)
                            /\ \/ l.t = t \/ ~CxHas(stdout, l)
                               \/ proc' = "ready" /\ proc # "ready"
                            => CxLine(l)'
  PROVE  CxOrder'
<1>1. ASSUME NEW x \in Thread PROVE CxOwn(x)' /\ \A n \in turn'[x] : CxTurn(x, n)'
  <2>1. CASE x = t
    BY <2>1
  <2>2. CASE x # t
    <3>1. CxOwn(x) /\ CxSame(x) /\ \A n \in turn[x] : CxTurn(x, n)
      BY <2>2 DEF CxOrder, CxOthers
    <3>2. CxOwn(x)' /\ CxKept(x)
      BY <3>1, CxSameKept
    <3>3. \A n \in turn[x] : CxTurn(x, n)'
      BY <3>1, <3>2, CxKeptTurn
    <3> QED BY <3>1, <3>2, <3>3 DEF CxSame
  <2> QED BY <2>1, <2>2
<1>2. ASSUME NEW l \in CxLines, CxHas(stdout', l) PROVE CxLine(l)'
  <2>1. CASE \/ l.t = t \/ ~CxHas(stdout, l)
             \/ proc' = "ready" /\ proc # "ready"
    BY <1>2, <2>1
  <2>2. CASE l.t # t /\ CxHas(stdout, l) /\ (proc' = "ready" => proc = "ready")
    <3>1. CxLine(l) /\ CxSame(l.t) /\ l.t \in Thread
      BY <2>2, CxLineFields DEF CxOrder, CxOthers
    <3>2. CxKept(l.t)
      BY <3>1, CxSameKept
    <3> QED BY <2>2, <3>1, <3>2, CxKeptLine
  <2> QED BY <2>1, <2>2
<1> QED BY <1>1, <1>2 DEF CxOrder, CxHas

(* The places, when lines are read or lost. *)
LEMMA CxPlaceReads ==
  ASSUME CxTypes, CxPlace,
         stdout' = stdout \/ stdout' = <<>> \/ (stdout # <<>> /\ stdout' = Tail(stdout)),
         \A l \in CxLines : CxHas(stdout, l) /\ CxLive(l)' => CxLive(l)
  PROVE  CxPlace'
<1>0. stdout \in Seq(CxLines)
  BY DEF CxTypes, CxLineTypes
<1>1. CASE stdout' = stdout
  <2>1. \A i \in DOMAIN stdout : stdout[i] \in CxLines /\ CxHas(stdout, stdout[i])
    BY <1>0 DEF CxHas
  <2>2. \A i \in DOMAIN stdout' : CxLive(stdout[i])' => i = Len(stdout)
    BY <1>1, <2>1 DEF CxPlace, CxLive
  <2> QED BY <1>1, <2>2 DEF CxPlace
<1>2. CASE stdout' = <<>>
  BY <1>2 DEF CxPlace
<1>3. CASE stdout # <<>> /\ stdout' = Tail(stdout)
  <2>1. /\ \A i \in DOMAIN stdout' : i + 1 \in DOMAIN stdout /\ stdout'[i] = stdout[i + 1] /\ i \in Nat
        /\ Len(stdout') = Len(stdout) - 1 /\ Len(stdout) \in Nat
    BY <1>0, <1>3, CxTail
  <2>2. \A i \in DOMAIN stdout : stdout[i] \in CxLines /\ CxHas(stdout, stdout[i])
    BY <1>0 DEF CxHas
  <2>3. ASSUME NEW i \in DOMAIN stdout', NEW j \in DOMAIN stdout', CxRivals(stdout'[i], stdout'[j])
        PROVE  i = j
    <3>1. i + 1 = j + 1
      BY <2>1, <2>3 DEF CxPlace
    <3> QED BY <2>1, <3>1
  <2>4. ASSUME NEW i \in DOMAIN stdout', CxLive(stdout[i])' PROVE i = Len(stdout')
    <3>1. PICK l \in CxLines : l = stdout'[i] /\ CxHas(stdout, l) /\ l = stdout[i + 1]
      BY <2>1, <2>2
    <3>2. CxLive(l)'
      BY <2>4, <3>1 DEF CxLive
    <3>3. CxLive(stdout[i + 1])
      BY <3>1, <3>2
    <3>4. i + 1 = Len(stdout)
      BY <2>1, <3>3 DEF CxPlace
    <3> QED BY <2>1, <3>4
  <2> QED BY <2>3, <2>4 DEF CxPlace
<1> QED BY <1>1, <1>2, <1>3

(* The places, when a line is written, perhaps by reading another one. *)
LEMMA CxPlaceWrites ==
  ASSUME CxTypes, CxPlace, NEW s, s = stdout \/ (stdout # <<>> /\ s = Tail(stdout)),
         NEW k \in CxLines, stdout' = Append(s, k),
         \A l \in CxLines : CxHas(stdout, l) => ~CxLive(l)',
         \A l \in CxLines : CxHas(s, l) => ~CxRivals(l, k)
  PROVE  CxPlace'
<1>0. stdout \in Seq(CxLines)
  BY DEF CxTypes, CxLineTypes
<1>1. s \in Seq(CxLines) /\ \A l : CxHas(s, l) => CxHas(stdout, l)
  BY <1>0, CxTail, CxHasTail
<1>2. \A i, j \in DOMAIN s : CxRivals(s[i], s[j]) => i = j
  <2>1. CASE s = stdout
    BY <2>1 DEF CxPlace
  <2>2. CASE stdout # <<>> /\ s = Tail(stdout)
    <3>1. \A i \in DOMAIN s : i + 1 \in DOMAIN stdout /\ s[i] = stdout[i + 1] /\ i \in Nat
      BY <1>0, <2>2, CxTail
    <3>2. ASSUME NEW i \in DOMAIN s, NEW j \in DOMAIN s, CxRivals(s[i], s[j]) PROVE i = j
      <4>1. i + 1 = j + 1
        BY <3>1, <3>2 DEF CxPlace
      <4> QED BY <3>1, <4>1
    <3> QED BY <3>2
  <2> QED BY <2>1, <2>2
<1>3. /\ \A i \in DOMAIN stdout' : (i \in DOMAIN s /\ stdout'[i] = s[i]) \/ (i = Len(stdout') /\ stdout'[i] = k)
      /\ \A i \in DOMAIN s : s[i] \in CxLines /\ CxHas(s, s[i])
  BY <1>1, CxAppend DEF CxHas
<1>4. ASSUME NEW i \in DOMAIN stdout', NEW j \in DOMAIN stdout', CxRivals(stdout'[i], stdout'[j])
      PROVE  i = j
  <2>1. CASE i \in DOMAIN s /\ stdout'[i] = s[i] /\ j \in DOMAIN s /\ stdout'[j] = s[j]
    BY <1>2, <1>4, <2>1
  <2>2. CASE i \in DOMAIN s /\ stdout'[i] = s[i] /\ stdout'[j] = k
    BY <1>3, <1>4, <2>2
  <2>3. CASE stdout'[i] = k /\ j \in DOMAIN s /\ stdout'[j] = s[j]
    <3>1. CxRivals(s[j], k)
      BY <1>4, <2>3 DEF CxRivals
    <3> QED BY <1>3, <2>3, <3>1
  <2> QED BY <1>3, <2>1, <2>2, <2>3
<1>5. ASSUME NEW i \in DOMAIN stdout', CxLive(stdout[i])' PROVE i = Len(stdout')
  <2>1. CASE i \in DOMAIN s /\ stdout'[i] = s[i]
    <3>1. PICK l \in CxLines : l = stdout'[i] /\ CxHas(stdout, l)
      BY <1>1, <1>3, <2>1
    <3>2. CxLive(l)'
      BY <1>5, <3>1 DEF CxLive
    <3> QED BY <3>1, <3>2
  <2> QED BY <1>3, <2>1
<1> QED BY <1>4, <1>5 DEF CxPlace


(* A line that was read has no rival behind it. *)
LEMMA CxNoRival ==
  ASSUME CxTypes, CxPlace, stdout # <<>>, NEW l, CxHas(Tail(stdout), l)
  PROVE  ~CxRivals(Head(stdout), l)
<1>0. stdout \in Seq(CxLines)
  BY DEF CxTypes, CxLineTypes
<1>1. PICK i \in DOMAIN Tail(stdout) : Tail(stdout)[i] = l
  BY DEF CxHas
<1>2. i + 1 \in DOMAIN stdout /\ stdout[i + 1] = l /\ i \in 1..Len(Tail(stdout)) /\ 1 \in DOMAIN stdout
      /\ stdout[1] = Head(stdout)
  BY <1>0, <1>1, CxTail
<1>3. i + 1 # 1
  BY <1>2
<1> QED BY <1>2, <1>3 DEF CxPlace

(* Steps that write nothing. *)
CxReadsOnly ==
  stdout' = stdout \/ stdout' = <<>> \/ (stdout # <<>> /\ stdout' = Tail(stdout))

(* A step that writes nothing leaves only lines that were there.           *)
LEMMA CxReadsHas ==
  ASSUME CxTypes, CxReadsOnly
  PROVE  \A l : CxHas(stdout', l) => CxHas(stdout, l)
<1>0. stdout \in Seq(CxLines)
  BY DEF CxTypes, CxLineTypes
<1> QED BY <1>0, CxHasTail, CxHasNothing DEF CxReadsOnly

(* A step that starts no run makes no answer to initialize one that is     *)
(* waited for.                                                             *)
LEMMA CxLiveStays ==
  ASSUME NEW x \in Thread, NEW l \in CxLines, l.t = x, CxLive(l)',
         step'[x] = step[x] \/ step'[x] # "starting", run'[x] = run[x]
  PROVE  CxLive(l)
BY DEF CxLive

(* Runs stay where they are and nothing is written. *)
LEMMA CxOrderReads ==
  ASSUME CxTypes, CxOrder, CxReadsOnly,
         \A x \in Thread : CxOwn(x)' /\ CxKept(x) /\ (step'[x] = step[x] \/ step'[x] # "starting"),
         proc' = "ready" => proc = "ready"
  PROVE  CxOrder'
<1>1. ASSUME NEW l \in CxLines, CxLive(l)' PROVE CxLive(l)
  <2>1. l.t \in Thread
    BY CxLineFields
  <2> QED BY <1>1, <2>1, CxLiveStays DEF CxKept
<1>2. CxPlace'
  BY <1>1, CxPlaceReads DEF CxReadsOnly, CxOrder
<1>3. \A l \in CxLines : CxHas(stdout', l) => CxHas(stdout, l)
  BY CxReadsHas
<1> QED BY <1>2, <1>3, CxOrderKeeps

(* Order is kept when no thread moves and nothing is written.              *)
LEMMA CxSameReads ==
  ASSUME CxTypes, CxOrder, CxReadsOnly, \A x \in Thread : CxSame(x),
         proc' = "ready" => proc = "ready"
  PROVE  CxOrder'
<1>1. ASSUME NEW x \in Thread
      PROVE  CxOwn(x)' /\ CxKept(x) /\ (step'[x] = step[x] \/ step'[x] # "starting")
  BY CxSameKept DEF CxOrder, CxSame
<1> QED BY <1>1, CxOrderReads

(* While the child is ready nobody waits for its initialization. *)
LEMMA CxNoneStarts ==
  ASSUME CxBase, proc = "ready"
  PROVE  \A x \in Thread : step[x] # "starting"
BY CxKnown DEF CxAt

(* Runs stay where they are and the child writes a line. *)
LEMMA CxOrderWrites ==
  ASSUME CxBase, CxOrder, proc = "ready", NEW k \in CxLines, stdout' = Append(stdout, k),
         \A x \in Thread : CxOwn(x)' /\ CxKept(x) /\ step'[x] = step[x],
         CxLine(k)', \A l \in CxLines : CxHas(stdout, l) => ~CxRivals(l, k)
  PROVE  CxOrder'
<1>0. CxTypes /\ stdout \in Seq(CxLines)
  BY DEF CxBase, CxTypes, CxLineTypes
<1>1. ASSUME NEW l \in CxLines PROVE ~CxLive(l)'
  <2>1. l.t \in Thread
    BY CxLineFields
  <2> QED BY <2>1, CxNoneStarts DEF CxLive
<1>2. CxPlace'
  BY <1>0, <1>1, CxPlaceWrites DEF CxOrder
<1>3. \A l \in CxLines : CxHas(stdout', l) => CxHas(stdout, l) \/ CxLine(l)'
  BY <1>0, CxHasAppend
<1> QED BY <1>0, <1>2, <1>3, CxOrderKeeps


-----------------------------------------------------------------------------
(* A list of length nothing is empty.                                      *)
LEMMA CxEmpty ==
  ASSUME NEW S, NEW q \in Seq(S), NEW n, n = 1, Len(q) = n - 1
  PROVE  q = <<>>
OBVIOUS

(* A run that starts its turn, or finds that it cannot. *)
LEMMA CxLaunchesOrder ==
  ASSUME CxBase, CxOrder, CxTypes', NEW t \in Thread, CxOthers(t),
         NEW lines, CxLaunched(t, lines),
         lines = stdout \/ (stdout # <<>> /\ lines = Tail(stdout)),
         proc' = "ready", proc = "ready" \/ (lines = <<>> /\ step[t] = "starting"),
         step[t] \in {"idle", "starting", "opening"}, run'[t] # 0,
         abandoned' = abandoned,
         \/ answered'[t] = 0
         \/ answered'[t] = answered[t] /\ run'[t] = run[t] /\ guessed' = guessed,
         \A l \in CxLines : CxHas(lines, l) /\ l.t = t =>
            /\ l.m # "resolved" => l.n <= run'[t]
            /\ l.m \notin CxStarts => l.n # run'[t],
         \A n \in turn[t] : n # 0 /\ n <= run'[t] /\ n # run'[t]
  PROVE  CxOrder'
<1>0. /\ CxTypes /\ stdout \in Seq(CxLines) /\ run'[t] \in Nat /\ lines \in Seq(CxLines)
      /\ \A l : CxHas(lines, l) => CxHas(stdout, l)
  <2>1. CxTypes /\ stdout \in Seq(CxLines) /\ run'[t] \in Nat
    BY DEF CxBase, CxTypes, CxLineTypes, CxRunTypes
  <2>2. CASE lines = stdout
    BY <2>1, <2>2
  <2>3. CASE stdout # <<>> /\ lines = Tail(stdout)
    <3>1. Tail(stdout) \in Seq(CxLines)
      BY <2>1, <2>3, CxTail
    <3>2. \A l : CxHas(Tail(stdout), l) => CxHas(stdout, l)
      BY <2>1, <2>3, CxHasTail
    <3> QED BY <2>1, <2>3, <3>1, <3>2
  <2> QED BY <2>2, <2>3
<1>1. /\ CxThread(t) /\ queue[t] = <<>> /\ (active[t] # 0 => t \in abandoned) /\ CxOwn(t)
  BY CxKnown DEF CxThread, HasRequest, CxOrder
<1>2. queue'[t] = <<>> /\ step'[t] # "starting"
  BY <1>1 DEF CxLaunched, CxBusy, CxStarted, CxOpens
<1>3. CxOwn(t)'
  BY <1>1, <1>2 DEF CxOwn
<1>4. ASSUME NEW l \in CxLines PROVE ~CxLive(l)'
  <2>1. l.t \in Thread
    BY CxLineFields
  <2>2. ASSUME NEW x \in Thread, x # t PROVE step'[x] # "starting"
    <3>1. step'[x] = step[x]
      BY <2>2 DEF CxOthers, CxSame
    <3>2. step[x] # "starting"
      BY <2>2, CxNoneStarts DEF CxBase, CxWhen
    <3> QED BY <3>1, <3>2
  <2> QED BY <1>2, <2>1, <2>2 DEF CxLive
(* The lines there were. *)
<1>5. ASSUME NEW l \in CxLines, CxHas(lines, l), l.t = t, l.n \notin turn'[t] \/ l.m \notin CxResults
      PROVE  CxLine(l)'
  <2>1. CxLine(l)
    BY <1>0, <1>5 DEF CxOrder
  <2>2. l.m = "completed" => t \in abandoned'
    <3>1. proc = "ready"
      BY <1>5, CxHasNothing
    <3> QED BY <1>1, <1>5, <2>1, <3>1 DEF CxLine
  <2>3. l.m = "completed" => l.n # 0
    BY <2>1 DEF CxLine
  <2>4. l.m \notin CxStarts => l.n # run'[l.t]
    BY <1>5
  <2>5. l.m # "resolved" => l.n <= run'[l.t]
    BY <1>5
  <2> QED BY <1>5, <2>2, <2>3, <2>4, <2>5 DEF CxLine
<1>6. ASSUME NEW l \in CxLines, CxHas(stdout', l), CxHas(lines, l),
             l.t = t \/ ~CxHas(stdout, l) \/ (proc' = "ready" /\ proc # "ready"),
             turn'[t] \subseteq turn[t] \cup {run'[t]}
      PROVE  CxLine(l)'
  <2>1. proc = "ready" /\ l.t = t
    BY <1>0, <1>6, CxHasNothing
  <2>2. l.m \in CxResults => l.n \notin turn'[t]
    <3>1. CxLine(l)
      BY <1>0, <1>6 DEF CxOrder
    <3>2. l.m \in CxResults => l.n \notin turn[t] /\ l.n # run'[t]
      BY <1>6, <2>1, <3>1 DEF CxLine
    <3> QED BY <1>6, <3>2
  <2> QED BY <1>5, <1>6, <2>1, <2>2
<1>7. CASE CxBusy(t, lines)
  <2>1. stdout' = lines /\ turn'[t] = turn[t] /\ step'[t] = "idle" /\ active[t] # 0
    BY <1>7 DEF CxBusy
  <2>2. CxPlace'
    BY <1>0, <1>4, <2>1, CxPlaceReads DEF CxOrder
  <2>3. \A n \in turn'[t] : CxTurn(t, n)'
    BY <1>1, <2>1 DEF CxTurn
  <2>4. \A l \in CxLines : /\ CxHas(stdout', l)
                            /\ \/ l.t = t \/ ~CxHas(stdout, l)
                               \/ proc' = "ready" /\ proc # "ready"
                            => CxLine(l)'
    BY <1>6, <2>1
  <2> QED BY <1>0, <1>3, <2>2, <2>3, <2>4, CxOrderMoves
<1>8. ASSUME NEW m \in {"opened", "turned", "unloaded", "occupied"},
             stdout' = Append(lines, Line(m, t, run'[t], 0)),
             turn'[t] = (IF m = "turned" THEN turn[t] \cup {run'[t]} ELSE turn[t]),
             m # "opened" => step'[t] = "turning" /\ active'[t] = run'[t],
             m = "opened" => turn'[t] = turn[t]
      PROVE  CxOrder'
  <2>0. PICK k : k = Line(m, t, run'[t], 0)
    OBVIOUS
  <2>1. k \in CxLines /\ k.m = m /\ k.t = t /\ k.n = run'[t]
    BY <1>0, <2>0, CxLineType DEF CxKinds
  <2>2. ASSUME NEW l \in CxLines, CxHas(lines, l) PROVE ~CxRivals(l, k)
    <3>1. l.t = t => (l.m \in CxResults => l.n # run'[t])
      BY <2>2
    <3> QED BY <2>1, <3>1 DEF CxRivals
  <2>3. CxPlace'
    <3>1. stdout' = Append(lines, k)
      BY <1>8, <2>0
    <3> QED BY <1>0, <1>4, <2>1, <2>2, <3>1, CxPlaceWrites DEF CxOrder
  <2>4. ASSUME NEW n \in turn'[t] PROVE CxTurn(t, n)'
    <3>1. CASE n \in turn[t]
      <4>1. t \notin abandoned => active[t] = n
        BY <3>1 DEF CxOrder, CxTurn
      <4> QED BY <1>1, <3>1, <4>1 DEF CxTurn
    <3>2. CASE n \notin turn[t]
      <4>1. n = run'[t] /\ active'[t] = n /\ step'[t] = "turning"
        BY <1>8, <2>4, <3>2
      <4> QED BY <1>0, <4>1 DEF CxTurn, Young
    <3> QED BY <3>1, <3>2
  <2>5. CxLine(k)'
    <3>1. m \in CxResults => run'[t] \notin turn'[t]
      BY <1>8
    <3>2. m \notin CxStarts => step'[t] = "turning"
      BY <1>8
    <3>3. run'[t] <= run'[t]
      BY <1>0
    <3>4. k.m # "completed"
      BY <2>1
    <3> QED BY <2>1, <3>1, <3>2, <3>3, <3>4 DEF CxLine, Young
  <2>6. ASSUME NEW l \in CxLines, CxHas(stdout', l),
               l.t = t \/ ~CxHas(stdout, l) \/ (proc' = "ready" /\ proc # "ready")
        PROVE  CxLine(l)'
    <3>1. CxHas(lines, l) \/ l = k
      BY <1>0, <1>8, <2>0, <2>1, <2>6, CxHasAppend
    <3>2. turn'[t] \subseteq turn[t] \cup {run'[t]}
      BY <1>8
    <3> QED BY <1>6, <2>5, <2>6, <3>1, <3>2
  <2> QED BY <1>0, <1>3, <2>3, <2>4, <2>6, CxOrderMoves
<1>9. CASE CxOpens(t, run'[t], lines)
  BY <1>8, <1>9 DEF CxOpens
<1>10. CASE \E reply \in {"turned", "unloaded", "occupied"} : CxStarted(t, run'[t], lines, reply)
  BY <1>8, <1>10 DEF CxStarted
<1> QED BY <1>7, <1>9, <1>10 DEF CxLaunched

(* What was written for the earlier runs of a thread. *)
LEMMA CxEarlier ==
  ASSUME CxBase, CxOrder, NEW t \in Thread
  PROVE  /\ \A l \in CxLines : CxHas(stdout, l) /\ l.t = t =>
              /\ l.m # "resolved" => l.n <= run[t]
              /\ l.m \notin CxStarts /\ l.n = run[t] => ~Young(t)
         /\ \A n \in turn[t] : n # 0 /\ n <= run[t] /\ n \in Nat /\ (n = run[t] => ~Young(t))
         /\ \A l \in CxLines : l.n \in Nat
<1>1. \A n \in turn[t] : n # 0 /\ n <= run[t] /\ n \in Nat /\ (n = run[t] => ~Young(t))
  BY CxKnown DEF CxOrder, CxTurn
<1>2. \A l \in CxLines : CxHas(stdout, l) => CxLine(l)
  BY DEF CxOrder
<1> QED BY <1>1, <1>2, CxLineFields DEF CxLine

(* Whose turn and line is whose, when a run begins (Begin).                *)
LEMMA CxBeginOrder ==
  ASSUME CxBase, CxOrder, NEW t \in Thread, Begin(t)
  PROVE  CxOrder'
<1>1. /\ CxTypes' /\ CxOthers(t) /\ run'[t] = run[t] + 1 /\ run[t] \in Nat
      /\ answered'[t] = 0 /\ step[t] = "idle" /\ abandoned' = abandoned
      /\ \/ proc = "ready" /\ proc' = "ready" /\ CxLaunched(t, stdout)
         \/ /\ proc = "none" /\ proc' = "starting" /\ step'[t] = "starting"
            /\ stdout' = Append(stdout, Line("initialized", t, run'[t], 0))
            /\ turn' = turn /\ active' = active /\ queue' = queue
         \/ /\ proc \in {"starting", "killed", "stopping"} /\ proc' = proc
            /\ CxEnded(t, "failed") /\ stdout' = stdout
            /\ turn' = turn /\ active' = active
  BY CxBeginDoes, CxKnown
<1>2. \A n \in Nat : n <= run[t] => n <= run'[t] /\ n # run'[t]
  BY <1>1
<1>3. run'[t] # 0 /\ run'[t] \in Nat
  BY <1>1
<1>4. CxTypes /\ stdout \in Seq(CxLines)
  BY DEF CxBase, CxTypes, CxLineTypes
<1>5. /\ \A l \in CxLines : CxHas(stdout, l) /\ l.t = t =>
              /\ l.m # "resolved" => l.n <= run'[t] /\ l.n # run'[t]
      /\ \A n \in turn[t] : n # 0 /\ n <= run'[t] /\ n # run'[t]
  BY <1>2, CxEarlier
<1>6. CASE proc = "ready" /\ proc' = "ready" /\ CxLaunched(t, stdout)
  <2>1. \A l \in CxLines : CxHas(stdout, l) /\ l.t = t =>
            /\ l.m # "resolved" => l.n <= run'[t]
            /\ l.m \notin CxStarts => l.n # run'[t]
    BY <1>5
  <2> QED BY <1>1, <1>3, <1>5, <1>6, <2>1, CxLaunchesOrder
<1>7. ASSUME turn' = turn, active' = active, queue'[t] = <<>> \/ queue' = queue,
             proc' # "ready", proc # "ready", CxPlace',
             \A l \in CxLines : CxHas(stdout', l) => CxHas(stdout, l) \/ l = Line("initialized", t, run'[t], 0)
      PROVE  CxOrder'
  <2>1. queue[t] = <<>> /\ (active[t] # 0 => t \in abandoned)
    BY <1>1, CxKnown DEF CxThread, HasRequest
  <2>2. CxOwn(t)'
    BY <1>1, <1>7, <2>1 DEF CxOwn
  <2>3. ASSUME NEW n \in turn'[t] PROVE CxTurn(t, n)'
    <3>1. n \in turn[t] /\ CxTurn(t, n)
      BY <1>7, <2>3 DEF CxOrder
    <3> QED BY <1>1, <1>5, <2>1, <3>1 DEF CxTurn
  <2>4. ASSUME NEW l \in CxLines, CxHas(stdout', l), l.t = t \/ ~CxHas(stdout, l)
        PROVE  CxLine(l)'
    <3>1. CASE CxHas(stdout, l)
      <4>1. CxLine(l) /\ l.t = t
        BY <2>4, <3>1 DEF CxOrder
      <4>2. l.m # "resolved" => l.n <= run'[t] /\ l.n # run'[t]
        BY <1>5, <3>1, <4>1
      <4>3. turn'[t] = turn[t]
        BY <1>7
      <4> QED BY <1>7, <4>1, <4>2, <4>3 DEF CxLine
    <3>2. CASE l = Line("initialized", t, run'[t], 0)
      <4>1. l.m = "initialized" /\ l.t = t /\ l.n = run'[t]
        BY <3>2 DEF Line
      <4> QED BY <1>3, <4>1 DEF CxLine
    <3> QED BY <1>7, <2>4, <3>1, <3>2
  <2> QED BY <1>1, <1>4, <1>7, <2>2, <2>3, <2>4, CxOrderMoves
<1>8. CASE /\ proc = "none" /\ proc' = "starting" /\ step'[t] = "starting"
           /\ stdout' = Append(stdout, Line("initialized", t, run'[t], 0))
           /\ turn' = turn /\ active' = active /\ queue' = queue
  <2> DEFINE k == Line("initialized", t, run'[t], 0)
  <2>1. k \in CxLines /\ k.m = "initialized"
    BY <1>3, CxLineType DEF CxKinds
  <2>2. ASSUME NEW l \in CxLines, CxHas(stdout, l) PROVE ~CxLive(l)' /\ ~CxRivals(l, k)
    <3>1. l.t \in Thread
      BY CxLineFields
    <3>2. CASE l.t = t
      BY <1>5, <2>1, <2>2, <3>2 DEF CxLive, CxRivals
    <3>3. CASE l.t # t
      <4>1. step'[l.t] = step[l.t] /\ step[l.t] # "starting"
        BY <1>8, <3>1, <3>3, CxKnown, <1>1 DEF CxOthers, CxSame, CxAt
      <4> QED BY <2>1, <4>1 DEF CxLive, CxRivals
    <3> QED BY <3>2, <3>3
  <2>3. CxPlace'
    <3>1. stdout' = Append(stdout, k)
      BY <1>8
    <3> HIDE DEF k
    <3> QED BY <1>4, <2>1, <2>2, <3>1, CxPlaceWrites DEF CxOrder
  <2>4. \A l \in CxLines : CxHas(stdout', l) => CxHas(stdout, l) \/ l = k
    BY <1>4, <1>8, <2>1, CxHasAppend
  <2> QED BY <1>7, <1>8, <2>3, <2>4
<1>9. CASE /\ proc \in {"starting", "killed", "stopping"} /\ proc' = proc
           /\ CxEnded(t, "failed") /\ stdout' = stdout
           /\ turn' = turn /\ active' = active
  <2>1. step'[t] = "idle" /\ queue'[t] = <<>>
    BY <1>9 DEF CxEnded
  <2>2. ASSUME NEW l \in CxLines, CxLive(l)' PROVE CxLive(l)
    <3>1. l.t \in Thread
      BY CxLineFields
    <3>2. l.t # t
      BY <2>1, <2>2 DEF CxLive
    <3>3. step'[l.t] = step[l.t] /\ run'[l.t] = run[l.t]
      BY <1>1, <3>1, <3>2 DEF CxOthers, CxSame
    <3> QED BY <2>2, <3>3 DEF CxLive
  <2>3. CxPlace'
    BY <1>4, <1>9, <2>2, CxPlaceReads DEF CxOrder
  <2> QED BY <1>7, <1>9, <2>1, <2>3
<1> QED BY <1>1, <1>6, <1>8, <1>9

(* Whose turn and line is whose, when the answer to initialize is read.    *)
LEMMA CxInitializedOrder ==
  ASSUME CxBase, CxOrder, NEW t, t = Head(stdout).t, Initialized
  PROVE  CxOrder'
<1>1. /\ t \in Thread /\ stdout # <<>> /\ Head(stdout).m = "initialized"
      /\ CxTypes' /\ CxOthers(t) /\ run'[t] = run[t] /\ run[t] \in Nat
      /\ UNCHANGED <<answered, ghosts>>
      /\ \/ /\ step[t] = "starting" /\ run[t] = Head(stdout).n /\ proc' = "ready"
            /\ CxLaunched(t, Tail(stdout))
         \/ stdout' = Tail(stdout) /\ CxSame(t) /\ proc' = proc
  BY CxInitializedDoes DEF CxBase
<1>2. UNCHANGED <<answered, guessed, abandoned>>
  BY <1>1 DEF ghosts
<1>3. CxTypes /\ stdout \in Seq(CxLines)
  BY DEF CxBase, CxTypes, CxLineTypes
<1>4. CASE /\ step[t] = "starting" /\ run[t] = Head(stdout).n /\ proc' = "ready"
           /\ CxLaunched(t, Tail(stdout))
  <2>1. 1 \in DOMAIN stdout /\ stdout[1] = Head(stdout) /\ Len(Tail(stdout)) = Len(stdout) - 1
        /\ Tail(stdout) \in Seq(CxLines)
    BY <1>1, <1>3, CxTail
  <2>2. CxLive(stdout[1])
    BY <1>1, <1>4, <2>1 DEF CxLive
  <2>3. 1 = Len(stdout)
    BY <2>1, <2>2 DEF CxOrder, CxPlace
  <2>4. Tail(stdout) = <<>>
    BY <2>1, <2>3, CxEmpty
  <2>5. run[t] # 0 /\ Young(t)
    BY <1>1, <1>4, CxKnown DEF CxThread, Young
  <2>6. \A n \in turn[t] : n # 0 /\ n <= run'[t] /\ n # run'[t]
    BY <1>1, <2>5, CxEarlier
  <2>7. \A l \in CxLines : ~CxHas(Tail(stdout), l)
    BY <2>4, CxHasNothing
  <2> QED BY <1>1, <1>2, <1>4, <2>4, <2>5, <2>6, <2>7, CxLaunchesOrder
<1>5. CASE stdout' = Tail(stdout) /\ CxSame(t) /\ proc' = proc
  BY <1>1, <1>3, <1>5, CxSameReads DEF CxReadsOnly, CxOthers
<1> QED BY <1>1, <1>4, <1>5

(* Whose turn and line is whose, when the answer to thread/start is read.  *)
LEMMA CxOpenedOrder ==
  ASSUME CxBase, CxOrder, NEW t, t = Head(stdout).t, Opened
  PROVE  CxOrder'
<1>1. /\ t \in Thread /\ stdout # <<>> /\ Head(stdout).m = "opened" /\ proc' = proc
      /\ CxTypes' /\ CxOthers(t) /\ run'[t] = run[t] /\ run[t] \in Nat
      /\ UNCHANGED <<answered, ghosts>>
      /\ \/ /\ step[t] = "opening" /\ CxLaunched(t, Tail(stdout))
         \/ stdout' = Tail(stdout) /\ CxSame(t)
  BY CxOpenedDoes DEF CxBase
<1>2. UNCHANGED <<answered, guessed, abandoned>>
  BY <1>1 DEF ghosts
<1>3. CxTypes /\ stdout \in Seq(CxLines)
  BY DEF CxBase, CxTypes, CxLineTypes
<1>4. CASE step[t] = "opening" /\ CxLaunched(t, Tail(stdout))
  <2>1. run[t] # 0 /\ Young(t) /\ proc = "ready"
    BY <1>1, <1>4, CxKnown DEF CxThread, Young, CxAt
  <2>2. \A n \in turn[t] : n # 0 /\ n <= run'[t] /\ n # run'[t]
    BY <1>1, <2>1, CxEarlier
  <2>3. ASSUME NEW l \in CxLines, CxHas(Tail(stdout), l), l.t = t
        PROVE  /\ l.m # "resolved" => l.n <= run'[t]
               /\ l.m \notin CxStarts => l.n # run'[t]
    <3>1. CxHas(stdout, l)
      BY <1>1, <1>3, <2>3, CxHasTail
    <3> QED BY <1>1, <2>1, <2>3, <3>1, CxEarlier
  <2>4. \A l \in CxLines : CxHas(Tail(stdout), l) /\ l.t = t =>
            /\ l.m # "resolved" => l.n <= run'[t]
            /\ l.m \notin CxStarts => l.n # run'[t]
    BY <2>3
  <2>5. /\ run'[t] # 0 /\ proc' = "ready" /\ proc = "ready" /\ abandoned' = abandoned
        /\ answered'[t] = answered[t] /\ run'[t] = run[t] /\ guessed' = guessed
        /\ step[t] \in {"idle", "starting", "opening"} /\ t \in Thread /\ stdout # <<>>
        /\ CxTypes' /\ CxOthers(t) /\ CxLaunched(t, Tail(stdout))
    BY <1>1, <1>2, <1>4, <2>1
  <2>6. PICK lines : lines = Tail(stdout)
    OBVIOUS
  <2>7. /\ CxLaunched(t, lines) /\ (lines = stdout \/ (stdout # <<>> /\ lines = Tail(stdout)))
        /\ \A l \in CxLines : CxHas(lines, l) /\ l.t = t =>
             /\ l.m # "resolved" => l.n <= run'[t]
             /\ l.m \notin CxStarts => l.n # run'[t]
    BY <2>4, <2>5, <2>6
  <2> QED BY <2>2, <2>5, <2>7, CxLaunchesOrder
<1>5. CASE stdout' = Tail(stdout) /\ CxSame(t)
  BY <1>1, <1>3, <1>5, CxSameReads DEF CxReadsOnly, CxOthers
<1> QED BY <1>1, <1>4, <1>5

(* A step of one thread that leaves its runs where they are and writes nothing. *)
LEMMA CxOneReads ==
  ASSUME CxTypes, CxOrder, CxReadsOnly, NEW t \in Thread, CxOthers(t), CxKept(t), CxOwn(t)',
         step'[t] = step[t] \/ step'[t] # "starting", proc' = "ready" => proc = "ready"
  PROVE  CxOrder'
<1>1. ASSUME NEW x \in Thread
      PROVE  CxOwn(x)' /\ CxKept(x) /\ (step'[x] = step[x] \/ step'[x] # "starting")
  <2>1. CASE x = t
    BY <2>1
  <2>2. CASE x # t
    BY <2>2, CxSameKept DEF CxOrder, CxSame, CxOthers
  <2> QED BY <2>1, <2>2
<1> QED BY <1>1, CxOrderReads

(* The answers of a run stay its own while its queue only loses events. *)
LEMMA CxOwnStays ==
  ASSUME CxTypes, NEW t \in Thread, CxOwn(t), run'[t] = run[t], answered'[t] = answered[t],
         guessed \subseteq guessed', abandoned \subseteq abandoned',
         \/ queue'[t] = queue[t] \/ queue'[t] = <<>>
         \/ queue[t] # <<>> /\ queue'[t] = Tail(queue[t])
  PROVE  CxOwn(t)'
<1>0. queue[t] \in Seq(CxEvents)
  BY DEF CxTypes, CxRunTypes
<1>1. CASE queue'[t] = queue[t] \/ queue'[t] = <<>>
  BY <1>1 DEF CxOwn
<1>2. CASE queue[t] # <<>> /\ queue'[t] = Tail(queue[t])
  <2>1. \A i \in DOMAIN queue'[t] : i + 1 \in DOMAIN queue[t] /\ queue'[t][i] = queue[t][i + 1]
    BY <1>0, <1>2, CxTail
  <2> QED BY <2>1 DEF CxOwn
<1> QED BY <1>1, <1>2

(* Whose turn and line is whose, when the answer to turn/start is read.    *)
LEMMA CxTurnedOrder ==
  ASSUME CxBase, CxOrder, NEW t, t = Head(stdout).t, Turned
  PROVE  CxOrder'
<1>1. /\ t \in Thread /\ stdout # <<>> /\ CxOthers(t) /\ stdout' = Tail(stdout)
      /\ UNCHANGED <<proc, child, active, reader, run, answered, ghosts>>
      /\ step'[t] = step[t] \/ step'[t] = "reading"
  BY CxTurnedDoes DEF CxBase
<1>2. UNCHANGED <<turn, queue, guessed, abandoned>>
  BY <1>1 DEF child, reader, ghosts
<1>3. CxTypes /\ CxOwn(t)
  BY <1>1 DEF CxBase, CxOrder
<1>4. CxKept(t) /\ CxOwn(t)'
  BY <1>1, <1>2, <1>3 DEF CxKept, CxOwn, Young
<1> QED BY <1>1, <1>3, <1>4, CxOneReads DEF CxReadsOnly

(* Whose turn and line is whose, when the user answers.                    *)
LEMMA CxAnswerOrder ==
  ASSUME CxBase, CxOrder, NEW t \in Thread, Answer(t)
  PROVE  CxOrder'
<1>1. /\ CxOthers(t)
      /\ UNCHANGED <<proc, stdout, turn, active, reader, runs, guessed, abandoned>>
  BY CxAnswerDoes DEF CxBase
<1>2. UNCHANGED <<queue, step, run, answered>>
  BY <1>1 DEF reader, runs
<1>3. CxTypes /\ CxOwn(t)
  BY DEF CxBase, CxOrder
<1>4. CxKept(t) /\ CxOwn(t)'
  BY <1>1, <1>2, <1>3 DEF CxKept, CxOwn, Young
<1> QED BY <1>1, <1>2, <1>3, <1>4, CxOneReads DEF CxReadsOnly

(* Whose turn and line is whose, when a run reads the failure of its       *)
(* queue.                                                                  *)
LEMMA CxReadFailureOrder ==
  ASSUME CxBase, CxOrder, NEW t \in Thread, ReadFailure(t)
  PROVE  CxOrder'
<1>1. /\ CxOthers(t) /\ CxEnded(t, "failed")
      /\ UNCHANGED <<proc, stdout, child, client, run, answered, ghosts>>
  BY CxReadFailureDoes DEF CxBase
<1>2. UNCHANGED <<turn, active, guessed, abandoned>> /\ step'[t] = "idle" /\ queue'[t] = <<>>
  BY <1>1 DEF child, client, ghosts, CxEnded
<1>3. CxTypes /\ CxOwn(t)
  BY DEF CxBase, CxOrder
<1>4. CxKept(t) /\ CxOwn(t)'
  BY <1>1, <1>2, <1>3 DEF CxKept, CxOwn, Young
<1> QED BY <1>1, <1>2, <1>3, <1>4, CxOneReads DEF CxReadsOnly

(* Whose turn and line is whose, when a response times out.                *)
LEMMA CxTimeoutOrder ==
  ASSUME CxBase, CxOrder, NEW t \in Thread, Timeout(t)
  PROVE  CxOrder'
<1>1. /\ CxOthers(t) /\ step[t] \in {"starting", "opening", "turning"}
      /\ proc' = (IF step[t] = "starting" THEN "killed" ELSE proc)
      /\ active'[t] = (IF step[t] = "turning" THEN 0 ELSE active[t])
      /\ (t \in abandoned') = (step[t] = "turning" \/ t \in abandoned)
      /\ CxEnded(t, "failed")
      /\ UNCHANGED <<stdout, child, run, answered, guessed>>
  BY CxTimeoutDoes DEF CxBase
<1>2. UNCHANGED <<turn>> /\ step'[t] = "idle" /\ queue'[t] = <<>>
  BY <1>1 DEF child, CxEnded
<1>3. CxTypes /\ CxOwn(t)
  BY DEF CxBase, CxOrder
<1>4. CxKept(t) /\ CxOwn(t)'
  BY <1>1, <1>2, <1>3 DEF CxKept, CxOwn, Young
<1>5. proc' = "ready" => proc = "ready"
  BY <1>1
<1> QED BY <1>1, <1>2, <1>3, <1>4, <1>5, CxOneReads DEF CxReadsOnly

(* Whose turn and line is whose, when a run reads its queue.               *)
LEMMA CxReadOrder ==
  ASSUME CxBase, CxOrder, NEW t \in Thread, Read(t)
  PROVE  CxOrder'
<1> DEFINE id == Head(queue[t]).id
<1>1. /\ step[t] = "reading" /\ queue[t] # <<>> /\ CxOthers(t) /\ CxReadKeeps
      /\ \/ /\ queue'[t] = Tail(queue[t])
            /\ UNCHANGED <<step, verdict, answered, abandoned>>
         \/ /\ \E v \in {"failed", "dropped"} : CxEnded(t, v)
            /\ abandoned' = abandoned \cup {t} /\ answered' = answered
         \/ /\ Head(queue[t]).e = "completed" /\ CxEnded(t, "completed")
            /\ answered'[t] = Head(queue[t]).n /\ abandoned' = abandoned
  BY CxReadDoes DEF CxBase
<1>2. UNCHANGED <<proc, stdout, turn, active, run, guessed>>
  BY <1>1 DEF CxReadKeeps
<1>3. CxTypes /\ CxOwn(t) /\ queue[t] \in Seq(CxEvents)
  BY CxKnown DEF CxBase, CxOrder
<1>4. step'[t] = step[t] \/ step'[t] = "idle"
  BY <1>1 DEF CxEnded
<1>5. CxKept(t)
  BY <1>1, <1>2, <1>4 DEF CxKept, Young
<1>6. CxOwn(t)'
  <2>1. CASE /\ queue'[t] = Tail(queue[t])
             /\ UNCHANGED <<step, verdict, answered, abandoned>>
    BY <1>1, <1>2, <1>3, <2>1, CxOwnStays
  <2>2. CASE /\ \E v \in {"failed", "dropped"} : CxEnded(t, v)
             /\ abandoned' = abandoned \cup {t} /\ answered' = answered
    <3>1. queue'[t] = <<>>
      BY <2>2 DEF CxEnded
    <3> QED BY <1>2, <1>3, <2>2, <3>1, CxOwnStays
  <2>3. CASE /\ Head(queue[t]).e = "completed" /\ CxEnded(t, "completed")
             /\ answered'[t] = Head(queue[t]).n /\ abandoned' = abandoned
    <3>1. queue'[t] = <<>>
      BY <2>3 DEF CxEnded
    <3>2. 1 \in DOMAIN queue[t] /\ queue[t][1] = Head(queue[t])
      BY <1>1, <1>3, CxTail
    <3>3. Head(queue[t]).n # run[t] => t \in guessed /\ t \in abandoned
      BY <1>3, <2>3, <3>2 DEF CxOwn
    <3> QED BY <1>2, <2>3, <3>1, <3>3 DEF CxOwn
  <2> QED BY <1>1, <2>1, <2>2, <2>3
<1> QED BY <1>1, <1>2, <1>3, <1>4, <1>5, <1>6, CxOneReads DEF CxReadsOnly

(* Whose turn and line is whose, when a request for user input is read.    *)
LEMMA CxAskedOrder ==
  ASSUME CxBase, CxOrder, NEW t, t = Head(stdout).t, UserInputRequested
  PROVE  CxOrder'
<1> DEFINE n == Head(stdout).n  id == Head(stdout).id
<1>1. /\ t \in Thread /\ stdout # <<>> /\ id \in 1..MaxAsks /\ CxOthers(t) /\ stdout' = Tail(stdout)
      /\ UNCHANGED <<proc, turn, active, runs, ghosts>>
      /\ queue'[t] = Append(queue[t], Event("ask", n, id)) \/ queue'[t] = queue[t]
  <2>1. CxTypes
    BY DEF CxBase
  <2> QED BY <2>1, CxAskedDoes
<1>2. UNCHANGED <<step, run, answered, guessed, abandoned>>
  BY <1>1 DEF runs, ghosts
<1>3. CxTypes /\ CxOwn(t) /\ queue[t] \in Seq(CxEvents)
  BY <1>1, CxKnown DEF CxBase, CxOrder
<1>4. CxKept(t)
  BY <1>1, <1>2 DEF CxKept, Young
<1>5. CxOwn(t)'
  <2>1. CASE queue'[t] = Append(queue[t], Event("ask", n, id))
    <3>1. n \in Nat
      BY <1>1, <1>3, CxHead DEF CxTypes
    <3>2. Event("ask", n, id) \in CxEvents /\ Event("ask", n, id).e = "ask"
      BY <1>1, <1>3, <3>1, CxEventType DEF CxTypes, CodexAssumption
    <3>3. \A i \in DOMAIN queue'[t] :
            (i \in DOMAIN queue[t] /\ queue'[t][i] = queue[t][i]) \/ queue'[t][i].e = "ask"
      BY <1>3, <2>1, <3>2, CxAppend
    <3> QED BY <1>2, <1>3, <3>3 DEF CxOwn
  <2>2. CASE queue'[t] = queue[t]
    BY <1>2, <1>3, <2>2 DEF CxOwn
  <2> QED BY <1>1, <2>1, <2>2
<1> QED BY <1>1, <1>2, <1>3, <1>4, <1>5, CxOneReads DEF CxReadsOnly

(* Whose turn and line is whose, when the adapter is stopped.              *)
LEMMA CxStopOrder ==
  ASSUME CxBase, CxOrder, Stop
  PROVE  CxOrder'
<1>1. /\ CxTypes /\ CxAllSame /\ stdout' = stdout
      /\ proc' = (IF proc = "none" THEN proc ELSE "stopping")
  BY CxStopDoes DEF CxBase
<1> QED BY <1>1, CxStill, CxSameReads DEF CxReadsOnly

(* Whose turn and line is whose, when the child writes a broken line.      *)
LEMMA CxBrokenOrder ==
  ASSUME CxBase, CxOrder, BrokenLine
  PROVE  CxOrder'
<1>1. /\ CxTypes /\ proc' = (IF proc = "starting" THEN "killed" ELSE proc)
      /\ (\A x \in Thread : CxFailed(x))
      /\ abandoned' = abandoned \cup {t \in Thread : turn[t] # {} \/ active[t] # 0}
      /\ UNCHANGED <<stdout, child, guessed>>
  BY CxBrokenDoes DEF CxBase
<1>2. turn' = turn
  BY <1>1 DEF child
<1>3. ASSUME NEW x \in Thread
      PROVE  CxOwn(x)' /\ CxKept(x) /\ (step'[x] = step[x] \/ step'[x] # "starting")
  <2>1. /\ run'[x] = run[x] /\ answered'[x] = answered[x] /\ active'[x] = 0
        /\ queue'[x] = queue[x] \/ queue'[x] = <<>>
        /\ step'[x] = step[x] \/ step'[x] = "idle"
    BY <1>1 DEF CxFailed
  <2>2. CxOwn(x)'
    BY <1>1, <2>1, CxOwnStays DEF CxOrder
  <2>3. CxKept(x)
    BY <1>1, <1>2, <2>1 DEF CxKept, Young
  <2> QED BY <2>1, <2>2, <2>3
<1>4. proc' = "ready" => proc = "ready"
  BY <1>1
<1> QED BY <1>1, <1>3, <1>4, CxOrderReads DEF CxReadsOnly

(* Whose turn and line is whose, when the process exits.                   *)
LEMMA CxExitOrder ==
  ASSUME CxBase, CxOrder, Exit
  PROVE  CxOrder'
<1>1. /\ CxTypes /\ proc' = "none" /\ stdout' \in {<<>>, stdout}
      /\ (\A x \in Thread : turn'[x] = {} /\ CxFailed(x))
      /\ UNCHANGED <<guessed, abandoned>>
  BY CxExitDoes DEF CxBase
<1>2. ASSUME NEW x \in Thread
      PROVE  /\ run'[x] = run[x] /\ answered'[x] = answered[x] /\ turn'[x] = {}
             /\ queue'[x] = queue[x] \/ queue'[x] = <<>>
             /\ step'[x] = step[x] \/ step'[x] = "idle"
  BY <1>1 DEF CxFailed
<1>3. \A x \in Thread : CxOwn(x)'
  BY <1>1, <1>2, CxOwnStays DEF CxOrder
<1>4. CxReadsOnly
  BY <1>1 DEF CxReadsOnly
<1>5. ASSUME NEW l \in CxLines, CxHas(stdout', l) PROVE CxLine(l)'
  <2>1. CxLine(l)
    BY <1>1, <1>4, <1>5, CxReadsHas DEF CxOrder
  <2>2. run'[l.t] = run[l.t] /\ turn'[l.t] = {} /\ (step'[l.t] = step[l.t] \/ step'[l.t] = "idle")
    BY <1>2, CxLineFields
  <2> QED BY <1>1, <2>1, <2>2 DEF CxLine, Young
<1>6. ASSUME NEW l \in CxLines, CxLive(l)' PROVE CxLive(l)
  <2>1. l.t \in Thread
    BY CxLineFields
  <2> QED BY <1>2, <1>6, <2>1 DEF CxLive
<1>7. CxPlace'
  BY <1>1, <1>4, <1>6, CxPlaceReads DEF CxReadsOnly, CxOrder
<1> QED BY <1>2, <1>3, <1>5, <1>7 DEF CxOrder

(* Whose turn and line is whose, when a refused turn is read               *)
(* (TurnRefused).                                                          *)
LEMMA CxRefusedOrder ==
  ASSUME CxBase, CxOrder, NEW t, t = Head(stdout).t, TurnRefused
  PROVE  CxOrder'
<1>1. /\ t \in Thread /\ stdout # <<>> /\ Head(stdout).m \in {"unloaded", "occupied"}
      /\ CxOthers(t) /\ stdout' = Tail(stdout)
      /\ UNCHANGED <<proc, child, run, answered, ghosts>>
      /\ \/ /\ step[t] = "turning" /\ run[t] = Head(stdout).n
            /\ CxEnded(t, "failed") /\ active'[t] = 0
         \/ CxSame(t)
  BY CxRefusedDoes DEF CxBase
<1>2. UNCHANGED <<turn, guessed, abandoned>>
  BY <1>1 DEF child, ghosts
<1>3. CxTypes /\ CxOwn(t) /\ stdout \in Seq(CxLines) /\ CxReadsOnly
  BY <1>1 DEF CxBase, CxOrder, CxTypes, CxLineTypes, CxReadsOnly
<1>4. CASE CxSame(t)
  BY <1>1, <1>3, <1>4, CxSameReads DEF CxOthers
<1>5. CASE /\ step[t] = "turning" /\ run[t] = Head(stdout).n
           /\ CxEnded(t, "failed") /\ active'[t] = 0
  <2>1. step'[t] = "idle" /\ queue'[t] = <<>>
    BY <1>5 DEF CxEnded
  <2>2. CxOwn(t)'
    BY <1>1, <1>2, <1>3, <2>1 DEF CxOwn
  <2>3. Head(stdout) \in CxLines /\ CxLine(Head(stdout))
    BY <1>1, <1>3, CxHead, CxHasTail DEF CxOrder, CxTypes
  <2>4. run[t] \notin turn[t]
    BY <1>1, <1>5, <2>3 DEF CxLine
  <2>5. ASSUME NEW m \in turn'[t] PROVE CxTurn(t, m)'
    <3>1. m \in turn[t] /\ CxTurn(t, m)
      BY <1>1, <1>2, <2>5 DEF CxOrder
    <3>2. t \in abandoned
      BY <2>4, <3>1 DEF CxTurn
    <3> QED BY <1>1, <1>2, <2>1, <3>1, <3>2 DEF CxTurn, Young
  <2>6. \A l : CxHas(stdout', l) => CxHas(stdout, l) /\ ~CxRivals(Head(stdout), l)
    BY <1>1, <1>3, CxHasTail, CxNoRival DEF CxOrder
  <2>7. ASSUME NEW l \in CxLines, CxHas(stdout', l), l.t = t PROVE CxLine(l)'
    <3>1. CxLine(l) /\ ~CxRivals(Head(stdout), l)
      BY <2>6, <2>7 DEF CxOrder
    <3>2. l.m = "completed" => l.n # run[t]
      BY <1>1, <1>5, <2>7, <3>1 DEF CxRivals
    <3>3. proc' = "ready" /\ l.m = "completed" => l.t \in abandoned'
      BY <1>1, <1>2, <2>7, <3>1, <3>2 DEF CxLine
    <3> QED BY <1>1, <1>2, <2>1, <2>7, <3>1, <3>3 DEF CxLine, Young
  <2>8. ASSUME NEW l \in CxLines, CxLive(l)' PROVE CxLive(l)
    <3>1. l.t \in Thread /\ l.t # t
      BY <2>1, <2>8, CxLineFields DEF CxLive
    <3>2. step'[l.t] = step[l.t] /\ run'[l.t] = run[l.t]
      BY <1>1, <3>1 DEF CxOthers, CxSame
    <3> QED BY <2>8, <3>2 DEF CxLive
  <2>9. CxPlace'
    BY <1>3, <2>8, CxPlaceReads DEF CxReadsOnly, CxOrder
  <2> QED BY <1>1, <1>3, <2>2, <2>5, <2>6, <2>7, <2>9, CxOrderMoves
<1> QED BY <1>1, <1>4, <1>5

(* Whose turn and line is whose, when an error or the end of a turn is     *)
(* read.                                                                   *)
LEMMA CxEventOrder ==
  ASSUME CxBase, CxOrder, NEW t, t = Head(stdout).t, NEW n, n = Head(stdout).n, TurnEvent
  PROVE  CxOrder'
<1>1. /\ t \in Thread /\ n \in Nat /\ stdout # <<>> /\ Head(stdout).m \in {"error", "completed"}
      /\ CxTypes' /\ CxOthers(t) /\ stdout' = Tail(stdout)
      /\ UNCHANGED <<proc, child, runs, abandoned>>
      /\ \/ /\ Accepts(t, n)
            /\ queue'[t] = (IF Listening(t)
                            THEN Append(queue[t], Event(Head(stdout).m, n, 0)) ELSE queue[t])
            /\ active'[t] = (IF Head(stdout).m = "completed" THEN 0 ELSE active[t])
            /\ (t \in guessed') = (\/ t \in guessed
                                   \/ /\ Head(stdout).m = "completed" /\ Listening(t)
                                      /\ t \notin knows)
         \/ CxSame(t)
  BY CxEventDoes DEF CxBase
<1>2. UNCHANGED <<turn, step, run, answered>>
  BY <1>1 DEF child, runs
<1>3. /\ CxTypes /\ CxOwn(t) /\ stdout \in Seq(CxLines) /\ CxReadsOnly
      /\ queue[t] \in Seq(CxEvents) /\ CxThread(t) /\ CxAt(t) /\ active[t] \in Nat
  BY <1>1, CxKnown DEF CxBase, CxOrder, CxTypes, CxLineTypes, CxReadsOnly
<1>4. CASE CxSame(t)
  BY <1>1, <1>3, <1>4, CxSameReads DEF CxOthers
<1>5. CASE /\ Accepts(t, n)
           /\ queue'[t] = (IF Listening(t)
                           THEN Append(queue[t], Event(Head(stdout).m, n, 0)) ELSE queue[t])
           /\ active'[t] = (IF Head(stdout).m = "completed" THEN 0 ELSE active[t])
           /\ (t \in guessed') = (\/ t \in guessed
                                  \/ /\ Head(stdout).m = "completed" /\ Listening(t)
                                     /\ t \notin knows)
  <2> DEFINE kind == Head(stdout).m
  <2>1. /\ Event(kind, n, 0) \in CxEvents /\ Event(kind, n, 0).e = kind /\ Event(kind, n, 0).n = n
    BY <1>1, CxEventType
  <2>2. Head(stdout) \in CxLines /\ CxLine(Head(stdout)) /\ active[t] # 0
    BY <1>1, <1>3, <1>5, CxHead, CxHasTail DEF CxOrder, CxTypes, Accepts
  (* A completion that is taken is the end of the run, or the run was abandoned. *)
  <2>3. kind = "completed" => n \notin turn[t]
    BY <1>1, <2>2 DEF CxLine
  <2>4. kind = "completed" /\ t \notin abandoned => n = run[t]
    <3>1. SUFFICES ASSUME kind = "completed", t \notin abandoned PROVE n = run[t]
      OBVIOUS
    <3>2. proc = "ready"
      <4>1. proc \in {"ready", "stopping"} /\ HasRequest(t)
        BY <1>3, <2>2, <3>1 DEF CxAt, CxThread
      <4>2. proc = "stopping" => step[t] = "idle"
        BY <1>3 DEF CxBase, CxWhen, CxAt
      <4> QED BY <4>1, <4>2 DEF HasRequest
    <3> QED BY <1>1, <2>2, <3>1, <3>2 DEF CxLine
  <2>5. CxOwn(t)'
    <3>1. t \in guessed => t \in guessed'
      BY <1>5
    <3>2. CASE queue'[t] = queue[t]
      BY <1>1, <1>2, <1>3, <3>1, <3>2 DEF CxOwn
    <3>3. CASE Listening(t) /\ queue'[t] = Append(queue[t], Event(kind, n, 0))
      <4>1. kind = "completed" /\ n # run[t] => t \in guessed' /\ t \in abandoned
        BY <1>5, <2>4, <3>3 DEF Accepts, Listening
      <4>2. \A i \in DOMAIN queue'[t] :
              \/ i \in DOMAIN queue[t] /\ queue'[t][i] = queue[t][i]
              \/ queue'[t][i].e = kind /\ queue'[t][i].n = n
        BY <1>3, <2>1, <3>3, CxAppend
      <4> HIDE DEF kind
      <4> QED BY <1>1, <1>2, <1>3, <3>1, <4>1, <4>2 DEF CxOwn
    <3> QED BY <1>5, <3>2, <3>3
  <2>6. ASSUME NEW m \in turn'[t] PROVE CxTurn(t, m)'
    <3>1. m \in turn[t] /\ CxTurn(t, m)
      BY <1>1, <1>2, <2>6 DEF CxOrder
    <3>2. kind = "completed" => t \in abandoned
      BY <2>3, <2>4, <3>1 DEF CxTurn
    <3>3. t \notin abandoned' => m = run'[t] /\ active'[t] = m
      BY <1>1, <1>2, <1>5, <3>1, <3>2 DEF CxTurn
    <3> QED BY <1>1, <1>2, <3>1, <3>3 DEF CxTurn, Young
  <2>7. \A l : CxHas(stdout', l) => CxHas(stdout, l) /\ ~CxRivals(Head(stdout), l)
    BY <1>1, <1>3, CxHasTail, CxNoRival DEF CxOrder
  <2>8. ASSUME NEW l \in CxLines, CxHas(stdout', l), l.t = t PROVE CxLine(l)'
    <3>1. CxLine(l) /\ ~CxRivals(Head(stdout), l)
      BY <2>7, <2>8 DEF CxOrder
    <3>2. ASSUME kind = "completed", l.m = "completed" PROVE t \notin abandoned /\ proc = "ready" => FALSE
      <4>1. l.n # n
        BY <1>1, <2>8, <3>1, <3>2 DEF CxRivals
      <4> QED BY <2>4, <2>8, <3>1, <3>2, <4>1 DEF CxLine
    <3>3. proc' = "ready" /\ l.m = "completed" /\ l.t \notin abandoned'
            => l.n = run'[l.t] /\ active'[l.t] = l.n
      BY <1>1, <1>2, <1>5, <2>8, <3>1, <3>2 DEF CxLine
    <3> QED BY <1>1, <1>2, <2>8, <3>1, <3>3 DEF CxLine, Young
  <2>9. ASSUME NEW l \in CxLines, CxLive(l)' PROVE CxLive(l)
    BY <1>2, <2>9 DEF CxLive
  <2>10. CxPlace'
    BY <1>3, <2>9, CxPlaceReads DEF CxReadsOnly, CxOrder
  <2> QED BY <1>1, <1>3, <2>5, <2>6, <2>7, <2>8, <2>10, CxOrderMoves
<1> QED BY <1>1, <1>4, <1>5

(* The end of a turn is written once. *)
LEMMA CxEndOrder ==
  ASSUME CxBase, CxOrder, proc = "ready", proc' = proc, NEW t \in Thread, NEW n \in turn[t],
         turn'[t] = turn[t] \ {n}, CxOthers(t), stdout' = Append(stdout, Line("completed", t, n, 0)),
         UNCHANGED <<active, queue, step, run, answered, abandoned, guessed>>
  PROVE  CxOrder'
<1>1. n \in Nat /\ CxTurn(t, n)
  BY CxKnown DEF CxOrder
<1>2. PICK k : k = Line("completed", t, n, 0)
  OBVIOUS
<1>3. k \in CxLines /\ k.m = "completed" /\ k.t = t /\ k.n = n
  BY <1>1, <1>2, CxLineType DEF CxKinds
<1>4. CxKept(t) /\ (CxOwn(t) => CxOwn(t)')
  BY DEF CxKept, CxOwn, Young
<1>5. ASSUME NEW x \in Thread PROVE CxOwn(x)' /\ CxKept(x) /\ step'[x] = step[x]
  <2>1. x # t => CxSame(x)
    BY DEF CxOthers
  <2> QED BY <1>4, <2>1, CxSameKept DEF CxOrder
<1>6. CxLine(k)'
  BY <1>1, <1>3 DEF CxLine, CxTurn, Young
<1>7. ASSUME NEW l \in CxLines, CxHas(stdout, l) PROVE ~CxRivals(l, k)
  <2>1. l.m \in CxResults => l.n \notin turn[l.t]
    BY <1>7 DEF CxOrder, CxLine
  <2> QED BY <1>3, <2>1 DEF CxRivals
<1> QED BY <1>2, <1>3, <1>5, <1>6, <1>7, CxOrderWrites

(* Whose turn and line is whose, when a run is cancelled.                  *)
LEMMA CxCancelOrder ==
  ASSUME CxBase, CxOrder, NEW t \in Thread, Cancel(t)
  PROVE  CxOrder'
<1>1. /\ step[t] = "reading" /\ active[t] # 0 /\ Writable /\ active[t] \in turn[t] /\ CxOthers(t)
      /\ turn'[t] = turn[t] \ {active[t]}
      /\ stdout' = Append(stdout, Line("completed", t, active[t], 0))
      /\ UNCHANGED <<proc, client, reader, runs, ghosts>>
  BY CxCancelDoes DEF CxBase
<1>2. UNCHANGED <<active, queue, step, run, answered, abandoned, guessed>>
  BY <1>1 DEF client, reader, runs, ghosts
<1>3. proc = "ready"
  BY <1>1, CxKnown DEF CxAt, Writable
<1> QED BY <1>1, <1>2, <1>3, CxEndOrder

(* Whose turn and line is whose, when the child ends a turn.               *)
LEMMA CxCompletesOrder ==
  ASSUME CxBase, CxOrder, proc = "ready", NEW t \in Thread, NEW n \in turn[t], ChildCompletes(t, n)
  PROVE  CxOrder'
<1>1. /\ CxOthers(t) /\ turn'[t] = turn[t] \ {n}
      /\ stdout' = Append(stdout, Line("completed", t, n, 0))
      /\ UNCHANGED <<proc, client, reader, runs, ghosts>>
  BY CxCompletesDoes DEF CxBase
<1>2. UNCHANGED <<active, queue, step, run, answered, abandoned, guessed>>
  BY <1>1 DEF client, reader, runs, ghosts
<1> QED BY <1>1, <1>2, CxEndOrder

(* Whose turn and line is whose, when a tool is called or returns, a       *)
(* request ends, or the child writes.                                      *)
LEMMA CxQuietOrder ==
  ASSUME CxBase, CxOrder,
         \/ ToolCalled \/ Resolved \/ \E c \in tools : ToolReturns(c)
         \/ /\ proc = "ready"
            /\ \/ \E w \in wants : ChildResolves(w)
               \/ \E t \in Thread : \E n \in turn[t] :
                    \/ ChildErrs(t, n)
                    \/ \E kind \in {"ask", "tool"} : ChildAsks(t, n, kind)
  PROVE  CxOrder'
<1>0. CxTypes
  BY DEF CxBase
<1>1. CASE ToolCalled
  <2>1. /\ CxAllSame /\ proc' = proc /\ stdout # <<>> /\ stdout' = Tail(stdout)
    BY <1>0, <1>1, CxToolDoes
  <2> QED BY <1>0, <2>1, CxStill, CxSameReads DEF CxReadsOnly
<1>2. CASE Resolved
  <2>1. CxAllSame /\ proc' = proc /\ stdout # <<>> /\ stdout' = Tail(stdout)
    BY <1>0, <1>2, CxResolvedDoes
  <2> QED BY <1>0, <2>1, CxStill, CxSameReads DEF CxReadsOnly
<1>3. ASSUME NEW c \in tools, ToolReturns(c) PROVE CxOrder'
  <2>1. CxAllSame /\ proc' = proc /\ stdout' = stdout
    BY <1>0, <1>3, CxToolReturnsDoes
  <2> QED BY <1>0, <2>1, CxStill, CxSameReads DEF CxReadsOnly
<1>4. ASSUME proc = "ready", CxAllSame, NEW t \in Thread, NEW n \in Nat, NEW id \in Nat,
             NEW m \in {"error", "ask", "tool", "resolved"}, m = "ask" => id \in 1..MaxAsks,
             m # "resolved" => n \in turn[t], stdout' = Append(stdout, Line(m, t, n, id))
      PROVE  CxOrder'
  <2>1. PICK k : k = Line(m, t, n, id)
    OBVIOUS
  <2>2. k \in CxLines /\ k.m = m /\ k.t = t /\ k.n = n
    BY <1>4, <2>1, CxLineType DEF CxKinds
  <2>3. m # "resolved" => CxTurn(t, n)
    BY <1>4 DEF CxOrder
  <2>4. \A x \in Thread : CxSame(x)
    BY <1>4, CxStill
  <2>5. CxLine(k)'
    <3>1. k.m # "resolved" => k.n <= run'[t] /\ (k.n = run'[t] => ~Young(t)')
      BY <2>2, <2>3, <2>4 DEF CxTurn, CxSame, Young
    <3> QED BY <2>2, <3>1 DEF CxLine
  <2>6. \A l \in CxLines : ~CxRivals(l, k)
    BY <2>2 DEF CxRivals
  <2>7. \A x \in Thread : CxOwn(x)' /\ CxKept(x) /\ step'[x] = step[x]
    BY <2>4, CxSameKept DEF CxOrder, CxSame
  <2> QED BY <1>4, <2>1, <2>2, <2>5, <2>6, <2>7, CxOrderWrites
<1>5. ASSUME proc = "ready", NEW w \in wants, ChildResolves(w) PROVE CxOrder'
  <2>1. /\ CxAllSame /\ w.t \in Thread /\ w.n \in Nat /\ w.id \in Nat
        /\ stdout' = Append(stdout, Line("resolved", w.t, w.n, w.id))
    BY <1>0, <1>5, CxResolvesDoes
  <2> QED BY <1>4, <1>5, <2>1
<1>6. ASSUME proc = "ready", NEW t \in Thread, NEW n \in turn[t], ChildErrs(t, n) PROVE CxOrder'
  <2>1. CxAllSame /\ n \in Nat /\ stdout' = Append(stdout, Line("error", t, n, 0))
    BY <1>0, <1>6, CxErrsDoes
  <2> QED BY <1>4, <1>6, <2>1
<1>7. ASSUME proc = "ready", NEW t \in Thread, NEW n \in turn[t],
             NEW kind \in {"ask", "tool"}, ChildAsks(t, n, kind)
      PROVE  CxOrder'
  <2>1. /\ CxAllSame /\ n \in Nat /\ nextId \in 1..MaxAsks
        /\ stdout' = Append(stdout, Line(kind, t, n, nextId))
    BY <1>0, <1>7, CxAsksDoes
  <2>2. nextId \in Nat
    BY <1>0, <2>1 DEF CxTypes, CodexAssumption
  <2> QED BY <1>4, <1>7, <2>1, <2>2
<1> QED BY <1>1, <1>2, <1>3, <1>5, <1>6, <1>7

(* Whose turn and line is whose, when the adapter is created.              *)
LEMMA CxInitOrder ==
  ASSUME Init
  PROVE  CxOrder
<1>1. \A l : ~CxHas(stdout, l)
  BY CxHasNothing DEF Init
<1> QED BY <1>1 DEF Init, CxOrder, CxOwn, CxPlace

(* Every step, and every stutter. *)
(* The base and the order are kept by every step.                          *)
LEMMA CxStepsOrder ==
  ASSUME CxBase, CxOrder, [Next]_vars
  PROVE  CxBase' /\ CxOrder'
<1>1. CASE UNCHANGED vars
  <2>1. /\ UNCHANGED <<proc, stdout, halted, asked, serves, wants, lapsed, nextId, tools,
                       userInputs, loaded, stolen>>
        /\ CxAllSame
    BY <1>1 DEF vars, child, client, reader, runs, ghosts, CxAllSame
  <2>2. CxTypes'
    BY <2>1 DEF CxBase, CxTypes, CxRunTypes, CxLineTypes, CxSetTypes, CxAllSame
  <2>3. CxBase'
    BY <2>1, <2>2, CxStays
  <2>4. CxTypes
    BY DEF CxBase
  <2> QED BY <2>1, <2>3, <2>4, CxStill, CxSameReads DEF CxReadsOnly
<1>2. ASSUME NEW t \in Thread,
             \/ Begin(t) \/ Read(t) \/ ReadFailure(t) \/ Answer(t) \/ Cancel(t) \/ Timeout(t)
      PROVE  CxBase' /\ CxOrder'
  BY <1>2, CxBeginBase, CxReadBase, CxReadFailureBase, CxAnswerBase, CxCancelBase, CxTimeoutBase,
     CxBeginOrder, CxReadOrder, CxReadFailureOrder, CxAnswerOrder, CxCancelOrder, CxTimeoutOrder
<1>3. CASE \E c \in tools : ToolReturns(c)
  BY <1>3, CxQuietBase, CxQuietOrder
<1>4. CASE Deliver
  <2>1. PICK t, n : t = Head(stdout).t /\ n = Head(stdout).n
    OBVIOUS
  <2>2. CASE Initialized
    BY <2>1, <2>2, CxInitializedBase, CxInitializedOrder
  <2>3. CASE Opened
    BY <2>1, <2>3, CxOpenedBase, CxOpenedOrder
  <2>4. CASE Turned
    BY <2>1, <2>4, CxTurnedBase, CxTurnedOrder
  <2>5. CASE TurnRefused
    BY <2>1, <2>5, CxRefusedBase, CxRefusedOrder
  <2>6. CASE UserInputRequested
    BY <2>1, <2>6, CxAskedBase, CxAskedOrder
  <2>7. CASE ToolCalled \/ Resolved
    BY <2>7, CxQuietBase, CxQuietOrder
  <2>8. CASE TurnEvent
    BY <2>1, <2>8, CxEventBase, CxEventOrder
  <2> QED BY <1>4, <2>2, <2>3, <2>4, <2>5, <2>6, <2>7, <2>8 DEF Deliver
<1>5. CASE ChildStep
  <2>1. proc = "ready"
    BY <1>5 DEF ChildStep
  <2>2. ASSUME NEW t \in Thread, NEW n \in turn[t], ChildCompletes(t, n) PROVE CxBase' /\ CxOrder'
    BY <2>1, <2>2, CxCompletesBase, CxCompletesOrder
  <2>3. CASE \/ \E w \in wants : ChildResolves(w)
             \/ \E t \in Thread : \E n \in turn[t] :
                  \/ ChildErrs(t, n)
                  \/ \E kind \in {"ask", "tool"} : ChildAsks(t, n, kind)
    BY <2>1, <2>3, CxQuietBase, CxQuietOrder
  <2> QED BY <1>5, <2>2, <2>3 DEF ChildStep
<1>6. CASE Exit \/ BrokenLine \/ Stop
  BY <1>6, CxExitBase, CxBrokenBase, CxStopBase, CxExitOrder, CxBrokenOrder, CxStopOrder
<1> QED BY <1>1, <1>2, <1>3, <1>4, <1>5, <1>6 DEF Next

(* The state of the Codex client is of its types, for any number of        *)
(* threads, runs, requests and faults (the maps of the App Server client). *)
THEOREM CodexTypeOK == CodexAssumption /\ Spec => []TypeOK
<1> SUFFICES ASSUME CodexAssumption PROVE Spec => []TypeOK
  OBVIOUS
<1>1. Init => CxBase /\ CxOrder
  BY CxInitBase, CxInitOrder
<1>2. (CxBase /\ CxOrder) /\ [Next]_vars => (CxBase /\ CxOrder)'
  BY CxStepsOrder
<1>3. CxBase => TypeOK
  BY DEF CxBase, CxTypes, CxRunTypes, CxSetTypes, TypeOK
<1> QED BY <1>1, <1>2, <1>3, PTL DEF Spec

(* A run answers with the end of its own turn; that it may be the end of   *)
(* another one takes a run of its thread that was abandoned with its turn  *)
(* at work (the filter of notifications by thread and turn, before the     *)
(* answer to turn/start is known).                                         *)
THEOREM CodexOwnTurns == CodexAssumption /\ Spec => []TroubleNeedsAbandonedRun
<1> SUFFICES ASSUME CodexAssumption PROVE Spec => []TroubleNeedsAbandonedRun
  OBVIOUS
<1>1. Init => CxBase /\ CxOrder
  BY CxInitBase, CxInitOrder
<1>2. (CxBase /\ CxOrder) /\ [Next]_vars => (CxBase /\ CxOrder)'
  BY CxStepsOrder
<1>3. CxBase /\ CxOrder => TroubleNeedsAbandonedRun
  BY DEF CxBase, CxThread, CxOrder, CxOwn, TroubleNeedsAbandonedRun
<1> QED BY <1>1, <1>2, <1>3, PTL DEF Spec

-----------------------------------------------------------------------------
(* The questions of the child that is running. *)
CxQuestioned == {"ask", "tool", "resolved"}

USE DEF CxQuestioned

(* The run of t holds question id: it is offered, or waits to be read. *)
CxHolds(t, id) ==
  id # 0 /\ (asking[t] = id \/ \E e \in CxEvents : CxHas(queue[t], e) /\ e.e = "ask" /\ e.id = id)

(* The run offers the question, or has it in its queue.                    *)
CxOffered(w) == asking[w.t] = w.id \/ CxHas(queue[w.t], Event("ask", w.n, w.id))

(* Somebody has the request: its line is to be read, a handler works on    *)
(* it, or its run holds it; or its run was abandoned.                      *)
CxKeeper(w) ==
  \/ \E l \in CxLines : CxHas(stdout, l) /\ l.m \in {"ask", "tool"} /\ l.id = w.id
  \/ w.tool /\ \E c \in tools : c.id = w.id
  \/ w.id \in userInputs /\ HasRequest(w.t) /\ CxOffered(w)
  \/ w.t \in abandoned

(* A request is of a turn of its thread; its id is of no other, and no     *)
(* other thread holds its question.                                        *)
CxWant(w) ==
  /\ w.id # 0 /\ w.id < nextId /\ w.n \in turn[w.t]
  /\ \A v \in wants : v.id = w.id => v = w
  /\ \A l \in CxLines : CxHas(stdout, l) /\ l.id = w.id =>
       /\ l.m \in {"ask", "tool"} => l.t = w.t /\ l.n = w.n /\ (w.tool <=> l.m = "tool")
       /\ l.m # "resolved"
  /\ \A t \in Thread \ outlived : CxHolds(t, w.id) => w.t = t /\ ~w.tool
  /\ CxKeeper(w)

(* Every request of the child has a keeper of its own.                     *)
CxQuestions ==
  proc = "ready" =>
    /\ \A w \in wants : CxWant(w)
    /\ \A l \in CxLines : CxHas(stdout, l) /\ l.m \in CxQuestioned => l.id < nextId
    /\ \A t \in Thread \ outlived : \A id \in Nat : CxHolds(t, id) => id < nextId

(* The fields of a request are of their types.                             *)
LEMMA CxWantFields ==
  ASSUME CxTypes, NEW w \in wants
  PROVE  w \in CxWants /\ w.id \in Nat /\ w.t \in Thread /\ w.n \in Nat /\ w.tool \in BOOLEAN
<1>1. w \in CxWants
  BY DEF CxTypes, CxLineTypes
<1> QED BY <1>1 DEF CxWants

(* No new request of the child. *)
LEMMA CxQuestionsKept ==
  ASSUME CxTypes, CxQuestions, proc = "ready", wants' \subseteq wants, nextId' = nextId,
         \A w \in wants' : w.n \in turn'[w.t] /\ CxKeeper(w)',
         \A l \in CxLines : CxHas(stdout', l) /\ l.m \in CxQuestioned =>
            \/ CxHas(stdout, l)
            \/ l.m = "resolved" /\ l.id < nextId /\ (\A w \in wants' : w.id # l.id),
         \A t \in Thread \ outlived' : \A id \in Nat : CxHolds(t, id)' =>
            \/ t \notin outlived /\ CxHolds(t, id)
            \/ \E l \in CxLines : CxHas(stdout, l) /\ l.m = "ask" /\ l.t = t /\ l.id = id
  PROVE  CxQuestions'
<1>1. ASSUME NEW w \in wants' PROVE CxWant(w)'
  <2>1. w \in wants /\ CxWant(w) /\ w.id \in Nat
    BY <1>1, CxWantFields DEF CxQuestions
  <2>2. w.id # 0 /\ w.id < nextId' /\ w.n \in turn'[w.t] /\ CxKeeper(w)'
    BY <1>1, <2>1 DEF CxWant
  <2>3. \A v \in wants' : v.id = w.id => v = w
    BY <2>1 DEF CxWant
  <2>4. \A l \in CxLines : CxHas(stdout', l) /\ l.id = w.id =>
          /\ l.m \in {"ask", "tool"} => l.t = w.t /\ l.n = w.n /\ (w.tool <=> l.m = "tool")
          /\ l.m # "resolved"
    BY <1>1, <2>1 DEF CxWant
  <2>5. ASSUME NEW t \in Thread \ outlived', CxHolds(t, w.id)' PROVE w.t = t /\ ~w.tool
    <3>1. CASE t \notin outlived /\ CxHolds(t, w.id)
      BY <2>1, <3>1 DEF CxWant
    <3>2. CASE \E l \in CxLines : CxHas(stdout, l) /\ l.m = "ask" /\ l.t = t /\ l.id = w.id
      BY <2>1, <3>2 DEF CxWant
    <3> QED BY <2>1, <2>5, <3>1, <3>2
  <2> QED BY <2>2, <2>3, <2>4, <2>5 DEF CxWant
<1>2. \A l \in CxLines : CxHas(stdout', l) /\ l.m \in CxQuestioned => l.id < nextId'
  BY DEF CxQuestions
<1>3. ASSUME NEW t \in Thread \ outlived', NEW id \in Nat, CxHolds(t, id)' PROVE id < nextId'
  <2>1. CASE t \notin outlived /\ CxHolds(t, id)
    BY <2>1 DEF CxQuestions
  <2>2. CASE \E l \in CxLines : CxHas(stdout, l) /\ l.m = "ask" /\ l.t = t /\ l.id = id
    BY <2>2 DEF CxQuestions
  <2> QED BY <1>3, <2>1, <2>2
<1> QED BY <1>1, <1>2, <1>3 DEF CxQuestions

(* What a keeper needs of the step. *)
LEMMA CxKeeperStays ==
  ASSUME NEW w, CxKeeper(w), w.t \in abandoned => w.t \in abandoned',
         \A l \in CxLines : CxHas(stdout, l) /\ l.m \in {"ask", "tool"} /\ l.id = w.id
            => CxHas(stdout', l) \/ CxKeeper(w)',
         \A c \in tools : c.id = w.id /\ w.tool => \E d \in tools' : d.id = w.id,
         w.id \in userInputs /\ HasRequest(w.t) /\ CxOffered(w) => CxKeeper(w)'
  PROVE  CxKeeper(w)'
BY DEF CxKeeper

(* What a run holds that stays as it is. *)
LEMMA CxHoldsStays ==
  ASSUME NEW t, asking'[t] = asking[t] \/ asking'[t] = 0,
         \A e : CxHas(queue'[t], e) => CxHas(queue[t], e)
  PROVE  \A id : CxHolds(t, id)' => CxHolds(t, id)
BY DEF CxHolds

(* A run whose question and queue stay holds what it held.                 *)
LEMMA CxHoldsSame ==
  ASSUME NEW t, asking'[t] = asking[t], queue'[t] = queue[t]
  PROVE  \A id : CxHolds(t, id)' <=> CxHolds(t, id)
BY DEF CxHolds

(* A run without a question and a queue holds nothing.                     *)
LEMMA CxHoldsNothing ==
  ASSUME NEW t, asking[t] = 0, queue[t] = <<>>
  PROVE  \A id : ~CxHolds(t, id)
BY CxHasNothing DEF CxHolds

(* The same after a step.                                                  *)
LEMMA CxHoldsNothingNext ==
  ASSUME NEW t, asking'[t] = 0, queue'[t] = <<>>
  PROVE  \A id : ~CxHolds(t, id)'
BY CxHasNothing DEF CxHolds

(* Only a run that reads holds questions. *)
LEMMA CxHoldsReads ==
  ASSUME CxBase, NEW t \in Thread, ~HasRequest(t)
  PROVE  queue[t] = <<>> /\ asking[t] = 0 /\ \A id : ~CxHolds(t, id)
<1>1. queue[t] = <<>> /\ asking[t] = 0
  BY CxKnown DEF CxThread, HasRequest
<1> QED BY <1>1, CxHoldsNothing

(* Requests of a thread of which no run was abandoned are those of its run. *)
LEMMA CxWantRuns ==
  ASSUME CxBase, CxOrder, NEW t \in Thread, t \notin abandoned, NEW n \in turn[t]
  PROVE  /\ n = run[t] /\ active[t] = run[t] /\ active[t] # 0 /\ HasRequest(t) /\ ended[t] = "open"
         /\ \A i \in DOMAIN queue[t] : queue[t][i].e # "completed"
BY CxKnown DEF CxOrder, CxTurn, CxThread

(* The threads besides t keep what they hold. *)
LEMMA CxOthersKeep ==
  ASSUME NEW t \in Thread, CxOthers(t), NEW x \in Thread, x # t
  PROVE  /\ \A id : CxHolds(x, id)' <=> CxHolds(x, id)
         /\ (x \in outlived') = (x \in outlived) /\ (x \in abandoned') = (x \in abandoned)
         /\ HasRequest(x)' = HasRequest(x) /\ turn'[x] = turn[x]
         /\ asking'[x] = asking[x] /\ queue'[x] = queue[x]
<1>1. CxSame(x)
  BY DEF CxOthers
<1>2. asking'[x] = asking[x] /\ queue'[x] = queue[x]
  BY <1>1 DEF CxSame
<1> QED BY <1>1, <1>2, CxHoldsSame DEF CxSame, HasRequest

(* A step of thread t that leaves the requests and what they are made of. *)
LEMMA CxQuestionsMove ==
  ASSUME CxBase, CxQuestions, proc = "ready", NEW t \in Thread, CxOthers(t),
         wants' \subseteq wants, nextId' = nextId,
         \A w \in wants' : w.id \in userInputs => w.id \in userInputs',
         \A w \in wants' : \A c \in tools : c.id = w.id /\ w.tool => \E d \in tools' : d.id = w.id,
         \A n \in turn[t] : n \in turn'[t] \/ (\A w \in wants' : w.t # t \/ w.n # n),
         t \in abandoned => t \in abandoned',
         t \in outlived /\ t \notin outlived' => \A id : ~CxHolds(t, id)',
         \A l \in CxLines : CxHas(stdout', l) /\ l.m \in CxQuestioned => CxHas(stdout, l),
         \A l \in CxLines : \A w \in wants' :
            CxHas(stdout, l) /\ l.m \in {"ask", "tool"} /\ l.id = w.id => CxHas(stdout', l) \/ CxKeeper(w)',
         \A id \in Nat : CxHolds(t, id)' =>
            \/ CxHolds(t, id)
            \/ \E l \in CxLines : CxHas(stdout, l) /\ l.m = "ask" /\ l.t = t /\ l.id = id,
         \A w \in wants' : w.t = t /\ w.id \in userInputs /\ HasRequest(t) /\ CxOffered(w) => CxKeeper(w)'
  PROVE  CxQuestions'
<1>0. CxTypes
  BY DEF CxBase
<1>1. ASSUME NEW w \in wants' PROVE w.n \in turn'[w.t] /\ CxKeeper(w)'
  <2>1. w \in wants /\ CxWant(w) /\ w.t \in Thread /\ w.n \in turn[w.t] /\ CxKeeper(w)
    BY <1>0, <1>1, CxWantFields DEF CxQuestions, CxWant
  <2>2. CASE w.t = t
    BY <1>1, <2>1, <2>2, CxKeeperStays
  <2>3. CASE w.t # t
    <3>1. /\ turn'[w.t] = turn[w.t] /\ asking'[w.t] = asking[w.t] /\ queue'[w.t] = queue[w.t]
          /\ HasRequest(w.t)' = HasRequest(w.t) /\ (w.t \in abandoned') = (w.t \in abandoned)
      BY <2>1, <2>3, CxOthersKeep
    <3>2. w.id \in userInputs /\ HasRequest(w.t) /\ CxOffered(w) => CxKeeper(w)'
      BY <1>1, <3>1 DEF CxOffered, CxKeeper
    <3> QED BY <1>1, <2>1, <3>1, <3>2, CxKeeperStays
  <2> QED BY <2>2, <2>3
<1>2. ASSUME NEW x \in Thread \ outlived', NEW id \in Nat, CxHolds(x, id)'
      PROVE  \/ x \notin outlived /\ CxHolds(x, id)
             \/ \E l \in CxLines : CxHas(stdout, l) /\ l.m = "ask" /\ l.t = x /\ l.id = id
  <2>1. CASE x = t
    BY <1>2, <2>1
  <2>2. CASE x # t
    BY <1>2, <2>2, CxOthersKeep
  <2> QED BY <2>1, <2>2
<1> QED BY <1>0, <1>1, <1>2, CxQuestionsKept

(* What is read and written beside the requests. *)
LEMMA CxLinesWritten ==
  ASSUME CxTypes, NEW lines, lines = stdout \/ (stdout # <<>> /\ lines = Tail(stdout)),
         \/ stdout' = lines
         \/ \E k \in CxLines : k.m \notin CxQuestioned /\ stdout' = Append(lines, k)
  PROVE  /\ \A l \in CxLines : CxHas(stdout', l) /\ l.m \in CxQuestioned => CxHas(stdout, l)
         /\ \A l \in CxLines : CxHas(stdout, l) => CxHas(stdout', l) \/ (stdout # <<>> /\ l = Head(stdout))
         /\ lines = stdout => \A l \in CxLines : CxHas(stdout, l) => CxHas(stdout', l)
<1>0. stdout \in Seq(CxLines)
  BY DEF CxTypes, CxLineTypes
<1>1. /\ lines \in Seq(CxLines) /\ \A l : CxHas(lines, l) => CxHas(stdout, l)
      /\ \A l : CxHas(stdout, l) => CxHas(lines, l) \/ (stdout # <<>> /\ l = Head(stdout))
  <2>1. CASE lines = stdout
    BY <1>0, <2>1
  <2>2. CASE stdout # <<>> /\ lines = Tail(stdout)
    BY <1>0, <2>2, CxTail, CxHasTail
  <2> QED BY <2>1, <2>2
<1>2. CASE stdout' = lines
  BY <1>1, <1>2
<1>3. CASE \E k \in CxLines : k.m \notin CxQuestioned /\ stdout' = Append(lines, k)
  <2>1. PICK k \in CxLines : k.m \notin CxQuestioned /\ stdout' = Append(lines, k)
    BY <1>3
  <2>2. \A l : CxHas(stdout', l) <=> CxHas(lines, l) \/ l = k
    BY <1>1, <2>1, CxHasAppend
  <2> QED BY <1>1, <2>1, <2>2
<1> QED BY <1>2, <1>3

(* Every question has its keeper when a run is launched, now or once the   *)
(* child is ready.                                                         *)
LEMMA CxLaunchesQuestions ==
  ASSUME CxBase, CxQuestions, proc = "ready", NEW t \in Thread, CxOthers(t),
         NEW lines, CxLaunched(t, lines), run'[t] \in Nat,
         \/ lines = stdout
         \/ stdout # <<>> /\ lines = Tail(stdout) /\ Head(stdout).m \notin CxQuestioned,
         step[t] \in {"idle", "opening"}, abandoned' = abandoned,
         UNCHANGED <<wants, nextId, userInputs, tools>>
  PROVE  CxQuestions'
<1>0. CxTypes
  BY DEF CxBase
<1>1. queue[t] = <<>> /\ asking[t] = 0 /\ ~HasRequest(t)
  BY CxHoldsReads DEF HasRequest
<1>2. queue'[t] = <<>> /\ asking'[t] = 0 /\ turn[t] \subseteq turn'[t]
  BY <1>1 DEF CxLaunched, CxBusy, CxStarted, CxOpens
<1>3. \A id : ~CxHolds(t, id)'
  BY <1>2, CxHoldsNothingNext
<1>4. \/ stdout' = lines
      \/ \E k \in CxLines : k.m \notin CxQuestioned /\ stdout' = Append(lines, k)
  <2>1. CASE CxBusy(t, lines)
    BY <2>1 DEF CxBusy
  <2>2. ASSUME NEW m \in {"opened", "turned", "unloaded", "occupied"},
               stdout' = Append(lines, Line(m, t, run'[t], 0))
        PROVE  \E k \in CxLines : k.m \notin CxQuestioned /\ stdout' = Append(lines, k)
    <3>1. Line(m, t, run'[t], 0) \in CxLines /\ Line(m, t, run'[t], 0).m = m
      BY CxLineType DEF CxKinds
    <3> QED BY <2>2, <3>1
  <2>3. CASE CxOpens(t, run'[t], lines)
    BY <2>2, <2>3 DEF CxOpens
  <2>4. CASE \E reply \in {"turned", "unloaded", "occupied"} : CxStarted(t, run'[t], lines, reply)
    BY <2>2, <2>4 DEF CxStarted
  <2> QED BY <2>1, <2>3, <2>4 DEF CxLaunched
<1>5. /\ \A l \in CxLines : CxHas(stdout', l) /\ l.m \in CxQuestioned => CxHas(stdout, l)
      /\ \A l \in CxLines : CxHas(stdout, l) => CxHas(stdout', l) \/ (stdout # <<>> /\ l = Head(stdout))
      /\ lines = stdout => \A l \in CxLines : CxHas(stdout, l) => CxHas(stdout', l)
  BY <1>0, <1>4, CxLinesWritten
<1>6. \A l \in CxLines : CxHas(stdout, l) /\ l.m \in {"ask", "tool"} => CxHas(stdout', l)
  BY <1>5
<1> QED BY <1>1, <1>2, <1>3, <1>5, <1>6, CxQuestionsMove

(* Every question has its keeper when a run begins (Begin).                *)
LEMMA CxBeginQuestions ==
  ASSUME CxBase, CxQuestions, NEW t \in Thread, Begin(t)
  PROVE  CxQuestions'
<1>1. /\ CxOthers(t) /\ run'[t] = run[t] + 1 /\ run[t] \in Nat /\ step[t] = "idle"
      /\ UNCHANGED <<wants, nextId, userInputs, tools, abandoned>>
      /\ \/ proc = "ready" /\ CxLaunched(t, stdout)
         \/ proc' # "ready"
  <2>1. CxTypes
    BY DEF CxBase
  <2> QED BY <2>1, CxBeginDoes
<1>2. run'[t] \in Nat
  BY <1>1
<1>3. CASE proc = "ready" /\ CxLaunched(t, stdout)
  BY <1>1, <1>2, <1>3, CxLaunchesQuestions
<1>4. CASE proc' # "ready"
  BY <1>4 DEF CxQuestions
<1> QED BY <1>1, <1>3, <1>4

(* A child that has just started has asked nothing. *)
LEMMA CxInitializedFresh ==
  ASSUME CxBase, CxOrder, NEW t, t = Head(stdout).t, Initialized,
         step[t] = "starting" /\ run[t] = Head(stdout).n, CxLaunched(t, Tail(stdout))
  PROVE  /\ wants = {} /\ \A l \in CxLines : CxHas(stdout', l) => l.m \notin CxQuestioned
         /\ \A x \in Thread \ outlived' : queue'[x] = <<>> /\ asking'[x] = 0
<1>1. /\ t \in Thread /\ stdout # <<>> /\ Head(stdout).m = "initialized"
      /\ CxOthers(t) /\ run'[t] = run[t] /\ run[t] \in Nat /\ UNCHANGED ghosts
  BY CxInitializedDoes DEF CxBase
<1>2. outlived' = outlived
  BY <1>1 DEF ghosts
<1>3. stdout \in Seq(CxLines)
  BY DEF CxBase, CxTypes, CxLineTypes
<1>4. 1 \in DOMAIN stdout /\ stdout[1] = Head(stdout) /\ Len(Tail(stdout)) = Len(stdout) - 1
      /\ Tail(stdout) \in Seq(CxLines)
  BY <1>1, <1>3, CxTail
<1>5. CxLive(stdout[1])
  BY <1>1, <1>4 DEF CxLive
<1>6. 1 = Len(stdout)
  BY <1>4, <1>5 DEF CxOrder, CxPlace
<1>7. Tail(stdout) = <<>>
  BY <1>4, <1>6, CxEmpty
<1>8. proc = "starting" /\ wants = {}
  BY <1>1, CxKnown DEF CxAt, CxBase, CxWhen
<1>9. ASSUME NEW l \in CxLines, CxHas(stdout', l) PROVE l.m \notin CxQuestioned
  <2>1. CASE stdout' = <<>>
    BY <1>9, <2>1, CxHasNothing
  <2>2. ASSUME NEW m \in {"opened", "turned", "unloaded", "occupied"},
               stdout' = Append(Tail(stdout), Line(m, t, run'[t], 0))
        PROVE  l.m \notin CxQuestioned
    <3>0. PICK k : k = Line(m, t, run'[t], 0)
      OBVIOUS
    <3>1. k \in CxLines /\ k.m = m /\ stdout' = Append(Tail(stdout), k)
      BY <1>1, <2>2, <3>0, CxLineType DEF CxKinds
    <3>2. PICK s : s = Tail(stdout)
      OBVIOUS
    <3>3. s \in Seq(CxLines) /\ k \in CxLines /\ stdout' = Append(s, k) /\ s = <<>>
      BY <1>4, <1>7, <3>1, <3>2
    <3>4. CxHas(Append(s, k), l) <=> CxHas(s, l) \/ l = k
      BY <3>3, CxHasAppend
    <3> QED BY <1>9, <3>1, <3>3, <3>4, CxHasNothing
  <2> QED BY <1>7, <2>1, <2>2 DEF CxLaunched, CxBusy, CxOpens, CxStarted
<1>10. ASSUME NEW x \in Thread \ outlived' PROVE queue'[x] = <<>> /\ asking'[x] = 0
  <2>1. CASE x = t
    <3>1. queue[t] = <<>> /\ asking[t] = 0
      BY <1>1, CxHoldsReads DEF HasRequest
    <3> QED BY <2>1, <3>1 DEF CxLaunched, CxBusy, CxStarted, CxOpens
  <2>2. CASE x # t
    <3>1. ~HasRequest(x)
      BY <1>2, <1>8, <1>10, CxKnown DEF CxAt, HasRequest
    <3>2. queue[x] = <<>> /\ asking[x] = 0
      BY <1>10, <3>1, CxHoldsReads
    <3> QED BY <1>1, <1>10, <2>2, <3>2, CxOthersKeep
  <2> QED BY <2>1, <2>2
<1> QED BY <1>8, <1>9, <1>10

(* Every question has its keeper when the answer to initialize is read.    *)
LEMMA CxInitializedQuestions ==
  ASSUME CxBase, CxOrder, CxQuestions, NEW t, t = Head(stdout).t, Initialized
  PROVE  CxQuestions'
<1>1. /\ t \in Thread /\ stdout # <<>> /\ Head(stdout).m = "initialized"
      /\ CxOthers(t) /\ UNCHANGED <<wants, nextId, userInputs, tools, ghosts>>
      /\ \/ /\ step[t] = "starting" /\ run[t] = Head(stdout).n /\ proc' = "ready"
            /\ CxLaunched(t, Tail(stdout))
         \/ stdout' = Tail(stdout) /\ CxSame(t) /\ proc' = proc
  BY CxInitializedDoes DEF CxBase
<1>2. UNCHANGED <<abandoned, outlived>>
  BY <1>1 DEF ghosts
<1>3. CxTypes /\ stdout \in Seq(CxLines)
  BY DEF CxBase, CxTypes, CxLineTypes
<1>4. CASE /\ step[t] = "starting" /\ run[t] = Head(stdout).n /\ proc' = "ready"
           /\ CxLaunched(t, Tail(stdout))
  <2>1. /\ wants = {} /\ \A l \in CxLines : CxHas(stdout', l) => l.m \notin CxQuestioned
        /\ \A x \in Thread \ outlived' : queue'[x] = <<>> /\ asking'[x] = 0
    BY <1>4, CxInitializedFresh
  <2>2. \A x \in Thread \ outlived' : \A id : ~CxHolds(x, id)'
    BY <2>1, CxHoldsNothingNext
  <2> QED BY <1>1, <2>1, <2>2 DEF CxQuestions
<1>5. CASE stdout' = Tail(stdout) /\ CxSame(t) /\ proc' = proc
  <2>1. SUFFICES ASSUME proc = "ready" PROVE CxQuestions'
    BY <1>5 DEF CxQuestions
  <2>2. /\ \A l \in CxLines : CxHas(stdout', l) /\ l.m \in CxQuestioned => CxHas(stdout, l)
        /\ \A l \in CxLines : CxHas(stdout, l) => CxHas(stdout', l) \/ (stdout # <<>> /\ l = Head(stdout))
    BY <1>1, <1>3, <1>5, CxLinesWritten
  <2>3. /\ turn'[t] = turn[t] /\ HasRequest(t)' = HasRequest(t)
        /\ asking'[t] = asking[t] /\ queue'[t] = queue[t]
    BY <1>5 DEF CxSame, HasRequest
  <2>4. \A id : CxHolds(t, id)' <=> CxHolds(t, id)
    BY <2>3, CxHoldsSame
  <2>5. \A w \in wants' : w.t = t /\ w.id \in userInputs /\ HasRequest(t) /\ CxOffered(w) => CxKeeper(w)'
    BY <1>1, <2>3 DEF CxKeeper, CxOffered
  <2>6. \A l \in CxLines : CxHas(stdout, l) /\ l.m \in {"ask", "tool"} => CxHas(stdout', l)
    BY <1>1, <2>2
  <2> QED BY <1>1, <1>2, <2>1, <2>2, <2>3, <2>4, <2>5, <2>6, CxQuestionsMove
<1> QED BY <1>1, <1>4, <1>5

(* A line is read that is no request, and its thread goes on as it was. *)
LEMMA CxReadsQuietly ==
  ASSUME CxBase, CxQuestions, proc = "ready", NEW t \in Thread, CxOthers(t),
         stdout # <<>>, stdout' = Tail(stdout), Head(stdout).m \notin {"ask", "tool"},
         UNCHANGED <<wants, nextId, tools>>, turn'[t] = turn[t],
         \A w \in wants : w.id \in userInputs => w.id \in userInputs',
         t \in abandoned => t \in abandoned', t \in outlived => t \in outlived',
         asking'[t] = asking[t], HasRequest(t) => HasRequest(t)',
         \A e \in CxEvents : e.e = "ask" => (CxHas(queue'[t], e) <=> CxHas(queue[t], e))
  PROVE  CxQuestions'
<1>0. CxTypes
  BY DEF CxBase
<1>1. /\ \A l \in CxLines : CxHas(stdout', l) /\ l.m \in CxQuestioned => CxHas(stdout, l)
      /\ \A l \in CxLines : CxHas(stdout, l) => CxHas(stdout', l) \/ (stdout # <<>> /\ l = Head(stdout))
  BY <1>0, CxLinesWritten
<1>2. \A l \in CxLines : CxHas(stdout, l) /\ l.m \in {"ask", "tool"} => CxHas(stdout', l)
  BY <1>1
<1>3. \A id : CxHolds(t, id)' => CxHolds(t, id)
  BY DEF CxHolds
<1>4. ASSUME NEW w \in wants', w.t = t, w.id \in userInputs, HasRequest(t), CxOffered(w)
      PROVE  CxKeeper(w)'
  <2>1. w.id \in Nat /\ w.n \in Nat /\ w \in wants /\ w.id \in 1..MaxAsks
    BY <1>0, <1>4, CxWantFields DEF CxTypes, CxSetTypes
  <2>2. Event("ask", w.n, w.id) \in CxEvents /\ Event("ask", w.n, w.id).e = "ask"
    BY <2>1, CxEventType
  <2>3. CxOffered(w)'
    BY <1>4, <2>2 DEF CxOffered
  <2> QED BY <1>4, <2>1, <2>3 DEF CxKeeper
<1> QED BY <1>1, <1>2, <1>3, <1>4, CxQuestionsMove

(* Every question has its keeper when the answer to thread/start is read.  *)
LEMMA CxOpenedQuestions ==
  ASSUME CxBase, CxQuestions, NEW t, t = Head(stdout).t, Opened
  PROVE  CxQuestions'
<1>1. /\ t \in Thread /\ stdout # <<>> /\ Head(stdout).m = "opened" /\ proc' = proc
      /\ CxOthers(t) /\ run'[t] = run[t] /\ run[t] \in Nat
      /\ UNCHANGED <<wants, nextId, userInputs, tools, ghosts>>
      /\ \/ step[t] = "opening" /\ CxLaunched(t, Tail(stdout))
         \/ stdout' = Tail(stdout) /\ CxSame(t)
  BY CxOpenedDoes DEF CxBase
<1>2. UNCHANGED <<abandoned, outlived>>
  BY <1>1 DEF ghosts
<1>3. SUFFICES ASSUME proc = "ready" PROVE CxQuestions'
  BY <1>1 DEF CxQuestions
<1>4. CASE step[t] = "opening" /\ CxLaunched(t, Tail(stdout))
  BY <1>1, <1>2, <1>3, <1>4, CxLaunchesQuestions
<1>5. CASE stdout' = Tail(stdout) /\ CxSame(t)
  BY <1>1, <1>2, <1>3, <1>5, CxReadsQuietly DEF CxSame, HasRequest
<1> QED BY <1>1, <1>4, <1>5

(* Every question has its keeper when the answer to turn/start is read.    *)
LEMMA CxTurnedQuestions ==
  ASSUME CxBase, CxQuestions, NEW t, t = Head(stdout).t, Turned
  PROVE  CxQuestions'
<1>1. /\ t \in Thread /\ stdout # <<>> /\ Head(stdout).m = "turned"
      /\ CxOthers(t) /\ stdout' = Tail(stdout)
      /\ UNCHANGED <<proc, child, userInputs, tools, reader, asking, ghosts>>
      /\ step'[t] = step[t] \/ step'[t] = "reading"
  BY CxTurnedDoes DEF CxBase
<1>2. UNCHANGED <<turn, wants, nextId, queue, abandoned, outlived>>
  BY <1>1 DEF child, reader, ghosts
<1>3. SUFFICES ASSUME proc = "ready" PROVE CxQuestions'
  BY <1>1 DEF CxQuestions
<1>4. HasRequest(t) => HasRequest(t)'
  BY <1>1 DEF HasRequest
<1> QED BY <1>1, <1>2, <1>3, <1>4, CxReadsQuietly

(* Every question has its keeper when the end of a request is read.        *)
LEMMA CxResolvedQuestions ==
  ASSUME CxBase, CxQuestions, NEW t, t = Head(stdout).t, Resolved
  PROVE  CxQuestions'
<1>1. /\ stdout # <<>> /\ Head(stdout).m = "resolved" /\ CxAllSame
      /\ stdout' = Tail(stdout) /\ userInputs' = userInputs \ {Head(stdout).id}
      /\ UNCHANGED <<proc, child, tools>>
  BY CxResolvedDoes DEF CxBase
<1>2. UNCHANGED <<wants, nextId>>
  BY <1>1 DEF child
<1>3. SUFFICES ASSUME proc = "ready" PROVE CxQuestions'
  BY <1>1 DEF CxQuestions
<1>4. CxTypes /\ stdout \in Seq(CxLines)
  BY DEF CxBase, CxTypes, CxLineTypes
<1>5. Head(stdout) \in CxLines /\ CxHas(stdout, Head(stdout)) /\ t \in Thread
  BY <1>1, <1>4, CxHead, CxHasTail DEF CxTypes
<1>6. \A w \in wants : w.id # Head(stdout).id
  BY <1>1, <1>3, <1>5 DEF CxQuestions, CxWant
<1>7. \A x \in Thread : CxSame(x)
  BY <1>1, CxStill
<1>8. CxOthers(t) /\ CxSame(t)
  BY <1>5, <1>7 DEF CxOthers
<1> QED BY <1>1, <1>2, <1>3, <1>5, <1>6, <1>8, CxReadsQuietly DEF CxSame, HasRequest

(* A run that is over takes the questions it holds with it. *)
LEMMA CxEndsQuestions ==
  ASSUME CxBase, CxOrder, CxQuestions, proc = "ready", NEW t \in Thread, CxOthers(t),
         \/ stdout' = stdout
         \/ stdout # <<>> /\ stdout' = Tail(stdout) /\ Head(stdout).m \notin CxQuestioned,
         UNCHANGED <<wants, nextId, tools, userInputs>>, turn'[t] = turn[t],
         asking'[t] = 0, queue'[t] = <<>>,
         t \in abandoned => t \in abandoned', (t \in outlived') = (t \in outlived),
         HasRequest(t) => t \in abandoned' \/ turn[t] = {}
  PROVE  CxQuestions'
<1>0. CxTypes
  BY DEF CxBase
<1>1. /\ \A l \in CxLines : CxHas(stdout', l) /\ l.m \in CxQuestioned => CxHas(stdout, l)
      /\ \A l \in CxLines : CxHas(stdout, l) => CxHas(stdout', l) \/ (stdout # <<>> /\ l = Head(stdout))
      /\ stdout' = stdout => \A l \in CxLines : CxHas(stdout, l) => CxHas(stdout', l)
  BY <1>0, CxLinesWritten
<1>2. \A l \in CxLines : CxHas(stdout, l) /\ l.m \in {"ask", "tool"} => CxHas(stdout', l)
  BY <1>1
<1>3. \A id : ~CxHolds(t, id)'
  BY CxHoldsNothingNext
<1>4. ASSUME NEW w \in wants', w.t = t, HasRequest(t) PROVE CxKeeper(w)'
  <2>1. w.n \in turn[t]
    BY <1>4 DEF CxQuestions, CxWant
  <2> QED BY <1>4, <2>1 DEF CxKeeper
<1> QED BY <1>1, <1>2, <1>3, <1>4, CxQuestionsMove

(* Every question has its keeper when a refused turn is read               *)
(* (TurnRefused).                                                          *)
LEMMA CxRefusedQuestions ==
  ASSUME CxBase, CxOrder, CxQuestions, NEW t, t = Head(stdout).t, TurnRefused
  PROVE  CxQuestions'
<1>1. /\ t \in Thread /\ stdout # <<>> /\ Head(stdout).m \in {"unloaded", "occupied"}
      /\ CxOthers(t) /\ stdout' = Tail(stdout)
      /\ UNCHANGED <<proc, child, userInputs, tools, ghosts>>
      /\ \/ /\ step[t] = "turning" /\ run[t] = Head(stdout).n /\ CxEnded(t, "failed")
         \/ CxSame(t)
  BY CxRefusedDoes DEF CxBase
<1>2. UNCHANGED <<turn, wants, nextId, abandoned, outlived>>
  BY <1>1 DEF child, ghosts
<1>3. SUFFICES ASSUME proc = "ready" PROVE CxQuestions'
  BY <1>1 DEF CxQuestions
<1>4. CASE step[t] = "turning" /\ run[t] = Head(stdout).n /\ CxEnded(t, "failed")
  <2>1. CxTypes /\ stdout \in Seq(CxLines)
    BY DEF CxBase, CxTypes, CxLineTypes
  <2>2. Head(stdout) \in CxLines /\ CxLine(Head(stdout))
    BY <1>1, <2>1, CxHead, CxHasTail DEF CxOrder, CxTypes
  <2>3. run[t] \notin turn[t]
    BY <1>1, <1>4, <2>2 DEF CxLine
  <2>4. t \notin abandoned => turn[t] = {}
    BY <1>1, <2>3, CxWantRuns
  <2> QED BY <1>1, <1>2, <1>3, <1>4, <2>4, CxEndsQuestions DEF CxEnded
<1>5. CASE CxSame(t)
  BY <1>1, <1>2, <1>3, <1>5, CxReadsQuietly DEF CxSame, HasRequest
<1> QED BY <1>1, <1>4, <1>5

(* Every question has its keeper when an error or the end of a turn is     *)
(* read.                                                                   *)
LEMMA CxEventQuestions ==
  ASSUME CxBase, CxQuestions, NEW t, t = Head(stdout).t, NEW n, n = Head(stdout).n, TurnEvent
  PROVE  CxQuestions'
<1>1. /\ t \in Thread /\ n \in Nat /\ stdout # <<>> /\ Head(stdout).m \in {"error", "completed"}
      /\ CxOthers(t) /\ stdout' = Tail(stdout)
      /\ UNCHANGED <<proc, child, userInputs, tools, runs, asking, abandoned, outlived>>
      /\ \/ queue'[t] = Append(queue[t], Event(Head(stdout).m, n, 0))
         \/ queue'[t] = queue[t]
  BY CxEventDoes DEF CxBase, CxSame
<1>2. UNCHANGED <<turn, wants, nextId, step>>
  BY <1>1 DEF child, runs
<1>3. SUFFICES ASSUME proc = "ready" PROVE CxQuestions'
  BY <1>1 DEF CxQuestions
<1>4. HasRequest(t) => HasRequest(t)'
  BY <1>2 DEF HasRequest
<1>5. \A e \in CxEvents : e.e = "ask" => (CxHas(queue'[t], e) <=> CxHas(queue[t], e))
  <2>1. CASE queue'[t] = Append(queue[t], Event(Head(stdout).m, n, 0))
    <3>1. /\ Event(Head(stdout).m, n, 0) \in CxEvents
          /\ Event(Head(stdout).m, n, 0).e = Head(stdout).m
      BY <1>1, CxEventType
    <3>2. queue[t] \in Seq(CxEvents)
      BY <1>1, CxKnown
    <3>3. \A e : CxHas(queue'[t], e) <=> CxHas(queue[t], e) \/ e = Event(Head(stdout).m, n, 0)
      BY <2>1, <3>1, <3>2, CxHasAppend
    <3> QED BY <1>1, <3>1, <3>3
  <2>2. CASE queue'[t] = queue[t]
    BY <2>2
  <2> QED BY <1>1, <2>1, <2>2
<1> QED BY <1>1, <1>2, <1>3, <1>4, <1>5, CxReadsQuietly

(* Every question has its keeper when a run reads the failure of its       *)
(* queue.                                                                  *)
LEMMA CxReadFailureQuestions ==
  ASSUME CxBase, CxOrder, CxQuestions, NEW t \in Thread, ReadFailure(t)
  PROVE  CxQuestions'
<1>1. /\ CxOthers(t) /\ CxEnded(t, "failed") /\ ended[t] = "failed"
      /\ UNCHANGED <<proc, stdout, child, client, tools, ghosts>>
  BY CxReadFailureDoes DEF CxBase
<1>2. UNCHANGED <<turn, wants, nextId, userInputs, abandoned, outlived>>
  BY <1>1 DEF child, client, ghosts
<1>3. SUFFICES ASSUME proc = "ready" PROVE CxQuestions'
  BY <1>1 DEF CxQuestions
<1>4. t \notin abandoned => turn[t] = {}
  BY <1>1, CxWantRuns
<1> QED BY <1>1, <1>2, <1>3, <1>4, CxEndsQuestions DEF CxEnded

(* Every question has its keeper when a response times out.                *)
LEMMA CxTimeoutQuestions ==
  ASSUME CxBase, CxOrder, CxQuestions, NEW t \in Thread, Timeout(t)
  PROVE  CxQuestions'
<1>1. /\ CxOthers(t) /\ step[t] \in {"starting", "opening", "turning"}
      /\ proc' = (IF step[t] = "starting" THEN "killed" ELSE proc)
      /\ (t \in abandoned') = (step[t] = "turning" \/ t \in abandoned)
      /\ CxEnded(t, "failed")
      /\ UNCHANGED <<stdout, child, userInputs, tools, outlived>>
  BY CxTimeoutDoes DEF CxBase
<1>2. UNCHANGED <<turn, wants, nextId>>
  BY <1>1 DEF child
<1>3. SUFFICES ASSUME proc = "ready" PROVE CxQuestions'
  BY <1>1 DEF CxQuestions
<1>4. HasRequest(t) => t \in abandoned'
  BY <1>1 DEF HasRequest
<1> QED BY <1>1, <1>2, <1>3, <1>4, CxEndsQuestions DEF CxEnded

(* A question is read, and given to the run, or answered with nothing. *)
LEMMA CxAskedQuestions ==
  ASSUME CxBase, CxQuestions, NEW t, t = Head(stdout).t, NEW id, id = Head(stdout).id,
         UserInputRequested
  PROVE  CxQuestions'
<1>1. /\ t \in Thread /\ stdout # <<>> /\ Head(stdout).m = "ask" /\ id \in 1..MaxAsks
      /\ CxOthers(t) /\ stdout' = Tail(stdout)
      /\ UNCHANGED <<proc, turn, nextId, active, tools, runs, asking, ghosts>>
      /\ \/ /\ Accepts(t, Head(stdout).n) /\ id \notin userInputs
            /\ userInputs' = userInputs \cup {id} /\ wants' = wants
            /\ queue'[t] = (IF Listening(t)
                            THEN Append(queue[t], Event("ask", Head(stdout).n, id))
                            ELSE queue[t])
         \/ /\ userInputs' = userInputs /\ queue' = queue
            /\ wants' = (IF Writable THEN Without(id) ELSE wants)
  BY CxAskedDoes DEF CxBase
<1>2. UNCHANGED <<step, abandoned, outlived>> /\ HasRequest(t)' = HasRequest(t)
  BY <1>1 DEF runs, ghosts, HasRequest
<1>3. SUFFICES ASSUME proc = "ready" PROVE CxQuestions'
  BY <1>1 DEF CxQuestions
<1>4. CxTypes /\ stdout \in Seq(CxLines)
  BY DEF CxBase, CxTypes, CxLineTypes
<1>5. /\ Head(stdout) \in CxLines /\ CxHas(stdout, Head(stdout)) /\ Head(stdout).n \in Nat
      /\ queue[t] \in Seq(CxEvents)
  BY <1>1, <1>4, CxHead, CxHasTail, CxKnown DEF CxTypes
<1>6. /\ \A l \in CxLines : CxHas(stdout', l) /\ l.m \in CxQuestioned => CxHas(stdout, l)
      /\ \A l \in CxLines : CxHas(stdout, l) => CxHas(stdout', l) \/ l = Head(stdout)
  BY <1>1, <1>4, CxLinesWritten
<1>7. CASE /\ Accepts(t, Head(stdout).n)
           /\ userInputs' = userInputs \cup {id} /\ wants' = wants
           /\ queue'[t] = (IF Listening(t)
                           THEN Append(queue[t], Event("ask", Head(stdout).n, id))
                           ELSE queue[t])
  <2>0. PICK k : k = Event("ask", Head(stdout).n, id)
    OBVIOUS
  <2>1. k \in CxEvents /\ k.e = "ask" /\ k.id = id
    BY <1>1, <1>5, <2>0, CxEventType
  <2>2. /\ \A e : CxHas(queue'[t], e) => CxHas(queue[t], e) \/ (Listening(t) /\ e = k)
        /\ \A e : CxHas(queue[t], e) => CxHas(queue'[t], e)
        /\ Listening(t) => CxHas(queue'[t], k)
    <3>1. \A e : CxHas(Append(queue[t], k), e) <=> CxHas(queue[t], e) \/ e = k
      BY <1>5, <2>1, CxHasAppend
    <3> QED BY <1>7, <2>0, <3>1
  <2>3. ASSUME NEW x \in Nat, CxHolds(t, x)'
        PROVE  \/ CxHolds(t, x)
               \/ \E l \in CxLines : CxHas(stdout, l) /\ l.m = "ask" /\ l.t = t /\ l.id = x
    <3>1. CASE asking'[t] = x
      BY <1>1, <2>3, <3>1 DEF CxHolds
    <3>2. CASE \E e \in CxEvents : CxHas(queue'[t], e) /\ e.e = "ask" /\ e.id = x
      <4>1. PICK e \in CxEvents : CxHas(queue'[t], e) /\ e.e = "ask" /\ e.id = x
        BY <3>2
      <4>2. CASE CxHas(queue[t], e)
        BY <2>3, <4>1, <4>2 DEF CxHolds
      <4>3. CASE e = k
        BY <1>1, <1>5, <2>1, <4>1, <4>3
      <4> QED BY <2>2, <4>1, <4>2, <4>3
    <3> QED BY <2>3, <3>1, <3>2 DEF CxHolds
  <2>4. ASSUME NEW l \in CxLines, NEW w \in wants', CxHas(stdout, l), l.m \in {"ask", "tool"},
               l.id = w.id
        PROVE  CxHas(stdout', l) \/ CxKeeper(w)'
    <3>1. CASE l = Head(stdout)
      <4>1. w \in wants /\ w.t = t /\ w.n = Head(stdout).n /\ w.id = id
        BY <1>1, <1>3, <1>7, <2>4, <3>1 DEF CxQuestions, CxWant
      <4>2. CASE Listening(t)
        <5>1. HasRequest(t)' /\ w.id \in userInputs'
          BY <1>2, <1>7, <4>1, <4>2 DEF Listening, HasRequest
        <5>2. CxOffered(w)'
          BY <2>0, <2>2, <4>1, <4>2 DEF CxOffered
        <5> QED BY <4>1, <5>1, <5>2 DEF CxKeeper
      <4>3. CASE ~Listening(t)
        <5>1. t \in abandoned
          BY <1>1, <1>7, <4>3, CxKnown DEF CxThread, Accepts, Listening, HasRequest
        <5> QED BY <1>2, <4>1, <5>1 DEF CxKeeper
      <4> QED BY <4>2, <4>3
    <3> QED BY <1>6, <2>4, <3>1
  <2>5. \A w \in wants' : w.t = t /\ w.id \in userInputs /\ HasRequest(t) /\ CxOffered(w) => CxKeeper(w)'
    BY <1>1, <1>2, <1>7, <2>2 DEF CxOffered, CxKeeper
  <2> QED BY <1>1, <1>2, <1>3, <1>6, <1>7, <2>3, <2>4, <2>5, CxQuestionsMove
<1>8. CASE /\ userInputs' = userInputs /\ queue' = queue
           /\ wants' = (IF Writable THEN Without(id) ELSE wants)
  <2>1. wants' \subseteq wants /\ \A w \in wants' : w.id # id
    BY <1>3, <1>8 DEF Writable, Without
  <2>2. \A x : CxHolds(t, x)' <=> CxHolds(t, x)
    BY <1>1, <1>8, CxHoldsSame
  <2>3. \A l \in CxLines : \A w \in wants' :
          CxHas(stdout, l) /\ l.m \in {"ask", "tool"} /\ l.id = w.id => CxHas(stdout', l) \/ CxKeeper(w)'
    BY <1>1, <1>6, <2>1
  <2>4. \A w \in wants' : w.t = t /\ w.id \in userInputs /\ HasRequest(t) /\ CxOffered(w) => CxKeeper(w)'
    BY <1>1, <1>2, <1>8 DEF CxOffered, CxKeeper
  <2> QED BY <1>1, <1>2, <1>3, <1>6, <1>8, <2>1, <2>2, <2>3, <2>4, CxQuestionsMove
<1> QED BY <1>1, <1>7, <1>8

(* A tool call is read, and a handler works on it, or it is answered. *)
LEMMA CxToolQuestions ==
  ASSUME CxBase, CxQuestions, NEW t, t = Head(stdout).t, ToolCalled
  PROVE  CxQuestions'
<1>1. /\ stdout # <<>> /\ Head(stdout).m = "tool" /\ CxAllSame /\ stdout' = Tail(stdout)
      /\ UNCHANGED <<proc, nextId, userInputs, ghosts>>
      /\ \/ /\ tools' = tools \cup {[id |-> Head(stdout).id, stale |-> FALSE]}
            /\ wants' = wants
         \/ /\ tools' = tools
            /\ wants' = (IF Writable THEN Without(Head(stdout).id) ELSE wants)
  BY CxToolDoes DEF CxBase
<1>2. SUFFICES ASSUME proc = "ready" PROVE CxQuestions'
  BY <1>1 DEF CxQuestions
<1>3. CxTypes /\ stdout \in Seq(CxLines)
  BY DEF CxBase, CxTypes, CxLineTypes
<1>4. Head(stdout) \in CxLines /\ CxHas(stdout, Head(stdout)) /\ t \in Thread
  BY <1>1, <1>3, CxHead, CxHasTail DEF CxTypes
<1>5. /\ \A l \in CxLines : CxHas(stdout', l) /\ l.m \in CxQuestioned => CxHas(stdout, l)
      /\ \A l \in CxLines : CxHas(stdout, l) => CxHas(stdout', l) \/ l = Head(stdout)
  BY <1>1, <1>3, CxLinesWritten
<1>6. CxOthers(t) /\ CxSame(t)
  BY <1>1, <1>4, CxStill DEF CxOthers
<1>7. /\ turn'[t] = turn[t] /\ asking'[t] = asking[t] /\ queue'[t] = queue[t]
      /\ HasRequest(t)' = HasRequest(t) /\ (t \in abandoned') = (t \in abandoned)
      /\ (t \in outlived') = (t \in outlived) /\ \A x : CxHolds(t, x)' <=> CxHolds(t, x)
  BY <1>6, CxHoldsSame DEF CxSame, HasRequest
<1>8. \A w \in wants' : w.t = t /\ w.id \in userInputs /\ HasRequest(t) /\ CxOffered(w) => CxKeeper(w)'
  BY <1>1, <1>7 DEF CxOffered, CxKeeper
<1>9. CASE tools' = tools \cup {[id |-> Head(stdout).id, stale |-> FALSE]} /\ wants' = wants
  <2>1. ASSUME NEW l \in CxLines, NEW w \in wants', CxHas(stdout, l), l.m \in {"ask", "tool"},
               l.id = w.id
        PROVE  CxHas(stdout', l) \/ CxKeeper(w)'
    <3>1. CASE l = Head(stdout)
      <4>1. w.tool
        BY <1>1, <1>2, <1>9, <2>1, <3>1 DEF CxQuestions, CxWant
      <4>2. \E c \in tools' : c.id = w.id
        <5>1. PICK c : c = [id |-> Head(stdout).id, stale |-> FALSE]
          OBVIOUS
        <5>2. c.id = w.id
          BY <2>1, <3>1, <5>1
        <5> QED BY <1>9, <5>1, <5>2
      <4> QED BY <4>1, <4>2 DEF CxKeeper
    <3> QED BY <1>5, <2>1, <3>1
  <2> QED BY <1>1, <1>2, <1>4, <1>5, <1>6, <1>7, <1>8, <1>9, <2>1, CxQuestionsMove
<1>10. CASE /\ tools' = tools
            /\ wants' = (IF Writable THEN Without(Head(stdout).id) ELSE wants)
  <2>1. wants' \subseteq wants /\ \A w \in wants' : w.id # Head(stdout).id
    BY <1>2, <1>10 DEF Writable, Without
  <2>2. \A l \in CxLines : \A w \in wants' :
          CxHas(stdout, l) /\ l.m \in {"ask", "tool"} /\ l.id = w.id => CxHas(stdout', l) \/ CxKeeper(w)'
    BY <1>5, <2>1
  <2> QED BY <1>1, <1>2, <1>4, <1>5, <1>6, <1>7, <1>8, <1>10, <2>1, <2>2, CxQuestionsMove
<1> QED BY <1>1, <1>9, <1>10

(* A run reads its next event. *)
LEMMA CxReadQuestions ==
  ASSUME CxBase, CxOrder, CxQuestions, NEW t \in Thread, Read(t)
  PROVE  CxQuestions'
<1>0. PICK id : id = Head(queue[t]).id
  OBVIOUS
<1>1. /\ step[t] = "reading" /\ queue[t] # <<>> /\ CxOthers(t)
      /\ UNCHANGED <<proc, stdout, turn, nextId, tools, outlived>>
      /\ \/ /\ Head(queue[t]).e = "ask" /\ id \in 1..MaxAsks
            /\ queue'[t] = Tail(queue[t]) /\ UNCHANGED <<step, abandoned>>
            /\ \/ /\ asking[t] = 0 /\ asking'[t] = id /\ UNCHANGED <<wants, userInputs>>
               \/ /\ asking[t] # 0 /\ asking' = asking
                  /\ wants' = Without(id) /\ userInputs' = userInputs \ {id}
         \/ /\ \E v \in {"failed", "dropped"} : CxEnded(t, v)
            /\ abandoned' = abandoned \cup {t} /\ UNCHANGED <<wants, userInputs>>
         \/ /\ Head(queue[t]).e = "completed" /\ CxEnded(t, "completed")
            /\ UNCHANGED <<wants, userInputs, abandoned>>
  BY <1>0, CxReadDoes DEF CxBase, CxReadKeeps
<1>2. SUFFICES ASSUME proc = "ready" PROVE CxQuestions'
  BY <1>1 DEF CxQuestions
<1>3. queue[t] \in Seq(CxEvents)
  BY CxKnown
<1>4. /\ Head(queue[t]) \in CxEvents /\ CxHas(queue[t], Head(queue[t]))
      /\ \A e : CxHas(Tail(queue[t]), e) => CxHas(queue[t], e)
      /\ \A e : CxHas(queue[t], e) => CxHas(Tail(queue[t]), e) \/ e = Head(queue[t])
  BY <1>1, <1>3, CxHasTail
<1>5. CASE /\ Head(queue[t]).e = "ask" /\ id \in 1..MaxAsks
           /\ queue'[t] = Tail(queue[t]) /\ UNCHANGED <<step, abandoned>>
           /\ \/ /\ asking[t] = 0 /\ asking'[t] = id /\ UNCHANGED <<wants, userInputs>>
              \/ /\ asking[t] # 0 /\ asking' = asking
                 /\ wants' = Without(id) /\ userInputs' = userInputs \ {id}
  <2>1. id # 0 /\ HasRequest(t)' = HasRequest(t)
    BY <1>5 DEF HasRequest
  <2>2. CxHolds(t, id)
    BY <1>0, <1>4, <1>5, <2>1 DEF CxHolds
  <2>3. ASSUME NEW x \in Nat, CxHolds(t, x)' PROVE CxHolds(t, x)
    <3>1. CASE asking'[t] = x
      BY <1>5, <2>2, <2>3, <3>1 DEF CxHolds
    <3>2. CASE \E e \in CxEvents : CxHas(queue'[t], e) /\ e.e = "ask" /\ e.id = x
      BY <1>4, <1>5, <2>3, <3>2 DEF CxHolds
    <3> QED BY <2>3, <3>1, <3>2 DEF CxHolds
  <2>4. /\ wants' \subseteq wants /\ \A w \in wants' : w.id \in userInputs => w.id \in userInputs'
    BY <1>5 DEF Without
  <2>5. ASSUME NEW w \in wants', w.t = t, w.id \in userInputs, HasRequest(t), CxOffered(w)
        PROVE  CxKeeper(w)'
    <3>1. w.id # 0
      BY <1>2, <2>4, <2>5 DEF CxQuestions, CxWant
    <3>2. CxOffered(w)'
      <4>1. CASE asking[t] = 0 /\ asking'[t] = id
        <5>1. CxHas(queue[t], Event("ask", w.n, w.id))
          BY <2>5, <3>1, <4>1 DEF CxOffered
        <5>2. CASE Event("ask", w.n, w.id) = Head(queue[t])
          BY <1>0, <2>5, <4>1, <5>2 DEF CxOffered, Event
        <5>3. CASE CxHas(Tail(queue[t]), Event("ask", w.n, w.id))
          BY <1>5, <2>5, <5>3 DEF CxOffered
        <5> QED BY <1>4, <5>1, <5>2, <5>3
      <4>2. CASE asking' = asking /\ wants' = Without(id)
        <5>1. w.id # id
          BY <2>5, <4>2 DEF Without
        <5>2. Event("ask", w.n, w.id) # Head(queue[t])
          BY <1>0, <5>1 DEF Event
        <5> QED BY <1>4, <1>5, <2>5, <4>2, <5>2 DEF CxOffered
      <4> QED BY <1>5, <4>1, <4>2
    <3> QED BY <2>1, <2>4, <2>5, <3>2 DEF CxKeeper
  <2>6. /\ \A l \in CxLines : CxHas(stdout', l) /\ l.m \in CxQuestioned => CxHas(stdout, l)
        /\ \A l \in CxLines : CxHas(stdout, l) => CxHas(stdout', l)
    BY <1>1
  <2> QED BY <1>1, <1>2, <1>5, <2>3, <2>4, <2>5, <2>6, CxQuestionsMove
<1>6. CASE /\ \E v \in {"failed", "dropped"} : CxEnded(t, v)
           /\ abandoned' = abandoned \cup {t} /\ UNCHANGED <<wants, userInputs>>
  BY <1>1, <1>2, <1>6, CxEndsQuestions DEF CxEnded
<1>7. CASE /\ Head(queue[t]).e = "completed" /\ CxEnded(t, "completed")
           /\ UNCHANGED <<wants, userInputs, abandoned>>
  <2>1. 1 \in DOMAIN queue[t] /\ queue[t][1] = Head(queue[t])
    BY <1>1, <1>3, CxTail
  <2>2. t \notin abandoned => turn[t] = {}
    BY <1>7, <2>1, CxWantRuns
  <2> QED BY <1>1, <1>2, <1>7, <2>2, CxEndsQuestions DEF CxEnded
<1> QED BY <1>1, <1>5, <1>6, <1>7

(* An answer of the user closes the question of the run. *)
LEMMA CxAnswerQuestions ==
  ASSUME CxBase, CxQuestions, NEW t \in Thread, Answer(t)
  PROVE  CxQuestions'
<1>1. /\ CxOthers(t) /\ wants' = Without(asking[t]) /\ userInputs' = userInputs \ {asking[t]}
      /\ asking'[t] = 0
      /\ UNCHANGED <<proc, stdout, turn, nextId, tools, reader, runs, abandoned, outlived>>
  BY CxAnswerDoes DEF CxBase
<1>2. SUFFICES ASSUME proc = "ready" PROVE CxQuestions'
  BY <1>1 DEF CxQuestions
<1>3. UNCHANGED <<queue, step>> /\ HasRequest(t)' = HasRequest(t)
  BY <1>1 DEF reader, runs, HasRequest
<1>4. /\ wants' \subseteq wants /\ \A w \in wants' : w.id # asking[t]
      /\ \A w \in wants' : w.id \in userInputs => w.id \in userInputs'
  BY <1>1 DEF Without
<1>5. \A id : CxHolds(t, id)' => CxHolds(t, id)
  BY <1>1, <1>3, CxHoldsStays
<1>6. \A w \in wants' : w.t = t /\ w.id \in userInputs /\ HasRequest(t) /\ CxOffered(w) => CxKeeper(w)'
  BY <1>3, <1>4 DEF CxOffered, CxKeeper
<1>7. /\ \A l \in CxLines : CxHas(stdout', l) /\ l.m \in CxQuestioned => CxHas(stdout, l)
      /\ \A l \in CxLines : CxHas(stdout, l) => CxHas(stdout', l)
  BY <1>1
<1> QED BY <1>1, <1>2, <1>4, <1>5, <1>6, <1>7, CxQuestionsMove

(* A turn ends, and takes its requests with it. *)
LEMMA CxTurnEndsQuestions ==
  ASSUME CxBase, CxQuestions, proc = "ready", NEW t \in Thread, NEW n \in Nat, CxOthers(t),
         turn'[t] = turn[t] \ {n}, wants' \subseteq wants, \A w \in wants' : w.t # t \/ w.n # n,
         stdout' = Append(stdout, Line("completed", t, n, 0)),
         UNCHANGED <<nextId, userInputs, tools, queue, step, asking, abandoned, outlived>>
  PROVE  CxQuestions'
<1>1. CxTypes
  BY DEF CxBase
<1>2. Line("completed", t, n, 0) \in CxLines /\ Line("completed", t, n, 0).m = "completed"
  BY CxDoneLine
<1>3. /\ \A l \in CxLines : CxHas(stdout', l) /\ l.m \in CxQuestioned => CxHas(stdout, l)
      /\ \A l \in CxLines : CxHas(stdout, l) => CxHas(stdout', l)
  <2>1. \E k \in CxLines : k.m \notin CxQuestioned /\ stdout' = Append(stdout, k)
    BY <1>2
  <2> QED BY <1>1, <2>1, CxLinesWritten
<1>4. \A id : CxHolds(t, id)' <=> CxHolds(t, id)
  BY CxHoldsSame
<1>5. \A w \in wants' : w.t = t /\ w.id \in userInputs /\ HasRequest(t) /\ CxOffered(w) => CxKeeper(w)'
  BY DEF CxOffered, CxKeeper, HasRequest
<1> QED BY <1>3, <1>4, <1>5, CxQuestionsMove

(* Every question has its keeper when a run is cancelled.                  *)
LEMMA CxCancelQuestions ==
  ASSUME CxBase, CxQuestions, NEW t \in Thread, Cancel(t)
  PROVE  CxQuestions'
<1>1. /\ active[t] \in Nat /\ CxOthers(t) /\ turn'[t] = turn[t] \ {active[t]}
      /\ wants' = {w \in wants : w.t # t \/ w.n # active[t]}
      /\ stdout' = Append(stdout, Line("completed", t, active[t], 0))
      /\ UNCHANGED <<proc, nextId, client, tools, reader, runs, asking, ghosts>>
  BY CxCancelDoes DEF CxBase
<1>2. UNCHANGED <<userInputs, queue, step, abandoned, outlived>>
  BY <1>1 DEF client, reader, runs, ghosts
<1>3. wants' \subseteq wants /\ \A w \in wants' : w.t # t \/ w.n # active[t]
  BY <1>1
<1>4. CASE proc = "ready"
  BY <1>1, <1>2, <1>3, <1>4, CxTurnEndsQuestions
<1> QED BY <1>1, <1>4 DEF CxQuestions

(* Every question has its keeper when the child ends a turn.               *)
LEMMA CxCompletesQuestions ==
  ASSUME CxBase, CxQuestions, NEW t \in Thread, NEW n \in turn[t], ChildCompletes(t, n)
  PROVE  CxQuestions'
<1>1. /\ n \in Nat /\ CxOthers(t) /\ turn'[t] = turn[t] \ {n}
      /\ (\A w \in wants : w.t # t \/ w.n # n)
      /\ stdout' = Append(stdout, Line("completed", t, n, 0))
      /\ UNCHANGED <<proc, wants, nextId, client, tools, reader, runs, asking, ghosts>>
  BY CxCompletesDoes DEF CxBase
<1>2. UNCHANGED <<userInputs, queue, step, abandoned, outlived>>
  BY <1>1 DEF client, reader, runs, ghosts
<1>3. CASE proc = "ready"
  BY <1>1, <1>2, <1>3, CxTurnEndsQuestions
<1> QED BY <1>1, <1>3 DEF CxQuestions

(* A step that moves no thread, and gives the child no new request. *)
LEMMA CxStillQuestions ==
  ASSUME CxBase, CxQuestions, proc = "ready", CxAllSame, wants' \subseteq wants, nextId' = nextId,
         userInputs' = userInputs,
         \A w \in wants' : \A c \in tools : c.id = w.id /\ w.tool => \E d \in tools' : d.id = w.id,
         \A l \in CxLines : CxHas(stdout', l) /\ l.m \in CxQuestioned =>
            \/ CxHas(stdout, l)
            \/ l.m = "resolved" /\ l.id < nextId /\ (\A w \in wants' : w.id # l.id),
         \A l \in CxLines : CxHas(stdout, l) => CxHas(stdout', l)
  PROVE  CxQuestions'
<1>0. CxTypes
  BY DEF CxBase
<1>1. /\ UNCHANGED <<step, turn, queue, asking, abandoned, outlived>>
      /\ \A x \in Thread : \A id : CxHolds(x, id)' <=> CxHolds(x, id)
  BY CxHoldsSame DEF CxAllSame
<1>2. ASSUME NEW w \in wants' PROVE w.n \in turn'[w.t] /\ CxKeeper(w)'
  <2>1. w \in wants /\ w.n \in turn[w.t] /\ CxKeeper(w)
    BY <1>2 DEF CxQuestions, CxWant
  <2>2. w.id \in userInputs /\ HasRequest(w.t) /\ CxOffered(w) => CxKeeper(w)'
    BY <1>1 DEF CxOffered, CxKeeper, HasRequest
  <2> QED BY <1>1, <1>2, <2>1, <2>2, CxKeeperStays
<1> QED BY <1>0, <1>1, <1>2, CxQuestionsKept

(* Every question has its keeper when the handler of a tool returns.       *)
LEMMA CxToolReturnsQuestions ==
  ASSUME CxBase, CxQuestions, NEW c \in tools, ToolReturns(c)
  PROVE  CxQuestions'
<1>1. /\ CxAllSame /\ tools' = tools \ {c}
      /\ wants' = (IF Writable THEN Without(c.id) ELSE wants)
      /\ UNCHANGED <<proc, stdout, nextId, userInputs>>
  BY CxToolReturnsDoes DEF CxBase
<1>2. SUFFICES ASSUME proc = "ready" PROVE CxQuestions'
  BY <1>1 DEF CxQuestions
<1>3. wants' \subseteq wants /\ \A w \in wants' : w.id # c.id
  BY <1>1, <1>2 DEF Writable, Without
<1>4. \A w \in wants' : \A d \in tools : d.id = w.id /\ w.tool => \E e \in tools' : e.id = w.id
  BY <1>1, <1>3
<1> QED BY <1>1, <1>2, <1>3, <1>4, CxStillQuestions

(* The child asks: the request gets the next id. *)
LEMMA CxAsksQuestions ==
  ASSUME CxBase, CxQuestions, proc = "ready", NEW t \in Thread, NEW n \in turn[t],
         NEW kind \in {"ask", "tool"}, ChildAsks(t, n, kind)
  PROVE  CxQuestions'
<1>0. PICK v, k : /\ v = [id |-> nextId, t |-> t, n |-> n, tool |-> kind = "tool"]
                  /\ k = Line(kind, t, n, nextId)
  OBVIOUS
<1>1. /\ n \in Nat /\ CxAllSame /\ nextId \in 1..MaxAsks /\ nextId' = nextId + 1 /\ nextId \in Nat
      /\ MaxAsks \in Nat
      /\ wants' = wants \cup {v} /\ stdout' = Append(stdout, k) /\ CxTypes
      /\ UNCHANGED <<proc, userInputs, tools>>
  BY <1>0, CxAsksDoes DEF CxBase, CxTypes, CodexAssumption
<1>2. v.id = nextId /\ v.t = t /\ v.n = n /\ (v.tool <=> kind = "tool")
  BY <1>0
<1>3. k \in CxLines /\ k.m = kind /\ k.t = t /\ k.n = n /\ k.id = nextId
  BY <1>0, <1>1, CxAskLine
<1>4. \A l : CxHas(stdout', l) <=> CxHas(stdout, l) \/ l = k
  <2>1. stdout \in Seq(CxLines)
    BY <1>1 DEF CxTypes, CxLineTypes
  <2> QED BY <1>1, <1>3, <2>1, CxHasAppend
<1>5. /\ UNCHANGED <<step, turn, queue, asking, abandoned, outlived>>
      /\ \A x \in Thread : \A id : CxHolds(x, id)' <=> CxHolds(x, id)
  BY <1>1, CxHoldsSame DEF CxAllSame
<1>6. \A w \in wants : CxWant(w) /\ w.id \in Nat /\ w.id < nextId
  BY <1>1, CxWantFields DEF CxQuestions, CxWant
<1>7. ASSUME NEW w \in wants PROVE CxWant(w)'
  <2>1. CxWant(w) /\ w.id \in Nat /\ w.id < nextId /\ w.id # nextId
    BY <1>1, <1>6
  <2>2. w.id # 0 /\ w.id < nextId' /\ w.n \in turn'[w.t]
    BY <1>1, <1>5, <2>1 DEF CxWant
  <2>3. \A u \in wants' : u.id = w.id => u = w
    BY <1>1, <1>2, <2>1 DEF CxWant
  <2>4. \A l \in CxLines : CxHas(stdout', l) /\ l.id = w.id =>
          /\ l.m \in {"ask", "tool"} => l.t = w.t /\ l.n = w.n /\ (w.tool <=> l.m = "tool")
          /\ l.m # "resolved"
    BY <1>3, <1>4, <2>1 DEF CxWant
  <2>5. \A x \in Thread \ outlived' : CxHolds(x, w.id)' => w.t = x /\ ~w.tool
    BY <1>5, <2>1 DEF CxWant
  <2>6. CxKeeper(w)'
    <3>1. CxKeeper(w)
      BY <2>1 DEF CxWant
    <3>2. w.id \in userInputs /\ HasRequest(w.t) /\ CxOffered(w) => CxKeeper(w)'
      BY <1>1, <1>5 DEF CxOffered, CxKeeper, HasRequest
    <3> QED BY <1>1, <1>4, <1>5, <3>1, <3>2, CxKeeperStays
  <2> QED BY <2>2, <2>3, <2>4, <2>5, <2>6 DEF CxWant
<1>8. CxWant(v)'
  <2>1. v.id # 0 /\ v.id < nextId' /\ v.n \in turn'[v.t]
    BY <1>1, <1>2, <1>5
  <2>2. \A u \in wants' : u.id = v.id => u = v
    BY <1>1, <1>2, <1>6
  <2>3. ASSUME NEW l \in CxLines, CxHas(stdout', l), l.id = v.id
        PROVE  /\ l.m \in {"ask", "tool"} => l.t = v.t /\ l.n = v.n /\ (v.tool <=> l.m = "tool")
               /\ l.m # "resolved"
    <3>1. CASE l = k
      BY <1>2, <1>3, <3>1
    <3>2. CASE CxHas(stdout, l)
      <4>1. l.m \in CxQuestioned => l.id < nextId
        BY <3>2 DEF CxQuestions
      <4> QED BY <1>1, <1>2, <2>3, <4>1
    <3> QED BY <1>4, <2>3, <3>1, <3>2
  <2>4. \A x \in Thread \ outlived' : CxHolds(x, v.id)' => v.t = x /\ ~v.tool
    BY <1>1, <1>2, <1>5 DEF CxQuestions
  <2>5. CxKeeper(v)'
    <3>1. \E l \in CxLines : CxHas(stdout', l) /\ l.m \in {"ask", "tool"} /\ l.id = v.id
      BY <1>2, <1>3, <1>4
    <3> QED BY <3>1 DEF CxKeeper
  <2> QED BY <2>1, <2>2, <2>3, <2>4, <2>5 DEF CxWant
<1>9. ASSUME NEW l \in CxLines, CxHas(stdout', l), l.m \in CxQuestioned PROVE l.id < nextId'
  <2>1. CASE CxHas(stdout, l)
    <3>1. l.id < nextId /\ l.id \in Nat
      BY <1>9, <2>1, CxLineFields DEF CxQuestions
    <3> QED BY <1>1, <3>1
  <2>2. CASE l = k
    BY <1>1, <1>3, <2>2
  <2> QED BY <1>4, <1>9, <2>1, <2>2
<1>10. ASSUME NEW x \in Thread \ outlived', NEW id \in Nat, CxHolds(x, id)' PROVE id < nextId'
  <2>1. id < nextId
    BY <1>5, <1>10 DEF CxQuestions
  <2> QED BY <1>1, <2>1
<1>11. \A w \in wants' : CxWant(w)'
  BY <1>1, <1>7, <1>8
<1> QED BY <1>9, <1>10, <1>11 DEF CxQuestions

(* A question lapses. *)
LEMMA CxResolvesQuestions ==
  ASSUME CxBase, CxQuestions, proc = "ready", NEW w \in wants, ChildResolves(w)
  PROVE  CxQuestions'
<1>0. PICK k : k = Line("resolved", w.t, w.n, w.id)
  OBVIOUS
<1>1. /\ CxAllSame /\ w.t \in Thread /\ w.n \in Nat /\ w.id \in Nat /\ CxTypes
      /\ wants' = wants \ {w} /\ stdout' = Append(stdout, k)
      /\ UNCHANGED <<nextId, userInputs, tools>>
  BY <1>0, CxResolvesDoes DEF CxBase
<1>2. k \in CxLines /\ k.m = "resolved" /\ k.id = w.id
  BY <1>0, <1>1, CxLineType DEF CxKinds
<1>3. \A l : CxHas(stdout', l) <=> CxHas(stdout, l) \/ l = k
  <2>1. stdout \in Seq(CxLines)
    BY <1>1 DEF CxTypes, CxLineTypes
  <2> QED BY <1>1, <1>2, <2>1, CxHasAppend
<1>4. k.id < nextId /\ \A v \in wants' : v.id # k.id
  BY <1>1, <1>2 DEF CxQuestions, CxWant
<1> QED BY <1>1, <1>2, <1>3, <1>4, CxStillQuestions

(* Every question has its keeper when the child reports an error.          *)
LEMMA CxErrsQuestions ==
  ASSUME CxBase, CxQuestions, proc = "ready", NEW t \in Thread, NEW n \in turn[t], ChildErrs(t, n)
  PROVE  CxQuestions'
<1>0. PICK k : k = Line("error", t, n, 0)
  OBVIOUS
<1>1. /\ CxAllSame /\ n \in Nat /\ stdout' = Append(stdout, k) /\ CxTypes
      /\ UNCHANGED <<child, userInputs, tools>>
  BY <1>0, CxErrsDoes DEF CxBase
<1>2. k \in CxLines /\ k.m = "error" /\ UNCHANGED <<nextId, wants>>
  BY <1>0, <1>1, CxLineType DEF CxKinds, child
<1>3. \A l : CxHas(stdout', l) <=> CxHas(stdout, l) \/ l = k
  <2>1. stdout \in Seq(CxLines)
    BY <1>1 DEF CxTypes, CxLineTypes
  <2> QED BY <1>1, <1>2, <2>1, CxHasAppend
<1> QED BY <1>1, <1>2, <1>3, CxStillQuestions

(* A broken line abandons every run whose turn goes on. *)
LEMMA CxBrokenQuestions ==
  ASSUME CxBase, CxQuestions, BrokenLine
  PROVE  CxQuestions'
<1>1. /\ CxTypes /\ proc' = (IF proc = "starting" THEN "killed" ELSE proc)
      /\ (\A x \in Thread : CxFailed(x)) /\ asking' = asking
      /\ abandoned' = abandoned \cup {t \in Thread : turn[t] # {} \/ active[t] # 0}
      /\ UNCHANGED <<stdout, child, tools, outlived>>
  BY CxBrokenDoes DEF CxBase
<1>2. UNCHANGED <<turn, wants, nextId>>
  BY <1>1 DEF child
<1>3. SUFFICES ASSUME proc = "ready" PROVE CxQuestions'
  BY <1>1 DEF CxQuestions
<1>4. ASSUME NEW w \in wants' PROVE w.n \in turn'[w.t] /\ CxKeeper(w)'
  <2>1. w.n \in turn[w.t] /\ w.t \in Thread
    BY <1>1, <1>2, <1>3, <1>4, CxWantFields DEF CxQuestions, CxWant
  <2> QED BY <1>1, <1>2, <2>1 DEF CxKeeper
<1>5. ASSUME NEW x \in Thread \ outlived', NEW id \in Nat, CxHolds(x, id)'
      PROVE  x \notin outlived /\ CxHolds(x, id)
  <2>1. queue'[x] = <<>> \/ queue'[x] = queue[x]
    BY <1>1 DEF CxFailed
  <2>2. \A e : CxHas(queue'[x], e) => CxHas(queue[x], e)
    BY <2>1, CxHasNothing
  <2> QED BY <1>1, <1>5, <2>2 DEF CxHolds
<1> QED BY <1>1, <1>2, <1>3, <1>4, <1>5, CxQuestionsKept

(* Every question has its keeper when the adapter is created.              *)
LEMMA CxInitQuestions ==
  ASSUME Init
  PROVE  CxQuestions
BY CxHasNothing DEF Init, CxQuestions, CxHolds

(* Every step, and every stutter. *)
LEMMA CxStepsQuestions ==
  ASSUME CxBase, CxOrder, CxQuestions, [Next]_vars
  PROVE  CxQuestions'
<1>1. CASE UNCHANGED vars
  <2>1. UNCHANGED <<proc, stdout, wants, nextId, tools, userInputs>> /\ CxAllSame
    BY <1>1 DEF vars, child, client, reader, runs, ghosts, CxAllSame
  <2>2. CASE proc = "ready"
    BY <2>1, <2>2, CxStillQuestions
  <2> QED BY <2>1, <2>2 DEF CxQuestions
<1>2. ASSUME NEW t \in Thread,
             \/ Begin(t) \/ Read(t) \/ ReadFailure(t) \/ Answer(t) \/ Cancel(t) \/ Timeout(t)
      PROVE  CxQuestions'
  BY <1>2, CxBeginQuestions, CxReadQuestions, CxReadFailureQuestions, CxAnswerQuestions,
     CxCancelQuestions, CxTimeoutQuestions
<1>3. CASE \E c \in tools : ToolReturns(c)
  BY <1>3, CxToolReturnsQuestions
<1>4. CASE Deliver
  <2>1. PICK t, n, id : t = Head(stdout).t /\ n = Head(stdout).n /\ id = Head(stdout).id
    OBVIOUS
  <2>2. CASE Initialized
    BY <2>1, <2>2, CxInitializedQuestions
  <2>3. CASE Opened
    BY <2>1, <2>3, CxOpenedQuestions
  <2>4. CASE Turned
    BY <2>1, <2>4, CxTurnedQuestions
  <2>5. CASE TurnRefused
    BY <2>1, <2>5, CxRefusedQuestions
  <2>6. CASE UserInputRequested
    BY <2>1, <2>6, CxAskedQuestions
  <2>7. CASE ToolCalled
    BY <2>1, <2>7, CxToolQuestions
  <2>8. CASE Resolved
    BY <2>1, <2>8, CxResolvedQuestions
  <2>9. CASE TurnEvent
    BY <2>1, <2>9, CxEventQuestions
  <2> QED BY <1>4, <2>2, <2>3, <2>4, <2>5, <2>6, <2>7, <2>8, <2>9 DEF Deliver
<1>5. CASE ChildStep
  <2>1. proc = "ready"
    BY <1>5 DEF ChildStep
  <2>2. ASSUME NEW t \in Thread, NEW n \in turn[t],
               \/ \E kind \in {"ask", "tool"} : ChildAsks(t, n, kind)
               \/ ChildErrs(t, n) \/ ChildCompletes(t, n)
        PROVE  CxQuestions'
    BY <2>1, <2>2, CxAsksQuestions, CxErrsQuestions, CxCompletesQuestions
  <2>3. ASSUME NEW w \in wants, ChildResolves(w) PROVE CxQuestions'
    BY <2>1, <2>3, CxResolvesQuestions
  <2> QED BY <1>5, <2>2, <2>3 DEF ChildStep
<1>6. CASE Exit
  <2>1. proc' = "none"
    BY <1>6, CxExitDoes DEF CxBase
  <2> QED BY <2>1 DEF CxQuestions
<1>7. CASE BrokenLine
  BY <1>7, CxBrokenQuestions
<1>8. CASE Stop
  <2>1. proc' # "ready"
    BY <1>8, CxStopDoes DEF CxBase
  <2> QED BY <2>1 DEF CxQuestions
<1> QED BY <1>1, <1>2, <1>3, <1>4, <1>5, <1>6, <1>7, <1>8 DEF Next

(* A turn that waits for the user waits for somebody: its request is on    *)
(* its way, with a tool handler, or with a run that offers it or will;     *)
(* unless the run was abandoned or the client is down                      *)
(* (handleServerRequest, pendingUserInputs).                               *)
THEOREM CodexBlockedTurnHasKeeper == CodexAssumption /\ Spec => []BlockedTurnHasKeeper
<1> SUFFICES ASSUME CodexAssumption PROVE Spec => []BlockedTurnHasKeeper
  OBVIOUS
<1>1. Init => CxBase /\ CxOrder /\ CxQuestions
  BY CxInitBase, CxInitOrder, CxInitQuestions
<1>2. (CxBase /\ CxOrder /\ CxQuestions) /\ [Next]_vars => (CxBase /\ CxOrder /\ CxQuestions)'
  BY CxStepsOrder, CxStepsQuestions
<1>3. ASSUME CxBase, CxQuestions PROVE BlockedTurnHasKeeper
  <2>1. SUFFICES ASSUME NEW w \in wants
                 PROVE  \/ \E i \in DOMAIN stdout : stdout[i].m \in {"ask", "tool"} /\ stdout[i].id = w.id
                        \/ w.tool /\ \E c \in tools : c.id = w.id
                        \/ /\ w.id \in userInputs /\ step[w.t] \in {"turning", "reading"}
                           /\ \/ asking[w.t] = w.id
                              \/ \E i \in DOMAIN queue[w.t] : queue[w.t][i] = Event("ask", w.n, w.id)
                        \/ w.t \in abandoned \/ halted \/ crashed
    BY DEF BlockedTurnHasKeeper
  <2>2. CASE proc = "ready"
    <3>1. CxKeeper(w)
      BY <1>3, <2>2 DEF CxQuestions, CxWant
    <3> QED BY <3>1 DEF CxKeeper, CxHas, CxOffered, HasRequest
  <2>3. CASE proc # "ready"
    BY <1>3, <2>3 DEF CxBase, CxWhen
  <2> QED BY <2>2, <2>3
<1> QED BY <1>1, <1>2, <1>3, PTL DEF Spec

(* An answer of a run, and the empty answer that it gives behind another   *)
(* question, closes a request of its own thread; unless the run still      *)
(* reads what a child that is gone had asked (resumeInteraction and its    *)
(* map by request id alone).                                               *)
THEOREM CodexAnswersStay == CodexAssumption /\ Spec => AnswersStayInTheirThread
<1> SUFFICES ASSUME CodexAssumption PROVE Spec => AnswersStayInTheirThread
  OBVIOUS
<1> DEFINE Stay == \A w \in wants \ wants' : \A t \in Thread \ {w.t} :
                     (w.id \in userInputs \ userInputs' /\ (Answer(t) \/ Read(t))) => t \in outlived
<1>1. Init => CxBase /\ CxOrder /\ CxQuestions
  BY CxInitBase, CxInitOrder, CxInitQuestions
<1>2. (CxBase /\ CxOrder /\ CxQuestions) /\ [Next]_vars => (CxBase /\ CxOrder /\ CxQuestions)'
  BY CxStepsOrder, CxStepsQuestions
<1>3. ASSUME CxBase, CxQuestions PROVE Stay
  <2>1. SUFFICES ASSUME NEW w \in wants \ wants', NEW t \in Thread, t # w.t, t \notin outlived,
                        w.id \in userInputs \ userInputs', Answer(t) \/ Read(t)
                 PROVE  FALSE
    OBVIOUS
  <2>2. step[t] = "reading" => proc = "ready"
    BY <1>3, <2>1, CxKnown DEF CxAt
  <2>3. proc = "ready" => ~CxHolds(t, w.id)
    BY <1>3, <2>1 DEF CxQuestions, CxWant
  <2>4. CASE Answer(t)
    <3>1. asking[t] # 0 /\ wants' = Without(asking[t])
      BY <1>3, <2>1, <2>4, CxAnswerDoes DEF CxBase
    <3>2. step[t] = "reading"
      BY <1>3, <2>1, <3>1, CxKnown DEF CxThread
    <3>3. w.id = asking[t]
      BY <2>1, <3>1 DEF Without
    <3> QED BY <2>2, <2>3, <3>1, <3>2, <3>3 DEF CxHolds
  <2>5. CASE Read(t)
    <3>0. PICK id : id = Head(queue[t]).id
      OBVIOUS
    <3>1. /\ step[t] = "reading" /\ queue[t] # <<>> /\ Head(queue[t]).e = "ask" /\ id \in 1..MaxAsks
          /\ wants' = Without(id)
      BY <1>3, <2>1, <2>5, <3>0, CxReadDoes DEF CxBase
    <3>2. w.id = id
      BY <2>1, <3>1 DEF Without
    <3>3. queue[t] \in Seq(CxEvents) /\ MaxAsks \in Nat
      BY <1>3, <2>1, CxKnown
    <3>4. Head(queue[t]) \in CxEvents /\ CxHas(queue[t], Head(queue[t])) /\ id # 0
      BY <3>1, <3>3, CxHasTail
    <3> QED BY <2>2, <2>3, <3>0, <3>1, <3>2, <3>4 DEF CxHolds
  <2> QED BY <2>1, <2>4, <2>5
<1>4. CxBase /\ CxQuestions /\ [Next]_vars => [Stay]_vars
  BY <1>3
<1> QED BY <1>1, <1>2, <1>4, PTL DEF Spec, AnswersStayInTheirThread

-----------------------------------------------------------------------------
(* What became of the questions that the child has asked. *)

(* A line of A is behind all lines of X and before all lines of B. *)
CxBetween(s, X, A, B) ==
  \E c \in DOMAIN s :
    /\ s[c] \in A
    /\ \A i \in DOMAIN s : (s[i] \in X => i < c) /\ (s[i] \in B => c < i)

(* The lines that end turn n of thread t, or any; the one that accepts the *)
(* turn its run waits for.                                                 *)
CxDone(t, n) == {l \in CxLines : l.m = "completed" /\ l.t = t /\ l.n = n}
CxDones(t)   == {l \in CxLines : l.m = "completed" /\ l.t = t}
CxStart(t)   == {l \in CxLines : step[t] = "turning" /\ l.m = "turned" /\ l.t = t /\ l.n = run[t]}

(* The question is open, or the child or another answer has closed it. *)
CxFate(t, id) ==
  \/ id \in lapsed \cup stolen
  \/ \E w \in wants : w.id = id /\ w.t = t /\ ~w.tool

(* The question of a line that is still to be read is closed, or its turn  *)
(* will be seen to end before its run is accepted.                         *)
CxLater(l) ==
  CxFate(l.t, l.id) \/ CxBetween(stdout, {l}, CxDone(l.t, l.n), CxStart(l.t))

(* The questions of a run have different ids. *)
CxApart(t) ==
  /\ \A i, j \in DOMAIN queue[t] :
       queue[t][i].e = "ask" /\ queue[t][j].e = "ask" /\ queue[t][i].id = queue[t][j].id => i = j
  /\ \A i \in DOMAIN queue[t] : queue[t][i].e = "ask" => queue[t][i].id # asking[t]

(* The question that a run holds is closed, or its turn has ended or will  *)
(* be seen to before the run is accepted.                                  *)
CxHeld(t) ==
  /\ CxApart(t)
  /\ ended[t] = "open" => \A id \in Nat : CxHolds(t, id) =>
       \/ CxFate(t, id)
       \/ step[t] = "reading" /\ run[t] \notin turn[t]
       \/ step[t] = "turning" /\ CxBetween(stdout, {}, CxDones(t), CxStart(t))

(* A request is written once.                                              *)
CxOnce ==
  \A i, j \in DOMAIN stdout :
    stdout[i].m = "ask" /\ stdout[j].m = "ask" /\ stdout[i].id = stdout[j].id => i = j

(* What became of the questions: no two runs hold the same, and each has   *)
(* its fate.                                                               *)
CxFates ==
  proc = "ready" =>
    /\ CxOnce
    /\ \A l \in CxLines : CxHas(stdout, l) /\ l.m = "ask" =>
         CxLater(l) /\ \A x \in Thread \ outlived : ~CxHolds(x, l.id)
    /\ \A x \in Thread \ outlived : CxHeld(x)

(* Lines stay in their order when the first one is read.                   *)
LEMMA CxBetweenTail ==
  ASSUME NEW S, NEW s \in Seq(S), s # <<>>, NEW X, NEW A, NEW B, CxBetween(s, X, A, B),
         Head(s) \notin A \/ \E x \in X : CxHas(s, x)
  PROVE  CxBetween(Tail(s), X, A, B)
<1>1. PICK c \in DOMAIN s : /\ s[c] \in A
                            /\ \A i \in DOMAIN s : (s[i] \in X => i < c) /\ (s[i] \in B => c < i)
  BY DEF CxBetween
<1>2. c # 1 /\ c \in Nat
  <2>1. CASE Head(s) \notin A
    BY <1>1, <2>1, CxTail
  <2>2. CASE \E x \in X : CxHas(s, x)
    BY <1>1, <2>2 DEF CxHas
  <2> QED BY <2>1, <2>2
<1>3. c - 1 \in DOMAIN Tail(s) /\ Tail(s)[c - 1] = s[c]
  BY <1>1, <1>2, CxTail
<1>4. ASSUME NEW i \in DOMAIN Tail(s)
      PROVE  (Tail(s)[i] \in X => i < c - 1) /\ (Tail(s)[i] \in B => c - 1 < i)
  <2>1. i + 1 \in DOMAIN s /\ Tail(s)[i] = s[i + 1] /\ i \in Nat
    BY CxTail
  <2>2. (s[i + 1] \in X => i + 1 < c) /\ (s[i + 1] \in B => c < i + 1)
    BY <1>1, <2>1
  <2> QED BY <1>2, <2>1, <2>2
<1> QED BY <1>1, <1>3, <1>4 DEF CxBetween

(* Lines stay in their order when one is written behind them.              *)
LEMMA CxBetweenAppend ==
  ASSUME NEW S, NEW s \in Seq(S), NEW k \in S, NEW X, NEW A, NEW B, CxBetween(s, X, A, B),
         k \notin X
  PROVE  CxBetween(Append(s, k), X, A, B)
<1>1. PICK c \in DOMAIN s : /\ s[c] \in A
                            /\ \A i \in DOMAIN s : (s[i] \in X => i < c) /\ (s[i] \in B => c < i)
  BY DEF CxBetween
<1>2. c \in DOMAIN Append(s, k) /\ Append(s, k)[c] = s[c] /\ c \in 1..Len(s) /\ Len(s) \in Nat
  BY <1>1, CxAppend
<1>3. ASSUME NEW i \in DOMAIN Append(s, k)
      PROVE  (Append(s, k)[i] \in X => i < c) /\ (Append(s, k)[i] \in B => c < i)
  <2>1. CASE i \in DOMAIN s
    BY <1>1, <2>1, CxAppend
  <2>2. CASE i = Len(s) + 1
    <3>1. Append(s, k)[i] = k /\ c < i
      BY <1>2, <2>2, CxAppend
    <3> QED BY <3>1
  <2> QED BY <2>1, <2>2, CxAppend
<1> QED BY <1>1, <1>2, <1>3 DEF CxBetween

(* The order of lines, of fewer lines.                                     *)
LEMMA CxBetweenLess ==
  ASSUME NEW s, NEW X, NEW A, NEW B, NEW Y, NEW C, NEW D, CxBetween(s, X, A, B),
         \A l \in Y : CxHas(s, l) => l \in X, A \subseteq C, \A l \in D : CxHas(s, l) => l \in B
  PROVE  CxBetween(s, Y, C, D)
BY DEF CxBetween, CxHas

(* Lines stay in their order in a step that reads and writes.              *)
LEMMA CxBetweenMove ==
  ASSUME NEW s \in Seq(CxLines), NEW lines, NEW r, NEW X, NEW A, NEW B, NEW D,
         \/ lines = s
         \/ s # <<>> /\ lines = Tail(s) /\ (Head(s) \notin A \/ \E x \in X : CxHas(s, x)),
         r = lines \/ \E k \in CxLines : k \notin X /\ r = Append(lines, k),
         \A l \in D : CxHas(lines, l) => l \in B, CxBetween(s, X, A, B)
  PROVE  CxBetween(r, X, A, D)
<1>1. CxBetween(lines, X, A, B) /\ lines \in Seq(CxLines)
  <2>1. CASE lines = s
    BY <2>1
  <2>2. CASE s # <<>> /\ lines = Tail(s) /\ (Head(s) \notin A \/ \E x \in X : CxHas(s, x))
    BY <2>2, CxBetweenTail, CxTail
  <2> QED BY <2>1, <2>2
<1>2. CxBetween(lines, X, A, D)
  BY <1>1, CxBetweenLess
<1>3. CASE r = lines
  BY <1>2, <1>3
<1>4. CASE \E k \in CxLines : k \notin X /\ r = Append(lines, k)
  BY <1>1, <1>2, <1>4, CxBetweenAppend
<1> QED BY <1>3, <1>4

(* A step that reads at most one line, and writes at most one that asks nothing. *)
CxMoved(lines) ==
  /\ lines = stdout \/ (stdout # <<>> /\ lines = Tail(stdout))
  /\ stdout' = lines \/ \E k \in CxLines : k.m # "ask" /\ stdout' = Append(lines, k)

(* The requests that are to be read after such a step were so before it.   *)
LEMMA CxMovedHas ==
  ASSUME CxTypes, NEW lines, CxMoved(lines)
  PROVE  /\ stdout \in Seq(CxLines) /\ lines \in Seq(CxLines)
         /\ \A l : CxHas(lines, l) => CxHas(stdout, l)
         /\ \A l \in CxLines : CxHas(stdout', l) /\ l.m = "ask" => CxHas(lines, l)
<1>1. stdout \in Seq(CxLines)
  BY DEF CxTypes, CxLineTypes
<1>2. lines \in Seq(CxLines) /\ \A l : CxHas(lines, l) => CxHas(stdout, l)
  <2>1. CASE lines = stdout
    BY <1>1, <2>1
  <2>2. CASE stdout # <<>> /\ lines = Tail(stdout)
    BY <1>1, <2>2, CxTail, CxHasTail
  <2> QED BY <2>1, <2>2 DEF CxMoved
<1>3. CASE stdout' = lines
  BY <1>1, <1>2, <1>3
<1>4. CASE \E k \in CxLines : k.m # "ask" /\ stdout' = Append(lines, k)
  <2>1. PICK k \in CxLines : k.m # "ask" /\ stdout' = Append(lines, k)
    BY <1>4
  <2>2. \A l : CxHas(stdout', l) <=> CxHas(lines, l) \/ l = k
    BY <1>2, <2>1, CxHasAppend
  <2> QED BY <1>1, <1>2, <2>1, <2>2
<1> QED BY <1>3, <1>4 DEF CxMoved

(* A request that is written once is so when a line is read: and it is not *)
(* behind the one that is read.                                            *)
LEMMA CxOnceTail ==
  ASSUME NEW s \in Seq(CxLines), s # <<>>,
         \A i, j \in DOMAIN s : s[i].m = "ask" /\ s[j].m = "ask" /\ s[i].id = s[j].id => i = j
  PROVE  /\ \A i, j \in DOMAIN Tail(s) :
              Tail(s)[i].m = "ask" /\ Tail(s)[j].m = "ask" /\ Tail(s)[i].id = Tail(s)[j].id => i = j
         /\ \A l : CxHas(Tail(s), l) /\ l.m = "ask" /\ Head(s).m = "ask" => l.id # Head(s).id
<1>1. ASSUME NEW i \in DOMAIN Tail(s), NEW j \in DOMAIN Tail(s),
             Tail(s)[i].m = "ask", Tail(s)[j].m = "ask", Tail(s)[i].id = Tail(s)[j].id
      PROVE  i = j
  <2>1. /\ i + 1 \in DOMAIN s /\ Tail(s)[i] = s[i + 1] /\ i \in Nat
        /\ j + 1 \in DOMAIN s /\ Tail(s)[j] = s[j + 1] /\ j \in Nat
    BY CxTail
  <2>2. i + 1 = j + 1
    BY <1>1, <2>1
  <2> QED BY <2>1, <2>2
<1>2. ASSUME NEW l, CxHas(Tail(s), l), l.m = "ask", Head(s).m = "ask", l.id = Head(s).id
      PROVE  FALSE
  <2>1. PICK i \in DOMAIN Tail(s) : Tail(s)[i] = l
    BY <1>2 DEF CxHas
  <2>2. i + 1 \in DOMAIN s /\ s[i + 1] = l /\ i \in 1..Len(Tail(s)) /\ 1 \in DOMAIN s /\ s[1] = Head(s)
    BY <2>1, CxTail
  <2>3. i + 1 = 1
    BY <1>2, <2>2
  <2> QED BY <2>2, <2>3
<1> QED BY <1>1, <1>2

(* A request that is new is written once.                                  *)
LEMMA CxOnceAppend ==
  ASSUME NEW s \in Seq(CxLines), NEW k \in CxLines,
         \A i, j \in DOMAIN s : s[i].m = "ask" /\ s[j].m = "ask" /\ s[i].id = s[j].id => i = j,
         k.m = "ask" => \A l \in CxLines : CxHas(s, l) /\ l.m = "ask" => l.id # k.id
  PROVE  \A i, j \in DOMAIN Append(s, k) :
           /\ Append(s, k)[i].m = "ask" /\ Append(s, k)[j].m = "ask"
           /\ Append(s, k)[i].id = Append(s, k)[j].id
           => i = j
<1>1. /\ \A i \in DOMAIN s : Append(s, k)[i] = s[i] /\ CxHas(s, s[i]) /\ s[i] \in CxLines
      /\ Append(s, k)[Len(s) + 1] = k
      /\ \A i \in DOMAIN Append(s, k) : i \in DOMAIN s \/ i = Len(s) + 1
  BY CxAppend DEF CxHas
<1> SUFFICES ASSUME NEW i \in DOMAIN Append(s, k), NEW j \in DOMAIN Append(s, k),
                    Append(s, k)[i].m = "ask", Append(s, k)[j].m = "ask",
                    Append(s, k)[i].id = Append(s, k)[j].id
             PROVE  i = j
  OBVIOUS
<1>2. CASE i \in DOMAIN s /\ j \in DOMAIN s
  BY <1>1, <1>2
<1>3. CASE i \in DOMAIN s /\ j = Len(s) + 1
  BY <1>1, <1>3
<1>4. CASE j \in DOMAIN s /\ i = Len(s) + 1
  BY <1>1, <1>4
<1> QED BY <1>1, <1>2, <1>3, <1>4

(* The same in a step that reads and writes.                               *)
LEMMA CxOnceMoved ==
  ASSUME CxTypes, CxOnce, NEW lines, CxMoved(lines)
  PROVE  CxOnce'
<1>1. /\ lines \in Seq(CxLines)
      /\ \A i, j \in DOMAIN lines : lines[i].m = "ask" /\ lines[j].m = "ask" /\ lines[i].id = lines[j].id => i = j
  BY CxMovedHas, CxOnceTail DEF CxMoved, CxOnce
<1>2. CASE stdout' = lines
  BY <1>1, <1>2 DEF CxOnce
<1>3. CASE \E k \in CxLines : k.m # "ask" /\ stdout' = Append(lines, k)
  <2>1. PICK k \in CxLines : k.m # "ask" /\ stdout' = Append(lines, k)
    BY <1>3
  <2> QED BY <1>1, <2>1, CxOnceAppend DEF CxOnce
<1> QED BY <1>2, <1>3 DEF CxMoved

(* What is known of a line that is still to be read. *)
LEMMA CxLaterKept ==
  ASSUME CxTypes, NEW lines, CxMoved(lines), NEW l \in CxLines, l.m = "ask", CxHas(stdout, l),
         CxLater(l), CxFate(l.t, l.id) => CxFate(l.t, l.id)',
         \A b \in CxStart(l.t)' : CxHas(lines, b) => b \in CxStart(l.t)
  PROVE  CxLater(l)'
<1>1. CASE CxFate(l.t, l.id)
  BY <1>1 DEF CxLater
<1>2. CASE CxBetween(stdout, {l}, CxDone(l.t, l.n), CxStart(l.t))
  <2>1. stdout \in Seq(CxLines)
    BY CxMovedHas
  <2>2. stdout' = lines \/ \E k \in CxLines : k \notin {l} /\ stdout' = Append(lines, k)
    BY DEF CxMoved
  <2>3. \/ lines = stdout
        \/ stdout # <<>> /\ lines = Tail(stdout)
           /\ (Head(stdout) \notin CxDone(l.t, l.n) \/ \E x \in {l} : CxHas(stdout, x))
    BY DEF CxMoved
  <2>4. CxBetween(stdout', {l}, CxDone(l.t, l.n), CxStart(l.t)')
    BY <1>2, <2>1, <2>2, <2>3, CxBetweenMove
  <2> QED BY <2>4 DEF CxLater, CxDone
<1> QED BY <1>1, <1>2 DEF CxLater

(* A run that goes on. *)
LEMMA CxHeldMoves ==
  ASSUME CxTypes, NEW x \in Thread, CxHeld(x), NEW lines, CxMoved(lines), CxApart(x)',
         \A id \in Nat : CxHolds(x, id)' => CxHolds(x, id),
         run'[x] = run[x], step'[x] = step[x], turn'[x] \subseteq turn[x],
         ended'[x] = "open" => ended[x] = "open",
         \A id \in Nat : CxHolds(x, id)' /\ CxFate(x, id) =>
            CxFate(x, id)' \/ (step[x] = "reading" /\ run[x] \notin turn'[x]),
         \/ lines = stdout \/ Head(stdout) \notin CxDones(x)
         \/ ended'[x] # "open" \/ step[x] # "turning"
  PROVE  CxHeld(x)'
<1>2. ASSUME ended'[x] = "open", step[x] = "turning",
             CxBetween(stdout, {}, CxDones(x), CxStart(x))
      PROVE  CxBetween(stdout, {}, CxDones(x), CxStart(x))'
  <2>1. stdout \in Seq(CxLines)
    BY CxMovedHas
  <2>2. stdout' = lines \/ \E k \in CxLines : k \notin {} /\ stdout' = Append(lines, k)
    BY DEF CxMoved
  <2>3. \/ lines = stdout
        \/ stdout # <<>> /\ lines = Tail(stdout)
           /\ (Head(stdout) \notin CxDones(x) \/ \E y \in {} : CxHas(stdout, y))
    BY <1>2 DEF CxMoved
  <2>4. \A b \in CxStart(x)' : CxHas(lines, b) => b \in CxStart(x)
    BY DEF CxStart
  <2>5. CxBetween(stdout', {}, CxDones(x), CxStart(x)')
    BY <1>2, <2>1, <2>2, <2>3, <2>4, CxBetweenMove
  <2> QED BY <2>5 DEF CxDones
<1>3. ASSUME ended'[x] = "open", NEW id \in Nat, CxHolds(x, id)'
      PROVE  \/ CxFate(x, id)'
             \/ step'[x] = "reading" /\ run'[x] \notin turn'[x]
             \/ step'[x] = "turning" /\ CxBetween(stdout, {}, CxDones(x), CxStart(x))'
  <2>1. CxHolds(x, id)
    BY <1>3
  <2>2. \/ CxFate(x, id)
        \/ step[x] = "reading" /\ run[x] \notin turn[x]
        \/ step[x] = "turning" /\ CxBetween(stdout, {}, CxDones(x), CxStart(x))
    BY <1>3, <2>1 DEF CxHeld
  <2> QED BY <1>2, <1>3, <2>1, <2>2
<1> QED BY <1>3 DEF CxHeld

(* A run that goes on as it was. *)
LEMMA CxHeldKept ==
  ASSUME CxTypes, NEW x \in Thread, CxHeld(x), NEW lines, CxMoved(lines),
         asking'[x] = asking[x], queue'[x] = queue[x], run'[x] = run[x], step'[x] = step[x],
         ended'[x] = ended[x], turn'[x] \subseteq turn[x],
         \A id \in Nat : CxHolds(x, id) /\ CxFate(x, id) => CxFate(x, id)',
         lines = stdout \/ Head(stdout) \notin CxDones(x)
  PROVE  CxHeld(x)'
<1>1. \A id : CxHolds(x, id)' <=> CxHolds(x, id)
  BY CxHoldsSame
<1>2. CxApart(x)'
  BY DEF CxHeld, CxApart
<1> QED BY <1>1, <1>2, CxHeldMoves

(* A run that holds no question has nothing to say of one.                 *)
LEMMA CxHeldNothing ==
  ASSUME NEW x, asking'[x] = 0, queue'[x] = <<>>
  PROVE  CxHeld(x)' /\ \A id : ~CxHolds(x, id)'
<1>1. \A id : ~CxHolds(x, id)'
  BY CxHoldsNothingNext
<1> QED BY <1>1 DEF CxHeld, CxApart

(* One thread moves. *)
LEMMA CxFatesMove ==
  ASSUME CxBase, CxFates, proc = "ready", NEW t \in Thread, CxOthers(t),
         NEW lines, CxMoved(lines), lines = stdout \/ Head(stdout).t = t,
         \A x \in Thread \ {t} : \A id \in Nat : CxFate(x, id) => CxFate(x, id)',
         \A l \in CxLines : CxHas(stdout', l) /\ l.m = "ask" /\ l.t = t => CxLater(l)',
         t \notin outlived' =>
           /\ CxHeld(t)'
           /\ \A l \in CxLines : CxHas(stdout', l) /\ l.m = "ask" => ~CxHolds(t, l.id)'
  PROVE  CxFates'
<1>1. CxTypes
  BY DEF CxBase
<1>2. CxOnce'
  BY <1>1, CxOnceMoved DEF CxFates
<1>3. \A l \in CxLines : CxHas(stdout', l) /\ l.m = "ask" => CxHas(stdout, l) /\ CxHas(lines, l)
  BY <1>1, CxMovedHas
<1>4. ASSUME NEW l \in CxLines, CxHas(stdout', l), l.m = "ask", l.t # t PROVE CxLater(l)'
  <2>1. CxLater(l) /\ CxHas(stdout, l) /\ l.t \in Thread /\ l.id \in Nat
    BY <1>3, <1>4, CxLineFields DEF CxFates
  <2>2. CxSame(l.t)
    BY <1>4, <2>1 DEF CxOthers
  <2>3. \A b \in CxStart(l.t)' : CxHas(lines, b) => b \in CxStart(l.t)
    BY <2>2 DEF CxStart, CxSame
  <2> QED BY <1>1, <1>4, <2>1, <2>3, CxLaterKept
<1>5. ASSUME NEW x \in Thread \ outlived', x # t
      PROVE  /\ CxHeld(x)'
             /\ \A l \in CxLines : CxHas(stdout', l) /\ l.m = "ask" => ~CxHolds(x, l.id)'
  <2>1. CxSame(x) /\ x \notin outlived /\ CxHeld(x)
    BY <1>5 DEF CxOthers, CxSame, CxFates
  <2>2. \A id : CxHolds(x, id)' <=> CxHolds(x, id)
    BY <2>1, CxHoldsSame DEF CxSame
  <2>3. \A l \in CxLines : CxHas(stdout', l) /\ l.m = "ask" => ~CxHolds(x, l.id)'
    BY <1>3, <1>5, <2>1, <2>2 DEF CxFates
  <2>4. lines = stdout \/ Head(stdout) \notin CxDones(x)
    BY <1>5 DEF CxDones
  <2>5. CxHeld(x)'
    BY <1>1, <1>5, <2>1, <2>4, CxHeldKept DEF CxSame
  <2> QED BY <2>3, <2>5
<1> QED BY <1>2, <1>4, <1>5 DEF CxFates

(* No thread moves. *)
LEMMA CxFatesStill ==
  ASSUME CxBase, CxFates, proc = "ready", \A x \in Thread : CxSame(x),
         NEW lines, CxMoved(lines), lines = stdout \/ Head(stdout).m # "completed",
         \A x \in Thread : \A id \in Nat : CxFate(x, id) => CxFate(x, id)'
  PROVE  CxFates'
<1>1. CxTypes
  BY DEF CxBase
<1>2. CxOnce'
  BY <1>1, CxOnceMoved DEF CxFates
<1>3. \A l \in CxLines : CxHas(stdout', l) /\ l.m = "ask" => CxHas(stdout, l) /\ CxHas(lines, l)
  BY <1>1, CxMovedHas
<1>4. ASSUME NEW l \in CxLines, CxHas(stdout', l), l.m = "ask" PROVE CxLater(l)'
  <2>1. CxLater(l) /\ CxHas(stdout, l) /\ l.t \in Thread /\ l.id \in Nat
    BY <1>3, <1>4, CxLineFields DEF CxFates
  <2>2. CxSame(l.t)
    BY <2>1
  <2>3. \A b \in CxStart(l.t)' : CxHas(lines, b) => b \in CxStart(l.t)
    BY <2>2 DEF CxStart, CxSame
  <2> QED BY <1>1, <1>4, <2>1, <2>3, CxLaterKept
<1>5. ASSUME NEW x \in Thread \ outlived'
      PROVE  /\ CxHeld(x)'
             /\ \A l \in CxLines : CxHas(stdout', l) /\ l.m = "ask" => ~CxHolds(x, l.id)'
  <2>1. CxSame(x) /\ x \notin outlived /\ CxHeld(x)
    BY <1>5 DEF CxSame, CxFates
  <2>2. \A id : CxHolds(x, id)' <=> CxHolds(x, id)
    BY <2>1, CxHoldsSame DEF CxSame
  <2>3. \A l \in CxLines : CxHas(stdout', l) /\ l.m = "ask" => ~CxHolds(x, l.id)'
    BY <1>3, <1>5, <2>1, <2>2 DEF CxFates
  <2>4. lines = stdout \/ Head(stdout) \notin CxDones(x)
    BY <1>5 DEF CxDones
  <2>5. CxHeld(x)'
    BY <1>1, <1>5, <2>1, <2>4, CxHeldKept DEF CxSame
  <2> QED BY <2>3, <2>5
<1> QED BY <1>2, <1>4, <1>5 DEF CxFates

(* A thread whose run is over, or about to begin, holds no question. *)
LEMMA CxFatesEmpty ==
  ASSUME CxBase, CxFates, proc = "ready", NEW t \in Thread, CxOthers(t),
         NEW lines, CxMoved(lines), lines = stdout \/ Head(stdout).t = t,
         UNCHANGED <<wants, lapsed, stolen>>, asking'[t] = 0, queue'[t] = <<>>,
         \A b \in CxStart(t)' : CxHas(lines, b) => b \in CxStart(t)
  PROVE  CxFates'
<1>1. CxTypes
  BY DEF CxBase
<1>2. \A x, id : CxFate(x, id)' <=> CxFate(x, id)
  BY DEF CxFate
<1>3. ASSUME NEW l \in CxLines, CxHas(stdout', l), l.m = "ask", l.t = t PROVE CxLater(l)'
  <2>1. CxLater(l) /\ CxHas(stdout, l)
    BY <1>1, <1>3, CxMovedHas DEF CxFates
  <2> QED BY <1>1, <1>2, <1>3, <2>1, CxLaterKept
<1>4. CxHeld(t)' /\ \A id : ~CxHolds(t, id)'
  BY CxHeldNothing
<1> QED BY <1>2, <1>3, <1>4, CxFatesMove

(* The questions of a run stay different when it reads one.                *)
LEMMA CxApartTail ==
  ASSUME NEW t, queue[t] \in Seq(CxEvents), queue[t] # <<>>, CxApart(t),
         queue'[t] = Tail(queue[t]),
         asking'[t] = asking[t] \/ (Head(queue[t]).e = "ask" /\ asking'[t] = Head(queue[t]).id)
  PROVE  /\ CxApart(t)'
         /\ Head(queue[t]).e = "ask" =>
              \A e : CxHas(queue'[t], e) /\ e.e = "ask" => e.id # Head(queue[t]).id
<1>1. /\ \A i \in DOMAIN queue'[t] : /\ i + 1 \in DOMAIN queue[t] /\ queue'[t][i] = queue[t][i + 1]
                                     /\ i \in Nat /\ i + 1 # 1
      /\ 1 \in DOMAIN queue[t] /\ queue[t][1] = Head(queue[t])
  BY CxTail
<1>2. ASSUME NEW i \in DOMAIN queue'[t], NEW j \in DOMAIN queue'[t],
             queue'[t][i].e = "ask", queue'[t][j].e = "ask", queue'[t][i].id = queue'[t][j].id
      PROVE  i = j
  <2>1. i + 1 = j + 1 /\ i \in Nat /\ j \in Nat
    BY <1>1, <1>2 DEF CxApart
  <2> QED BY <2>1
<1>3. ASSUME NEW i \in DOMAIN queue'[t], queue'[t][i].e = "ask", Head(queue[t]).e = "ask"
      PROVE  queue'[t][i].id # Head(queue[t]).id
  <2>1. i + 1 \in DOMAIN queue[t] /\ 1 \in DOMAIN queue[t] /\ i + 1 # 1
    BY <1>1
  <2> QED BY <1>1, <1>3, <2>1 DEF CxApart
<1>4. \A i \in DOMAIN queue'[t] : queue'[t][i].e = "ask" => queue'[t][i].id # asking[t]
  BY <1>1 DEF CxApart
<1> QED BY <1>2, <1>3, <1>4 DEF CxApart, CxHas

(* The questions of a run stay different when a new one comes.             *)
LEMMA CxApartAppend ==
  ASSUME NEW t, queue[t] \in Seq(CxEvents), CxApart(t), NEW k \in CxEvents,
         queue'[t] = Append(queue[t], k), asking'[t] = asking[t],
         k.e = "ask" => k.id # 0 /\ ~CxHolds(t, k.id)
  PROVE  CxApart(t)'
<1>1. /\ \A i \in DOMAIN queue[t] : queue'[t][i] = queue[t][i] /\ queue[t][i] \in CxEvents
      /\ queue'[t][Len(queue[t]) + 1] = k
      /\ \A i \in DOMAIN queue'[t] : i \in DOMAIN queue[t] \/ i = Len(queue[t]) + 1
  BY CxAppend
<1>2. k.e = "ask" => /\ asking[t] # k.id
                     /\ \A i \in DOMAIN queue[t] : queue[t][i].e = "ask" => queue[t][i].id # k.id
  BY <1>1 DEF CxHolds, CxHas
<1>3. ASSUME NEW i \in DOMAIN queue'[t], NEW j \in DOMAIN queue'[t],
             queue'[t][i].e = "ask", queue'[t][j].e = "ask", queue'[t][i].id = queue'[t][j].id
      PROVE  i = j
  <2>1. CASE i \in DOMAIN queue[t] /\ j \in DOMAIN queue[t]
    BY <1>1, <1>3, <2>1 DEF CxApart
  <2>2. CASE i \in DOMAIN queue[t] /\ j = Len(queue[t]) + 1
    BY <1>1, <1>2, <1>3, <2>2
  <2>3. CASE j \in DOMAIN queue[t] /\ i = Len(queue[t]) + 1
    BY <1>1, <1>2, <1>3, <2>3
  <2> QED BY <1>1, <1>3, <2>1, <2>2, <2>3
<1>4. \A i \in DOMAIN queue'[t] : queue'[t][i].e = "ask" => queue'[t][i].id # asking'[t]
  BY <1>1, <1>2 DEF CxApart
<1> QED BY <1>3, <1>4 DEF CxApart

(* Every question has its fate when a run is launched, now or once the     *)
(* child is ready.                                                         *)
LEMMA CxLaunchesFates ==
  ASSUME CxBase, CxFates, proc = "ready", NEW t \in Thread, CxOthers(t),
         NEW lines, CxLaunched(t, lines), run'[t] \in Nat,
         \/ lines = stdout
         \/ stdout # <<>> /\ lines = Tail(stdout) /\ Head(stdout).t = t,
         step[t] \in {"idle", "opening"}, UNCHANGED <<wants, lapsed, stolen>>,
         \A l \in CxLines : CxHas(lines, l) /\ l.t = t /\ l.m = "turned" => l.n # run'[t]
  PROVE  CxFates'
<1>1. queue[t] = <<>> /\ asking[t] = 0
  BY CxHoldsReads DEF HasRequest
<1>2. queue'[t] = <<>> /\ asking'[t] = 0
  BY <1>1 DEF CxLaunched, CxBusy, CxStarted, CxOpens
<1>3. CxMoved(lines)
  <2>1. CASE CxBusy(t, lines)
    BY <2>1 DEF CxBusy, CxMoved
  <2>2. ASSUME NEW m \in {"opened", "turned", "unloaded", "occupied"},
               stdout' = Append(lines, Line(m, t, run'[t], 0))
        PROVE  CxMoved(lines)
    <3>1. Line(m, t, run'[t], 0) \in CxLines /\ Line(m, t, run'[t], 0).m = m
      BY CxLineType DEF CxKinds
    <3> QED BY <2>2, <3>1 DEF CxMoved
  <2>3. CASE CxOpens(t, run'[t], lines)
    BY <2>2, <2>3 DEF CxOpens
  <2>4. CASE \E reply \in {"turned", "unloaded", "occupied"} : CxStarted(t, run'[t], lines, reply)
    BY <2>2, <2>4 DEF CxStarted
  <2> QED BY <2>1, <2>3, <2>4 DEF CxLaunched
<1>4. \A b \in CxStart(t)' : CxHas(lines, b) => b \in CxStart(t)
  BY DEF CxStart
<1> QED BY <1>2, <1>3, <1>4, CxFatesEmpty

(* Every question has its fate when a run begins (Begin).                  *)
LEMMA CxBeginFates ==
  ASSUME CxBase, CxOrder, CxFates, NEW t \in Thread, Begin(t)
  PROVE  CxFates'
<1>1. /\ CxOthers(t) /\ run'[t] = run[t] + 1 /\ run[t] \in Nat /\ step[t] = "idle"
      /\ UNCHANGED <<wants, lapsed, stolen>>
      /\ \/ proc = "ready" /\ CxLaunched(t, stdout)
         \/ proc' # "ready"
  <2>1. CxTypes
    BY DEF CxBase
  <2> QED BY <2>1, CxBeginDoes
<1>2. run'[t] \in Nat
  BY <1>1
<1>3. CASE proc = "ready" /\ CxLaunched(t, stdout)
  <2>1. ASSUME NEW l \in CxLines, CxHas(stdout, l), l.t = t, l.m = "turned" PROVE l.n # run'[t]
    <3>1. l.n <= run[t] /\ l.n \in Nat
      BY <2>1, CxEarlier
    <3> QED BY <1>1, <3>1
  <2> QED BY <1>1, <1>2, <1>3, <2>1, CxLaunchesFates
<1>4. CASE proc' # "ready"
  BY <1>4 DEF CxFates
<1> QED BY <1>1, <1>3, <1>4

(* Every question has its fate when the answer to initialize is read.      *)
LEMMA CxInitializedFates ==
  ASSUME CxBase, CxOrder, CxFates, NEW t, t = Head(stdout).t, Initialized
  PROVE  CxFates'
<1>1. /\ t \in Thread /\ stdout # <<>> /\ Head(stdout).m = "initialized"
      /\ CxTypes' /\ CxOthers(t)
      /\ UNCHANGED <<wants, lapsed, ghosts>>
      /\ \/ /\ step[t] = "starting" /\ run[t] = Head(stdout).n /\ proc' = "ready"
            /\ CxLaunched(t, Tail(stdout))
         \/ stdout' = Tail(stdout) /\ CxSame(t) /\ proc' = proc
  BY CxInitializedDoes DEF CxBase
<1>2. CASE /\ step[t] = "starting" /\ run[t] = Head(stdout).n /\ proc' = "ready"
           /\ CxLaunched(t, Tail(stdout))
  <2>1. /\ \A l \in CxLines : CxHas(stdout', l) => l.m \notin CxQuestioned
        /\ \A x \in Thread \ outlived' : queue'[x] = <<>> /\ asking'[x] = 0
    BY <1>2, CxInitializedFresh
  <2>2. stdout' \in Seq(CxLines)
    BY <1>1 DEF CxTypes, CxLineTypes
  <2>3. \A i \in DOMAIN stdout' : stdout'[i] \in CxLines /\ CxHas(stdout', stdout'[i])
    BY <2>2 DEF CxHas
  <2>4. CxOnce'
    BY <2>1, <2>3 DEF CxOnce
  <2>5. \A x \in Thread \ outlived' : CxHeld(x)'
    BY <2>1, CxHeldNothing
  <2> QED BY <2>1, <2>4, <2>5 DEF CxFates
<1>3. CASE stdout' = Tail(stdout) /\ CxSame(t) /\ proc' = proc
  <2>1. SUFFICES ASSUME proc = "ready" PROVE CxFates'
    BY <1>3 DEF CxFates
  <2>2. CxMoved(Tail(stdout)) /\ \A x \in Thread : CxSame(x)
    BY <1>1, <1>3 DEF CxMoved, CxOthers
  <2>3. \A x, id : CxFate(x, id)' <=> CxFate(x, id)
    BY <1>1 DEF CxFate, ghosts
  <2> QED BY <1>1, <2>1, <2>2, <2>3, CxFatesStill
<1> QED BY <1>1, <1>2, <1>3

(* Every question has its fate when the answer to thread/start is read.    *)
LEMMA CxOpenedFates ==
  ASSUME CxBase, CxOrder, CxFates, NEW t, t = Head(stdout).t, Opened
  PROVE  CxFates'
<1>1. /\ t \in Thread /\ stdout # <<>> /\ Head(stdout).m = "opened" /\ proc' = proc
      /\ CxOthers(t) /\ run'[t] = run[t] /\ run[t] \in Nat
      /\ UNCHANGED <<wants, lapsed, ghosts>>
      /\ \/ step[t] = "opening" /\ CxLaunched(t, Tail(stdout))
         \/ stdout' = Tail(stdout) /\ CxSame(t)
  BY CxOpenedDoes DEF CxBase
<1>2. UNCHANGED stolen /\ \A x, id : CxFate(x, id)' <=> CxFate(x, id)
  BY <1>1 DEF CxFate, ghosts
<1>3. SUFFICES ASSUME proc = "ready" PROVE CxFates'
  BY <1>1 DEF CxFates
<1>4. CASE step[t] = "opening" /\ CxLaunched(t, Tail(stdout))
  <2>1. stdout \in Seq(CxLines)
    BY DEF CxBase, CxTypes, CxLineTypes
  <2>2. \A l \in CxLines : CxHas(Tail(stdout), l) /\ l.t = t /\ l.m = "turned" => l.n # run'[t]
    BY <1>1, <1>4, <2>1, CxHasTail, CxEarlier DEF Young
  <2>3. /\ t \in Thread /\ stdout # <<>> /\ Head(stdout).t = t /\ CxOthers(t)
        /\ CxLaunched(t, Tail(stdout)) /\ run'[t] \in Nat /\ step[t] \in {"idle", "opening"}
        /\ UNCHANGED <<wants, lapsed, stolen>>
    BY <1>1, <1>2, <1>4
  <2> QED BY <1>3, <2>2, <2>3, CxLaunchesFates
<1>5. CASE stdout' = Tail(stdout) /\ CxSame(t)
  <2>1. CxMoved(Tail(stdout)) /\ \A x \in Thread : CxSame(x)
    BY <1>1, <1>5 DEF CxMoved, CxOthers
  <2> QED BY <1>1, <1>2, <1>3, <2>1, CxFatesStill
<1> QED BY <1>1, <1>4, <1>5

(* Its turn is accepted: what has been cancelled before was read before. *)
LEMMA CxTurnedFates ==
  ASSUME CxBase, CxFates, NEW t, t = Head(stdout).t, Turned
  PROVE  CxFates'
<1>1. /\ t \in Thread /\ stdout # <<>> /\ Head(stdout).m = "turned"
      /\ CxOthers(t) /\ stdout' = Tail(stdout)
      /\ UNCHANGED <<proc, child, active, reader, run, verdict, answered, asking, ghosts>>
      /\ \/ step[t] = "turning" /\ run[t] = Head(stdout).n /\ step'[t] = "reading"
         \/ step'[t] = step[t] /\ (t \in knows') = (t \in knows)
  BY CxTurnedDoes DEF CxBase
<1>2. UNCHANGED <<turn, wants, lapsed, queue, ended, guessed, abandoned, outlived, stolen>>
  BY <1>1 DEF child, reader, ghosts
<1>3. SUFFICES ASSUME proc = "ready" PROVE CxFates'
  BY <1>1 DEF CxFates
<1>4. CxTypes /\ stdout \in Seq(CxLines)
  BY DEF CxBase, CxTypes, CxLineTypes
<1>5. CxMoved(Tail(stdout)) /\ \A x, id : CxFate(x, id)' <=> CxFate(x, id)
  BY <1>1, <1>2 DEF CxMoved, CxFate
<1>6. CASE step[t] = "turning" /\ run[t] = Head(stdout).n /\ step'[t] = "reading"
  <2>1. Head(stdout) \in CxStart(t) /\ 1 \in DOMAIN stdout /\ stdout[1] = Head(stdout)
    BY <1>1, <1>4, <1>6, CxHead, CxTail DEF CxStart, CxTypes
  <2>2. ~CxBetween(stdout, {}, CxDones(t), CxStart(t))
    <3>1. \A c \in DOMAIN stdout : ~(c < 1)
      BY <1>4
    <3> QED BY <2>1, <3>1 DEF CxBetween
  <2>3. \A id : CxHolds(t, id)' <=> CxHolds(t, id)
    BY <1>1, <1>2, CxHoldsSame
  <2>4. ASSUME t \notin outlived PROVE CxHeld(t)'
    <3>1. CxHeld(t)
      BY <1>1, <1>3, <2>4 DEF CxFates
    <3>2. CxApart(t)'
      BY <1>1, <1>2, <3>1 DEF CxHeld, CxApart
    <3>3. ended[t] = "open" => \A id \in Nat : CxHolds(t, id) => CxFate(t, id)
      BY <1>6, <2>2, <3>1 DEF CxHeld
    <3> QED BY <1>2, <1>5, <2>3, <3>2, <3>3 DEF CxHeld
  <2>5. ASSUME NEW l \in CxLines, CxHas(stdout', l), l.m = "ask", l.t = t PROVE CxLater(l)'
    <3>1. CxLater(l) /\ CxHas(stdout, l)
      BY <1>3, <1>4, <1>5, <2>5, CxMovedHas DEF CxFates
    <3>2. \A b \in CxStart(l.t)' : CxHas(Tail(stdout), b) => b \in CxStart(l.t)
      BY <1>6, <2>5 DEF CxStart
    <3> QED BY <1>4, <1>5, <2>5, <3>1, <3>2, CxLaterKept
  <2>6. \A l \in CxLines : CxHas(stdout', l) /\ l.m = "ask" /\ t \notin outlived => ~CxHolds(t, l.id)'
    BY <1>1, <1>3, <1>4, <1>5, <2>3, CxMovedHas DEF CxFates
  <2> QED BY <1>1, <1>2, <1>3, <1>5, <2>4, <2>5, <2>6, CxFatesMove
<1>7. CASE step'[t] = step[t] /\ (t \in knows') = (t \in knows)
  <2>1. CxSame(t)
    BY <1>1, <1>2, <1>7 DEF CxSame
  <2>2. \A x \in Thread : CxSame(x)
    BY <2>1, <1>1 DEF CxOthers
  <2> QED BY <1>1, <1>3, <1>5, <2>2, CxFatesStill
<1> QED BY <1>1, <1>6, <1>7

(* Every question has its fate when a refused turn is read (TurnRefused).  *)
LEMMA CxRefusedFates ==
  ASSUME CxBase, CxFates, NEW t, t = Head(stdout).t, TurnRefused
  PROVE  CxFates'
<1>1. /\ t \in Thread /\ stdout # <<>> /\ Head(stdout).m \in {"unloaded", "occupied"}
      /\ CxOthers(t) /\ stdout' = Tail(stdout)
      /\ UNCHANGED <<proc, child, ghosts>>
      /\ CxEnded(t, "failed") \/ CxSame(t)
  BY CxRefusedDoes DEF CxBase
<1>2. UNCHANGED <<wants, lapsed, stolen>> /\ CxMoved(Tail(stdout))
  BY <1>1 DEF child, ghosts, CxMoved
<1>3. SUFFICES ASSUME proc = "ready" PROVE CxFates'
  BY <1>1 DEF CxFates
<1>4. CASE CxEnded(t, "failed")
  <2>1. asking'[t] = 0 /\ queue'[t] = <<>> /\ CxStart(t)' = {}
    BY <1>4 DEF CxEnded, CxStart
  <2> QED BY <1>1, <1>2, <1>3, <2>1, CxFatesEmpty
<1>5. CASE CxSame(t)
  <2>1. \A x \in Thread : CxSame(x)
    BY <1>1, <1>5 DEF CxOthers
  <2>2. \A x, id : CxFate(x, id)' <=> CxFate(x, id)
    BY <1>2 DEF CxFate
  <2> QED BY <1>1, <1>2, <1>3, <2>1, <2>2, CxFatesStill
<1> QED BY <1>1, <1>4, <1>5

(* Every question has its fate when a request for user input is read.      *)
LEMMA CxAskedFates ==
  ASSUME CxBase, CxOrder, CxQuestions, CxFates, NEW t, t = Head(stdout).t,
         NEW id, id = Head(stdout).id, UserInputRequested
  PROVE  CxFates'
<1>0. PICK n, h : n = Head(stdout).n /\ h = Head(stdout)
  OBVIOUS
<1>1. /\ t \in Thread /\ stdout # <<>> /\ h.m = "ask" /\ id \in 1..MaxAsks
      /\ CxOthers(t) /\ stdout' = Tail(stdout)
      /\ UNCHANGED <<proc, turn, lapsed, active, knows, ended, runs, asking, ghosts>>
      /\ \/ /\ Accepts(t, n) /\ wants' = wants
            /\ queue'[t] = (IF Listening(t) THEN Append(queue[t], Event("ask", n, id)) ELSE queue[t])
         \/ /\ queue' = queue
            /\ wants' = (IF Writable THEN Without(id) ELSE wants)
  BY <1>0, CxAskedDoes DEF CxBase
<1>2. UNCHANGED <<step, run, outlived, stolen>> /\ CxMoved(Tail(stdout))
  BY <1>1 DEF runs, ghosts, CxMoved
<1>3. SUFFICES ASSUME proc = "ready" PROVE CxFates'
  BY <1>1 DEF CxFates
<1>4. CxTypes /\ stdout \in Seq(CxLines) /\ MaxAsks \in Nat /\ queue[t] \in Seq(CxEvents)
  BY <1>1, CxKnown DEF CxBase, CxTypes, CxLineTypes
<1>5. /\ h \in CxLines /\ CxHas(stdout, h) /\ n \in Nat /\ id \in Nat /\ id # 0
      /\ h.t = t /\ h.n = n /\ h.id = id
  BY <1>0, <1>1, <1>4, CxHead, CxHasTail DEF CxTypes
<1>6. \A l \in CxLines : CxHas(stdout', l) => CxHas(stdout, l) /\ (l.m = "ask" => l.id # id)
  BY <1>0, <1>1, <1>3, <1>4, <1>5, CxHasTail, CxOnceTail DEF CxFates, CxOnce
<1>7. /\ \A x \in Thread \ outlived : ~CxHolds(x, id)
      /\ CxLater(h)
  BY <1>1, <1>3, <1>5 DEF CxFates
<1>8. \A x \in Thread : \A i \in Nat : CxFate(x, i) => CxFate(x, i)' \/ (x = t /\ i = id)
  <2>1. CASE wants' = wants
    BY <1>1, <1>2, <2>1 DEF CxFate
  <2>2. CASE wants' = (IF Writable THEN Without(id) ELSE wants)
    <3>1. \A w \in wants : w.id = id => w.t = t
      BY <1>1, <1>3, <1>5 DEF CxQuestions, CxWant
    <3>2. \A w \in wants : w.id # id => w \in wants'
      BY <2>2 DEF Without
    <3> QED BY <1>1, <1>2, <3>1, <3>2 DEF CxFate
  <2> QED BY <1>1, <2>1, <2>2
<1>9. ASSUME NEW l \in CxLines, CxHas(stdout', l), l.m = "ask", l.t = t PROVE CxLater(l)'
  <2>1. CxLater(l) /\ CxHas(stdout, l) /\ l.id # id /\ l.id \in Nat
    BY <1>3, <1>6, <1>9, CxLineFields DEF CxFates
  <2>2. CxFate(l.t, l.id) => CxFate(l.t, l.id)'
    BY <1>1, <1>8, <1>9, <2>1
  <2>3. \A b \in CxStart(l.t)' : CxHas(Tail(stdout), b) => b \in CxStart(l.t)
    BY <1>2 DEF CxStart
  <2> QED BY <1>2, <1>4, <1>9, <2>1, <2>2, <2>3, CxLaterKept
<1>10. Head(stdout) \notin CxDones(t)
  BY <1>0, <1>1 DEF CxDones
<1>11. CASE queue'[t] = queue[t]
  <2>1. \A i : CxHolds(t, i)' <=> CxHolds(t, i)
    BY <1>1, <1>11, CxHoldsSame
  <2>2. ASSUME t \notin outlived' PROVE CxHeld(t)'
    <3>1. CxHeld(t)
      BY <1>1, <1>2, <1>3, <2>2 DEF CxFates
    <3>2. \A i \in Nat : CxHolds(t, i) /\ CxFate(t, i) => CxFate(t, i)'
      BY <1>1, <1>2, <1>7, <1>8, <2>2
    <3> QED BY <1>1, <1>2, <1>4, <1>10, <1>11, <3>1, <3>2, CxHeldKept
  <2>3. \A l \in CxLines : CxHas(stdout', l) /\ l.m = "ask" /\ t \notin outlived' => ~CxHolds(t, l.id)'
    BY <1>1, <1>2, <1>3, <1>6, <2>1 DEF CxFates
  <2>4. \A x \in Thread \ {t} : \A i \in Nat : CxFate(x, i) => CxFate(x, i)'
    BY <1>8
  <2>5. t \in Thread /\ Head(stdout).t = t /\ CxOthers(t) /\ CxMoved(Tail(stdout))
    BY <1>0, <1>1, <1>2, <1>5
  <2> QED BY <1>3, <1>9, <2>2, <2>3, <2>4, <2>5, CxFatesMove
<1>12. CASE /\ Accepts(t, n) /\ wants' = wants /\ Listening(t)
            /\ queue'[t] = Append(queue[t], Event("ask", n, id))
  <2>0. PICK k : k = Event("ask", n, id)
    OBVIOUS
  <2>1. k \in CxEvents /\ k.e = "ask" /\ k.id = id /\ queue'[t] = Append(queue[t], k)
    <3>1. n \in Nat /\ id \in Nat /\ id \in 1..MaxAsks
      BY <1>1, <1>5
    <3>2. /\ Event("ask", n, id) \in CxEvents /\ Event("ask", n, id).e = "ask"
          /\ Event("ask", n, id).id = id
      BY <3>1, CxEventType
    <3> QED BY <1>12, <2>0, <3>2
  <2>2. \A e : CxHas(queue'[t], e) <=> CxHas(queue[t], e) \/ e = k
    BY <1>4, <2>1, CxHasAppend
  <2>3. \A i \in Nat : CxHolds(t, i)' => CxHolds(t, i) \/ i = id
    BY <1>1, <2>1, <2>2 DEF CxHolds
  <2>4. \A i \in Nat : CxFate(t, i) => CxFate(t, i)'
    BY <1>1, <1>2, <1>12 DEF CxFate
  <2>5. ASSUME t \notin outlived', ended'[t] = "open", ~CxFate(t, id)
        PROVE  \/ step'[t] = "reading" /\ run'[t] \notin turn'[t]
               \/ step'[t] = "turning" /\ CxBetween(stdout, {}, CxDones(t), CxStart(t))'
    <3>1. CxBetween(stdout, {h}, CxDone(t, n), CxStart(t))
      BY <1>5, <1>7, <2>5 DEF CxLater
    <3>2. CASE step[t] = "turning"
      <4>1. CxBetween(stdout', {h}, CxDone(t, n), CxStart(t))
        <5>1. stdout # <<>> /\ Tail(stdout) = Tail(stdout) /\ (\E x \in {h} : CxHas(stdout, x))
          BY <1>1, <1>5
        <5> QED BY <1>1, <1>4, <3>1, <5>1, CxBetweenMove
      <4>2. CxBetween(stdout', {}, CxDones(t), CxStart(t)')
        <5>1. CxDone(t, n) \subseteq CxDones(t) /\ CxStart(t)' = CxStart(t)
          BY <1>2 DEF CxDone, CxDones, CxStart
        <5> QED BY <4>1, <5>1, CxBetweenLess
      <4> QED BY <1>2, <3>2, <4>2 DEF CxDones
    <3>3. CASE step[t] = "reading"
      <4>1. active[t] = n /\ n = run[t]
        BY <1>1, <1>12, <3>3, CxKnown DEF Accepts, Listening, CxThread
      <4>2. \E c \in DOMAIN stdout : stdout[c] \in CxDone(t, n)
        BY <3>1 DEF CxBetween
      <4>3. PICK l \in CxLines : CxHas(stdout, l) /\ l.m = "completed" /\ l.t = t /\ l.n = n
        BY <4>2 DEF CxDone, CxHas
      <4>4. n \notin turn[t]
        BY <4>3 DEF CxOrder, CxLine
      <4> QED BY <1>1, <1>2, <3>3, <4>1, <4>4
    <3> QED BY <1>12, <3>2, <3>3 DEF Listening
  <2>6. ASSUME t \notin outlived' PROVE CxHeld(t)'
    <3>1. CxHeld(t) /\ ~CxHolds(t, id)
      BY <1>1, <1>2, <1>3, <1>7, <2>6 DEF CxFates
    <3>2. CxApart(t)'
      BY <1>1, <1>4, <1>5, <2>1, <3>1, CxApartAppend DEF CxHeld
    <3>3. ASSUME ended'[t] = "open", NEW i \in Nat, CxHolds(t, i)'
          PROVE  \/ CxFate(t, i)'
                 \/ step'[t] = "reading" /\ run'[t] \notin turn'[t]
                 \/ step'[t] = "turning" /\ CxBetween(stdout, {}, CxDones(t), CxStart(t))'
      <4>1. CASE i = id
        BY <1>5, <2>4, <2>5, <2>6, <3>3, <4>1
      <4>2. CASE CxHolds(t, i)
        <5>1. \/ CxFate(t, i)
              \/ step[t] = "reading" /\ run[t] \notin turn[t]
              \/ step[t] = "turning" /\ CxBetween(stdout, {}, CxDones(t), CxStart(t))
          BY <1>1, <3>1, <3>3, <4>2 DEF CxHeld
        <5>2. CASE CxBetween(stdout, {}, CxDones(t), CxStart(t)) /\ step[t] = "turning"
          <6>1. \A b \in CxStart(t)' : CxHas(Tail(stdout), b) => b \in CxStart(t)
            BY <1>2 DEF CxStart
          <6>2. CxBetween(stdout', {}, CxDones(t), CxStart(t)')
            BY <1>1, <1>4, <1>10, <5>2, <6>1, CxBetweenMove
          <6> QED BY <1>2, <5>2, <6>2 DEF CxDones
        <5> QED BY <1>1, <1>2, <2>4, <5>1, <5>2
      <4> QED BY <2>3, <3>3, <4>1, <4>2
    <3> QED BY <3>2, <3>3 DEF CxHeld
  <2>7. \A l \in CxLines : CxHas(stdout', l) /\ l.m = "ask" /\ t \notin outlived' => ~CxHolds(t, l.id)'
    <3>1. \A l \in CxLines : CxHas(stdout', l) /\ l.m = "ask" => l.id \in Nat /\ l.id # id /\ CxHas(stdout, l)
      BY <1>6, CxLineFields
    <3> QED BY <1>1, <1>2, <1>3, <2>3, <3>1 DEF CxFates
  <2>8. \A x \in Thread \ {t} : \A i \in Nat : CxFate(x, i) => CxFate(x, i)'
    BY <1>8
  <2> QED BY <1>0, <1>1, <1>2, <1>3, <1>5, <1>9, <2>6, <2>7, <2>8, CxFatesMove
<1> QED BY <1>1, <1>11, <1>12

(* Every question has its fate when a call of a dynamic tool is read.      *)
LEMMA CxToolFates ==
  ASSUME CxBase, CxQuestions, CxFates, ToolCalled
  PROVE  CxFates'
<1>1. /\ stdout # <<>> /\ Head(stdout).m = "tool" /\ CxAllSame /\ stdout' = Tail(stdout)
      /\ UNCHANGED <<proc, lapsed, ghosts>>
      /\ \/ wants' = wants
         \/ wants' = (IF Writable THEN Without(Head(stdout).id) ELSE wants)
  BY CxToolDoes DEF CxBase
<1>2. SUFFICES ASSUME proc = "ready" PROVE CxFates'
  BY <1>1 DEF CxFates
<1>3. stdout \in Seq(CxLines) /\ CxTypes
  BY DEF CxBase, CxTypes, CxLineTypes
<1>4. Head(stdout) \in CxLines /\ CxHas(stdout, Head(stdout))
  BY <1>1, <1>3, CxHead, CxHasTail DEF CxTypes
<1>5. \A w \in wants : w.id = Head(stdout).id => w.tool
  BY <1>1, <1>2, <1>4 DEF CxQuestions, CxWant
<1>6. \A w \in wants : ~w.tool => w \in wants'
  BY <1>1, <1>5 DEF Without
<1>7. \A x, i : CxFate(x, i) => CxFate(x, i)'
  BY <1>1, <1>6 DEF CxFate, ghosts
<1>8. CxMoved(Tail(stdout)) /\ \A x \in Thread : CxSame(x)
  BY <1>1, CxStill DEF CxMoved
<1> QED BY <1>1, <1>2, <1>7, <1>8, CxFatesStill

(* Every question has its fate when the end of a request is read.          *)
LEMMA CxResolvedFates ==
  ASSUME CxBase, CxFates, Resolved
  PROVE  CxFates'
<1>1. /\ stdout # <<>> /\ Head(stdout).m = "resolved" /\ CxAllSame
      /\ stdout' = Tail(stdout) /\ UNCHANGED <<proc, child, ghosts>>
  BY CxResolvedDoes DEF CxBase
<1>2. \A x, i : CxFate(x, i)' <=> CxFate(x, i)
  BY <1>1 DEF CxFate, child, ghosts
<1>3. CxMoved(Tail(stdout)) /\ \A x \in Thread : CxSame(x)
  BY <1>1, CxStill DEF CxMoved
<1>4. CASE proc = "ready"
  BY <1>1, <1>2, <1>3, <1>4, CxFatesStill
<1> QED BY <1>1, <1>4 DEF CxFates

(* A completion that a waiting run takes closes its queue. *)
LEMMA CxEventFates ==
  ASSUME CxBase, CxFates, NEW t, t = Head(stdout).t, NEW n, n = Head(stdout).n, TurnEvent
  PROVE  CxFates'
<1>1. /\ t \in Thread /\ n \in Nat /\ stdout # <<>> /\ Head(stdout).m \in {"error", "completed"}
      /\ CxOthers(t) /\ stdout' = Tail(stdout)
      /\ UNCHANGED <<proc, child, runs, asking, outlived, stolen>>
      /\ \/ /\ queue'[t] = (IF Listening(t)
                            THEN Append(queue[t], Event(Head(stdout).m, n, 0)) ELSE queue[t])
            /\ ended'[t] = (IF Head(stdout).m = "completed" /\ Listening(t)
                            THEN "closed" ELSE ended[t])
         \/ ~Accepts(t, n) /\ queue'[t] = queue[t] /\ ended'[t] = ended[t]
  BY CxEventDoes DEF CxBase, CxSame
<1>2. UNCHANGED <<turn, wants, lapsed, step, run>> /\ CxMoved(Tail(stdout))
  BY <1>1 DEF child, runs, CxMoved
<1>3. SUFFICES ASSUME proc = "ready" PROVE CxFates'
  BY <1>1 DEF CxFates
<1>4. CxTypes /\ queue[t] \in Seq(CxEvents)
  BY <1>1, CxKnown
<1>5. \A x, i : CxFate(x, i)' <=> CxFate(x, i)
  BY <1>1, <1>2 DEF CxFate
<1>6. ASSUME NEW l \in CxLines, CxHas(stdout', l), l.m = "ask", l.t = t PROVE CxLater(l)'
  <2>1. CxLater(l) /\ CxHas(stdout, l)
    BY <1>2, <1>3, <1>4, <1>6, CxMovedHas DEF CxFates
  <2>2. \A b \in CxStart(l.t)' : CxHas(Tail(stdout), b) => b \in CxStart(l.t)
    BY <1>2 DEF CxStart
  <2> QED BY <1>2, <1>4, <1>5, <1>6, <2>1, <2>2, CxLaterKept
<1>7. /\ \A e \in CxEvents : e.e = "ask" => (CxHas(queue'[t], e) <=> CxHas(queue[t], e))
      /\ CxApart(t) => CxApart(t)'
  <2>1. CASE queue'[t] = Append(queue[t], Event(Head(stdout).m, n, 0))
    <3>0. PICK k : k = Event(Head(stdout).m, n, 0)
      OBVIOUS
    <3>1. k \in CxEvents /\ k.e # "ask" /\ queue'[t] = Append(queue[t], k)
      BY <1>1, <2>1, <3>0, CxEventType
    <3>2. \A e : CxHas(queue'[t], e) <=> CxHas(queue[t], e) \/ e = k
      BY <1>4, <3>1, CxHasAppend
    <3>3. CxApart(t) => CxApart(t)'
      BY <1>1, <1>4, <3>1, CxApartAppend
    <3> QED BY <3>1, <3>2, <3>3
  <2>2. CASE queue'[t] = queue[t]
    <3>1. asking'[t] = asking[t]
      BY <1>1
    <3>2. CxApart(t) => CxApart(t)'
      BY <2>2, <3>1 DEF CxApart
    <3> QED BY <2>2, <3>2
  <2>3. \/ queue'[t] = Append(queue[t], Event(Head(stdout).m, n, 0))
        \/ queue'[t] = queue[t]
    BY <1>1
  <2> QED BY <2>1, <2>2, <2>3
<1>8. \A i : CxHolds(t, i)' <=> CxHolds(t, i)
  BY <1>1, <1>7 DEF CxHolds
<1>9. Head(stdout).m = "completed" /\ step[t] = "turning" => ended'[t] # "open"
  BY <1>1, CxKnown DEF CxThread, HasRequest, Accepts, Listening
<1>10. ASSUME t \notin outlived' PROVE CxHeld(t)'
  <2>1. CxHeld(t) /\ CxApart(t)'
    BY <1>1, <1>3, <1>7, <1>10 DEF CxFates, CxHeld
  <2>2. Head(stdout) \notin CxDones(t) \/ ended'[t] # "open" \/ step[t] # "turning"
    BY <1>9 DEF CxDones
  <2>3. ended'[t] = "open" => ended[t] = "open"
    BY <1>1
  <2> QED BY <1>1, <1>2, <1>4, <1>5, <1>8, <2>1, <2>2, <2>3, CxHeldMoves
<1>11. \A l \in CxLines : CxHas(stdout', l) /\ l.m = "ask" /\ t \notin outlived' => ~CxHolds(t, l.id)'
  BY <1>1, <1>2, <1>3, <1>4, <1>8, CxMovedHas DEF CxFates
<1> QED BY <1>1, <1>2, <1>3, <1>5, <1>6, <1>10, <1>11, CxFatesMove

(* An open question of a thread is closed with an answer for another one. *)
LEMMA CxForeignFates ==
  ASSUME NEW t, NEW id, wants' = Without(id), stolen' = stolen \cup Foreign(id, t), lapsed' = lapsed
  PROVE  \A x, i : CxFate(x, i) => \/ CxFate(x, i)'
                                   \/ x = t /\ i = id /\ \E w \in wants : w.id = i /\ w.t = t
<1> SUFFICES ASSUME NEW x, NEW i, CxFate(x, i),
                    ~(x = t /\ i = id /\ \E w \in wants : w.id = i /\ w.t = t)
             PROVE  CxFate(x, i)'
  OBVIOUS
<1>1. CASE i \in lapsed \cup stolen
  BY <1>1 DEF CxFate
<1>2. CASE \E w \in wants : w.id = i /\ w.t = x /\ ~w.tool
  <2>1. PICK w \in wants : w.id = i /\ w.t = x /\ ~w.tool
    BY <1>2
  <2>2. CASE i # id
    <3>1. w \in wants'
      BY <2>1, <2>2 DEF Without
    <3> QED BY <2>1, <3>1 DEF CxFate
  <2>3. CASE i = id
    <3>1. x # t
      BY <2>1, <2>3
    <3>2. i \in Foreign(id, t)
      BY <2>1, <2>3, <3>1 DEF Foreign
    <3> QED BY <3>2 DEF CxFate
  <2> QED BY <2>2, <2>3
<1> QED BY <1>1, <1>2 DEF CxFate

(* The run of t, or what it reads, closes question id, which it holds. *)
LEMMA CxClosesFates ==
  ASSUME CxBase, CxQuestions, CxFates, proc = "ready", NEW t \in Thread, CxOthers(t),
         NEW id \in Nat, wants' = Without(id), stolen' = stolen \cup Foreign(id, t),
         t \notin outlived => /\ CxHolds(t, id) /\ ~CxHolds(t, id)' /\ CxApart(t)'
                             /\ \A i \in Nat : CxHolds(t, i)' => CxHolds(t, i),
         UNCHANGED <<stdout, turn, lapsed, ended, step, run, outlived>>
  PROVE  CxFates'
<1>1. CxTypes /\ CxMoved(stdout)
  BY DEF CxBase, CxMoved
<1>2. \A w \in wants : w.t = t => t \notin outlived
  <2>1. \A w \in wants : w.n \in turn[w.t]
    BY DEF CxQuestions, CxWant
  <2> QED BY <2>1, CxKnown DEF CxThread
<1>3. \A x, i : CxFate(x, i) => CxFate(x, i)' \/ (x = t /\ i = id /\ t \notin outlived)
  BY <1>2, CxForeignFates
<1>4. ASSUME NEW l \in CxLines, CxHas(stdout', l), l.m = "ask", l.t = t PROVE CxLater(l)'
  <2>1. CxLater(l) /\ CxHas(stdout, l) /\ (t \notin outlived => ~CxHolds(t, l.id))
    BY <1>4 DEF CxFates
  <2>2. CxFate(l.t, l.id) => CxFate(l.t, l.id)'
    BY <1>3, <2>1
  <2>3. \A b \in CxStart(l.t)' : CxHas(stdout, b) => b \in CxStart(l.t)
    BY DEF CxStart
  <2> QED BY <1>1, <1>4, <2>1, <2>2, <2>3, CxLaterKept
<1>5. ASSUME t \notin outlived' PROVE CxHeld(t)'
  <2>1. CxHeld(t) /\ CxApart(t)'
    BY <1>5 DEF CxFates
  <2>2. \A i \in Nat : CxHolds(t, i)' /\ CxFate(t, i) => CxFate(t, i)'
    BY <1>3, <1>5
  <2> QED BY <1>1, <1>5, <2>1, <2>2, CxHeldMoves
<1>6. \A l \in CxLines : CxHas(stdout', l) /\ l.m = "ask" /\ t \notin outlived' => ~CxHolds(t, l.id)'
  <2>1. \A l \in CxLines : l.id \in Nat
    BY CxLineFields
  <2> QED BY <2>1 DEF CxFates
<1>7. \A x \in Thread \ {t} : \A i \in Nat : CxFate(x, i) => CxFate(x, i)'
  BY <1>3
<1> QED BY <1>1, <1>4, <1>5, <1>6, <1>7, CxFatesMove

(* Every question has its fate when a run reads its queue.                 *)
LEMMA CxReadFates ==
  ASSUME CxBase, CxQuestions, CxFates, NEW t \in Thread, Read(t)
  PROVE  CxFates'
<1>0. PICK id : id = Head(queue[t]).id
  OBVIOUS
<1>1. /\ step[t] = "reading" /\ queue[t] # <<>> /\ CxOthers(t)
      /\ UNCHANGED <<proc, stdout, turn, lapsed, ended, run, outlived>>
      /\ \/ /\ Head(queue[t]).e = "ask" /\ id \in 1..MaxAsks
            /\ queue'[t] = Tail(queue[t]) /\ step' = step
            /\ \/ asking[t] = 0 /\ asking'[t] = id /\ UNCHANGED <<wants, stolen>>
               \/ /\ asking[t] # 0 /\ asking' = asking
                  /\ wants' = Without(id) /\ stolen' = stolen \cup Foreign(id, t)
         \/ /\ \E v \in {"failed", "dropped", "completed"} : CxEnded(t, v)
            /\ UNCHANGED <<wants, stolen>>
  BY <1>0, CxReadDoes DEF CxBase, CxReadKeeps
<1>2. SUFFICES ASSUME proc = "ready" PROVE CxFates'
  BY <1>1 DEF CxFates
<1>3. queue[t] \in Seq(CxEvents) /\ MaxAsks \in Nat /\ CxTypes /\ CxMoved(stdout)
  BY <1>1, CxKnown DEF CxMoved
<1>4. CASE \E v \in {"failed", "dropped", "completed"} : CxEnded(t, v) /\ UNCHANGED <<wants, stolen>>
  <2>1. asking'[t] = 0 /\ queue'[t] = <<>> /\ CxStart(t)' = {}
    BY <1>4 DEF CxEnded, CxStart
  <2> QED BY <1>1, <1>2, <1>3, <1>4, <2>1, CxFatesEmpty
<1>5. CASE /\ Head(queue[t]).e = "ask" /\ id \in 1..MaxAsks
           /\ queue'[t] = Tail(queue[t]) /\ step' = step
           /\ \/ asking[t] = 0 /\ asking'[t] = id /\ UNCHANGED <<wants, stolen>>
              \/ /\ asking[t] # 0 /\ asking' = asking
                 /\ wants' = Without(id) /\ stolen' = stolen \cup Foreign(id, t)
  <2>1. /\ Head(queue[t]) \in CxEvents /\ CxHas(queue[t], Head(queue[t])) /\ id \in Nat /\ id # 0
        /\ \A e : CxHas(Tail(queue[t]), e) => CxHas(queue[t], e)
    BY <1>1, <1>3, <1>5, CxHasTail
  <2>2. CxHolds(t, id)
    BY <1>0, <1>5, <2>1 DEF CxHolds
  <2>3. ASSUME NEW i \in Nat, CxHolds(t, i)' PROVE CxHolds(t, i)
    <3>1. CASE asking'[t] = i
      BY <1>5, <2>2, <2>3, <3>1 DEF CxHolds
    <3>2. CASE \E e \in CxEvents : CxHas(queue'[t], e) /\ e.e = "ask" /\ e.id = i
      BY <1>5, <2>1, <2>3, <3>2 DEF CxHolds
    <3> QED BY <2>3, <3>1, <3>2 DEF CxHolds
  <2>4. ASSUME CxApart(t)
        PROVE  CxApart(t)' /\ \A e : CxHas(queue'[t], e) /\ e.e = "ask" => e.id # id
    BY <1>0, <1>1, <1>3, <1>5, <2>4, CxApartTail
  <2>5. CASE asking'[t] = id /\ UNCHANGED <<wants, stolen>>
    <3>1. \A x, i : CxFate(x, i)' <=> CxFate(x, i)
      BY <1>1, <2>5 DEF CxFate
    <3>2. ASSUME NEW l \in CxLines, CxHas(stdout', l), l.m = "ask", l.t = t PROVE CxLater(l)'
      <4>1. CxLater(l) /\ CxHas(stdout, l)
        BY <1>1, <1>2, <3>2 DEF CxFates
      <4>2. \A b \in CxStart(l.t)' : CxHas(stdout, b) => b \in CxStart(l.t)
        BY <1>1, <1>5 DEF CxStart
      <4> QED BY <1>3, <3>1, <3>2, <4>1, <4>2, CxLaterKept
    <3>3. ASSUME t \notin outlived' PROVE CxHeld(t)'
      <4>1. CxHeld(t) /\ CxApart(t)'
        BY <1>1, <1>2, <2>4, <3>3 DEF CxFates, CxHeld
      <4> QED BY <1>1, <1>3, <1>5, <2>3, <3>1, <4>1, CxHeldMoves
    <3>4. \A l \in CxLines : CxHas(stdout', l) /\ l.m = "ask" /\ t \notin outlived' => ~CxHolds(t, l.id)'
      <4>1. \A l \in CxLines : l.id \in Nat
        BY CxLineFields
      <4> QED BY <1>1, <1>2, <2>3, <4>1 DEF CxFates
    <3> QED BY <1>1, <1>2, <1>3, <3>1, <3>2, <3>3, <3>4, CxFatesMove
  <2>6. CASE /\ asking[t] # 0 /\ asking' = asking
             /\ wants' = Without(id) /\ stolen' = stolen \cup Foreign(id, t)
    <3>1. ASSUME t \notin outlived PROVE CxApart(t)' /\ ~CxHolds(t, id)'
      <4>1. CxApart(t)
        BY <1>2, <3>1 DEF CxFates, CxHeld
      <4>2. 1 \in DOMAIN queue[t] /\ queue[t][1] = Head(queue[t])
        BY <1>1, <1>3, CxTail
      <4>3. asking[t] # id
        BY <1>0, <1>5, <4>1, <4>2 DEF CxApart
      <4> QED BY <2>4, <2>6, <4>1, <4>3 DEF CxHolds
    <3> QED BY <1>1, <1>2, <1>5, <2>1, <2>2, <2>3, <2>6, <3>1, CxClosesFates
  <2> QED BY <1>5, <2>5, <2>6
<1> QED BY <1>1, <1>4, <1>5

(* Every question has its fate when the user answers.                      *)
LEMMA CxAnswerFates ==
  ASSUME CxBase, CxQuestions, CxFates, NEW t \in Thread, Answer(t)
  PROVE  CxFates'
<1>0. PICK id : id = asking[t]
  OBVIOUS
<1>1. /\ id # 0 /\ CxOthers(t) /\ wants' = Without(id) /\ asking'[t] = 0
      /\ stolen' = stolen \cup Foreign(id, t)
      /\ UNCHANGED <<proc, stdout, turn, lapsed, reader, runs, outlived>>
  BY <1>0, CxAnswerDoes DEF CxBase
<1>2. UNCHANGED <<queue, ended, step, run>>
  BY <1>1 DEF reader, runs
<1>3. SUFFICES ASSUME proc = "ready" PROVE CxFates'
  BY <1>1 DEF CxFates
<1>4. id \in Nat /\ queue[t] \in Seq(CxEvents) /\ MaxAsks \in Nat
  BY <1>0, CxKnown
<1>5. CxHolds(t, id) /\ \A i \in Nat : CxHolds(t, i)' => CxHolds(t, i)
  BY <1>0, <1>1, <1>2 DEF CxHolds
<1>6. ASSUME t \notin outlived PROVE CxApart(t)' /\ ~CxHolds(t, id)'
  <2>1. CxApart(t)
    BY <1>3, <1>6 DEF CxFates, CxHeld
  <2>2. \A i \in DOMAIN queue[t] : queue[t][i] \in CxEvents
    BY <1>4
  <2>3. \A i \in DOMAIN queue[t] : queue[t][i].e = "ask" => queue[t][i].id # 0
    BY <1>4, <2>2 DEF CxEvents
  <2>4. CxApart(t)'
    BY <1>1, <1>2, <2>1, <2>3 DEF CxApart
  <2>5. ~CxHolds(t, id)'
    BY <1>0, <1>1, <1>2, <2>1 DEF CxHolds, CxHas, CxApart
  <2> QED BY <2>4, <2>5
<1> QED BY <1>1, <1>2, <1>3, <1>4, <1>5, <1>6, CxClosesFates

(* Every question has its fate when a run reads the failure of its queue.  *)
LEMMA CxReadFailureFates ==
  ASSUME CxBase, CxFates, NEW t \in Thread, ReadFailure(t)
  PROVE  CxFates'
<1>1. /\ CxOthers(t) /\ CxEnded(t, "failed") /\ UNCHANGED <<proc, stdout, child, ghosts>>
  BY CxReadFailureDoes DEF CxBase
<1>2. UNCHANGED <<wants, lapsed, stolen>> /\ CxMoved(stdout)
  BY <1>1 DEF child, ghosts, CxMoved
<1>3. asking'[t] = 0 /\ queue'[t] = <<>> /\ CxStart(t)' = {}
  BY <1>1 DEF CxEnded, CxStart
<1>4. CASE proc = "ready"
  BY <1>1, <1>2, <1>3, <1>4, CxFatesEmpty
<1> QED BY <1>1, <1>4 DEF CxFates

(* Every question has its fate when a response times out.                  *)
LEMMA CxTimeoutFates ==
  ASSUME CxBase, CxFates, NEW t \in Thread, Timeout(t)
  PROVE  CxFates'
<1>1. /\ CxOthers(t) /\ CxEnded(t, "failed") /\ UNCHANGED <<stdout, child, stolen>>
      /\ (proc' = "ready" => proc = "ready")
  BY CxTimeoutDoes DEF CxBase
<1>2. UNCHANGED <<wants, lapsed, stolen>> /\ CxMoved(stdout)
  BY <1>1 DEF child, CxMoved
<1>3. asking'[t] = 0 /\ queue'[t] = <<>> /\ CxStart(t)' = {}
  BY <1>1 DEF CxEnded, CxStart
<1>4. CASE proc = "ready"
  BY <1>1, <1>2, <1>3, <1>4, CxFatesEmpty
<1> QED BY <1>1, <1>4 DEF CxFates

(* A turn is cancelled by its own run: its end is the last line. *)
LEMMA CxCancelFates ==
  ASSUME CxBase, CxQuestions, CxFates, NEW t \in Thread, Cancel(t)
  PROVE  CxFates'
<1>0. PICK n, k : n = active[t] /\ k = Line("completed", t, n, 0)
  OBVIOUS
<1>1. /\ step[t] = "reading" /\ n # 0 /\ n \in Nat /\ CxOthers(t)
      /\ turn'[t] = turn[t] \ {n} /\ wants' = {w \in wants : w.t # t \/ w.n # n}
      /\ stdout' = Append(stdout, k)
      /\ UNCHANGED <<proc, lapsed, reader, runs, asking, ghosts>>
  BY <1>0, CxCancelDoes DEF CxBase
<1>2. UNCHANGED <<queue, ended, step, run, outlived, stolen>>
  BY <1>1 DEF reader, runs, ghosts
<1>3. SUFFICES ASSUME proc = "ready" PROVE CxFates'
  BY <1>1 DEF CxFates
<1>4. k \in CxLines /\ k.m = "completed" /\ k.t = t /\ k.n = n
  BY <1>0, <1>1, CxDoneLine
<1>5. CxTypes /\ stdout \in Seq(CxLines) /\ CxMoved(stdout) /\ n = run[t]
  BY <1>0, <1>1, <1>4, CxKnown DEF CxBase, CxTypes, CxLineTypes, CxMoved, CxThread, HasRequest
<1>6. ASSUME NEW l \in CxLines, CxHas(stdout', l), l.m = "ask", l.t = t PROVE CxLater(l)'
  <2>1. CxLater(l) /\ CxHas(stdout, l)
    BY <1>3, <1>5, <1>6, CxMovedHas DEF CxFates
  <2>2. CASE CxFate(l.t, l.id) => CxFate(l.t, l.id)'
    <3>1. \A b \in CxStart(l.t)' : CxHas(stdout, b) => b \in CxStart(l.t)
      BY <1>2 DEF CxStart
    <3> QED BY <1>5, <1>6, <2>1, <2>2, <3>1, CxLaterKept
  <2>3. CASE CxFate(l.t, l.id) /\ ~CxFate(l.t, l.id)'
    <3>1. PICK w \in wants : w.id = l.id /\ w.t = l.t /\ ~w.tool /\ w \notin wants'
      BY <1>1, <1>2, <2>3 DEF CxFate
    <3>2. l.n = n
      BY <1>1, <1>3, <1>6, <2>1, <3>1 DEF CxQuestions, CxWant
    <3>3. CxBetween(stdout', {l}, CxDone(t, n), {})
      <4>1. /\ Len(stdout) + 1 \in DOMAIN stdout' /\ stdout'[Len(stdout) + 1] = k
            /\ \A i \in DOMAIN stdout' : i # Len(stdout) + 1 => i < Len(stdout) + 1
        BY <1>1, <1>4, <1>5, CxAppend
      <4>2. k \in CxDone(t, n) /\ k # l
        BY <1>4, <1>6 DEF CxDone
      <4> QED BY <4>1, <4>2 DEF CxBetween
    <3>4. CxStart(t)' = {}
      BY <1>1, <1>2 DEF CxStart
    <3> QED BY <1>6, <3>2, <3>3, <3>4 DEF CxLater, CxDone
  <2> QED BY <2>2, <2>3
<1>7. \A id : CxHolds(t, id)' <=> CxHolds(t, id)
  BY <1>1, <1>2, CxHoldsSame
<1>8. ASSUME t \notin outlived' PROVE CxHeld(t)'
  <2>1. CxHeld(t)
    BY <1>2, <1>3, <1>8 DEF CxFates
  <2>2. CxApart(t)'
    BY <1>1, <1>2, <2>1 DEF CxHeld, CxApart
  <2>3. run[t] \notin turn'[t] /\ turn'[t] \subseteq turn[t]
    BY <1>1, <1>5
  <2> QED BY <1>1, <1>2, <1>5, <1>7, <2>1, <2>2, <2>3, CxHeldMoves
<1>9. \A l \in CxLines : CxHas(stdout', l) /\ l.m = "ask" /\ t \notin outlived' => ~CxHolds(t, l.id)'
  BY <1>2, <1>3, <1>5, <1>7, CxMovedHas DEF CxFates
<1>10. \A x \in Thread \ {t} : \A id \in Nat : CxFate(x, id) => CxFate(x, id)'
  BY <1>1, <1>2 DEF CxFate
<1> QED BY <1>1, <1>3, <1>5, <1>6, <1>8, <1>9, <1>10, CxFatesMove

(* Every question has its fate when the child ends a turn.                 *)
LEMMA CxCompletesFates ==
  ASSUME CxBase, CxFates, NEW t \in Thread, NEW n \in turn[t], ChildCompletes(t, n)
  PROVE  CxFates'
<1>0. PICK k : k = Line("completed", t, n, 0)
  OBVIOUS
<1>1. /\ n \in Nat /\ CxOthers(t) /\ turn'[t] = turn[t] \ {n} /\ stdout' = Append(stdout, k)
      /\ UNCHANGED <<proc, wants, lapsed, reader, runs, asking, ghosts>>
  BY <1>0, CxCompletesDoes DEF CxBase
<1>2. UNCHANGED <<queue, ended, step, run, outlived, stolen>>
  BY <1>1 DEF reader, runs, ghosts
<1>3. SUFFICES ASSUME proc = "ready" PROVE CxFates'
  BY <1>1 DEF CxFates
<1>4. k \in CxLines /\ k.m = "completed"
  BY <1>0, <1>1, CxDoneLine
<1>5. CxTypes /\ CxMoved(stdout)
  BY <1>1, <1>4 DEF CxBase, CxMoved
<1>6. \A x, id : CxFate(x, id)' <=> CxFate(x, id)
  BY <1>1, <1>2 DEF CxFate
<1>7. ASSUME NEW l \in CxLines, CxHas(stdout', l), l.m = "ask", l.t = t PROVE CxLater(l)'
  <2>1. CxLater(l) /\ CxHas(stdout, l)
    BY <1>3, <1>5, <1>7, CxMovedHas DEF CxFates
  <2>2. \A b \in CxStart(l.t)' : CxHas(stdout, b) => b \in CxStart(l.t)
    BY <1>2 DEF CxStart
  <2> QED BY <1>5, <1>6, <1>7, <2>1, <2>2, CxLaterKept
<1>8. \A id : CxHolds(t, id)' <=> CxHolds(t, id)
  BY <1>1, <1>2, CxHoldsSame
<1>9. ASSUME t \notin outlived' PROVE CxHeld(t)'
  <2>1. CxHeld(t)
    BY <1>2, <1>3, <1>9 DEF CxFates
  <2>2. turn'[t] \subseteq turn[t] /\ asking'[t] = asking[t] /\ queue'[t] = queue[t]
    BY <1>1, <1>2
  <2> QED BY <1>2, <1>5, <1>6, <2>1, <2>2, CxHeldKept
<1>10. \A l \in CxLines : CxHas(stdout', l) /\ l.m = "ask" /\ t \notin outlived' => ~CxHolds(t, l.id)'
  BY <1>2, <1>3, <1>5, <1>8, CxMovedHas DEF CxFates
<1> QED BY <1>1, <1>3, <1>5, <1>6, <1>7, <1>9, <1>10, CxFatesMove

(* Every question has its fate when the handler of a tool returns.         *)
LEMMA CxToolReturnsFates ==
  ASSUME CxBase, CxFates, NEW c \in tools, ToolReturns(c)
  PROVE  CxFates'
<1>1. /\ CxAllSame /\ stolen' = stolen \cup {w.id : w \in {w \in wants \ wants' : ~w.tool}}
      /\ UNCHANGED <<proc, stdout, lapsed>>
  BY CxToolReturnsDoes DEF CxBase
<1>2. \A x, id : CxFate(x, id) => CxFate(x, id)'
  BY <1>1 DEF CxFate
<1>3. CxMoved(stdout) /\ \A x \in Thread : CxSame(x)
  BY <1>1, CxStill DEF CxMoved
<1>4. CASE proc = "ready"
  BY <1>1, <1>2, <1>3, <1>4, CxFatesStill
<1> QED BY <1>1, <1>4 DEF CxFates

(* Every question has its fate when the child closes its request.          *)
LEMMA CxResolvesFates ==
  ASSUME CxBase, CxFates, proc = "ready", NEW w \in wants, ChildResolves(w)
  PROVE  CxFates'
<1>0. PICK k : k = Line("resolved", w.t, w.n, w.id)
  OBVIOUS
<1>1. /\ CxAllSame /\ w.t \in Thread /\ w.n \in Nat /\ w.id \in Nat
      /\ wants' = wants \ {w} /\ lapsed' = lapsed \cup {w.id} /\ stdout' = Append(stdout, k)
      /\ UNCHANGED ghosts
  BY <1>0, CxResolvesDoes DEF CxBase
<1>2. k \in CxLines /\ k.m = "resolved"
  BY <1>0, <1>1, CxLineType DEF CxKinds
<1>3. \A x, id : CxFate(x, id) => CxFate(x, id)'
  BY <1>1 DEF CxFate, ghosts
<1>4. CxMoved(stdout) /\ \A x \in Thread : CxSame(x)
  BY <1>1, <1>2, CxStill DEF CxMoved
<1> QED BY <1>3, <1>4, CxFatesStill

(* Every question has its fate when the child reports an error.            *)
LEMMA CxErrsFates ==
  ASSUME CxBase, CxFates, proc = "ready", NEW t \in Thread, NEW n \in turn[t], ChildErrs(t, n)
  PROVE  CxFates'
<1>0. PICK k : k = Line("error", t, n, 0)
  OBVIOUS
<1>1. CxAllSame /\ n \in Nat /\ stdout' = Append(stdout, k) /\ UNCHANGED <<child, ghosts>>
  BY <1>0, CxErrsDoes DEF CxBase
<1>2. k \in CxLines /\ k.m = "error"
  BY <1>0, <1>1, CxLineType DEF CxKinds
<1>3. \A x, id : CxFate(x, id)' <=> CxFate(x, id)
  BY <1>1 DEF CxFate, child, ghosts
<1>4. CxMoved(stdout) /\ \A x \in Thread : CxSame(x)
  BY <1>1, <1>2, CxStill DEF CxMoved
<1> QED BY <1>3, <1>4, CxFatesStill

(* The child asks: the last line has an id that no line and no run has. *)
LEMMA CxAsksFates ==
  ASSUME CxBase, CxQuestions, CxFates, proc = "ready", NEW t \in Thread, NEW n \in turn[t],
         NEW kind \in {"ask", "tool"}, ChildAsks(t, n, kind)
  PROVE  CxFates'
<1>0. PICK v, k : /\ v = [id |-> nextId, t |-> t, n |-> n, tool |-> kind = "tool"]
                  /\ k = Line(kind, t, n, nextId)
  OBVIOUS
<1>1. /\ n \in Nat /\ CxAllSame /\ nextId \in 1..MaxAsks /\ nextId \in Nat /\ MaxAsks \in Nat
      /\ wants' = wants \cup {v} /\ stdout' = Append(stdout, k) /\ CxTypes
      /\ UNCHANGED <<proc, lapsed, ghosts>>
  BY <1>0, CxAsksDoes DEF CxBase, CxTypes, CodexAssumption
<1>2. v.id = nextId /\ v.t = t /\ (v.tool <=> kind = "tool")
  BY <1>0
<1>3. k \in CxLines /\ k.m = kind /\ k.t = t /\ k.id = nextId
  BY <1>0, <1>1, CxAskLine
<1>4. stdout \in Seq(CxLines) /\ \A l : CxHas(stdout', l) <=> CxHas(stdout, l) \/ l = k
  <2>1. stdout \in Seq(CxLines)
    BY <1>1 DEF CxTypes, CxLineTypes
  <2> QED BY <1>1, <1>3, <2>1, CxHasAppend
<1>5. /\ UNCHANGED <<step, run, turn, queue, ended, asking, outlived, stolen>>
      /\ \A x \in Thread : CxSame(x)
  BY <1>1, CxStill DEF CxAllSame, ghosts
<1>6. \A x, id : CxFate(x, id) => CxFate(x, id)'
  BY <1>1, <1>5 DEF CxFate
<1>7. CASE kind = "tool"
  <2>1. CxMoved(stdout)
    BY <1>1, <1>3, <1>7 DEF CxMoved
  <2> QED BY <1>5, <1>6, <2>1, CxFatesStill
<1>8. CASE kind = "ask"
  <2>1. \A l \in CxLines : CxHas(stdout, l) /\ l.m = "ask" => l.id < nextId /\ l.id # nextId /\ l # k
    <3>1. ASSUME NEW l \in CxLines, CxHas(stdout, l), l.m = "ask"
          PROVE  l.id < nextId /\ l.id # nextId /\ l # k
      <4>1. l.id < nextId /\ l.id \in Nat
        BY <3>1, CxLineFields DEF CxQuestions
      <4> QED BY <1>1, <1>3, <4>1
    <3> QED BY <3>1
  <2>2. CxOnce'
    <3>1. \A i, j \in DOMAIN stdout :
            stdout[i].m = "ask" /\ stdout[j].m = "ask" /\ stdout[i].id = stdout[j].id => i = j
      BY DEF CxFates, CxOnce
    <3>2. k.m = "ask" => \A l \in CxLines : CxHas(stdout, l) /\ l.m = "ask" => l.id # k.id
      BY <1>3, <2>1
    <3>3. \A i, j \in DOMAIN Append(stdout, k) :
            /\ Append(stdout, k)[i].m = "ask" /\ Append(stdout, k)[j].m = "ask"
            /\ Append(stdout, k)[i].id = Append(stdout, k)[j].id
            => i = j
      BY <1>3, <1>4, <3>1, <3>2, CxOnceAppend
    <3> QED BY <1>1, <3>3 DEF CxOnce
  <2>3. \A x : CxStart(x)' = CxStart(x)
    BY <1>5 DEF CxStart
  <2>4. ASSUME NEW l \in CxLines, CxHas(stdout', l), l.m = "ask"
        PROVE  CxLater(l)' /\ \A x \in Thread \ outlived' : ~CxHolds(x, l.id)'
    <3>1. \A x, id : CxHolds(x, id)' <=> CxHolds(x, id)
      BY <1>5, CxHoldsSame
    <3>2. CASE l = k
      <4>1. CxFate(l.t, l.id)'
        BY <1>1, <1>2, <1>3, <1>8, <3>2 DEF CxFate
      <4>2. ASSUME NEW x \in Thread \ outlived, CxHolds(x, nextId) PROVE FALSE
        <5>1. nextId < nextId
          BY <1>1, <4>2 DEF CxQuestions
        <5> QED BY <1>1, <5>1
      <4> QED BY <1>3, <1>5, <3>1, <3>2, <4>1, <4>2 DEF CxLater
    <3>3. CASE l # k
      <4>1. CxHas(stdout, l) /\ CxLater(l)
        BY <1>4, <2>4, <3>3 DEF CxFates
      <4>2. CxLater(l)'
        <5>1. CASE CxFate(l.t, l.id)
          BY <1>6, <5>1 DEF CxLater
        <5>2. CASE CxBetween(stdout, {l}, CxDone(l.t, l.n), CxStart(l.t))
          <6>1. k \notin {l}
            BY <3>3
          <6>2. CxBetween(Append(stdout, k), {l}, CxDone(l.t, l.n), CxStart(l.t))
            BY <1>3, <1>4, <5>2, <6>1, CxBetweenAppend
          <6> QED BY <1>1, <2>3, <6>2 DEF CxLater, CxDone
        <5> QED BY <4>1, <5>1, <5>2 DEF CxLater
      <4> QED BY <1>5, <2>4, <3>1, <4>1, <4>2 DEF CxFates
    <3> QED BY <3>2, <3>3
  <2>5. ASSUME NEW x \in Thread \ outlived' PROVE CxHeld(x)'
    <3>1. CxHeld(x)
      BY <1>5, <2>5 DEF CxFates
    <3>2. CxBetween(stdout, {}, CxDones(x), CxStart(x)) => CxBetween(stdout, {}, CxDones(x), CxStart(x))'
      <4>1. SUFFICES ASSUME CxBetween(stdout, {}, CxDones(x), CxStart(x))
                     PROVE  CxBetween(stdout, {}, CxDones(x), CxStart(x))'
        OBVIOUS
      <4>2. k \notin {}
        OBVIOUS
      <4>3. CxBetween(Append(stdout, k), {}, CxDones(x), CxStart(x))
        BY <1>3, <1>4, <4>1, <4>2, CxBetweenAppend
      <4> QED BY <1>1, <2>3, <4>3 DEF CxDones
    <3>3. \A id : CxHolds(x, id)' <=> CxHolds(x, id)
      BY <1>5, CxHoldsSame
    <3>4. CxApart(x)'
      BY <1>5, <3>1 DEF CxHeld, CxApart
    <3> QED BY <1>5, <1>6, <3>1, <3>2, <3>3, <3>4 DEF CxHeld
  <2> QED BY <2>2, <2>4, <2>5 DEF CxFates
<1> QED BY <1>7, <1>8

(* A broken line: who waits is idle, who reads reads on to the failure. *)
LEMMA CxBrokenFates ==
  ASSUME CxBase, CxFates, BrokenLine
  PROVE  CxFates'
<1>1. /\ (proc' = "ready" => proc = "ready") /\ UNCHANGED <<stdout, child, outlived, stolen>>
      /\ run' = run /\ asking' = asking /\ \A x \in Thread : CxFailed(x)
  BY CxBrokenDoes DEF CxBase
<1>2. UNCHANGED <<turn, wants, lapsed>>
  BY <1>1 DEF child
<1>3. SUFFICES ASSUME proc = "ready" PROVE CxFates'
  BY <1>1 DEF CxFates
<1>4. CxTypes /\ CxMoved(stdout) /\ stdout \in Seq(CxLines)
  BY <1>1 DEF CxBase, CxTypes, CxLineTypes, CxMoved
<1>5. \A x, id : CxFate(x, id)' <=> CxFate(x, id)
  BY <1>1, <1>2 DEF CxFate
<1>6. \A x \in Thread : \A id : CxHolds(x, id)' => CxHolds(x, id)
  <2>1. ASSUME NEW x \in Thread, NEW id, CxHolds(x, id)' PROVE CxHolds(x, id)
    <3>1. queue'[x] = <<>> \/ queue'[x] = queue[x]
      BY <1>1 DEF CxFailed
    <3>2. \A e : CxHas(queue'[x], e) => CxHas(queue[x], e)
      BY <3>1, CxHasNothing
    <3> QED BY <1>1, <2>1, <3>2 DEF CxHolds
  <2> QED BY <2>1
<1>7. CxOnce'
  BY <1>1, <1>3 DEF CxFates, CxOnce
<1>8. ASSUME NEW l \in CxLines, CxHas(stdout', l), l.m = "ask"
      PROVE  CxLater(l)' /\ \A x \in Thread \ outlived' : ~CxHolds(x, l.id)'
  <2>1. CxLater(l) /\ CxHas(stdout, l) /\ \A x \in Thread \ outlived : ~CxHolds(x, l.id)
    BY <1>1, <1>3, <1>8 DEF CxFates
  <2>2. \A b \in CxStart(l.t)' : CxHas(stdout, b) => b \in CxStart(l.t)
    <3>1. l.t \in Thread
      BY CxLineFields
    <3>2. step'[l.t] = "turning" => step[l.t] = "turning"
      BY <1>1, <3>1 DEF CxFailed
    <3> QED BY <1>1, <3>2 DEF CxStart
  <2>3. CxLater(l)'
    BY <1>4, <1>5, <1>8, <2>1, <2>2, CxLaterKept
  <2> QED BY <1>1, <1>6, <2>1, <2>3
<1>9. ASSUME NEW x \in Thread \ outlived' PROVE CxHeld(x)'
  <2>1. CxHeld(x) /\ x \notin outlived /\ CxThread(x)
    BY <1>1, <1>3, <1>9, CxKnown DEF CxFates
  <2>2. CASE step[x] \in {"starting", "opening", "turning"}
    <3>1. asking'[x] = 0 /\ queue'[x] = <<>>
      BY <1>1, <2>1, <2>2 DEF CxFailed, CxThread
    <3> QED BY <3>1, CxHeldNothing
  <2>3. CASE step[x] \in {"idle", "reading"}
    <3>1. /\ step'[x] = step[x] /\ queue'[x] = queue[x]
          /\ ended'[x] = (IF active[x] # 0 /\ Listening(x) THEN "failed" ELSE ended[x])
      BY <1>1, <2>3 DEF CxFailed
    <3>2. CxApart(x)'
      BY <1>1, <2>1, <3>1 DEF CxHeld, CxApart
    <3>3. ended'[x] = "open" => ended[x] = "open"
      BY <3>1
    <3>4. turn'[x] \subseteq turn[x] /\ run'[x] = run[x]
      BY <1>1, <1>2
    <3> QED BY <1>4, <1>5, <1>6, <1>9, <2>1, <3>1, <3>2, <3>3, <3>4, CxHeldMoves
  <2>4. step[x] \in CxSteps
    BY <1>9, CxKnown
  <2> QED BY <2>2, <2>3, <2>4
<1> QED BY <1>7, <1>8, <1>9 DEF CxFates

(* Every question has its fate when the adapter is created.                *)
LEMMA CxInitFates ==
  ASSUME Init
  PROVE  CxFates
<1>1. stdout = <<>> /\ asking = [t \in Thread |-> 0] /\ queue = [t \in Thread |-> <<>>]
  BY DEF Init
<1>2. \A x \in Thread : asking[x] = 0 /\ queue[x] = <<>> /\ \A id : ~CxHolds(x, id)
  BY <1>1, CxHoldsNothing
<1>3. CxOnce /\ \A l : ~CxHas(stdout, l)
  BY <1>1, CxHasNothing DEF CxOnce
<1>4. ASSUME NEW x \in Thread PROVE CxHeld(x)
  BY <1>2 DEF CxHeld, CxApart
<1> QED BY <1>3, <1>4 DEF CxFates

(* The fates are kept by every step.                                       *)
LEMMA CxStepsFates ==
  ASSUME CxBase, CxOrder, CxQuestions, CxFates, [Next]_vars
  PROVE  CxFates'
<1>1. CASE UNCHANGED vars
  <2>1. UNCHANGED <<proc, stdout, wants, lapsed, stolen>> /\ CxAllSame
    BY <1>1 DEF vars, child, client, reader, runs, ghosts, CxAllSame
  <2>2. CxMoved(stdout) /\ (\A x \in Thread : CxSame(x)) /\ \A x, id : CxFate(x, id)' <=> CxFate(x, id)
    BY <2>1, CxStill DEF CxMoved, CxFate
  <2>3. CASE proc = "ready"
    BY <2>2, <2>3, CxFatesStill
  <2> QED BY <2>1, <2>3 DEF CxFates
<1>2. ASSUME NEW t \in Thread,
             \/ Begin(t) \/ Read(t) \/ ReadFailure(t) \/ Answer(t) \/ Cancel(t) \/ Timeout(t)
      PROVE  CxFates'
  BY <1>2, CxBeginFates, CxReadFates, CxReadFailureFates, CxAnswerFates, CxCancelFates,
     CxTimeoutFates
<1>3. CASE \E c \in tools : ToolReturns(c)
  BY <1>3, CxToolReturnsFates
<1>4. CASE Deliver
  <2>1. PICK t, n, id : t = Head(stdout).t /\ n = Head(stdout).n /\ id = Head(stdout).id
    OBVIOUS
  <2>2. CASE Initialized
    BY <2>1, <2>2, CxInitializedFates
  <2>3. CASE Opened
    BY <2>1, <2>3, CxOpenedFates
  <2>4. CASE Turned
    BY <2>1, <2>4, CxTurnedFates
  <2>5. CASE TurnRefused
    BY <2>1, <2>5, CxRefusedFates
  <2>6. CASE UserInputRequested
    BY <2>1, <2>6, CxAskedFates
  <2>7. CASE ToolCalled
    BY <2>1, <2>7, CxToolFates
  <2>8. CASE Resolved
    BY <2>1, <2>8, CxResolvedFates
  <2>9. CASE TurnEvent
    BY <2>1, <2>9, CxEventFates
  <2> QED BY <1>4, <2>2, <2>3, <2>4, <2>5, <2>6, <2>7, <2>8, <2>9 DEF Deliver
<1>5. CASE ChildStep
  <2>1. proc = "ready"
    BY <1>5 DEF ChildStep
  <2>2. ASSUME NEW t \in Thread, NEW n \in turn[t],
               \/ \E kind \in {"ask", "tool"} : ChildAsks(t, n, kind)
               \/ ChildErrs(t, n) \/ ChildCompletes(t, n)
        PROVE  CxFates'
    BY <2>1, <2>2, CxAsksFates, CxErrsFates, CxCompletesFates
  <2>3. ASSUME NEW w \in wants, ChildResolves(w) PROVE CxFates'
    BY <2>1, <2>3, CxResolvesFates
  <2> QED BY <1>5, <2>2, <2>3 DEF ChildStep
<1>6. CASE Exit
  <2>1. proc' = "none"
    BY <1>6, CxExitDoes DEF CxBase
  <2> QED BY <2>1 DEF CxFates
<1>7. CASE BrokenLine
  BY <1>7, CxBrokenFates
<1>8. CASE Stop
  <2>1. proc' # "ready"
    BY <1>8, CxStopDoes DEF CxBase
  <2> QED BY <2>1 DEF CxFates
<1> QED BY <1>1, <1>2, <1>3, <1>4, <1>5, <1>6, <1>7, <1>8 DEF Next

(* A run answers a question with nothing only behind another one that it   *)
(* offers, and that one is open at the child, or its turn is over, or the  *)
(* child or an answer to an earlier child has closed it (the empty answer  *)
(* to a second question).                                                  *)
THEOREM CodexDeclinedBehindAQuestion == CodexAssumption /\ Spec => []DeclinedBehindAQuestion
<1> SUFFICES ASSUME CodexAssumption PROVE Spec => []DeclinedBehindAQuestion
  OBVIOUS
<1> DEFINE Inv == CxBase /\ CxOrder /\ CxQuestions /\ CxFates
<1>1. Init => Inv
  BY CxInitBase, CxInitOrder, CxInitQuestions, CxInitFates
<1>2. Inv /\ [Next]_vars => Inv'
  BY CxStepsOrder, CxStepsQuestions, CxStepsFates
<1>3. ASSUME CxBase, CxFates PROVE DeclinedBehindAQuestion
  <2>1. SUFFICES ASSUME NEW t \in Thread, step[t] = "reading", ended[t] = "open", asking[t] # 0
                 PROVE  \/ run[t] \notin turn[t] \/ asking[t] \in lapsed \cup stolen
                        \/ \E w \in wants : w.id = asking[t] /\ w.t = t
    BY DEF DeclinedBehindAQuestion
  <2>2. t \notin outlived /\ proc = "ready" /\ asking[t] \in Nat
    BY <1>3, <2>1, CxKnown DEF CxThread, CxAt
  <2>3. CxHolds(t, asking[t])
    BY <2>1 DEF CxHolds
  <2>4. CxFate(t, asking[t]) \/ run[t] \notin turn[t]
    BY <1>3, <2>1, <2>2, <2>3 DEF CxFates, CxHeld
  <2> QED BY <2>4 DEF CxFate
<1> QED BY <1>1, <1>2, <1>3, PTL DEF Spec
=============================================================================
