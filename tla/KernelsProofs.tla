---------------------------- MODULE KernelsProofs ----------------------------
(***************************************************************************)
(* The adapters in the gateway that runs one of them. A gateway calls the  *)
(* kernel it was configured with and no other (createConfiguredAdapter),   *)
(* so a step of Kernels is a step of one adapter while the other four      *)
(* stand still: a behaviour of the gateway is, seen from an adapter, a     *)
(* behaviour of that adapter (the Runs lemmas). A theorem proved for a     *)
(* component in the module of its proofs therefore holds of its copy here; *)
(* the Same lemmas identify the two instances of its specification. The    *)
(* ACP client and the Claude Code adapter have their proofs in this        *)
(* module, about the copies themselves.                                    *)
(***************************************************************************)
EXTENDS Kernels, SequenceTheorems, TLAPS

(* The theorems on the Pi pool, of the pool of this gateway.               *)
PiProofs == INSTANCE PiPoolProofs WITH
  Session <- PiSession, Worker <- PiWorker, NoOne <- NoOne,
  MaxRuns <- PiRuns, MaxDialogs <- PiDialogs, MaxFaults <- PiFaults,
  available <- pi_available, waiters <- pi_waiters, on <- pi_on, step <-
  pi_step, run <- pi_run, words <- pi_words, dialog <- pi_dialog, verdict <-
  pi_verdict, broken <- pi_broken, current <- pi_current, active <- pi_active,
  settling <- pi_settling, agent <- pi_agent, blocked <- pi_blocked, last <-
  pi_last, wire <- pi_wire, left <- pi_left, orphans <- pi_orphans, spoken <-
  pi_spoken, dialogs <- pi_dialogs, dropped <- pi_dropped, faults <- pi_faults

(* The theorems on the Codex client, of the client of this gateway.        *)
CodexProofs == INSTANCE CodexAppServerProofs WITH
  Thread <- CodexThread, MaxRuns <- CodexRuns, MaxAsks <- CodexAsks,
  MaxFaults <- CodexFaults,
  proc <- cx_proc, stdout <- cx_stdout, serves <- cx_serves, turn <- cx_turn,
  wants <- cx_wants, lapsed <- cx_lapsed, nextId <- cx_nextId, asked <-
  cx_asked, active <- cx_active, knows <- cx_knows, userInputs <-
  cx_userInputs, tools <- cx_tools, queue <- cx_queue, ended <- cx_ended, step
  <- cx_step, run <- cx_run, loaded <- cx_loaded, asking <- cx_asking, verdict
  <- cx_verdict, answered <- cx_answered, guessed <- cx_guessed, abandoned <-
  cx_abandoned, outlived <- cx_outlived, stolen <- cx_stolen, faults <-
  cx_faults, crashed <- cx_crashed, halted <- cx_halted

(* The theorems on the OpenClaw adapter, of the one of this gateway.       *)
OpenClawProofs == INSTANCE OpenClawProofs WITH
  Session <- OpenClawSession, MaxRuns <- OpenClawRuns,
  MaxClients <- OpenClawClients, MaxFaults <- OpenClawFaults,
  link <- oc_link, newest <- oc_newest, ready <- oc_ready, starting <-
  oc_starting, wire <- oc_wire, waits <- oc_waits, works <- oc_works, renamed
  <- oc_renamed, last <- oc_last, outcome <- oc_outcome, step <- oc_step, run
  <- oc_run, baseline <- oc_baseline, heard <- oc_heard, deltas <- oc_deltas,
  settled <- oc_settled, answer <- oc_answer, verdict <- oc_verdict, blind <-
  oc_blind, abandoned <- oc_abandoned, faults <- oc_faults, halted <-
  oc_halted

(* A behaviour of the gateway is one of the Pi pool.                       *)
LEMMA RunsPi == Spec => Pi!Spec
<1>1. Init => Pi!Init
  BY DEF Init
<1>2. [Next]_vars => [Pi!Next]_(Pi!vars)
  BY DEF Next, vars, PiStep, CodexStep, AcpStep, OpenClawStep, ClaudeStep,
    piVars, Pi!vars, Pi!pool, Pi!runs, Pi!adapter, Pi!process
<1> QED BY <1>1, <1>2, PTL DEF Spec, Pi!Spec

(* A behaviour of the gateway is one of the Claude Code adapter.           *)
LEMMA RunsClaude == Spec => Claude!Spec
<1>1. Init => Claude!Init
  BY DEF Init
<1>2. [Next]_vars => [Claude!Next]_(Claude!vars)
  BY DEF Next, vars, PiStep, CodexStep, AcpStep, OpenClawStep, ClaudeStep,
    claudeVars, Claude!vars, Claude!sdk
<1> QED BY <1>1, <1>2, PTL DEF Spec, Claude!Spec

(* A behaviour of the gateway is one of the ACP client.                    *)
LEMMA RunsAcp == Spec => Acp!Spec
<1>1. Init => Acp!Init
  BY DEF Init
<1>2. [Next]_vars => [Acp!Next]_(Acp!vars)
  BY DEF Next, vars, PiStep, CodexStep, AcpStep, OpenClawStep, ClaudeStep,
    acpVars, Acp!vars, Acp!agent, Acp!runs, Acp!reader
<1> QED BY <1>1, <1>2, PTL DEF Spec, Acp!Spec

(* A behaviour of the gateway is one of the Codex client.                  *)
LEMMA RunsCodex == Spec => Codex!Spec
<1>1. Init => Codex!Init
  BY DEF Init
<1>2. [Next]_vars => [Codex!Next]_(Codex!vars)
  BY DEF Next, vars, PiStep, CodexStep, AcpStep, OpenClawStep, ClaudeStep,
    codexVars, Codex!vars, Codex!child, Codex!client, Codex!reader,
    Codex!runs, Codex!ghosts
<1> QED BY <1>1, <1>2, PTL DEF Spec, Codex!Spec

(* A behaviour of the gateway is one of the OpenClaw adapter.              *)
LEMMA RunsOpenClaw == Spec => OpenClaw!Spec
<1>1. Init => OpenClaw!Init
  BY DEF Init
<1>2. [Next]_vars => [OpenClaw!Next]_(OpenClaw!vars)
  BY DEF Next, vars, PiStep, CodexStep, AcpStep, OpenClawStep, ClaudeStep,
    openclawVars, OpenClaw!vars, OpenClaw!adapter, OpenClaw!server,
    OpenClaw!pending, OpenClaw!runs, OpenClaw!ghosts
<1> QED BY <1>1, <1>2, PTL DEF Spec, OpenClaw!Spec

(* The pool the component's theorems speak of is the pool of Kernels.      *)
LEMMA SamePi == Pi!Spec => PiProofs!Spec
<1>1. Pi!Init => PiProofs!Init
  BY DEF Pi!Init, PiProofs!Init
<1>2. [Pi!Next]_(Pi!vars) => [PiProofs!Next]_(PiProofs!vars)
  BY DEF Pi!PiAssumption, PiProofs!PiAssumption, Pi!pool, PiProofs!pool,
    Pi!runs, PiProofs!runs, Pi!adapter, PiProofs!adapter, Pi!process,
    PiProofs!process, Pi!vars, PiProofs!vars, Pi!Line, PiProofs!Line, Pi!Set,
    PiProofs!Set, Pi!Put, PiProofs!Put, Pi!Turn, PiProofs!Turn, Pi!Holding,
    PiProofs!Holding, Pi!Fault, PiProofs!Fault, Pi!Init, PiProofs!Init,
    Pi!Begin, PiProofs!Begin, Pi!LeaveWaiters, PiProofs!LeaveWaiters,
    Pi!Leave, PiProofs!Leave, Pi!ForgetDialog, PiProofs!ForgetDialog,
    Pi!CancelDialog, PiProofs!CancelDialog, Pi!Aborted, PiProofs!Aborted,
    Pi!Recorded, PiProofs!Recorded, Pi!Abort, PiProofs!Abort, Pi!Start,
    PiProofs!Start, Pi!Prepared, PiProofs!Prepared, Pi!Reading,
    PiProofs!Reading, Pi!Giveup, PiProofs!Giveup, Pi!Responses,
    PiProofs!Responses, Pi!Awaiting, PiProofs!Awaiting, Pi!Response,
    PiProofs!Response, Pi!HearText, PiProofs!HearText, Pi!HearSettled,
    PiProofs!HearSettled, Pi!Event, PiProofs!Event, Pi!DialogRequested,
    PiProofs!DialogRequested, Pi!Completed, PiProofs!Completed, Pi!Offer,
    PiProofs!Offer, Pi!Answer, PiProofs!Answer, Pi!Cancel, PiProofs!Cancel,
    Pi!Timeout, PiProofs!Timeout, Pi!Speaks, PiProofs!Speaks, Pi!Asks,
    PiProofs!Asks, Pi!Settles, PiProofs!Settles, Pi!OrphanSpeaks,
    PiProofs!OrphanSpeaks, Pi!OrphanSettles, PiProofs!OrphanSettles,
    Pi!Remains, PiProofs!Remains, Pi!Fails, PiProofs!Fails, Pi!Exit,
    PiProofs!Exit, Pi!BrokenLine, PiProofs!BrokenLine, Pi!OrphanExits,
    PiProofs!OrphanExits, Pi!Deliver, PiProofs!Deliver, Pi!Next,
    PiProofs!Next, Pi!Spec, PiProofs!Spec, Pi!TypeOK, PiProofs!TypeOK,
    Pi!WorkersConserved, PiProofs!WorkersConserved, Pi!OwnWords,
    PiProofs!OwnWords, Pi!DialogHasKeeper, PiProofs!DialogHasKeeper
<1> QED BY <1>1, <1>2, PTL DEF Pi!Spec, PiProofs!Spec

(* The same for the Codex client.                                          *)
LEMMA SameCodex == Codex!Spec => CodexProofs!Spec
<1>1. Codex!Init => CodexProofs!Init
  BY DEF Codex!Init, CodexProofs!Init
<1>2. [Codex!Next]_(Codex!vars) => [CodexProofs!Next]_(CodexProofs!vars)
  BY DEF Codex!CodexAssumption, CodexProofs!CodexAssumption, Codex!child,
    CodexProofs!child, Codex!client, CodexProofs!client, Codex!reader,
    CodexProofs!reader, Codex!runs, CodexProofs!runs, Codex!ghosts,
    CodexProofs!ghosts, Codex!vars, CodexProofs!vars, Codex!Line,
    CodexProofs!Line, Codex!Event, CodexProofs!Event, Codex!Set,
    CodexProofs!Set, Codex!Without, CodexProofs!Without, Codex!Foreign,
    CodexProofs!Foreign, Codex!Writable, CodexProofs!Writable,
    Codex!Listening, CodexProofs!Listening, Codex!HasRequest,
    CodexProofs!HasRequest, Codex!Accepts, CodexProofs!Accepts, Codex!Fault,
    CodexProofs!Fault, Codex!Init, CodexProofs!Init, Codex!End,
    CodexProofs!End, Codex!RunTurn, CodexProofs!RunTurn, Codex!Launch,
    CodexProofs!Launch, Codex!Begin, CodexProofs!Begin, Codex!Reads,
    CodexProofs!Reads, Codex!Initialized, CodexProofs!Initialized,
    Codex!Opened, CodexProofs!Opened, Codex!Turned, CodexProofs!Turned,
    Codex!TurnRefused, CodexProofs!TurnRefused, Codex!Reply,
    CodexProofs!Reply, Codex!UserInputRequested,
    CodexProofs!UserInputRequested, Codex!ToolCalled, CodexProofs!ToolCalled,
    Codex!Resolved, CodexProofs!Resolved, Codex!TurnEvent,
    CodexProofs!TurnEvent, Codex!Deliver, CodexProofs!Deliver, Codex!ReadAsk,
    CodexProofs!ReadAsk, Codex!ReadError, CodexProofs!ReadError, Codex!Read,
    CodexProofs!Read, Codex!ReadFailure, CodexProofs!ReadFailure,
    Codex!Answer, CodexProofs!Answer, Codex!Cancel, CodexProofs!Cancel,
    Codex!ToolReturns, CodexProofs!ToolReturns, Codex!ChildAsks,
    CodexProofs!ChildAsks, Codex!ChildResolves, CodexProofs!ChildResolves,
    Codex!ChildErrs, CodexProofs!ChildErrs, Codex!ChildCompletes,
    CodexProofs!ChildCompletes, Codex!Waiting, CodexProofs!Waiting,
    Codex!FailAll, CodexProofs!FailAll, Codex!Exit, CodexProofs!Exit,
    Codex!BrokenLine, CodexProofs!BrokenLine, Codex!Timeout,
    CodexProofs!Timeout, Codex!Stop, CodexProofs!Stop, Codex!ChildStep,
    CodexProofs!ChildStep, Codex!Next, CodexProofs!Next, Codex!Spec,
    CodexProofs!Spec
<1> QED BY <1>1, <1>2, PTL DEF Codex!Spec, CodexProofs!Spec

(* The same for the OpenClaw adapter.                                      *)
LEMMA SameOpenClaw == OpenClaw!Spec => OpenClawProofs!Spec
<1>1. OpenClaw!Init => OpenClawProofs!Init
  BY DEF OpenClaw!Init, OpenClawProofs!Init, OpenClaw!Client, OpenClawProofs!Client
<1>2. [OpenClaw!Next]_(OpenClaw!vars) => [OpenClawProofs!Next]_(OpenClawProofs!vars)
  BY DEF OpenClaw!OpenClawAssumption, OpenClawProofs!OpenClawAssumption,
    OpenClaw!Client, OpenClawProofs!Client, OpenClaw!adapter,
    OpenClawProofs!adapter, OpenClaw!server, OpenClawProofs!server,
    OpenClaw!pending, OpenClawProofs!pending, OpenClaw!runs,
    OpenClawProofs!runs, OpenClaw!ghosts, OpenClawProofs!ghosts,
    OpenClaw!vars, OpenClawProofs!vars, OpenClaw!Line, OpenClawProofs!Line,
    OpenClaw!Set, OpenClawProofs!Set, OpenClaw!Connected,
    OpenClawProofs!Connected, OpenClaw!Pending, OpenClawProofs!Pending,
    OpenClaw!Fault, OpenClawProofs!Fault, OpenClaw!Init, OpenClawProofs!Init,
    OpenClaw!Begin, OpenClawProofs!Begin, OpenClaw!Hello,
    OpenClawProofs!Hello, OpenClaw!ConnectFails, OpenClawProofs!ConnectFails,
    OpenClaw!Close, OpenClawProofs!Close, OpenClaw!Post, OpenClawProofs!Post,
    OpenClaw!ReadBaseline, OpenClawProofs!ReadBaseline, OpenClaw!Send,
    OpenClawProofs!Send, OpenClaw!Finish, OpenClawProofs!Finish,
    OpenClaw!Timeout, OpenClawProofs!Timeout, OpenClaw!SendTimesOut,
    OpenClawProofs!SendTimesOut, OpenClaw!Stop, OpenClawProofs!Stop,
    OpenClaw!Reads, OpenClawProofs!Reads, OpenClaw!Mine, OpenClawProofs!Mine,
    OpenClaw!Baselined, OpenClawProofs!Baselined, OpenClaw!Sent,
    OpenClawProofs!Sent, OpenClaw!Takes, OpenClawProofs!Takes,
    OpenClaw!ChatEvent, OpenClawProofs!ChatEvent, OpenClaw!Reconciled,
    OpenClawProofs!Reconciled, OpenClaw!Waited, OpenClawProofs!Waited,
    OpenClaw!Deliver, OpenClawProofs!Deliver, OpenClaw!LastLines,
    OpenClawProofs!LastLines, OpenClaw!Broadcast, OpenClawProofs!Broadcast,
    OpenClaw!Speaks, OpenClawProofs!Speaks, OpenClaw!Ends,
    OpenClawProofs!Ends, OpenClaw!Completes, OpenClawProofs!Completes,
    OpenClaw!EndsUnheard, OpenClawProofs!EndsUnheard, OpenClaw!Fails,
    OpenClawProofs!Fails, OpenClaw!Cancel, OpenClawProofs!Cancel,
    OpenClaw!Next, OpenClawProofs!Next, OpenClaw!Spec, OpenClawProofs!Spec
<1> QED BY <1>1, <1>2, PTL DEF OpenClaw!Spec, OpenClawProofs!Spec

-----------------------------------------------------------------------------
(* The ACP client.  It answers with the words of the run's own prompt, and *)
(* no prompt waits for a permission nobody is asked for: for every number  *)
(* of sessions, runs, requests and faults.                                 *)
(*                                                                         *)
(* Two facts carry it.  Replayed history is always followed by the line    *)
(* that opens its session, and the run has no entry before that line is    *)
(* read.  And unless a run of the session was given up, all the agent does *)
(* for it is for its last run: the end of a prompt is the last line of it, *)
(* and the run that reads its end leaves nothing that a later run could    *)
(* hear.                                                                   *)

(* A prompt is the session and the number of its run.                      *)
AcpPrompts  == AcpSession \X Nat
AcpTerminal == {"stop", "cancelled", "refused"}
AcpLines    == [m : {"text", "opened", "ask"} \cup AcpTerminal, s : AcpSession, n : Nat]

(* What the lines, queues and prompts are made of; and what is empty when  *)
(* no run reads.                                                           *)
AcpTypes ==
  /\ acp_wire \in Seq(AcpLines) /\ acp_queue \in [AcpSession -> Seq(AcpLines)]
  /\ acp_words \in [AcpSession -> SUBSET Nat]
  /\ acp_decisions \subseteq [prompt : AcpPrompts, run : Nat]
  /\ \A p \in acp_works : p[2] # 0
  /\ \A s \in AcpSession : acp_step[s] # "idle" => acp_run[s] # 0
  /\ \A s \in AcpSession : acp_step[s] # "reading" => acp_queue[s] = <<>> /\ s \notin acp_failed

(* What every step keeps by itself.                                        *)
AcpBase == Acp!TypeOK /\ AcpTypes

(* The line that opens a session is there once, and only while the run of  *)
(* the session waits for it.                                               *)
AcpOpening ==
  \A i \in 1 .. Len(acp_wire) :
    acp_wire[i].m = "opened" =>
      /\ acp_step[acp_wire[i].s] = "opening"
      /\ \A j \in 1 .. Len(acp_wire) : acp_wire[j].m = "opened" /\ acp_wire[j].s = acp_wire[i].s => i = j

(* Replayed history is text, and the line that opens its session is still  *)
(* behind it: nobody has an entry when it is read.                         *)
AcpReplays ==
  \A i \in 1 .. Len(acp_wire) :
    acp_wire[i].n = 0 =>
      /\ acp_wire[i].m = "text"
      /\ \E j \in i + 1 .. Len(acp_wire) : acp_wire[j].m = "opened" /\ acp_wire[j].s = acp_wire[i].s

(* No run has heard history, or is about to.                               *)
AcpHeard ==
  \A s \in AcpSession :
    0 \notin acp_words[s] /\ \A i \in 1 .. Len(acp_queue[s]) : acp_queue[s][i].n # 0

(* The line at i is of a prompt of s.                                      *)
AcpTalks(s, i) == acp_wire[i].s = s /\ acp_wire[i].m # "opened" /\ acp_wire[i].n # 0

(* The agent does nothing for s, and none of its lines is left.            *)
AcpQuiet(s) ==
  (\A p \in acp_works : p[1] # s) /\ \A i \in 1 .. Len(acp_wire) : ~AcpTalks(s, i)

(* The run of s has its end or its failure before it.                      *)
AcpOver(s) == s \in acp_failed \/ \E i \in 1 .. Len(acp_queue[s]) : acp_queue[s][i].m \in AcpTerminal

(* While no run of s is given up, all the agent does for s is for its last *)
(* run: nothing is left of a prompt once its run reads no more, once its   *)
(* end is queued, or behind its last line.                                 *)
AcpFollows(s) ==
  /\ \A p \in acp_works : p[1] = s => p[2] = acp_run[s]
  /\ \A i \in 1 .. Len(acp_wire) : AcpTalks(s, i) => acp_wire[i].n = acp_run[s]
  /\ acp_step[s] # "reading" \/ AcpOver(s) => AcpQuiet(s)
  /\ \A i \in 1 .. Len(acp_wire) :
       acp_wire[i].s = s /\ acp_wire[i].m \in AcpTerminal =>
         /\ \A p \in acp_works : p[1] # s
         /\ \A j \in i + 1 .. Len(acp_wire) : ~AcpTalks(s, j)
  /\ \A i \in 1 .. Len(acp_queue[s]) : acp_queue[s][i].n = acp_run[s]
  /\ acp_words[s] \subseteq {acp_run[s]}

(* What the sessions share.                                                *)
AcpRest == AcpOpening /\ AcpReplays /\ AcpHeard /\ Acp!WantHasKeeper

(* The inductive invariant: a session of which a run was given up is the   *)
(* exception.                                                              *)
AcpInv ==
  /\ AcpBase /\ AcpRest /\ \A s \in AcpSession : s \in acp_abandoned \/ AcpFollows(s)

-----------------------------------------------------------------------------
(* A session the agent is silent about follows its run.                    *)
LEMMA AcpSilentFollows ==
  ASSUME NEW s \in AcpSession, AcpQuiet(s)', acp_words'[s] \subseteq {acp_run'[s]},
         \A i \in 1 .. Len(acp_queue'[s]) : acp_queue'[s][i].n = acp_run'[s]
  PROVE  AcpFollows(s)'
BY DEF AcpQuiet, AcpFollows, AcpTalks

(* The lines of s that are left were there before, in the same order.      *)
AcpOlder(s) ==
  \E k \in Nat : \A i \in 1 .. Len(acp_wire') :
    acp_wire'[i].s = s => i + k \in 1 .. Len(acp_wire) /\ acp_wire'[i] = acp_wire[i + k]

(* A session about which nothing is new follows its run as before.         *)
LEMMA AcpOlderFollows ==
  ASSUME NEW s \in AcpSession, AcpFollows(s), AcpOlder(s), \A p \in acp_works' : p[1] = s => p \in acp_works,
         acp_run'[s] = acp_run[s], acp_words'[s] = acp_words[s], acp_step'[s] = acp_step[s],
         acp_queue'[s] = acp_queue[s], s \in acp_failed' => s \in acp_failed
  PROVE  AcpFollows(s)'
<1>1. PICK k \in Nat : \A i \in 1 .. Len(acp_wire') :
        acp_wire'[i].s = s => i + k \in 1 .. Len(acp_wire) /\ acp_wire'[i] = acp_wire[i + k]
  BY DEF AcpOlder
<1>2. \A i \in 1 .. Len(acp_wire') : AcpTalks(s, i)' => i + k \in 1 .. Len(acp_wire) /\ AcpTalks(s, i + k)
  BY <1>1 DEF AcpTalks
<1>3. /\ \A p \in acp_works' : p[1] = s => p[2] = acp_run'[s]
      /\ \A i \in 1 .. Len(acp_wire') : AcpTalks(s, i)' => acp_wire'[i].n = acp_run'[s]
      /\ \A i \in 1 .. Len(acp_queue'[s]) : acp_queue'[s][i].n = acp_run'[s]
      /\ acp_words'[s] \subseteq {acp_run'[s]}
  BY <1>1, <1>2 DEF AcpFollows, AcpTalks
<1>4. acp_step'[s] # "reading" \/ AcpOver(s)' => AcpQuiet(s)'
  BY <1>2 DEF AcpFollows, AcpOver, AcpQuiet
<1>5. ASSUME NEW i \in 1 .. Len(acp_wire'), acp_wire'[i].s = s, acp_wire'[i].m \in AcpTerminal
      PROVE  /\ \A p \in acp_works' : p[1] # s
             /\ \A j \in i + 1 .. Len(acp_wire') : ~AcpTalks(s, j)'
  <2>1. i + k \in 1 .. Len(acp_wire) /\ acp_wire[i + k].s = s /\ acp_wire[i + k].m \in AcpTerminal
    BY <1>1, <1>5
  <2>2. ASSUME NEW j \in i + 1 .. Len(acp_wire'), AcpTalks(s, j)' PROVE FALSE
    <3>1. j \in 1 .. Len(acp_wire')
      OBVIOUS
    <3>2. j + k \in (i + k) + 1 .. Len(acp_wire) /\ AcpTalks(s, j + k)
      BY <1>2, <2>1, <2>2, <3>1
    <3> QED BY <2>1, <3>2 DEF AcpFollows
  <2> QED BY <2>1, <2>2 DEF AcpFollows
<1> QED BY <1>3, <1>4, <1>5 DEF AcpFollows

-----------------------------------------------------------------------------
(* The lines behind the first one.                                         *)
LEMMA AcpTailLines ==
  ASSUME NEW q \in Seq(AcpLines), q # <<>>
  PROVE  /\ Tail(q) \in Seq(AcpLines) /\ Head(q) \in AcpLines /\ Head(q) = q[1]
         /\ Len(q) \in Nat /\ Len(q) >= 1 /\ Len(Tail(q)) = Len(q) - 1
         /\ \A i \in 1 .. Len(Tail(q)) : i + 1 \in 1 .. Len(q) /\ Tail(q)[i] = q[i + 1]
<1>1. Tail(q) \in Seq(AcpLines) /\ Head(q) = q[1] /\ Len(q) \in Nat /\ Len(q) >= 1
        /\ Len(Tail(q)) = Len(q) - 1
  OBVIOUS
<1>2. Head(q) \in AcpLines
  OBVIOUS
<1>3. \A i \in 1 .. Len(Tail(q)) : i + 1 \in 1 .. Len(q) /\ Tail(q)[i] = q[i + 1]
  BY <1>1
<1> QED BY <1>1, <1>2, <1>3

(* The lines with one more.                                                *)
LEMMA AcpAppendLines ==
  ASSUME NEW q \in Seq(AcpLines), NEW x \in AcpLines
  PROVE  /\ Append(q, x) \in Seq(AcpLines) /\ Len(q) \in Nat
         /\ Len(Append(q, x)) = Len(q) + 1 /\ Append(q, x)[Len(q) + 1] = x
         /\ \A i \in 1 .. Len(q) : Append(q, x)[i] = q[i]
OBVIOUS

(* Every line names a session and a number.                                *)
LEMMA AcpEachLine ==
  ASSUME NEW q \in Seq(AcpLines), NEW i \in 1 .. Len(q)
  PROVE  q[i] \in AcpLines /\ q[i].s \in AcpSession /\ q[i].n \in Nat
<1>1. q[i] \in AcpLines
  OBVIOUS
<1> QED BY <1>1 DEF AcpLines

(* Nothing is new for s when a line is read, all are lost, or one of       *)
(* another session is written.                                             *)
LEMMA AcpOlderWire ==
  ASSUME AcpTypes, NEW s \in AcpSession,
         \/ acp_wire' = acp_wire
         \/ acp_wire' = <<>>
         \/ acp_wire # <<>> /\ acp_wire' = Tail(acp_wire)
         \/ \E x \in AcpLines : acp_wire' = Append(acp_wire, x) /\ x.s # s
  PROVE  AcpOlder(s)
<1>1. acp_wire \in Seq(AcpLines)
  BY DEF AcpTypes
<1>2. CASE acp_wire' = acp_wire
  <2>1. \A i \in 1 .. Len(acp_wire') : i + 0 \in 1 .. Len(acp_wire) /\ acp_wire'[i] = acp_wire[i + 0]
    BY <1>1, <1>2
  <2> QED BY <2>1 DEF AcpOlder
<1>3. CASE acp_wire' = <<>>
  <2>1. \A i \in 1 .. Len(acp_wire') : i + 0 \in 1 .. Len(acp_wire) /\ acp_wire'[i] = acp_wire[i + 0]
    BY <1>3
  <2> QED BY <2>1 DEF AcpOlder
<1>4. CASE acp_wire # <<>> /\ acp_wire' = Tail(acp_wire)
  <2>1. \A i \in 1 .. Len(acp_wire') : i + 1 \in 1 .. Len(acp_wire) /\ acp_wire'[i] = acp_wire[i + 1]
    BY <1>1, <1>4, AcpTailLines
  <2> QED BY <2>1 DEF AcpOlder
<1>5. CASE \E x \in AcpLines : acp_wire' = Append(acp_wire, x) /\ x.s # s
  <2>1. PICK x \in AcpLines : acp_wire' = Append(acp_wire, x) /\ x.s # s
    BY <1>5
  <2>2. ASSUME NEW i \in 1 .. Len(acp_wire'), acp_wire'[i].s = s
        PROVE  i + 0 \in 1 .. Len(acp_wire) /\ acp_wire'[i] = acp_wire[i + 0]
    BY <1>1, <2>1, <2>2, AcpAppendLines
  <2> QED BY <2>2 DEF AcpOlder
<1> QED BY <1>2, <1>3, <1>4, <1>5

(* Opening survives the reading of a line.                                 *)
LEMMA AcpOpeningTail ==
  ASSUME AcpTypes, AcpOpening, acp_wire # <<>>, acp_wire' = Tail(acp_wire),
         \A s \in AcpSession : acp_step[s] = "opening"
           /\ ~(Head(acp_wire).m = "opened" /\ Head(acp_wire).s = s)
                             => acp_step'[s] = "opening"
  PROVE  AcpOpening'
<1>1. acp_wire \in Seq(AcpLines)
  BY DEF AcpTypes
<1>2. \A i \in 1 .. Len(acp_wire') : i + 1 \in 1 .. Len(acp_wire) /\ acp_wire'[i] = acp_wire[i + 1]
  BY <1>1, AcpTailLines
<1>3. 1 \in 1 .. Len(acp_wire) /\ Head(acp_wire) = acp_wire[1]
  BY <1>1, AcpTailLines
<1> SUFFICES ASSUME NEW i \in 1 .. Len(acp_wire'), acp_wire'[i].m = "opened"
             PROVE  /\ acp_step'[acp_wire'[i].s] = "opening"
                    /\ \A j \in 1 .. Len(acp_wire') :
                         acp_wire'[j].m = "opened" /\ acp_wire'[j].s = acp_wire'[i].s => i = j
  BY DEF AcpOpening
<1>4. /\ acp_step[acp_wire'[i].s] = "opening"
      /\ \A j \in 1 .. Len(acp_wire) : acp_wire[j].m = "opened" /\ acp_wire[j].s = acp_wire'[i].s => i + 1 = j
  BY <1>2 DEF AcpOpening
<1>5. acp_wire'[i].s \in AcpSession
  BY <1>1, <1>2, AcpEachLine
<1>6. ~(Head(acp_wire).m = "opened" /\ Head(acp_wire).s = acp_wire'[i].s)
  BY <1>3, <1>4
<1> QED BY <1>2, <1>4, <1>5, <1>6

(* Opening survives a new line that opens nothing.                         *)
LEMMA AcpOpeningAppend ==
  ASSUME AcpTypes, AcpOpening, NEW x \in AcpLines, x.m # "opened", acp_wire' = Append(acp_wire, x),
           acp_step' = acp_step
  PROVE  AcpOpening'
<1>1. acp_wire \in Seq(AcpLines)
  BY DEF AcpTypes
<1>2. ASSUME NEW i \in 1 .. Len(acp_wire'), acp_wire'[i].m = "opened"
      PROVE  i \in 1 .. Len(acp_wire) /\ acp_wire'[i] = acp_wire[i]
  BY <1>1, <1>2, AcpAppendLines
<1> QED BY <1>2 DEF AcpOpening

(* Opening depends on the wire and on the runs that open.                  *)
LEMMA AcpOpeningSame ==
  ASSUME AcpOpening, acp_wire' = acp_wire \/ acp_wire' = <<>>,
         acp_wire' = acp_wire => \A s \in AcpSession : acp_step[s] = "opening" => acp_step'[s] = "opening",
           AcpTypes
  PROVE  AcpOpening'
<1>1. acp_wire \in Seq(AcpLines)
  BY DEF AcpTypes
<1>2. \A i \in 1 .. Len(acp_wire) : acp_wire[i].s \in AcpSession
  BY <1>1, AcpEachLine
<1> QED BY <1>2 DEF AcpOpening

(* Replays survives the reading of a line that opens nothing, and of the   *)
(* one behind the history.                                                 *)
LEMMA AcpReplaysTail ==
  ASSUME AcpTypes, AcpReplays, acp_wire # <<>>, acp_wire' = Tail(acp_wire) PROVE AcpReplays'
<1>1. acp_wire \in Seq(AcpLines)
  BY DEF AcpTypes
<1>2. /\ \A i \in 1 .. Len(acp_wire') : i + 1 \in 1 .. Len(acp_wire) /\ acp_wire'[i] = acp_wire[i + 1]
      /\ Len(acp_wire) \in Nat /\ Len(acp_wire') = Len(acp_wire) - 1
  BY <1>1, AcpTailLines
<1> SUFFICES ASSUME NEW i \in 1 .. Len(acp_wire'), acp_wire'[i].n = 0
             PROVE  /\ acp_wire'[i].m = "text"
                    /\ \E j \in i + 1 .. Len(acp_wire') :
                         acp_wire'[j].m = "opened" /\ acp_wire'[j].s = acp_wire'[i].s
  BY DEF AcpReplays
<1>3. /\ acp_wire'[i].m = "text"
      /\ \E j \in i + 2 .. Len(acp_wire) : acp_wire[j].m = "opened" /\ acp_wire[j].s = acp_wire'[i].s
  BY <1>2 DEF AcpReplays
<1>4. PICK j \in i + 2 .. Len(acp_wire) : acp_wire[j].m = "opened" /\ acp_wire[j].s = acp_wire'[i].s
  BY <1>3
<1>5. j - 1 \in i + 1 .. Len(acp_wire') /\ acp_wire'[j - 1] = acp_wire[j]
  BY <1>2, <1>4
<1> QED BY <1>3, <1>4, <1>5

(* Replays survives a new line that is not history.                        *)
LEMMA AcpReplaysAppend ==
  ASSUME AcpTypes, AcpReplays, NEW x \in AcpLines, x.n # 0, acp_wire' = Append(acp_wire, x)
  PROVE  AcpReplays'
<1>1. acp_wire \in Seq(AcpLines)
  BY DEF AcpTypes
<1>2. /\ Len(acp_wire) \in Nat /\ Len(acp_wire') = Len(acp_wire) + 1 /\ acp_wire'[Len(acp_wire) + 1] = x
      /\ \A i \in 1 .. Len(acp_wire) : acp_wire'[i] = acp_wire[i]
  BY <1>1, AcpAppendLines
<1> SUFFICES ASSUME NEW i \in 1 .. Len(acp_wire'), acp_wire'[i].n = 0
             PROVE  /\ acp_wire'[i].m = "text"
                    /\ \E j \in i + 1 .. Len(acp_wire') :
                         acp_wire'[j].m = "opened" /\ acp_wire'[j].s = acp_wire'[i].s
  BY DEF AcpReplays
<1>3. i \in 1 .. Len(acp_wire) /\ acp_wire'[i] = acp_wire[i]
  BY <1>2
<1>4. /\ acp_wire[i].m = "text"
      /\ \E j \in i + 1 .. Len(acp_wire) : acp_wire[j].m = "opened" /\ acp_wire[j].s = acp_wire[i].s
  BY <1>3 DEF AcpReplays
<1>5. PICK j \in i + 1 .. Len(acp_wire) : acp_wire[j].m = "opened" /\ acp_wire[j].s = acp_wire[i].s
  BY <1>4
<1>6. j \in i + 1 .. Len(acp_wire') /\ acp_wire'[j] = acp_wire[j]
  BY <1>2, <1>3, <1>5
<1> QED BY <1>3, <1>4, <1>5, <1>6

-----------------------------------------------------------------------------
(* What is left of a run that ends.                                        *)
LEMMA AcpEndBase ==
  ASSUME AcpBase, NEW s \in AcpSession, NEW v, Acp!End(s, v)
  PROVE  /\ acp_failed' \subseteq AcpSession
              /\ acp_entry' \subseteq {x \in AcpSession : acp_step'[x] = "reading"}
         /\ acp_step' \in [AcpSession -> {"idle", "opening", "reading"}]
         /\ acp_queue' \in [AcpSession -> Seq(AcpLines)]
         /\ \A x \in AcpSession : acp_step'[x] # "idle" => x # s /\ acp_step'[x] = acp_step[x]
         /\ \A x \in AcpSession : acp_step'[x] # "reading" => acp_queue'[x] = <<>> /\ x \notin acp_failed'
         /\ \A x \in AcpSession : x # s => acp_queue'[x] = acp_queue[x] /\ acp_step'[x] = acp_step[x]
         /\ acp_queue'[s] = <<>> /\ acp_step'[s] = "idle" /\ s \notin acp_failed'
              /\ acp_failed' = acp_failed \ {s}
BY DEF AcpBase, Acp!TypeOK, AcpTypes, Acp!End, Acp!Set

(* Types are kept when a run begins.                                       *)
LEMMA AcpBaseBegin == ASSUME AcpBase, NEW s \in AcpSession, Acp!Begin(s) PROVE AcpBase'
<1>1. acp_wire' \in Seq(AcpLines)
  <2>1. Acp!Line("text", s, 0) \in AcpLines /\ Acp!Line("opened", s, acp_run[s] + 1) \in AcpLines
    BY DEF AcpBase, Acp!TypeOK, Acp!Line, AcpLines
  <2>2. acp_wire \in Seq(AcpLines)
    BY DEF AcpBase, AcpTypes
  <2>3. CASE acp_wire' = acp_wire \o (IF acp_run[s] = 0 THEN <<>> ELSE <<Acp!Line("text", s, 0)>>)
                          \o <<Acp!Line("opened", s, acp_run[s] + 1)>>
    <3>1. (IF acp_run[s] = 0 THEN <<>> ELSE <<Acp!Line("text", s, 0)>>) \in Seq(AcpLines)
      BY <2>1
    <3>2. <<Acp!Line("opened", s, acp_run[s] + 1)>> \in Seq(AcpLines)
      BY <2>1
    <3> QED BY <2>2, <2>3, <3>1, <3>2
  <2> QED BY <2>2, <2>3 DEF Acp!Begin
<1>2. /\ acp_run' = [acp_run EXCEPT ![s] = acp_run[s] + 1] /\ acp_words' = [acp_words EXCEPT ![s] = {}]
      /\ UNCHANGED <<acp_up, Acp!agent, acp_decisions, acp_abandoned, acp_faults>>
  BY DEF Acp!Begin, Acp!Set
<1> DEFINE n == acp_run[s] + 1
<1>21. n \in Nat /\ n # 0 /\ s \notin acp_entry
  BY DEF AcpBase, Acp!TypeOK, Acp!Begin
<1>22. acp_run' \in [AcpSession -> Nat] /\ acp_run'[s] # 0 /\ acp_words' \in [AcpSession -> SUBSET Nat]
       /\ \A x \in AcpSession : x # s => acp_run'[x] = acp_run[x]
  BY <1>2, <1>21 DEF AcpBase, Acp!TypeOK, AcpTypes
<1> HIDE DEF n
<1>3. CASE ~acp_up /\ Acp!End(s, "failed")
  <2>1. \A x \in AcpSession : acp_step'[x] # "idle" => acp_run'[x] # 0
    BY <1>22, <1>3, AcpEndBase DEF AcpBase, AcpTypes
  <2> QED BY <1>1, <1>2, <1>22, <1>3, <2>1, AcpEndBase DEF AcpBase, Acp!TypeOK, AcpTypes, Acp!agent
<1>4. CASE /\ acp_up /\ acp_step' = [acp_step EXCEPT ![s] = "opening"] /\ UNCHANGED <<acp_verdict, Acp!reader,
                acp_entry>>
  <2>1. \A x \in AcpSession : acp_step'[x] # "idle" => acp_run'[x] # 0
    BY <1>22, <1>4 DEF AcpBase, Acp!TypeOK, AcpTypes
  <2>2. /\ acp_step' \in [AcpSession -> {"idle", "opening", "reading"}]
        /\ acp_entry' \subseteq {x \in AcpSession : acp_step'[x] = "reading"}
        /\ \A x \in AcpSession : acp_step'[x] # "reading" => acp_queue'[x] = <<>> /\ x \notin acp_failed'
    BY <1>4 DEF AcpBase, Acp!TypeOK, AcpTypes, Acp!reader, Acp!Begin
  <2> QED BY <1>1, <1>2, <1>22, <1>4, <2>1, <2>2 DEF AcpBase, Acp!TypeOK, AcpTypes, Acp!agent, Acp!reader
<1> QED BY <1>3, <1>4 DEF Acp!Begin, Acp!Set

(* The line that is read.                                                  *)
LEMMA AcpHeadWire ==
  ASSUME AcpTypes, acp_wire # <<>>, acp_wire' = Tail(acp_wire)
  PROVE  /\ Head(acp_wire) \in AcpLines /\ Head(acp_wire).s \in AcpSession /\ Head(acp_wire).n \in Nat
         /\ Head(acp_wire) = acp_wire[1] /\ 1 \in 1 .. Len(acp_wire) /\ acp_wire' \in Seq(AcpLines)
         /\ \A i \in 1 .. Len(acp_wire') : i + 1 \in 1 .. Len(acp_wire) /\ acp_wire'[i] = acp_wire[i + 1]
<1>1. acp_wire \in Seq(AcpLines)
  BY DEF AcpTypes
<1> QED BY <1>1, AcpTailLines, AcpEachLine

(* Types are kept when a session is open.                                  *)
LEMMA AcpBaseOpened == ASSUME AcpBase, Acp!Opened PROVE AcpBase'
<1> DEFINE s == Head(acp_wire).s
<1>1. acp_wire # <<>> /\ acp_wire' = Tail(acp_wire) /\ UNCHANGED <<acp_up, acp_wants, acp_run, acp_words,
        acp_decisions>>
  BY DEF Acp!Opened, Acp!Reads
<1>2. s \in AcpSession /\ acp_wire' \in Seq(AcpLines)
  BY <1>1, AcpHeadWire DEF AcpBase
<1>3. CASE /\ acp_step[s] = "opening" /\ acp_step' = Acp!Set(acp_step, s, "reading")
           /\ acp_entry' = acp_entry \cup {s} /\ acp_works' = acp_works \cup {<<s, acp_run[s]>>}
           /\ UNCHANGED <<acp_verdict, Acp!reader, acp_faults>>
  BY <1>1, <1>2, <1>3 DEF AcpBase, Acp!TypeOK, AcpTypes, Acp!Set, Acp!reader
<1>4. CASE acp_step[s] = "opening" /\ Acp!End(s, "failed") /\ UNCHANGED acp_works
  BY <1>1, <1>2, <1>4, AcpEndBase DEF AcpBase, Acp!TypeOK, AcpTypes
<1>5. CASE UNCHANGED <<acp_step, acp_entry, acp_works, acp_verdict, Acp!reader, acp_faults>>
  BY <1>1, <1>2, <1>5 DEF AcpBase, Acp!TypeOK, AcpTypes, Acp!reader
<1> QED BY <1>3, <1>4, <1>5 DEF Acp!Opened

(* Types are kept when a line of a prompt is read.                         *)
LEMMA AcpBaseLines == ASSUME AcpBase, Acp!Update \/ Acp!Answered \/ Acp!PermissionRequested PROVE AcpBase'
<1> DEFINE s == Head(acp_wire).s
<1>1. /\ acp_wire # <<>> /\ acp_wire' = Tail(acp_wire)
      /\ UNCHANGED <<acp_up, acp_works, acp_step, acp_run, acp_words, acp_entry>>
  BY DEF Acp!Update, Acp!Answered, Acp!PermissionRequested, Acp!Reads, Acp!agent, Acp!runs
<1>2. s \in AcpSession /\ acp_wire' \in Seq(AcpLines) /\ Head(acp_wire) \in AcpLines
        /\ Head(acp_wire).n \in Nat
  BY <1>1, AcpHeadWire DEF AcpBase
<1>3. CASE Acp!Update
  <2>1. CASE s \in acp_entry /\ acp_queue' = [acp_queue EXCEPT ![s] = Append(acp_queue[s], Head(acp_wire))]
    <3>1. Append(acp_queue[s], Head(acp_wire)) \in Seq(AcpLines)
      BY <1>2 DEF AcpBase, AcpTypes
    <3>2. acp_queue' \in [AcpSession -> Seq(AcpLines)] /\ acp_step[s] = "reading" /\ UNCHANGED <<acp_wants,
            acp_decisions, acp_failed>>
      <4>1. acp_step[s] = "reading"
        BY <2>1 DEF AcpBase, Acp!TypeOK
      <4>2. UNCHANGED <<acp_wants, acp_decisions, acp_failed>>
        BY <1>3 DEF Acp!Update, Acp!agent
      <4> QED BY <1>2, <2>1, <3>1, <4>1, <4>2 DEF AcpBase, AcpTypes
    <3>3. \A x \in AcpSession : acp_step'[x] # "reading" => acp_queue'[x] = <<>> /\ x \notin acp_failed'
      BY <1>1, <1>2, <2>1, <3>2 DEF AcpBase, AcpTypes
    <3> QED BY <1>1, <1>2, <3>2, <3>3 DEF AcpBase, Acp!TypeOK, AcpTypes
  <2>2. CASE acp_queue' = acp_queue
    BY <1>1, <1>2, <1>3, <2>2 DEF AcpBase, Acp!TypeOK, AcpTypes, Acp!Update, Acp!agent
  <2> QED BY <1>3, <2>1, <2>2 DEF Acp!Update, Acp!Set
<1>4. CASE Acp!Answered
  <2>1. UNCHANGED <<acp_wants, acp_decisions>>
    BY <1>4 DEF Acp!Answered, Acp!agent
  <2>2. CASE acp_step[s] = "reading"
               /\ acp_queue' = [acp_queue EXCEPT ![s] = Append(acp_queue[s], Head(acp_wire))]
                    /\ acp_failed' = acp_failed
    <3>1. Append(acp_queue[s], Head(acp_wire)) \in Seq(AcpLines)
      BY <1>2 DEF AcpBase, AcpTypes
    <3>2. acp_queue' \in [AcpSession -> Seq(AcpLines)]
      BY <1>2, <2>2, <3>1 DEF AcpBase, AcpTypes
    <3> QED BY <1>1, <1>2, <2>1, <2>2, <3>2 DEF AcpBase, Acp!TypeOK, AcpTypes
  <2>3. CASE acp_queue' = acp_queue
               /\ (acp_failed' = acp_failed \/ (acp_step[s] = "reading" /\ acp_failed' = acp_failed \cup {s}))
    BY <1>1, <1>2, <2>1, <2>3 DEF AcpBase, Acp!TypeOK, AcpTypes
  <2>4. \/ acp_step[s] = "reading"
             /\ acp_queue' = [acp_queue EXCEPT ![s] = Append(acp_queue[s], Head(acp_wire))]
                  /\ acp_failed' = acp_failed
        \/ acp_queue' = acp_queue
             /\ (acp_failed' = acp_failed \/ (acp_step[s] = "reading" /\ acp_failed' = acp_failed \cup {s}))
    <3> DEFINE listens == Acp!Mine(Head(acp_wire)) /\ s \notin acp_failed
    <3>1. listens => acp_step[s] = "reading"
      BY DEF Acp!Mine
    <3>2. /\ acp_queue'  = IF listens /\ Head(acp_wire).m # "refused"
                       THEN Acp!Set(acp_queue, s, Append(acp_queue[s], Head(acp_wire))) ELSE acp_queue
          /\ acp_failed' = IF listens /\ Head(acp_wire).m = "refused" THEN acp_failed \cup {s} ELSE acp_failed
      BY <1>4 DEF Acp!Answered
    <3> HIDE DEF listens, s
    <3> QED BY <3>1, <3>2 DEF Acp!Set
  <2> QED BY <2>2, <2>3, <2>4
<1>5. CASE Acp!PermissionRequested
  <2>1. /\ acp_decisions' \subseteq [prompt : AcpPrompts, run : Nat] /\ acp_wants' \subseteq acp_wants
    BY <1>2, <1>5 DEF Acp!PermissionRequested, AcpBase, Acp!TypeOK, AcpTypes, AcpPrompts
  <2> QED BY <1>1, <1>2, <1>5, <2>1 DEF AcpBase, Acp!TypeOK, AcpTypes, Acp!PermissionRequested, Acp!reader
<1> QED BY <1>3, <1>4, <1>5

(* Types are kept when a run reads its queue.                              *)
LEMMA AcpBaseRead == ASSUME AcpBase, NEW s \in AcpSession, Acp!Read(s) \/ Acp!ReadFailure(s) PROVE AcpBase'
<1>1. UNCHANGED <<acp_up, acp_wire, Acp!agent, acp_run, acp_decisions>>
  BY DEF Acp!Read, Acp!ReadFailure
<1>2. CASE \E v \in {"completed", "failed"} : Acp!End(s, v) /\ UNCHANGED acp_words
  BY <1>1, <1>2, AcpEndBase DEF AcpBase, Acp!TypeOK, AcpTypes, Acp!agent
<1>3. CASE /\ acp_words' = [acp_words EXCEPT ![s] = acp_words[s] \cup {Head(acp_queue[s]).n}]
           /\ acp_queue' = [acp_queue EXCEPT ![s] = Tail(acp_queue[s])] /\ acp_queue[s] # <<>>
                /\ acp_step[s] = "reading"
           /\ UNCHANGED <<acp_step, acp_verdict, acp_failed, acp_entry>>
  <2>1. acp_queue[s] \in Seq(AcpLines)
    BY DEF AcpBase, AcpTypes
  <2>2. Tail(acp_queue[s]) \in Seq(AcpLines) /\ Head(acp_queue[s]).n \in Nat
    BY <1>3, <2>1, AcpTailLines, AcpEachLine
  <2> QED BY <1>1, <1>3, <2>2 DEF AcpBase, Acp!TypeOK, AcpTypes, Acp!agent
<1> QED BY <1>2, <1>3 DEF Acp!Read, Acp!ReadFailure, Acp!Set

(* Types are kept when a run is cancelled, timed out or dropped.           *)
LEMMA AcpBaseGateway ==
  ASSUME AcpBase, NEW s \in AcpSession, Acp!Cancel(s) \/ Acp!Timeout(s) \/ Acp!Drop(s) PROVE AcpBase'
<1>1. CASE Acp!Cancel(s)
  BY <1>1 DEF Acp!Cancel, AcpBase, Acp!TypeOK, AcpTypes, Acp!runs, Acp!reader
<1>2. CASE Acp!Timeout(s)
  BY <1>2 DEF Acp!Timeout, AcpBase, Acp!TypeOK, AcpTypes, Acp!runs
<1>3. CASE Acp!Drop(s)
  BY <1>3, AcpEndBase DEF Acp!Drop, AcpBase, Acp!TypeOK, AcpTypes, Acp!agent
<1> QED BY <1>1, <1>2, <1>3

(* Types are kept when a permission is decided.                            *)
LEMMA AcpBaseDecide == ASSUME AcpBase, NEW d \in acp_decisions, Acp!Decide(d) PROVE AcpBase'
  BY DEF Acp!Decide, AcpBase, Acp!TypeOK, AcpTypes, Acp!runs, Acp!reader

(* Types are kept by the agent, which writes one line at a time.           *)
LEMMA AcpBaseAgent ==
  ASSUME AcpBase, NEW p \in acp_works, Acp!Speaks(p) \/ Acp!Asks(p) \/ Acp!Ends(p)
  PROVE  /\ AcpBase' /\ p \in AcpPrompts /\ p = <<p[1], p[2]>> /\ p[2] # 0 /\ UNCHANGED <<acp_entry, Acp!runs,
              Acp!reader, acp_decisions, acp_abandoned>>
         /\ \E m \in {"text", "ask"} \cup AcpTerminal :
              /\ acp_wire' = Append(acp_wire, Acp!Line(m, p[1], p[2])) /\ Acp!Line(m, p[1], p[2]) \in AcpLines
              /\ acp_works' = IF m \in AcpTerminal THEN acp_works \ {p} ELSE acp_works
<1>1. p \in AcpPrompts /\ p[1] \in AcpSession /\ p[2] \in Nat /\ p = <<p[1], p[2]>> /\ p[2] # 0
  BY DEF AcpBase, Acp!TypeOK, AcpTypes, AcpPrompts
<1>2. \A m \in {"text", "ask"} \cup AcpTerminal : Acp!Line(m, p[1], p[2]) \in AcpLines
  BY <1>1 DEF Acp!Line, AcpLines
<1>3. \E m \in {"text", "ask"} \cup AcpTerminal :
        /\ acp_wire' = Append(acp_wire, Acp!Line(m, p[1], p[2]))
        /\ acp_works' = IF m \in AcpTerminal THEN acp_works \ {p} ELSE acp_works
  BY DEF Acp!Speaks, Acp!Asks, Acp!Ends, Acp!Says, AcpTerminal
<1>4. UNCHANGED <<acp_entry, Acp!runs, Acp!reader, acp_decisions, acp_abandoned, acp_up>>
        /\ acp_wants' \subseteq acp_works' /\ acp_works' \subseteq acp_works
  BY DEF Acp!Speaks, Acp!Asks, Acp!Ends, AcpBase, Acp!TypeOK
<1>5. acp_wire' \in Seq(AcpLines)
  <2>1. PICK m \in {"text", "ask"} \cup AcpTerminal : acp_wire' = Append(acp_wire, Acp!Line(m, p[1], p[2]))
    BY <1>3
  <2>2. Acp!Line(m, p[1], p[2]) \in AcpLines /\ acp_wire \in Seq(AcpLines)
    BY <1>2 DEF AcpBase, AcpTypes
  <2> QED BY <2>1, <2>2, AcpAppendLines
<1> QED BY <1>1, <1>2, <1>3, <1>4, <1>5 DEF AcpBase, Acp!TypeOK, AcpTypes, Acp!runs, Acp!reader

(* Types are kept when the child exits.                                    *)
LEMMA AcpBaseExit == ASSUME AcpBase, Acp!Exit PROVE AcpBase'
<1>1. /\ acp_step' = [s \in AcpSession |-> IF acp_step[s] = "opening" THEN "idle" ELSE acp_step[s]]
      /\ acp_wire' = <<>> /\ acp_works' = {} /\ acp_wants' = {} /\ acp_up' = FALSE
      /\ acp_failed' = acp_failed \cup acp_entry /\ acp_entry' = {}
      /\ UNCHANGED <<acp_run, acp_words, acp_queue, acp_decisions>>
  BY DEF Acp!Exit
<1>2. /\ acp_step' \in [AcpSession -> {"idle", "opening", "reading"}]
      /\ \A s \in AcpSession : acp_step'[s] = "reading" <=> acp_step[s] = "reading"
      /\ \A s \in AcpSession : acp_step'[s] # "idle" => acp_step[s] # "idle"
  BY <1>1 DEF AcpBase, Acp!TypeOK
<1>3. acp_wire' \in Seq(AcpLines)
  BY <1>1
<1> QED BY <1>1, <1>2, <1>3 DEF AcpBase, Acp!TypeOK, AcpTypes

-----------------------------------------------------------------------------
(* A prompt keeps its keeper while its request stays on the wire.          *)
LEMMA AcpKeepersKept ==
  ASSUME AcpTypes, Acp!WantHasKeeper, acp_wire' \in Seq(AcpLines),
         \A i \in 1 .. Len(acp_wire) :
           acp_wire[i].m = "ask" => \E j \in 1 .. Len(acp_wire') : acp_wire'[j] = acp_wire[i],
         acp_wants' \subseteq acp_wants, acp_decisions' = acp_decisions,
           acp_abandoned \subseteq acp_abandoned'
  PROVE  Acp!WantHasKeeper'
<1>1. DOMAIN acp_wire = 1 .. Len(acp_wire) /\ DOMAIN acp_wire' = 1 .. Len(acp_wire')
  BY DEF AcpTypes
<1>2. ASSUME NEW p \in acp_wants', Acp!Line("ask", p[1], p[2]) \in {acp_wire[i] : i \in DOMAIN acp_wire}
      PROVE  Acp!Line("ask", p[1], p[2]) \in {acp_wire'[i] : i \in DOMAIN acp_wire'}
  BY <1>1, <1>2 DEF Acp!Line
<1> QED BY <1>2 DEF Acp!WantHasKeeper

(* One line after none, and after one.                                     *)
LEMMA AcpExtended ==
  ASSUME NEW q \in Seq(AcpLines), NEW a \in AcpLines, NEW b \in AcpLines
  PROVE  /\ (q \o <<>>) \o <<b>> = Append(q, b)
         /\ (q \o <<a>>) \o <<b>> = Append(Append(q, a), b)
<1>1. q \o <<>> = q
  OBVIOUS
<1>2. \A r \in Seq(AcpLines), x \in AcpLines : r \o <<x>> = Append(r, x)
  OBVIOUS
<1>3. Append(q, a) \in Seq(AcpLines)
  OBVIOUS
<1> QED BY <1>1, <1>2, <1>3

(* The lines with two more.                                                *)
LEMMA AcpAppendTwice ==
  ASSUME NEW q \in Seq(AcpLines), NEW a \in AcpLines, NEW b \in AcpLines
  PROVE  LET r == Append(Append(q, a), b) IN
         /\ Len(r) = Len(q) + 2 /\ r[Len(q) + 1] = a /\ r[Len(q) + 2] = b
         /\ \A i \in 1 .. Len(q) : r[i] = q[i]
<1>1. PICK x \in Seq(AcpLines) : x = Append(q, a)
  BY AcpAppendLines
<1>2. PICK r \in Seq(AcpLines) : r = Append(x, b)
  BY AcpAppendLines
<1>3. /\ Len(x) = Len(q) + 1 /\ x[Len(q) + 1] = a /\ Len(q) \in Nat
      /\ \A i \in 1 .. Len(q) : x[i] = q[i]
  BY <1>1, AcpAppendLines
<1>4. Len(r) = Len(x) + 1 /\ r[Len(x) + 1] = b /\ \A i \in 1 .. Len(x) : r[i] = x[i]
  BY <1>2, AcpAppendLines
<1>5. /\ Len(r) = Len(q) + 2 /\ r[Len(q) + 1] = a /\ r[Len(q) + 2] = b
      /\ \A i \in 1 .. Len(q) : r[i] = q[i]
  BY <1>3, <1>4
<1> QED BY <1>1, <1>2, <1>5

(* The lines of a run that opens its session: h of them are history.       *)
AcpLonger(q, w, a, b, h) ==
  /\ Len(q) \in Nat /\ Len(w) = Len(q) + h + 1
  /\ \A i \in 1 .. Len(q) : w[i] = q[i]
  /\ h = 1 => w[Len(q) + 1] = a
  /\ w[Len(q) + h + 1] = b

(* A first run writes the line that opens its session.                     *)
LEMMA AcpLongerByOne ==
  ASSUME NEW q \in Seq(AcpLines), NEW a, NEW b \in AcpLines PROVE AcpLonger(q, Append(q, b), a, b, 0)
<1>1. PICK w : w = Append(q, b)
  OBVIOUS
<1>2. /\ Len(w) = Len(q) + 1 /\ w[Len(q) + 1] = b /\ Len(q) \in Nat
      /\ \A i \in 1 .. Len(q) : w[i] = q[i]
  BY <1>1, AcpAppendLines
<1>3. Len(q) + 0 + 1 = Len(q) + 1
  BY <1>2
<1> QED BY <1>1, <1>2, <1>3 DEF AcpLonger

(* A later run is preceded by the history.                                 *)
LEMMA AcpLongerByTwo ==
  ASSUME NEW q \in Seq(AcpLines), NEW a \in AcpLines, NEW b \in AcpLines
  PROVE  AcpLonger(q, Append(Append(q, a), b), a, b, 1)
<1>1. PICK w : w = Append(Append(q, a), b)
  OBVIOUS
<1>2. /\ Len(w) = Len(q) + 2 /\ w[Len(q) + 1] = a /\ w[Len(q) + 2] = b /\ Len(q) \in Nat
      /\ \A i \in 1 .. Len(q) : w[i] = q[i]
  BY <1>1, AcpAppendTwice
<1>3. Len(q) + 1 + 1 = Len(q) + 2
  BY <1>2
<1> QED BY <1>1, <1>2, <1>3 DEF AcpLonger

(* The wire a run leaves when it begins, as an operator of its lines.      *)
LEMMA AcpBeginWire ==
  ASSUME NEW q \in Seq(AcpLines), NEW c \in BOOLEAN, NEW a \in AcpLines, NEW b \in AcpLines
  PROVE  \E h \in {0, 1} :
           AcpLonger(q, (q \o (IF c THEN <<>> ELSE <<a>>)) \o <<b>>, a, b, h)
<1>1. CASE c
  <2>1. (q \o (IF c THEN <<>> ELSE <<a>>)) \o <<b>> = Append(q, b)
    BY <1>1, AcpExtended
  <2> QED BY <2>1, AcpLongerByOne
<1>2. CASE ~c
  <2>1. (q \o (IF c THEN <<>> ELSE <<a>>)) \o <<b>> = Append(Append(q, a), b)
    BY <1>2, AcpExtended
  <2> QED BY <2>1, AcpLongerByTwo
<1> QED BY <1>1, <1>2

(* The wire a run leaves when it begins.                                   *)
LEMMA AcpBeginLines ==
  ASSUME AcpBase, NEW s \in AcpSession,
         acp_wire' = acp_wire \o (IF acp_run[s] = 0 THEN <<>> ELSE <<Acp!Line("text", s, 0)>>)
                      \o <<Acp!Line("opened", s, acp_run[s] + 1)>>
  PROVE  \E h \in {0, 1} :
           /\ Len(acp_wire) \in Nat /\ Len(acp_wire') = Len(acp_wire) + h + 1
           /\ \A i \in 1 .. Len(acp_wire) : acp_wire'[i] = acp_wire[i]
           /\ h = 1 => acp_wire'[Len(acp_wire) + 1] = Acp!Line("text", s, 0)
           /\ acp_wire'[Len(acp_wire) + h + 1] = Acp!Line("opened", s, acp_run[s] + 1)
<1> DEFINE a == Acp!Line("text", s, 0)
           b == Acp!Line("opened", s, acp_run[s] + 1)
<1>1. a \in AcpLines /\ b \in AcpLines /\ acp_wire \in Seq(AcpLines)
  BY DEF AcpBase, Acp!TypeOK, AcpTypes, Acp!Line, AcpLines
<1>2. acp_wire' = (acp_wire \o (IF acp_run[s] = 0 THEN <<>> ELSE <<a>>)) \o <<b>>
  OBVIOUS
<1> HIDE DEF a, b
<1>3. \E h \in {0, 1} : AcpLonger(acp_wire, acp_wire', a, b, h)
  BY <1>1, <1>2, AcpBeginWire
<1> QED BY <1>3 DEF AcpLonger, a, b

(* Order and keepers are kept when a run begins.                           *)
LEMMA AcpRestBegin == ASSUME AcpBase, AcpRest, NEW s \in AcpSession, Acp!Begin(s) PROVE AcpRest'
<1>1. /\ acp_words' = [acp_words EXCEPT ![s] = {}] /\ UNCHANGED <<acp_wants, acp_decisions, acp_abandoned>>
      /\ acp_step[s] = "idle"
  BY DEF Acp!Begin, Acp!Set, Acp!agent
<1>2. CASE ~acp_up /\ Acp!End(s, "failed") /\ UNCHANGED acp_wire
  <2>1. AcpHeard'
    BY <1>1, <1>2, AcpEndBase DEF AcpHeard, AcpRest, AcpBase, AcpTypes
  <2>2. AcpOpening'
    BY <1>1, <1>2, AcpEndBase, AcpOpeningSame DEF AcpRest, AcpBase
  <2>3. AcpReplays' /\ Acp!WantHasKeeper'
    BY <1>1, <1>2 DEF AcpReplays, Acp!WantHasKeeper, AcpRest
  <2> QED BY <2>1, <2>2, <2>3 DEF AcpRest
<1>3. CASE /\ acp_up /\ acp_step' = [acp_step EXCEPT ![s] = "opening"] /\ UNCHANGED Acp!reader
           /\ acp_wire' = acp_wire \o (IF acp_run[s] = 0 THEN <<>> ELSE <<Acp!Line("text", s, 0)>>)
                        \o <<Acp!Line("opened", s, acp_run[s] + 1)>>
  <2>1. PICK h \in {0, 1} :
           /\ Len(acp_wire) \in Nat /\ Len(acp_wire') = Len(acp_wire) + h + 1
           /\ \A i \in 1 .. Len(acp_wire) : acp_wire'[i] = acp_wire[i]
           /\ h = 1 => acp_wire'[Len(acp_wire) + 1] = Acp!Line("text", s, 0)
           /\ acp_wire'[Len(acp_wire) + h + 1] = Acp!Line("opened", s, acp_run[s] + 1)
    BY <1>3, AcpBeginLines
  <2>2. AcpHeard'
    BY <1>1, <1>3 DEF AcpHeard, AcpRest, AcpBase, AcpTypes, Acp!reader
  <2>3. \A i \in 1 .. Len(acp_wire) : acp_wire[i] \in AcpLines /\ acp_wire[i].s \in AcpSession
    BY AcpEachLine DEF AcpBase, AcpTypes
  <2>4. \A i \in 1 .. Len(acp_wire') :
          \/ i \in 1 .. Len(acp_wire) /\ acp_wire'[i] = acp_wire[i]
          \/ i = Len(acp_wire) + 1 /\ h = 1 /\ acp_wire'[i] = Acp!Line("text", s, 0)
          \/ i = Len(acp_wire) + h + 1 /\ acp_wire'[i] = Acp!Line("opened", s, acp_run[s] + 1)
    BY <2>1
  <2>5. AcpOpening'
    <3>1. \A i \in 1 .. Len(acp_wire') : acp_wire'[i].m = "opened" =>
            \/ i \in 1 .. Len(acp_wire) /\ acp_wire'[i] = acp_wire[i] /\ acp_wire[i].s # s
                 /\ acp_wire[i].m = "opened"
            \/ i = Len(acp_wire) + h + 1 /\ acp_wire'[i].s = s
      BY <1>1, <2>4 DEF Acp!Line, AcpRest, AcpOpening
    <3>2. ASSUME NEW i \in 1 .. Len(acp_wire'), acp_wire'[i].m = "opened"
          PROVE  acp_step'[acp_wire'[i].s] = "opening"
      <4>1. /\ DOMAIN acp_step = AcpSession
            /\ \A x \in AcpSession : acp_step'[x] = (IF x = s THEN "opening" ELSE acp_step[x])
        BY <1>3 DEF AcpBase, Acp!TypeOK
      <4>2. CASE i \in 1 .. Len(acp_wire) /\ acp_wire'[i] = acp_wire[i]
        <5>1. acp_step[acp_wire[i].s] = "opening" /\ acp_wire[i].s \in AcpSession
          BY <2>3, <3>2, <4>2 DEF AcpRest, AcpOpening
        <5> QED BY <4>1, <4>2, <5>1
      <4>3. CASE acp_wire'[i].s = s
        BY <4>1, <4>3
      <4> QED BY <3>1, <3>2, <4>2, <4>3
    <3>3. ASSUME NEW i \in 1 .. Len(acp_wire'), NEW j \in 1 .. Len(acp_wire'), acp_wire'[i].m = "opened",
                 acp_wire'[j].m = "opened", acp_wire'[j].s = acp_wire'[i].s
          PROVE  i = j
      BY <3>1, <3>3 DEF AcpRest, AcpOpening
    <3> QED BY <3>2, <3>3 DEF AcpOpening
  <2>6. AcpReplays'
    <3> SUFFICES ASSUME NEW i \in 1 .. Len(acp_wire'), acp_wire'[i].n = 0
                 PROVE  /\ acp_wire'[i].m = "text"
                        /\ \E j \in i + 1 .. Len(acp_wire') :
                             acp_wire'[j].m = "opened" /\ acp_wire'[j].s = acp_wire'[i].s
      BY DEF AcpReplays
    <3>1. CASE i \in 1 .. Len(acp_wire) /\ acp_wire'[i] = acp_wire[i]
      <4>1. PICK j \in i + 1 .. Len(acp_wire) : acp_wire[j].m = "opened" /\ acp_wire[j].s = acp_wire[i].s
        BY <3>1 DEF AcpRest, AcpReplays
      <4>2. j \in i + 1 .. Len(acp_wire') /\ acp_wire'[j] = acp_wire[j]
        BY <2>1, <3>1, <4>1
      <4> QED BY <3>1, <4>1, <4>2 DEF AcpRest, AcpReplays
    <3>2. CASE i = Len(acp_wire) + 1 /\ h = 1 /\ acp_wire'[i] = Acp!Line("text", s, 0)
      <4>1. i + 1 \in i + 1 .. Len(acp_wire') /\ acp_wire'[i + 1] = Acp!Line("opened", s, acp_run[s] + 1)
        BY <2>1, <3>2
      <4> QED BY <3>2, <4>1 DEF Acp!Line
    <3>3. CASE acp_wire'[i] = Acp!Line("opened", s, acp_run[s] + 1)
      BY <3>3 DEF Acp!Line, AcpBase, Acp!TypeOK
    <3> QED BY <2>4, <3>1, <3>2, <3>3
  <2>7. Acp!WantHasKeeper'
    <3>1. \A i \in 1 .. Len(acp_wire) : i \in 1 .. Len(acp_wire') /\ acp_wire'[i] = acp_wire[i]
      BY <2>1
    <3>2. acp_wire' \in Seq(AcpLines)
      BY AcpBaseBegin DEF AcpBase, AcpTypes
    <3> QED BY <1>1, <3>1, <3>2, AcpKeepersKept DEF AcpBase, AcpRest
  <2> QED BY <2>2, <2>5, <2>6, <2>7 DEF AcpRest
<1> QED BY <1>2, <1>3 DEF Acp!Begin, Acp!Set

(* A prompt keeps its keeper when a line that asks for nothing is read.    *)
LEMMA AcpKeepersTail ==
  ASSUME AcpTypes, Acp!WantHasKeeper, acp_wire # <<>>, acp_wire' = Tail(acp_wire), Head(acp_wire).m # "ask",
         acp_wants' \subseteq acp_wants, acp_decisions' = acp_decisions,
           acp_abandoned \subseteq acp_abandoned'
  PROVE  Acp!WantHasKeeper'
<1>1. acp_wire \in Seq(AcpLines)
  BY DEF AcpTypes
<1>2. /\ Head(acp_wire) = acp_wire[1] /\ Len(acp_wire) \in Nat /\ Len(acp_wire') = Len(acp_wire) - 1
      /\ \A i \in 1 .. Len(acp_wire') : acp_wire'[i] = acp_wire[i + 1]
      /\ acp_wire' \in Seq(AcpLines)
  BY <1>1, AcpTailLines
<1>3. ASSUME NEW i \in 1 .. Len(acp_wire), acp_wire[i].m = "ask"
      PROVE  \E j \in 1 .. Len(acp_wire') : acp_wire'[j] = acp_wire[i]
  <2>1. i # 1
    BY <1>2, <1>3
  <2>2. i - 1 \in 1 .. Len(acp_wire') /\ acp_wire'[i - 1] = acp_wire[i]
    BY <1>2, <2>1
  <2> QED BY <2>2
<1> QED BY <1>2, <1>3, AcpKeepersKept

(* Order and keepers are kept when a session is open.                      *)
LEMMA AcpRestOpened == ASSUME AcpBase, AcpRest, Acp!Opened PROVE AcpRest'
<1> DEFINE s == Head(acp_wire).s
<1>1. /\ acp_wire # <<>> /\ acp_wire' = Tail(acp_wire) /\ Head(acp_wire).m = "opened"
      /\ UNCHANGED <<acp_wants, acp_words, acp_decisions, acp_abandoned>>
  BY DEF Acp!Opened, Acp!Reads
<1>2. s \in AcpSession
  BY <1>1, AcpHeadWire DEF AcpBase
<1>3. /\ \A x \in AcpSession : x # s => acp_step'[x] = acp_step[x]
      /\ \A x \in AcpSession : acp_queue'[x] \in {acp_queue[x], <<>>}
  <2>1. CASE acp_step' = Acp!Set(acp_step, s, "reading") /\ UNCHANGED Acp!reader
    BY <1>2, <2>1 DEF Acp!Set, Acp!reader, AcpBase, Acp!TypeOK
  <2>2. CASE Acp!End(s, "failed")
    BY <1>2, <2>2, AcpEndBase
  <2>3. CASE UNCHANGED <<acp_step, Acp!reader>>
    BY <2>3 DEF Acp!reader
  <2> QED BY <2>1, <2>2, <2>3 DEF Acp!Opened
<1>4. AcpOpening'
  BY <1>1, <1>3, AcpOpeningTail DEF AcpBase, AcpRest
<1>5. AcpReplays' /\ Acp!WantHasKeeper'
  BY <1>1, AcpReplaysTail, AcpKeepersTail DEF AcpBase, AcpRest
<1>6. AcpHeard'
  BY <1>1, <1>3 DEF AcpRest, AcpHeard
<1> QED BY <1>4, <1>5, <1>6 DEF AcpRest

(* A line that is read for a session that is open is not history.          *)
LEMMA AcpHeadCounts ==
  ASSUME AcpTypes, AcpOpening, AcpReplays, acp_wire # <<>>, acp_step[Head(acp_wire).s] # "opening"
  PROVE  Head(acp_wire).n # 0
<1>1. acp_wire \in Seq(AcpLines)
  BY DEF AcpTypes
<1>2. 1 \in 1 .. Len(acp_wire) /\ Head(acp_wire) = acp_wire[1] /\ Len(acp_wire) \in Nat
  BY <1>1
<1> SUFFICES ASSUME acp_wire[1].n = 0 PROVE FALSE
  BY <1>2
<1>3. PICK j \in 1 + 1 .. Len(acp_wire) : acp_wire[j].m = "opened" /\ acp_wire[j].s = acp_wire[1].s
  BY <1>2 DEF AcpReplays
<1>4. j \in 1 .. Len(acp_wire)
  BY <1>2
<1> QED BY <1>2, <1>3, <1>4 DEF AcpOpening

(* A session with an entry is open.                                        *)
LEMMA AcpOwnNotOpening ==
  ASSUME AcpBase, NEW s \in acp_entry PROVE acp_step[s] = "reading" /\ s \in AcpSession
BY DEF AcpBase, Acp!TypeOK

(* Order and keepers are kept when a line of a prompt is read: a handler   *)
(* takes the place of the request it has read.                             *)
LEMMA AcpRestLines ==
  ASSUME AcpBase, AcpRest, Acp!Update \/ Acp!Answered \/ Acp!PermissionRequested,
         \A s \in AcpSession : s \in acp_abandoned \/ AcpFollows(s)
  PROVE  AcpRest'
<1> DEFINE s == Head(acp_wire).s
<1>1. /\ acp_wire # <<>> /\ acp_wire' = Tail(acp_wire) /\ Head(acp_wire).m # "opened"
      /\ UNCHANGED <<acp_words, acp_step, acp_run, acp_entry, acp_abandoned>>
  BY DEF Acp!Update, Acp!Answered, Acp!PermissionRequested, Acp!Reads, Acp!runs
<1>2. s \in AcpSession /\ Head(acp_wire) \in AcpLines
  BY <1>1, AcpHeadWire DEF AcpBase
<1>3. AcpOpening' /\ AcpReplays'
  BY <1>1, AcpReplaysTail, AcpOpeningTail DEF AcpBase, AcpRest
<1>4. acp_step[s] = "reading" => Head(acp_wire).n # 0
  BY <1>1, AcpHeadCounts DEF AcpBase, AcpRest
<1>5. AcpHeard'
  <2>1. CASE acp_queue' = acp_queue
    BY <1>1, <2>1 DEF AcpRest, AcpHeard
  <2>2. CASE acp_step[s] = "reading"
               /\ acp_queue' = [acp_queue EXCEPT ![s] = Append(acp_queue[s], Head(acp_wire))]
    <3>1. acp_queue[s] \in Seq(AcpLines) /\ acp_queue'[s] = Append(acp_queue[s], Head(acp_wire))
      BY <1>2, <2>2 DEF AcpBase, AcpTypes
    <3>2. \A i \in 1 .. Len(acp_queue'[s]) : acp_queue'[s][i].n # 0
      BY <1>2, <1>4, <2>2, <3>1, AcpAppendLines DEF AcpRest, AcpHeard
    <3> QED BY <1>1, <2>2, <3>2 DEF AcpRest, AcpHeard, AcpBase, AcpTypes
  <2>3. \/ acp_queue' = acp_queue
        \/ acp_step[s] = "reading"
             /\ acp_queue' = [acp_queue EXCEPT ![s] = Append(acp_queue[s], Head(acp_wire))]
    BY <1>2, AcpOwnNotOpening DEF Acp!Update, Acp!Answered, Acp!PermissionRequested, Acp!Set, Acp!Mine,
         Acp!reader
  <2> QED BY <2>1, <2>2, <2>3
<1>6. CASE Acp!Update \/ Acp!Answered
  BY <1>1, <1>3, <1>5, <1>6, AcpKeepersTail DEF AcpRest, AcpBase, Acp!Update, Acp!Answered, Acp!Reads,
       Acp!agent
<1>7. CASE Acp!PermissionRequested
  <2>1. /\ acp_wire \in Seq(AcpLines) /\ Head(acp_wire) = acp_wire[1] /\ Len(acp_wire) \in Nat
             /\ Len(acp_wire') = Len(acp_wire) - 1
        /\ \A i \in 1 .. Len(acp_wire') : acp_wire'[i] = acp_wire[i + 1]
        /\ DOMAIN acp_wire = 1 .. Len(acp_wire) /\ DOMAIN acp_wire' = 1 .. Len(acp_wire')
    BY <1>1, AcpTailLines DEF AcpBase, AcpTypes
  <2> DEFINE prompt == <<s, Head(acp_wire).n>>
  <2>2. ASSUME NEW p \in acp_wants', Acp!Line("ask", p[1], p[2]) \in {acp_wire[i] : i \in DOMAIN acp_wire}
        PROVE  \/ Acp!Line("ask", p[1], p[2]) \in {acp_wire'[i] : i \in DOMAIN acp_wire'}
               \/ \E d \in acp_decisions' : d.prompt = p
    <3>1. PICK i \in 1 .. Len(acp_wire) : acp_wire[i] = Acp!Line("ask", p[1], p[2])
      BY <2>1, <2>2
    <3>2. CASE i # 1
      <4>1. i - 1 \in 1 .. Len(acp_wire') /\ acp_wire'[i - 1] = acp_wire[i]
        BY <2>1, <3>2
      <4> QED BY <2>1, <3>1, <4>1
    <3>3. CASE i = 1
      <4>1. p \in acp_wants /\ p = <<p[1], p[2]>>
        BY <1>7 DEF Acp!PermissionRequested, AcpBase, Acp!TypeOK
      <4>2. p = prompt
        BY <2>1, <3>1, <3>3, <4>1 DEF Acp!Line
      <4>3. [prompt |-> prompt, run |-> acp_run[s]] \in acp_decisions'
        BY <1>7, <4>2 DEF Acp!PermissionRequested
      <4> QED BY <4>2, <4>3
    <3> QED BY <3>2, <3>3
  <2>3. ASSUME NEW d \in acp_decisions' PROVE d.run = d.prompt[2] \/ d.prompt[1] \in acp_abandoned'
    <3>1. CASE d \in acp_decisions
      BY <1>1, <3>1 DEF AcpRest, Acp!WantHasKeeper
    <3>2. CASE s \in acp_entry /\ d = [prompt |-> prompt, run |-> acp_run[s]]
      <4>1. acp_step[s] = "reading"
        BY <3>2, AcpOwnNotOpening
      <4>2. 1 \in 1 .. Len(acp_wire) /\ AcpTalks(s, 1)
        BY <1>1, <1>4, <2>1, <4>1 DEF AcpTalks
      <4>3. s \in acp_abandoned \/ Head(acp_wire).n = acp_run[s]
        BY <1>2, <2>1, <4>2 DEF AcpFollows
      <4> QED BY <1>1, <3>2, <4>3
    <3> QED BY <1>7, <3>1, <3>2 DEF Acp!PermissionRequested
  <2>4. acp_wants' \subseteq acp_wants /\ acp_decisions \subseteq acp_decisions'
    BY <1>7 DEF Acp!PermissionRequested
  <2>5. Acp!WantHasKeeper'
    BY <2>2, <2>3, <2>4 DEF AcpRest, Acp!WantHasKeeper
  <2> QED BY <1>3, <1>5, <2>5 DEF AcpRest
<1> QED BY <1>6, <1>7

(* Order and keepers are kept when a run reads its queue.                  *)
LEMMA AcpRestRead == ASSUME AcpBase, AcpRest, NEW s \in AcpSession,
  Acp!Read(s) \/ Acp!ReadFailure(s) PROVE AcpRest'
<1>1. UNCHANGED <<acp_wire, Acp!agent, acp_run, acp_decisions, acp_abandoned>> /\ acp_step[s] = "reading"
  BY DEF Acp!Read, Acp!ReadFailure
<1>2. \A x \in AcpSession : acp_step[x] = "opening" => acp_step'[x] = "opening"
  <2>1. CASE acp_step' = acp_step
    BY <2>1
  <2>2. CASE \E v : Acp!End(s, v)
    BY <1>1, <2>2, AcpEndBase
  <2> QED BY <2>1, <2>2 DEF Acp!Read, Acp!ReadFailure
<1>3. AcpOpening' /\ AcpReplays' /\ Acp!WantHasKeeper'
  BY <1>1, <1>2, AcpOpeningSame DEF AcpBase, AcpRest, AcpReplays, Acp!WantHasKeeper, Acp!agent
<1>4. AcpHeard'
  <2>1. CASE (\E v : Acp!End(s, v)) /\ UNCHANGED acp_words
    BY <2>1, AcpEndBase DEF AcpRest, AcpHeard
  <2>2. CASE /\ acp_words' = [acp_words EXCEPT ![s] = acp_words[s] \cup {Head(acp_queue[s]).n}]
             /\ acp_queue' = [acp_queue EXCEPT ![s] = Tail(acp_queue[s])] /\ acp_queue[s] # <<>>
    <3>1. acp_queue[s] \in Seq(AcpLines)
      BY DEF AcpBase, AcpTypes
    <3>2. Head(acp_queue[s]).n # 0 /\ \A i \in 1 .. Len(Tail(acp_queue[s])) : Tail(acp_queue[s])[i].n # 0
      <4>1. \A i \in 1 .. Len(acp_queue[s]) : acp_queue[s][i].n # 0
        BY DEF AcpRest, AcpHeard
      <4>2. acp_queue[s] # <<>>
        BY <2>2
      <4>3. /\ 1 \in 1 .. Len(acp_queue[s]) /\ Head(acp_queue[s]) = acp_queue[s][1]
            /\ \A i \in 1 .. Len(Tail(acp_queue[s])) :
                 i + 1 \in 1 .. Len(acp_queue[s]) /\ Tail(acp_queue[s])[i] = acp_queue[s][i + 1]
        <5>1. /\ Len(acp_queue[s]) \in Nat /\ Len(acp_queue[s]) >= 1
              /\ Head(acp_queue[s]) = acp_queue[s][1]
              /\ \A i \in 1 .. Len(Tail(acp_queue[s])) :
                   i + 1 \in 1 .. Len(acp_queue[s]) /\ Tail(acp_queue[s])[i] = acp_queue[s][i + 1]
          BY <3>1, <4>2, AcpTailLines
        <5> QED BY <5>1
      <4> QED BY <4>1, <4>3
    <3>3. /\ acp_queue \in [AcpSession -> Seq(AcpLines)] /\ acp_words \in [AcpSession -> SUBSET Nat]
          /\ AcpHeard
      BY DEF AcpRest, AcpBase, AcpTypes
    <3>4. \A x \in AcpSession : 0 \notin acp_words'[x]
      BY <2>2, <3>2, <3>3 DEF AcpHeard
    <3>5. \A x \in AcpSession : \A i \in 1 .. Len(acp_queue'[x]) : acp_queue'[x][i].n # 0
      BY <2>2, <3>2, <3>3 DEF AcpHeard
    <3> QED BY <3>4, <3>5 DEF AcpHeard
  <2> QED BY <2>1, <2>2 DEF Acp!Read, Acp!ReadFailure, Acp!Set
<1> QED BY <1>3, <1>4 DEF AcpRest

(* Order and keepers are kept when a run is cancelled, timed out or        *)
(* dropped.                                                                *)
LEMMA AcpRestGateway ==
  ASSUME AcpBase, AcpRest, NEW s \in AcpSession, Acp!Cancel(s) \/ Acp!Timeout(s) \/ Acp!Drop(s) PROVE AcpRest'
<1>1. UNCHANGED <<acp_wire, acp_wants, acp_words, acp_decisions>> /\ acp_step[s] = "reading"
        /\ acp_abandoned \subseteq acp_abandoned'
  BY DEF Acp!Cancel, Acp!Timeout, Acp!Drop, Acp!agent, Acp!runs
<1>2. /\ \A x \in AcpSession : acp_step[x] = "opening" => acp_step'[x] = "opening"
      /\ \A x \in AcpSession : acp_queue'[x] \in {acp_queue[x], <<>>}
  <2>1. CASE UNCHANGED <<acp_step, acp_queue>>
    BY <2>1
  <2>2. CASE Acp!Drop(s)
    BY <1>1, <2>2, AcpEndBase DEF Acp!Drop
  <2> QED BY <2>1, <2>2 DEF Acp!Cancel, Acp!Timeout, Acp!runs, Acp!reader
<1>3. AcpOpening' /\ AcpHeard'
  BY <1>1, <1>2, AcpOpeningSame DEF AcpBase, AcpRest, AcpHeard
<1> QED BY <1>1, <1>3 DEF AcpRest, AcpReplays, Acp!WantHasKeeper

(* Order and keepers are kept when a permission is decided.                *)
LEMMA AcpRestDecide == ASSUME AcpBase, AcpRest, NEW d \in acp_decisions, Acp!Decide(d) PROVE AcpRest'
<1>1. /\ acp_decisions' = acp_decisions \ {d} /\ acp_wants' = acp_wants \ {d.prompt}
      /\ UNCHANGED <<acp_wire, acp_step, acp_words, acp_queue, acp_abandoned>>
  BY DEF Acp!Decide, Acp!runs, Acp!reader
<1>2. AcpOpening' /\ AcpHeard' /\ AcpReplays'
  BY <1>1 DEF AcpRest, AcpOpening, AcpHeard, AcpReplays
<1> QED BY <1>1, <1>2 DEF AcpRest, Acp!WantHasKeeper

(* Order and keepers are kept by the agent.                                *)
LEMMA AcpRestAgent ==
  ASSUME AcpBase, AcpRest, NEW p \in acp_works, Acp!Speaks(p) \/ Acp!Asks(p) \/ Acp!Ends(p) PROVE AcpRest'
<1>1. PICK m \in {"text", "ask"} \cup AcpTerminal :
        acp_wire' = Append(acp_wire, Acp!Line(m, p[1], p[2])) /\ Acp!Line(m, p[1], p[2]) \in AcpLines
  BY AcpBaseAgent
<1>2. /\ p[2] # 0 /\ p = <<p[1], p[2]>> /\ UNCHANGED <<acp_step, acp_words, acp_queue, acp_decisions,
           acp_abandoned>>
  BY AcpBaseAgent DEF Acp!runs, Acp!reader
<1>3. m # "opened"
  BY DEF AcpTerminal
<1>4. Acp!Line(m, p[1], p[2]).m = m /\ Acp!Line(m, p[1], p[2]).n = p[2]
  BY DEF Acp!Line
<1>5. AcpOpening' /\ AcpReplays' /\ AcpHeard'
  BY <1>1, <1>2, <1>3, <1>4, AcpOpeningAppend, AcpReplaysAppend DEF AcpBase, AcpRest, AcpHeard
<1>6. /\ acp_wire \in Seq(AcpLines) /\ acp_wire' \in Seq(AcpLines) /\ Len(acp_wire) \in Nat
           /\ Len(acp_wire') = Len(acp_wire) + 1
      /\ acp_wire'[Len(acp_wire) + 1] = Acp!Line(m, p[1], p[2])
      /\ \A i \in 1 .. Len(acp_wire) : i \in 1 .. Len(acp_wire') /\ acp_wire'[i] = acp_wire[i]
  BY <1>1, AcpAppendLines DEF AcpBase, AcpTypes
<1>7. CASE acp_wants' \subseteq acp_wants
  BY <1>2, <1>5, <1>6, <1>7, AcpKeepersKept DEF AcpRest, AcpBase
<1>8. CASE Acp!Asks(p)
  <2>1. acp_wants' = acp_wants \cup {p} /\ acp_wire' = Append(acp_wire, Acp!Line("ask", p[1], p[2]))
    BY <1>8 DEF Acp!Asks, Acp!Says
  <2>2. Acp!Line("ask", p[1], p[2]) \in AcpLines
    BY AcpBaseAgent DEF Acp!Line, AcpLines, AcpPrompts
  <2>3. acp_wire'[Len(acp_wire) + 1] = Acp!Line("ask", p[1], p[2])
          /\ Len(acp_wire) + 1 \in 1 .. Len(acp_wire')
    BY <1>6, <2>1, <2>2, AcpAppendLines
  <2>4. DOMAIN acp_wire = 1 .. Len(acp_wire) /\ DOMAIN acp_wire' = 1 .. Len(acp_wire')
    BY <1>6
  <2>5. ASSUME NEW q \in acp_wants' PROVE \/ Acp!Line("ask", q[1], q[2]) \in {acp_wire'[i] : i \in DOMAIN acp_wire'}
                                     \/ \E d \in acp_decisions' : d.prompt = q
    <3>1. CASE q = p
      BY <2>3, <2>4, <3>1
    <3>2. CASE q # p
      <4>1. q \in acp_wants
        BY <2>1, <3>2
      <4>2. CASE Acp!Line("ask", q[1], q[2]) \in {acp_wire[i] : i \in DOMAIN acp_wire}
        BY <1>6, <2>4, <4>2
      <4> QED BY <1>2, <4>1, <4>2 DEF AcpRest, Acp!WantHasKeeper
    <3> QED BY <3>1, <3>2
  <2>6. Acp!WantHasKeeper'
    BY <1>2, <2>5 DEF AcpRest, Acp!WantHasKeeper
  <2> QED BY <1>5, <2>6 DEF AcpRest
<1>9. CASE Acp!Speaks(p) \/ Acp!Ends(p)
  <2>1. acp_wants' \subseteq acp_wants
    BY <1>9 DEF Acp!Speaks, Acp!Ends
  <2> QED BY <1>5, <1>7, <2>1 DEF AcpRest
<1> QED BY <1>8, <1>9

(* Order and keepers are kept when the child exits.                        *)
LEMMA AcpRestExit == ASSUME AcpBase, AcpRest, Acp!Exit PROVE AcpRest'
<1>1. acp_wire' = <<>> /\ acp_wants' = {} /\ UNCHANGED <<acp_words, acp_queue, acp_decisions, acp_abandoned>>
  BY DEF Acp!Exit
<1>2. Len(acp_wire') = 0
  BY <1>1
<1>3. AcpOpening' /\ AcpReplays'
  BY <1>2 DEF AcpOpening, AcpReplays
<1>4. AcpHeard' /\ Acp!WantHasKeeper'
  BY <1>1 DEF AcpRest, AcpHeard, Acp!WantHasKeeper
<1> QED BY <1>3, <1>4 DEF AcpRest

-----------------------------------------------------------------------------
(* Every session follows its run unless one was given up.                  *)
AcpAllFollow == \A s \in AcpSession : s \in acp_abandoned \/ AcpFollows(s)

(* A step that adds nothing to a session.                                  *)
AcpUntouched(x) ==
  /\ \A p \in acp_works' : p[1] = x => p \in acp_works
  /\ acp_abandoned \subseteq acp_abandoned' /\ acp_run'[x] = acp_run[x]
  /\ acp_words'[x] = acp_words[x] /\ acp_step'[x] = acp_step[x] /\ acp_queue'[x] = acp_queue[x]
  /\ x \in acp_failed' => x \in acp_failed

(* A session no step has touched follows its run.                          *)
LEMMA AcpUntouchedFollows ==
  ASSUME AcpAllFollow, NEW x \in AcpSession, AcpUntouched(x), AcpOlder(x)
  PROVE  x \in acp_abandoned' \/ AcpFollows(x)'
BY AcpOlderFollows DEF AcpAllFollow, AcpUntouched

(* A session the agent is silent about stays so.                           *)
LEMMA AcpOlderQuiet ==
  ASSUME NEW x \in AcpSession, AcpQuiet(x), AcpOlder(x), \A p \in acp_works' : p[1] = x => p \in acp_works
  PROVE  AcpQuiet(x)'
<1>1. PICK k \in Nat : \A i \in 1 .. Len(acp_wire') :
        acp_wire'[i].s = x => i + k \in 1 .. Len(acp_wire) /\ acp_wire'[i] = acp_wire[i + k]
  BY DEF AcpOlder
<1> QED BY <1>1 DEF AcpQuiet, AcpTalks

(* A run that is over or fails.                                            *)
LEMMA AcpEndFollows ==
  ASSUME AcpBase, NEW s \in AcpSession, NEW v, Acp!End(s, v), AcpQuiet(s)',
           acp_words'[s] \subseteq {acp_run'[s]}
  PROVE  AcpFollows(s)'
<1>1. acp_queue'[s] = <<>>
  BY AcpEndBase
<1>2. \A i \in 1 .. Len(acp_queue'[s]) : acp_queue'[s][i].n = acp_run'[s]
  BY <1>1
<1> QED BY <1>2, AcpSilentFollows

(* A run begins in a session the agent is silent about.                    *)
LEMMA AcpFollowsBegin ==
  ASSUME AcpInv, NEW s \in AcpSession, Acp!Begin(s) PROVE AcpAllFollow'
<1>1. /\ AcpBase /\ AcpAllFollow /\ acp_step[s] = "idle" /\ s \notin acp_entry
      /\ acp_words' = [acp_words EXCEPT ![s] = {}] /\ acp_run' = [acp_run EXCEPT ![s] = acp_run[s] + 1]
      /\ UNCHANGED <<acp_works, acp_abandoned>>
  BY DEF Acp!Begin, Acp!Set, Acp!agent, AcpInv, AcpAllFollow, AcpBase, Acp!TypeOK
<1>2. CASE ~acp_up /\ Acp!End(s, "failed") /\ UNCHANGED acp_wire
  <2>1. ASSUME NEW x \in AcpSession, x # s PROVE x \in acp_abandoned' \/ AcpFollows(x)'
    <3>1. AcpUntouched(x)
      BY <1>1, <1>2, <2>1, AcpEndBase DEF AcpUntouched, AcpBase, Acp!TypeOK, AcpTypes
    <3> QED BY <1>1, <1>2, <3>1, AcpUntouchedFollows, AcpOlderWire DEF AcpBase
  <2>2. s \in acp_abandoned' \/ AcpFollows(s)'
    <3>1. CASE AcpFollows(s)
      <4>1. AcpQuiet(s)'
        BY <1>1, <1>2, <3>1 DEF AcpFollows, AcpQuiet, AcpTalks
      <4>2. acp_words'[s] \subseteq {acp_run'[s]}
        BY <1>1 DEF AcpBase, AcpTypes
      <4> QED BY <1>1, <1>2, <4>1, <4>2, AcpEndFollows
    <3> QED BY <1>1, <3>1 DEF AcpAllFollow
  <2> QED BY <2>1, <2>2 DEF AcpAllFollow
<1>3. CASE /\ acp_up /\ acp_step' = [acp_step EXCEPT ![s] = "opening"] /\ UNCHANGED Acp!reader
           /\ acp_wire' = acp_wire \o (IF acp_run[s] = 0 THEN <<>> ELSE <<Acp!Line("text", s, 0)>>)
                        \o <<Acp!Line("opened", s, acp_run[s] + 1)>>
  <2>1. PICK h \in {0, 1} :
           /\ Len(acp_wire) \in Nat /\ Len(acp_wire') = Len(acp_wire) + h + 1
           /\ \A i \in 1 .. Len(acp_wire) : acp_wire'[i] = acp_wire[i]
           /\ h = 1 => acp_wire'[Len(acp_wire) + 1] = Acp!Line("text", s, 0)
           /\ acp_wire'[Len(acp_wire) + h + 1] = Acp!Line("opened", s, acp_run[s] + 1)
    BY <1>1, <1>3, AcpBeginLines
  <2>2. \A i \in 1 .. Len(acp_wire') :
          \/ i \in 1 .. Len(acp_wire) /\ acp_wire'[i] = acp_wire[i]
          \/ acp_wire'[i] = Acp!Line("text", s, 0)
          \/ acp_wire'[i] = Acp!Line("opened", s, acp_run[s] + 1)
    BY <2>1
  <2>3. ASSUME NEW x \in AcpSession, x # s PROVE x \in acp_abandoned' \/ AcpFollows(x)'
    <3>1. AcpUntouched(x)
      BY <1>1, <1>3, <2>3 DEF AcpUntouched, AcpBase, Acp!TypeOK, AcpTypes, Acp!reader
    <3>2. \A i \in 1 .. Len(acp_wire') :
            acp_wire'[i].s = x => i + 0 \in 1 .. Len(acp_wire) /\ acp_wire'[i] = acp_wire[i + 0]
      BY <2>1, <2>2, <2>3 DEF Acp!Line
    <3>3. AcpOlder(x)
      BY <3>2 DEF AcpOlder
    <3> QED BY <1>1, <3>1, <3>3, AcpUntouchedFollows
  <2>4. s \in acp_abandoned' \/ AcpFollows(s)'
    <3>1. CASE AcpFollows(s)
      <4>1. AcpQuiet(s)
        BY <1>1, <3>1 DEF AcpFollows
      <4>2. \A i \in 1 .. Len(acp_wire') : ~AcpTalks(s, i)'
        BY <2>2, <4>1 DEF AcpQuiet, AcpTalks, Acp!Line
      <4>3. AcpQuiet(s)'
        BY <1>1, <4>1, <4>2 DEF AcpQuiet
      <4>4. acp_words'[s] \subseteq {acp_run'[s]} /\ acp_queue'[s] = <<>>
        BY <1>1, <1>3 DEF AcpBase, AcpTypes, Acp!reader
      <4>5. \A i \in 1 .. Len(acp_queue'[s]) : acp_queue'[s][i].n = acp_run'[s]
        BY <4>4
      <4> QED BY <4>3, <4>4, <4>5, AcpSilentFollows
    <3> QED BY <1>1, <3>1 DEF AcpAllFollow
  <2> QED BY <2>3, <2>4 DEF AcpAllFollow
<1> QED BY <1>2, <1>3 DEF Acp!Begin, Acp!Set

(* The prompt of the last run is the first the agent hears of it.          *)
LEMMA AcpFollowsOpened == ASSUME AcpInv, Acp!Opened PROVE AcpAllFollow'
<1>1. /\ AcpBase /\ AcpRest /\ AcpAllFollow /\ acp_wire # <<>> /\ acp_wire' = Tail(acp_wire)
           /\ Head(acp_wire).m = "opened"
      /\ UNCHANGED <<acp_run, acp_words, acp_abandoned>>
  BY DEF Acp!Opened, Acp!Reads, AcpInv, AcpAllFollow
<1>0. PICK s \in AcpSession : s = Head(acp_wire).s
  BY <1>1, AcpHeadWire DEF AcpBase
<1>2. Head(acp_wire) = acp_wire[1] /\ 1 \in 1 .. Len(acp_wire) /\ acp_wire[1].s = s
  BY <1>0, <1>1, AcpHeadWire DEF AcpBase
<1>3. \A x \in AcpSession : AcpOlder(x)
  BY <1>1, AcpOlderWire DEF AcpBase
<1>4. acp_step[s] = "opening"
  BY <1>1, <1>2 DEF AcpRest, AcpOpening
<1>5. CASE /\ acp_step' = Acp!Set(acp_step, s, "reading") /\ UNCHANGED Acp!reader
           /\ acp_works' = acp_works \cup {<<s, acp_run[s]>>}
  <2>1. ASSUME NEW x \in AcpSession, x # s PROVE x \in acp_abandoned' \/ AcpFollows(x)'
    <3>1. AcpUntouched(x)
      BY <1>1, <1>2, <1>5, <2>1 DEF AcpUntouched, AcpBase, Acp!TypeOK, Acp!reader, Acp!Set
    <3> QED BY <1>1, <1>3, <3>1, AcpUntouchedFollows
  <2>2. s \in acp_abandoned' \/ AcpFollows(s)'
    <3>1. CASE AcpFollows(s)
      <4>1. AcpQuiet(s) /\ acp_queue'[s] = <<>> /\ s \notin acp_failed'
              /\ acp_words'[s] \subseteq {acp_run'[s]}
        BY <1>1, <1>2, <1>4, <1>5, <3>1 DEF AcpFollows, AcpBase, AcpTypes, Acp!reader
      <4>2. \A i \in 1 .. Len(acp_wire') : i + 1 \in 1 .. Len(acp_wire) /\ acp_wire'[i] = acp_wire[i + 1]
        BY <1>1, AcpHeadWire DEF AcpBase
      <4>3. \A i \in 1 .. Len(acp_wire') : ~AcpTalks(s, i)'
        BY <4>1, <4>2 DEF AcpQuiet, AcpTalks
      <4>4. \A i \in 1 .. Len(acp_wire') : ~(acp_wire'[i].s = s /\ acp_wire'[i].m \in AcpTerminal)
        <5>1. ASSUME NEW i \in 1 .. Len(acp_wire), acp_wire[i].s = s,
                       acp_wire[i].m \in AcpTerminal PROVE FALSE
          BY <1>1, <4>1, <5>1 DEF AcpQuiet, AcpTalks, AcpRest, AcpReplays, AcpTerminal
        <5> QED BY <4>2, <5>1
      <4>5. \A p \in acp_works' : p[1] = s => p[2] = acp_run'[s]
        BY <1>1, <1>5, <4>1 DEF AcpQuiet
      <4>6. acp_step'[s] = "reading" /\ ~AcpOver(s)'
        BY <1>1, <1>2, <1>5, <4>1 DEF AcpOver, Acp!Set, AcpBase, Acp!TypeOK
      <4>7. \A i \in 1 .. Len(acp_queue'[s]) : acp_queue'[s][i].n = acp_run'[s]
        BY <4>1
      <4> QED BY <4>1, <4>3, <4>4, <4>5, <4>6, <4>7 DEF AcpFollows
    <3> QED BY <1>1, <1>2, <3>1 DEF AcpAllFollow
  <2> QED BY <2>1, <2>2 DEF AcpAllFollow
<1>6. CASE Acp!End(s, "failed") /\ UNCHANGED acp_works
  <2>1. ASSUME NEW x \in AcpSession, x # s PROVE x \in acp_abandoned' \/ AcpFollows(x)'
    <3>1. AcpUntouched(x)
      BY <1>1, <1>2, <1>6, <2>1, AcpEndBase DEF AcpUntouched
    <3> QED BY <1>1, <1>3, <3>1, AcpUntouchedFollows
  <2>2. s \in acp_abandoned' \/ AcpFollows(s)'
    <3>1. CASE AcpFollows(s)
      <4>1. AcpQuiet(s)' /\ acp_words'[s] \subseteq {acp_run'[s]}
        BY <1>1, <1>2, <1>3, <1>4, <1>6, <3>1, AcpOlderQuiet DEF AcpFollows
      <4> QED BY <1>1, <1>2, <1>6, <4>1, AcpEndFollows
    <3> QED BY <1>1, <1>2, <3>1 DEF AcpAllFollow
  <2> QED BY <2>1, <2>2 DEF AcpAllFollow
<1> QED BY <1>0, <1>4, <1>5, <1>6 DEF Acp!Opened

(* A line that is read goes to the run it is of, and the end of a prompt is*)
(* the last of it.                                                         *)
LEMMA AcpFollowsLines ==
  ASSUME AcpInv, Acp!Update \/ Acp!Answered \/ Acp!PermissionRequested PROVE AcpAllFollow'
<1>1. /\ AcpBase /\ AcpRest /\ AcpAllFollow /\ acp_wire # <<>> /\ acp_wire' = Tail(acp_wire)
      /\ UNCHANGED <<acp_works, acp_step, acp_run, acp_words, acp_entry, acp_abandoned>>
  BY DEF Acp!Update, Acp!Answered, Acp!PermissionRequested, Acp!Reads, Acp!agent, Acp!runs, AcpInv,
       AcpAllFollow
<1>2. PICK s \in AcpSession : s = Head(acp_wire).s
  BY <1>1, AcpHeadWire DEF AcpBase
<1>3. /\ Head(acp_wire) = acp_wire[1] /\ 1 \in 1 .. Len(acp_wire) /\ acp_wire[1].s = s
           /\ Head(acp_wire) \in AcpLines
      /\ \A i \in 1 .. Len(acp_wire') : i + 1 \in 1 .. Len(acp_wire) /\ acp_wire'[i] = acp_wire[i + 1]
      /\ Len(acp_wire) \in Nat
  BY <1>1, <1>2, AcpHeadWire DEF AcpBase, AcpTypes
<1>4. \A x \in AcpSession : AcpOlder(x)
  BY <1>1, AcpOlderWire DEF AcpBase
<1>5. \A x \in AcpSession : x # s => acp_queue'[x] = acp_queue[x] /\ (x \in acp_failed' => x \in acp_failed)
  <2>1. CASE Acp!Update
    BY <1>2, <2>1 DEF Acp!Update, Acp!Set
  <2>2. CASE Acp!Answered
    BY <1>2, <2>2 DEF Acp!Answered, Acp!Set
  <2>3. CASE Acp!PermissionRequested
    BY <2>3 DEF Acp!PermissionRequested, Acp!reader
  <2> QED BY <2>1, <2>2, <2>3
<1>6. ASSUME NEW x \in AcpSession, x # s PROVE x \in acp_abandoned' \/ AcpFollows(x)'
  <2>1. AcpUntouched(x)
    BY <1>1, <1>5, <1>6 DEF AcpUntouched
  <2> QED BY <1>1, <1>4, <2>1, AcpUntouchedFollows
<1>7. s \in acp_abandoned' \/ AcpFollows(s)'
  <2>1. CASE acp_queue'[s] = acp_queue[s] /\ acp_failed' = acp_failed
    <3>1. AcpUntouched(s)
      BY <1>1, <2>1 DEF AcpUntouched
    <3> QED BY <1>1, <1>4, <3>1, AcpUntouchedFollows
  <2>2. CASE AcpFollows(s) /\ acp_step[s] = "reading"
    <3>1. AcpTalks(s, 1) \/ Head(acp_wire).m = "opened"
      <4>1. Head(acp_wire).n # 0
        BY <1>1, <1>2, <2>2, AcpHeadCounts DEF AcpBase, AcpRest
      <4> QED BY <1>3, <4>1 DEF AcpTalks
    <3>2. Head(acp_wire).m # "opened"
      BY DEF Acp!Update, Acp!Answered, Acp!PermissionRequested, Acp!Reads
    <3>3. Head(acp_wire).n = acp_run[s]
      BY <1>3, <2>2, <3>1, <3>2 DEF AcpFollows
    <3>4. acp_queue[s] \in Seq(AcpLines)
      BY <1>1 DEF AcpBase, AcpTypes
    <3>5. CASE Acp!Update
      <4>1. AcpUntouched(s) \/ acp_queue'[s] = Append(acp_queue[s], Head(acp_wire))
        BY <1>1, <1>2, <3>5 DEF AcpUntouched, Acp!Update, Acp!Set, AcpBase, AcpTypes
      <4>2. CASE acp_queue'[s] = Append(acp_queue[s], Head(acp_wire))
        <5>1. /\ Len(acp_queue[s]) \in Nat
              /\ \A i \in 1 .. Len(acp_queue'[s]) : acp_queue'[s][i].n = acp_run'[s]
              /\ \A i \in 1 .. Len(acp_queue'[s]) :
                   acp_queue'[s][i].m \in AcpTerminal => i \in 1 .. Len(acp_queue[s])
                     /\ acp_queue[s][i].m \in AcpTerminal
          <6>1. \A i \in 1 .. Len(acp_queue'[s]) :
                  \/ i \in 1 .. Len(acp_queue[s]) /\ acp_queue'[s][i] = acp_queue[s][i]
                  \/ acp_queue'[s][i] = Head(acp_wire)
            BY <1>3, <3>4, <4>2, AcpAppendLines
          <6>2. Head(acp_wire).m \notin AcpTerminal
            BY <3>5 DEF Acp!Update, Acp!Reads, AcpTerminal
          <6>3. \A i \in 1 .. Len(acp_queue[s]) : acp_queue[s][i].n = acp_run'[s]
            BY <1>1, <2>2 DEF AcpFollows
          <6>4. Head(acp_wire).n = acp_run'[s]
            BY <1>1, <3>3
          <6>5. Len(acp_queue[s]) \in Nat
            BY <3>4
          <6> QED BY <6>1, <6>2, <6>3, <6>4, <6>5
        <5>2. AcpOver(s)' => AcpOver(s)
          BY <3>5, <5>1 DEF AcpOver, Acp!Update
        <5>3. \A i \in 1 .. Len(acp_wire') : AcpTalks(s, i)' => i + 1 \in 1 .. Len(acp_wire)
                /\ AcpTalks(s, i + 1)
          BY <1>3 DEF AcpTalks
        <5>4. /\ acp_step'[s] # "reading" \/ AcpOver(s)' => AcpQuiet(s)'
              /\ \A i \in 1 .. Len(acp_wire') : AcpTalks(s, i)' => acp_wire'[i].n = acp_run'[s]
          BY <1>1, <1>3, <2>2, <5>2, <5>3 DEF AcpFollows, AcpQuiet
        <5>5. ASSUME NEW i \in 1 .. Len(acp_wire'), acp_wire'[i].s = s, acp_wire'[i].m \in AcpTerminal
              PROVE  /\ \A p \in acp_works' : p[1] # s
                     /\ \A j \in i + 1 .. Len(acp_wire') : ~AcpTalks(s, j)'
          <6>1. i + 1 \in 1 .. Len(acp_wire) /\ acp_wire[i + 1].s = s /\ acp_wire[i + 1].m \in AcpTerminal
            BY <1>3, <5>5
          <6>2. /\ \A p \in acp_works : p[1] # s
                /\ \A j \in (i + 1) + 1 .. Len(acp_wire) : ~AcpTalks(s, j)
            BY <2>2, <6>1 DEF AcpFollows
          <6>3. ASSUME NEW j \in i + 1 .. Len(acp_wire'), AcpTalks(s, j)' PROVE FALSE
            <7>1. j \in 1 .. Len(acp_wire') /\ j \in Nat
              OBVIOUS
            <7>2. j + 1 \in 1 .. Len(acp_wire) /\ AcpTalks(s, j + 1)
              BY <5>3, <6>3, <7>1
            <7>3. j + 1 \in (i + 1) + 1 .. Len(acp_wire)
              BY <7>1, <7>2
            <7> QED BY <6>2, <7>2, <7>3
          <6> QED BY <1>1, <6>2, <6>3
        <5> QED BY <1>1, <2>2, <5>1, <5>4, <5>5 DEF AcpFollows
      <4> QED BY <1>1, <1>4, <4>1, <4>2, AcpUntouchedFollows
    <3>6. CASE Acp!Answered
      <4>1. Head(acp_wire).m \in AcpTerminal
        BY <3>6 DEF Acp!Answered, Acp!Reads, AcpTerminal
      <4>2. (\A p \in acp_works : p[1] # s) /\ \A j \in 1 + 1 .. Len(acp_wire) : ~AcpTalks(s, j)
        BY <1>3, <2>2, <4>1 DEF AcpFollows
      <4>3. \A i \in 1 .. Len(acp_wire') : i + 1 \in 1 + 1 .. Len(acp_wire)
        BY <1>3
      <4>4. AcpQuiet(s)'
        BY <1>1, <1>3, <4>2, <4>3 DEF AcpQuiet, AcpTalks
      <4>5. acp_queue'[s] = acp_queue[s] \/ acp_queue'[s] = Append(acp_queue[s], Head(acp_wire))
        BY <1>1, <1>2, <3>6 DEF Acp!Answered, Acp!Set, AcpBase, AcpTypes
      <4>6. \A i \in 1 .. Len(acp_queue'[s]) : acp_queue'[s][i].n = acp_run'[s]
        <5>1. CASE acp_queue'[s] = acp_queue[s]
          BY <1>1, <2>2, <5>1 DEF AcpFollows
        <5>2. CASE acp_queue'[s] = Append(acp_queue[s], Head(acp_wire))
          <6>1. \A i \in 1 .. Len(acp_queue'[s]) :
                  \/ i \in 1 .. Len(acp_queue[s]) /\ acp_queue'[s][i] = acp_queue[s][i]
                  \/ acp_queue'[s][i] = Head(acp_wire)
            BY <1>3, <3>4, <5>2, AcpAppendLines
          <6> QED BY <1>1, <2>2, <3>3, <6>1 DEF AcpFollows
        <5> QED BY <4>5, <5>1, <5>2
      <4>7. acp_words'[s] \subseteq {acp_run'[s]}
        BY <1>1, <2>2 DEF AcpFollows
      <4> QED BY <4>4, <4>6, <4>7, AcpSilentFollows
    <3>7. CASE Acp!PermissionRequested
      BY <2>1, <3>7 DEF Acp!PermissionRequested, Acp!reader
    <3> QED BY <3>5, <3>6, <3>7
  <2>3. CASE acp_step[s] # "reading"
    <3>1. s \notin acp_entry
      BY <1>1, <2>3, AcpOwnNotOpening
    <3>2. acp_queue' = acp_queue /\ acp_failed' = acp_failed
      BY <1>2, <2>3, <3>1 DEF Acp!Update, Acp!Answered, Acp!PermissionRequested, Acp!reader, Acp!Mine
    <3> QED BY <2>1, <3>2
  <2> QED BY <1>1, <2>2, <2>3 DEF AcpAllFollow
<1> QED BY <1>6, <1>7 DEF AcpAllFollow

(* A step of the run of s: the others see nothing of it.                   *)
LEMMA AcpFollowsRun ==
  ASSUME AcpBase, AcpAllFollow, NEW s \in AcpSession, s \in acp_abandoned' \/ AcpFollows(s)',
         acp_abandoned \subseteq acp_abandoned', UNCHANGED <<acp_wire, acp_works, acp_run>>,
         \A x \in AcpSession :
           x # s => /\ acp_words'[x] = acp_words[x] /\ acp_step'[x] = acp_step[x] /\ acp_queue'[x] = acp_queue[x]
                    /\ x \in acp_failed' => x \in acp_failed
  PROVE  AcpAllFollow'
<1>1. ASSUME NEW x \in AcpSession, x # s PROVE x \in acp_abandoned' \/ AcpFollows(x)'
  <2>1. AcpUntouched(x) /\ AcpOlder(x)
    BY <1>1, AcpOlderWire DEF AcpUntouched, AcpBase
  <2> QED BY <2>1, AcpUntouchedFollows
<1> QED BY <1>1 DEF AcpAllFollow

(* A run that reads its end leaves nothing behind.                         *)
LEMMA AcpFollowsRead ==
  ASSUME AcpInv, NEW s \in AcpSession, Acp!Read(s) \/ Acp!ReadFailure(s) PROVE AcpAllFollow'
<1>1. /\ AcpBase /\ AcpAllFollow /\ acp_step[s] = "reading"
      /\ UNCHANGED <<acp_wire, acp_works, acp_run, acp_abandoned>>
  BY DEF AcpInv, AcpAllFollow, Acp!Read, Acp!ReadFailure, Acp!agent
<1>2. acp_queue[s] \in Seq(AcpLines)
  BY <1>1 DEF AcpBase, AcpTypes
<1>3. CASE (\E v : Acp!End(s, v)) /\ UNCHANGED acp_words /\ AcpOver(s)
  <2>1. ASSUME AcpFollows(s) PROVE AcpFollows(s)'
    <3>1. AcpQuiet(s)' /\ acp_words'[s] \subseteq {acp_run'[s]}
      BY <1>1, <1>3, <2>1 DEF AcpFollows, AcpQuiet, AcpTalks
    <3> QED BY <1>1, <1>3, <3>1, AcpEndFollows
  <2>2. \A x \in AcpSession :
          x # s => /\ acp_words'[x] = acp_words[x] /\ acp_step'[x] = acp_step[x] /\ acp_queue'[x] = acp_queue[x]
                   /\ x \in acp_failed' => x \in acp_failed
    BY <1>1, <1>3, AcpEndBase
  <2> QED BY <1>1, <2>1, <2>2, AcpFollowsRun DEF AcpAllFollow
<1>4. CASE /\ acp_words' = [acp_words EXCEPT ![s] = acp_words[s] \cup {Head(acp_queue[s]).n}]
           /\ acp_queue' = [acp_queue EXCEPT ![s] = Tail(acp_queue[s])] /\ acp_queue[s] # <<>>
           /\ UNCHANGED <<acp_step, acp_failed>>
  <2>1. ASSUME AcpFollows(s) PROVE AcpFollows(s)'
    <3>1. /\ acp_queue'[s] = Tail(acp_queue[s]) /\ acp_words'[s] = acp_words[s] \cup {Head(acp_queue[s]).n}
      BY <1>1, <1>4 DEF AcpBase, AcpTypes
    <3>2. /\ Head(acp_queue[s]) = acp_queue[s][1] /\ 1 \in 1 .. Len(acp_queue[s])
          /\ \A i \in 1 .. Len(acp_queue'[s]) : i + 1 \in 1 .. Len(acp_queue[s])
               /\ acp_queue'[s][i] = acp_queue[s][i + 1]
      <4>1. acp_queue[s] # <<>>
        BY <1>4
      <4> QED BY <1>2, <3>1, <4>1, AcpTailLines
    <3>3. acp_words'[s] \subseteq {acp_run'[s]}
            /\ \A i \in 1 .. Len(acp_queue'[s]) : acp_queue'[s][i].n = acp_run'[s]
      BY <1>1, <2>1, <3>1, <3>2 DEF AcpFollows
    <3>4. AcpOver(s)' => AcpOver(s)
      BY <1>4, <3>2 DEF AcpOver
    <3>5. /\ \A p \in acp_works' : p[1] = s => p[2] = acp_run'[s]
          /\ \A i \in 1 .. Len(acp_wire') : AcpTalks(s, i)' => acp_wire'[i].n = acp_run'[s]
          /\ acp_step'[s] # "reading" \/ AcpOver(s)' => AcpQuiet(s)'
      BY <1>1, <1>4, <2>1, <3>4 DEF AcpFollows, AcpQuiet, AcpTalks
    <3>6. \A i \in 1 .. Len(acp_wire') :
            acp_wire'[i].s = s /\ acp_wire'[i].m \in AcpTerminal =>
              /\ \A p \in acp_works' : p[1] # s
              /\ \A j \in i + 1 .. Len(acp_wire') : ~AcpTalks(s, j)'
      <4>1. acp_wire' = acp_wire /\ acp_works' = acp_works
        BY <1>1
      <4>2. ASSUME NEW i \in 1 .. Len(acp_wire), acp_wire[i].s = s, acp_wire[i].m \in AcpTerminal
            PROVE  (\A p \in acp_works : p[1] # s) /\ \A j \in i + 1 .. Len(acp_wire) : ~AcpTalks(s, j)
        BY <2>1, <4>2 DEF AcpFollows
      <4>3. \A j : AcpTalks(s, j)' <=> AcpTalks(s, j)
        BY <4>1 DEF AcpTalks
      <4> QED BY <4>1, <4>2, <4>3
    <3> QED BY <3>3, <3>5, <3>6 DEF AcpFollows
  <2>2. \A x \in AcpSession :
          x # s => /\ acp_words'[x] = acp_words[x] /\ acp_step'[x] = acp_step[x] /\ acp_queue'[x] = acp_queue[x]
                   /\ x \in acp_failed' => x \in acp_failed
    BY <1>1, <1>4 DEF AcpBase, Acp!TypeOK, AcpTypes
  <2> QED BY <1>1, <2>1, <2>2, AcpFollowsRun DEF AcpAllFollow
<1>5. CASE Acp!ReadFailure(s)
  BY <1>3, <1>5 DEF Acp!ReadFailure, AcpOver
<1>6. CASE Acp!Read(s)
  <2>1. CASE Head(acp_queue[s]).m \in AcpTerminal /\ (\E v : Acp!End(s, v)) /\ UNCHANGED acp_words
    <3>1. AcpOver(s)
      <4>1. 1 \in 1 .. Len(acp_queue[s]) /\ Head(acp_queue[s]) = acp_queue[s][1]
        BY <1>2, <1>6, AcpTailLines DEF Acp!Read
      <4> QED BY <2>1, <4>1 DEF AcpOver
    <3> QED BY <1>3, <2>1, <3>1
  <2> QED BY <1>4, <1>6, <2>1 DEF Acp!Read, Acp!Set, AcpTerminal
<1> QED BY <1>5, <1>6

(* A run that is given up makes its session an exception.                  *)
LEMMA AcpFollowsGateway ==
  ASSUME AcpInv, NEW s \in AcpSession, Acp!Cancel(s) \/ Acp!Timeout(s) \/ Acp!Drop(s) PROVE AcpAllFollow'
<1>1. /\ AcpBase /\ AcpAllFollow /\ acp_abandoned \subseteq acp_abandoned' /\ UNCHANGED <<acp_wire, acp_works,
           acp_run, acp_words>>
  BY DEF AcpInv, AcpAllFollow, Acp!Cancel, Acp!Timeout, Acp!Drop, Acp!agent, Acp!runs
<1>2. CASE Acp!Cancel(s)
  <2>1. \A x \in AcpSession : AcpUntouched(x) /\ AcpOlder(x)
    BY <1>1, <1>2, AcpOlderWire DEF AcpUntouched, Acp!Cancel, Acp!runs, Acp!reader, AcpBase
  <2> QED BY <1>1, <2>1, AcpUntouchedFollows DEF AcpAllFollow
<1>3. CASE Acp!Timeout(s)
  <2>1. /\ s \in acp_abandoned' /\ UNCHANGED <<acp_step, acp_queue, acp_words>>
             /\ acp_failed' = acp_failed \cup {s}
    BY <1>3 DEF Acp!Timeout, Acp!runs
  <2> QED BY <1>1, <2>1, AcpFollowsRun
<1>4. CASE Acp!Drop(s)
  <2>1. /\ s \in acp_abandoned' /\ Acp!End(s, "dropped")
    BY <1>4 DEF Acp!Drop
  <2>2. \A x \in AcpSession :
          x # s => /\ acp_words'[x] = acp_words[x] /\ acp_step'[x] = acp_step[x] /\ acp_queue'[x] = acp_queue[x]
                   /\ x \in acp_failed' => x \in acp_failed
    BY <1>1, <2>1, AcpEndBase
  <2> QED BY <1>1, <2>1, <2>2, AcpFollowsRun
<1> QED BY <1>2, <1>3, <1>4

(* A decision writes nothing.                                              *)
LEMMA AcpFollowsDecide == ASSUME AcpInv, NEW d \in acp_decisions, Acp!Decide(d) PROVE AcpAllFollow'
<1>1. AcpBase /\ AcpAllFollow /\ UNCHANGED <<acp_wire, acp_works, acp_step, acp_run, acp_words, acp_queue,
        acp_failed, acp_abandoned>>
  BY DEF AcpInv, AcpAllFollow, Acp!Decide, Acp!runs, Acp!reader
<1>2. \A x \in AcpSession : AcpUntouched(x) /\ AcpOlder(x)
  BY <1>1, AcpOlderWire DEF AcpUntouched, AcpBase
<1> QED BY <1>1, <1>2, AcpUntouchedFollows DEF AcpAllFollow

(* The agent speaks of the prompts it works on.                            *)
LEMMA AcpFollowsAgent ==
  ASSUME AcpInv, NEW p \in acp_works, Acp!Speaks(p) \/ Acp!Asks(p) \/ Acp!Ends(p) PROVE AcpAllFollow'
<1>1. AcpBase /\ AcpAllFollow
  BY DEF AcpInv, AcpAllFollow
<1>2. PICK m \in {"text", "ask"} \cup AcpTerminal :
        /\ acp_wire' = Append(acp_wire, Acp!Line(m, p[1], p[2])) /\ Acp!Line(m, p[1], p[2]) \in AcpLines
        /\ acp_works' = IF m \in AcpTerminal THEN acp_works \ {p} ELSE acp_works
  BY <1>1, AcpBaseAgent
<1>3. /\ p[2] # 0 /\ p = <<p[1], p[2]>> /\ p[1] \in AcpSession
      /\ UNCHANGED <<acp_step, acp_run, acp_words, acp_queue, acp_failed, acp_abandoned>>
  BY <1>1, AcpBaseAgent DEF Acp!runs, Acp!reader, AcpPrompts
<1>4. PICK s \in AcpSession : s = p[1]
  BY <1>3
<1>5. PICK x \in AcpLines : x = Acp!Line(m, p[1], p[2])
  BY <1>2
<1>6. x.s = s /\ x.n = p[2] /\ x.m = m /\ m # "opened"
  BY <1>4, <1>5 DEF Acp!Line, AcpTerminal
<1>7. ASSUME NEW y \in AcpSession, y # s PROVE y \in acp_abandoned' \/ AcpFollows(y)'
  <2>1. AcpUntouched(y)
    BY <1>2, <1>3 DEF AcpUntouched
  <2>2. AcpOlder(y)
    BY <1>1, <1>2, <1>5, <1>6, <1>7, AcpOlderWire DEF AcpBase
  <2> QED BY <1>1, <2>1, <2>2, AcpUntouchedFollows
<1>8. ASSUME AcpFollows(s) PROVE AcpFollows(s)'
  <2>1. /\ Len(acp_wire) \in Nat /\ Len(acp_wire') = Len(acp_wire) + 1 /\ acp_wire'[Len(acp_wire) + 1] = x
        /\ \A i \in 1 .. Len(acp_wire) : acp_wire'[i] = acp_wire[i]
    BY <1>1, <1>2, <1>5, AcpAppendLines DEF AcpBase, AcpTypes
  <2>2. \A i \in 1 .. Len(acp_wire') :
          \/ i \in 1 .. Len(acp_wire) /\ acp_wire'[i] = acp_wire[i]
          \/ i = Len(acp_wire) + 1 /\ acp_wire'[i] = x
    BY <2>1
  <2>3. p[2] = acp_run[s] /\ ~AcpQuiet(s)
    BY <1>4, <1>8 DEF AcpFollows, AcpQuiet
  <2>4. acp_step[s] = "reading" /\ ~AcpOver(s)
    BY <1>8, <2>3 DEF AcpFollows
  <2>5. \A i \in 1 .. Len(acp_wire) : ~(acp_wire[i].s = s /\ acp_wire[i].m \in AcpTerminal)
    BY <1>4, <1>8 DEF AcpFollows
  <2>6. /\ \A q \in acp_works' : q[1] = s => q[2] = acp_run'[s]
        /\ \A i \in 1 .. Len(acp_wire') : AcpTalks(s, i)' => acp_wire'[i].n = acp_run'[s]
    BY <1>2, <1>3, <1>6, <1>8, <2>2, <2>3 DEF AcpFollows, AcpTalks
  <2>7. acp_step'[s] = "reading" /\ ~AcpOver(s)'
    BY <1>3, <2>4 DEF AcpOver
  <2>8. ASSUME NEW i \in 1 .. Len(acp_wire'), acp_wire'[i].s = s, acp_wire'[i].m \in AcpTerminal
        PROVE  /\ \A q \in acp_works' : q[1] # s
               /\ \A j \in i + 1 .. Len(acp_wire') : ~AcpTalks(s, j)'
    <3>1. i = Len(acp_wire) + 1 /\ m \in AcpTerminal
      BY <1>6, <2>2, <2>5, <2>8
    <3>2. ASSUME NEW q \in acp_works', q[1] = s PROVE FALSE
      <4>1. q \in acp_works /\ q # p /\ q[2] = acp_run[s]
        BY <1>2, <1>3, <2>6, <3>1, <3>2
      <4>2. q = <<q[1], q[2]>>
        BY <1>1, <4>1 DEF AcpBase, Acp!TypeOK
      <4> QED BY <1>3, <1>4, <2>3, <3>2, <4>1, <4>2
    <3>3. \A j \in i + 1 .. Len(acp_wire') : FALSE
      BY <2>1, <3>1
    <3> QED BY <3>2, <3>3
  <2>9. /\ \A i \in 1 .. Len(acp_queue'[s]) : acp_queue'[s][i].n = acp_run'[s]
        /\ acp_words'[s] \subseteq {acp_run'[s]}
    BY <1>3, <1>8 DEF AcpFollows
  <2> QED BY <2>6, <2>7, <2>8, <2>9 DEF AcpFollows
<1> QED BY <1>1, <1>3, <1>7, <1>8 DEF AcpAllFollow

(* The child exits and all it has written is lost.                         *)
LEMMA AcpFollowsExit == ASSUME AcpInv, Acp!Exit PROVE AcpAllFollow'
<1>1. /\ AcpAllFollow /\ acp_wire' = <<>> /\ acp_works' = {} /\ UNCHANGED <<acp_run, acp_words, acp_queue,
           acp_abandoned>>
  BY DEF AcpInv, AcpAllFollow, Acp!Exit
<1>2. \A s \in AcpSession : AcpQuiet(s)'
  <2>1. Len(acp_wire') = 0
    BY <1>1
  <2> QED BY <1>1, <2>1 DEF AcpQuiet
<1>3. ASSUME NEW s \in AcpSession, AcpFollows(s) PROVE AcpFollows(s)'
  <2>1. /\ acp_words'[s] \subseteq {acp_run'[s]}
        /\ \A i \in 1 .. Len(acp_queue'[s]) : acp_queue'[s][i].n = acp_run'[s]
    BY <1>1, <1>3 DEF AcpFollows
  <2> QED BY <1>2, <2>1, AcpSilentFollows
<1> QED BY <1>1, <1>3 DEF AcpAllFollow

-----------------------------------------------------------------------------
(* The adapter starts with no session open.                                *)
LEMMA AcpInit == Acp!Init => AcpInv
<1> SUFFICES ASSUME Acp!Init PROVE AcpInv
  OBVIOUS
<1>1. /\ acp_wire = <<>> /\ acp_works = {} /\ acp_wants = {} /\ acp_entry = {} /\ acp_failed = {}
           /\ acp_decisions = {}
      /\ acp_step = [s \in AcpSession |-> "idle"] /\ acp_run = [s \in AcpSession |-> 0]
      /\ acp_queue = [s \in AcpSession |-> <<>>] /\ acp_words = [s \in AcpSession |-> {}] /\ acp_up = TRUE
  BY DEF Acp!Init
<1>2. Len(acp_wire) = 0 /\ acp_wire \in Seq(AcpLines) /\ \A s \in AcpSession : acp_queue[s] = <<>>
        /\ Len(acp_queue[s]) = 0
  BY <1>1
<1>3. AcpBase
  BY <1>1, <1>2 DEF AcpBase, Acp!TypeOK, AcpTypes
<1>4. AcpRest
  <2>1. AcpOpening /\ AcpReplays
    BY <1>2 DEF AcpOpening, AcpReplays
  <2>2. AcpHeard /\ Acp!WantHasKeeper
    BY <1>1, <1>2 DEF AcpHeard, Acp!WantHasKeeper
  <2> QED BY <2>1, <2>2 DEF AcpRest
<1>5. \A s \in AcpSession : AcpFollows(s)
  <2>1. \A s \in AcpSession : AcpQuiet(s) /\ acp_words[s] = {}
    <3>1. \A i \in 1 .. Len(acp_wire) : FALSE
      BY <1>2
    <3>2. acp_works = {} /\ \A s \in AcpSession : acp_words[s] = {}
      BY <1>1
    <3> QED BY <3>1, <3>2 DEF AcpQuiet
  <2>2. \A s \in AcpSession : \A i \in 1 .. Len(acp_queue[s]) : FALSE
    BY <1>2
  <2>3. \A i \in 1 .. Len(acp_wire) : FALSE
    BY <1>2
  <2> QED BY <1>1, <2>1, <2>2, <2>3 DEF AcpFollows
<1> QED BY <1>3, <1>4, <1>5 DEF AcpInv

(* Every step keeps the inductive invariant.                               *)
LEMMA AcpMoves == AcpInv /\ [Acp!Next]_(Acp!vars) => AcpInv'
<1> SUFFICES ASSUME AcpInv, [Acp!Next]_(Acp!vars) PROVE AcpBase' /\ AcpRest' /\ AcpAllFollow'
  BY DEF AcpInv, AcpAllFollow
<1>1. AcpBase /\ AcpRest /\ AcpAllFollow
  BY DEF AcpInv, AcpAllFollow
<1>2. CASE UNCHANGED Acp!vars
  <2>1. AcpBase' /\ AcpRest'
    BY <1>1, <1>2 DEF Acp!vars, Acp!agent, Acp!runs, Acp!reader, AcpBase, Acp!TypeOK, AcpTypes, AcpRest,
         AcpOpening, AcpReplays, AcpHeard, Acp!WantHasKeeper
  <2>2. \A x \in AcpSession : AcpUntouched(x) /\ AcpOlder(x)
    BY <1>1, <1>2, AcpOlderWire DEF Acp!vars, Acp!agent, Acp!runs, Acp!reader, AcpUntouched, AcpBase
  <2> QED BY <1>1, <2>1, <2>2, AcpUntouchedFollows DEF AcpAllFollow
<1>3. ASSUME NEW s \in AcpSession, Acp!Begin(s) PROVE AcpBase' /\ AcpRest' /\ AcpAllFollow'
  BY <1>1, <1>3, AcpBaseBegin, AcpRestBegin, AcpFollowsBegin
<1>4. ASSUME NEW s \in AcpSession, Acp!Read(s) \/ Acp!ReadFailure(s) PROVE AcpBase' /\ AcpRest'
               /\ AcpAllFollow'
  BY <1>1, <1>4, AcpBaseRead, AcpRestRead, AcpFollowsRead
<1>5. ASSUME NEW s \in AcpSession, Acp!Cancel(s) \/ Acp!Timeout(s) \/ Acp!Drop(s) PROVE AcpBase'
               /\ AcpRest' /\ AcpAllFollow'
  BY <1>1, <1>5, AcpBaseGateway, AcpRestGateway, AcpFollowsGateway
<1>6. CASE Acp!Opened
  BY <1>1, <1>6, AcpBaseOpened, AcpRestOpened, AcpFollowsOpened
<1>7. CASE Acp!Update \/ Acp!Answered \/ Acp!PermissionRequested
  BY <1>1, <1>7, AcpBaseLines, AcpRestLines, AcpFollowsLines DEF AcpAllFollow
<1>8. ASSUME NEW d \in acp_decisions, Acp!Decide(d) PROVE AcpBase' /\ AcpRest' /\ AcpAllFollow'
  BY <1>1, <1>8, AcpBaseDecide, AcpRestDecide, AcpFollowsDecide
<1>9. ASSUME NEW p \in acp_works, Acp!Speaks(p) \/ Acp!Asks(p) \/ Acp!Ends(p) PROVE AcpBase' /\ AcpRest'
               /\ AcpAllFollow'
  BY <1>1, <1>9, AcpBaseAgent, AcpRestAgent, AcpFollowsAgent
<1>10. CASE Acp!Exit
  BY <1>1, <1>10, AcpBaseExit, AcpRestExit, AcpFollowsExit
<1> QED BY <1>2, <1>3, <1>4, <1>5, <1>6, <1>7, <1>8, <1>9, <1>10 DEF Acp!Next, Acp!Deliver, Acp!AgentStep

(* The adapter keeps the inductive invariant, for every set of sessions and*)
(* every bound.                                                            *)
THEOREM AcpInvariant == Acp!Spec => []AcpInv
BY AcpInit, AcpMoves, PTL DEF Acp!Spec

(* The state of the adapter is of its types.                               *)
THEOREM AcpTypeOK == Acp!Spec => []Acp!TypeOK
<1>1. AcpInv => Acp!TypeOK
  BY DEF AcpInv, AcpBase
<1> QED BY <1>1, AcpInvariant, PTL

(* A run answers no replayed history, and no words of another prompt unless*)
(* a run of its session was given up (activeRuns is set after session/load *)
(* has returned).                                                          *)
THEOREM AcpOwnWords == Acp!Spec => []Acp!OwnWords
<1>1. AcpInv => Acp!OwnWords
  BY DEF AcpInv, AcpRest, AcpHeard, AcpFollows, Acp!OwnWords
<1> QED BY <1>1, AcpInvariant, PTL

(* A prompt that waits for a permission has its request on the wire or a   *)
(* handler that waits, and is asked of its own run unless that was given up*)
(* (handlePermissionRequest).                                              *)
THEOREM AcpWantHasKeeper == Acp!Spec => []Acp!WantHasKeeper
<1>1. AcpInv => Acp!WantHasKeeper
  BY DEF AcpInv, AcpRest
<1> QED BY <1>1, AcpInvariant, PTL

-----------------------------------------------------------------------------
(* The Claude Code adapter.  A session is owned by the one run that is in  *)
(* it, and a run passes on its own session only, for any number of runs,   *)
(* sessions, messages and faults.  The invariant adds what a run knows at  *)
(* each step: nothing before it begins, the session of its request while   *)
(* it reads, no last event before it is over, and streams that speak of    *)
(* sessions.                                                               *)


ClaudeMessages == [m : {"init", "delta", "success", "error"}, s : ClaudeSession]

ClaudeRunsKnow ==
  \A r \in ClaudeRun :
    /\ cc_step[r] = "new" => cc_mine[r] = NoOne /\ cc_wanted[r] = NoOne
    /\ cc_step[r] = "reading" /\ cc_wanted[r] # NoOne => cc_mine[r] = cc_wanted[r]
    /\ cc_step[r] # "over" => cc_verdict[r] = "none"

ClaudeTypes ==
  /\ Claude!TypeOK /\ cc_wanted \in [ClaudeRun -> ClaudeSession \cup {NoOne}]
  /\ cc_stream \in [ClaudeRun -> Seq(ClaudeMessages)]
  /\ cc_aborted \subseteq ClaudeRun /\ DOMAIN cc_verdict = ClaudeRun

ClaudeInv ==
  /\ Claude!ClaudeCodeAssumption /\ ClaudeTypes /\ ClaudeRunsKnow
  /\ Claude!SessionsHaveOwners /\ Claude!OwnWords

(* Nobody has begun.                                                       *)
LEMMA ClaudeStarts == Claude!ClaudeCodeAssumption /\ Claude!Init => ClaudeInv
<1> SUFFICES ASSUME Claude!ClaudeCodeAssumption, Claude!Init PROVE ClaudeInv
  OBVIOUS
<1>1. ClaudeTypes
  BY DEF Claude!Init, ClaudeTypes, Claude!TypeOK
<1> QED BY <1>1 DEF Claude!Init, ClaudeInv, ClaudeRunsKnow, Claude!SessionsHaveOwners,
                    Claude!OwnWords, Claude!ClaudeCodeAssumption

(* What the end of a run does: it keeps nothing but what it has said.      *)
LEMMA ClaudeEndStep ==
  ASSUME ClaudeInv, NEW r \in ClaudeRun, cc_step[r] = "reading",
         NEW v \in {"completed", "failed", "cancelled", "dropped"},
         Claude!End(r, v, cc_mine[r]),
         v = "completed" => r \notin cc_aborted,
         UNCHANGED <<cc_mine, cc_wanted, cc_words, cc_aborted>>,
         cc_stream' \in [ClaudeRun -> Seq(ClaudeMessages)]
  PROVE  ClaudeInv'
<1> USE DEF ClaudeInv, Claude!ClaudeCodeAssumption, Claude!Set
<1>1. ClaudeTypes'
  <2>1. cc_activeRuns' \in [ClaudeSession -> ClaudeRun \cup {NoOne}]
    BY DEF Claude!End, ClaudeTypes, Claude!TypeOK
  <2> QED BY <2>1 DEF Claude!End, ClaudeTypes, Claude!TypeOK
<1>2. ClaudeRunsKnow'
  BY DEF Claude!End, ClaudeTypes, Claude!TypeOK, ClaudeRunsKnow
<1>3. Claude!SessionsHaveOwners'
  <2>1. \A s \in ClaudeSession :
          cc_activeRuns'[s] = IF cc_activeRuns[s] = r THEN NoOne ELSE cc_activeRuns[s]
    BY DEF Claude!End, ClaudeTypes, Claude!TypeOK, Claude!SessionsHaveOwners
  <2>2. \A q \in ClaudeRun : cc_step'[q] = IF q = r THEN "over" ELSE cc_step[q]
    BY DEF Claude!End, ClaudeTypes, Claude!TypeOK
  <2>3. ASSUME NEW s \in ClaudeSession, cc_activeRuns'[s] # NoOne
        PROVE  cc_step'[cc_activeRuns'[s]] = "reading" /\ cc_mine'[cc_activeRuns'[s]] = s
    BY <2>1, <2>2, <2>3 DEF ClaudeTypes, Claude!TypeOK, Claude!SessionsHaveOwners
  <2>4. ASSUME NEW q \in ClaudeRun, cc_step'[q] = "reading", cc_mine'[q] # NoOne
        PROVE  cc_activeRuns'[cc_mine'[q]] = q
    <3>1. q # r /\ cc_step[q] = "reading" /\ cc_mine[q] \in ClaudeSession
          /\ cc_activeRuns[cc_mine[q]] = q
      BY <2>2, <2>4 DEF ClaudeTypes, Claude!TypeOK, Claude!SessionsHaveOwners
    <3> QED BY <2>1, <3>1
  <2> QED BY <2>3, <2>4 DEF Claude!SessionsHaveOwners
<1>4. Claude!OwnWords'
  BY DEF Claude!End, ClaudeTypes, Claude!TypeOK, Claude!OwnWords
<1> QED BY <1>1, <1>2, <1>3, <1>4

(* Every step keeps the invariant.                                         *)
LEMMA ClaudeMoves == ClaudeInv /\ [Claude!Next]_(Claude!vars) => ClaudeInv'
<1> SUFFICES ASSUME ClaudeInv, [Claude!Next]_(Claude!vars) PROVE ClaudeInv'
  OBVIOUS
<1>1. ASSUME NEW r \in ClaudeRun, NEW s \in ClaudeSession \cup {NoOne}, Claude!Begin(r, s)
      PROVE  ClaudeInv'
  <2>1. UNCHANGED <<cc_stream, cc_aborted, cc_words>>
        /\ cc_wanted' = [cc_wanted EXCEPT ![r] = s]
        /\ cc_step[r] = "new" /\ cc_mine[r] = NoOne
    BY <1>1 DEF Claude!Begin, Claude!Set, ClaudeInv, ClaudeRunsKnow
  <2>2. CASE /\ cc_step' = [cc_step EXCEPT ![r] = "over"]
             /\ cc_verdict' = [cc_verdict EXCEPT ![r] = "busy"]
             /\ UNCHANGED <<cc_activeRuns, cc_mine>>
    BY <2>1, <2>2 DEF ClaudeInv, Claude!ClaudeCodeAssumption, ClaudeTypes, Claude!TypeOK,
                      ClaudeRunsKnow,
                      Claude!SessionsHaveOwners, Claude!OwnWords
  <2>3. CASE /\ s # NoOne => cc_activeRuns[s] = NoOne
             /\ cc_activeRuns' = [q \in ClaudeSession |->
                  IF q = s THEN r ELSE cc_activeRuns[q]]
             /\ cc_mine' = [cc_mine EXCEPT ![r] = s]
             /\ cc_step' = [cc_step EXCEPT ![r] = "reading"]
             /\ UNCHANGED cc_verdict
    <3>1. ClaudeTypes'
      BY <2>1, <2>3 DEF ClaudeInv, ClaudeTypes, Claude!TypeOK
    <3>2. ClaudeRunsKnow'
      BY <2>1, <2>3 DEF ClaudeInv, ClaudeTypes, Claude!TypeOK, ClaudeRunsKnow
    <3>3. Claude!SessionsHaveOwners'
      BY <2>1, <2>3 DEF ClaudeInv, Claude!ClaudeCodeAssumption, ClaudeTypes, Claude!TypeOK,
                        Claude!SessionsHaveOwners
    <3>4. Claude!OwnWords'
      BY <2>1, <2>3 DEF ClaudeInv, Claude!ClaudeCodeAssumption, ClaudeTypes, Claude!TypeOK,
                        Claude!OwnWords, ClaudeRunsKnow
    <3> QED BY <3>1, <3>2, <3>3, <3>4 DEF ClaudeInv, Claude!ClaudeCodeAssumption
  <2> QED BY <1>1, <2>2, <2>3 DEF Claude!Begin, Claude!Set
<1>2. ASSUME NEW r \in ClaudeRun, Claude!Read(r) PROVE ClaudeInv'
  <2> DEFINE m == Head(cc_stream[r]).m
             s == Head(cc_stream[r]).s
  <2>1. /\ s \in ClaudeSession /\ cc_stream' \in [ClaudeRun -> Seq(ClaudeMessages)]
        /\ cc_step[r] = "reading" /\ UNCHANGED <<cc_wanted, cc_aborted>>
    <3>1. cc_stream[r] \in Seq(ClaudeMessages) /\ cc_stream[r] # <<>>
          /\ cc_stream \in [ClaudeRun -> Seq(ClaudeMessages)]
          /\ cc_stream' = [cc_stream EXCEPT ![r] = Tail(cc_stream[r])]
      BY <1>2 DEF Claude!Read, Claude!Set, ClaudeInv, ClaudeTypes
    <3>2. Head(cc_stream[r]) \in ClaudeMessages /\ Tail(cc_stream[r]) \in Seq(ClaudeMessages)
      BY <3>1
    <3>3. s \in ClaudeSession
      BY <3>2 DEF ClaudeMessages
    <3>4. cc_stream' \in [ClaudeRun -> Seq(ClaudeMessages)]
      BY <3>1, <3>2
    <3> QED BY <1>2, <3>3, <3>4 DEF Claude!Read
  <2>2. CASE r \in cc_aborted /\ Claude!End(r, "cancelled", cc_mine[r])
             /\ UNCHANGED <<cc_mine, cc_words>>
    BY <2>1, <2>2, ClaudeEndStep
  <2>3. CASE r \notin cc_aborted /\ Claude!ReadInit(r, s)
    <3>1. CASE Claude!End(r, "failed", cc_mine[r]) /\ UNCHANGED <<cc_mine, cc_words>>
      BY <2>1, <3>1, ClaudeEndStep
    <3>2. CASE /\ cc_mine[r] \in {NoOne, s} /\ cc_activeRuns[s] \in {NoOne, r}
               /\ cc_mine' = [cc_mine EXCEPT ![r] = s]
               /\ cc_activeRuns' = [cc_activeRuns EXCEPT ![s] = r]
               /\ UNCHANGED <<cc_step, cc_verdict, cc_words>>
      <4>1. ClaudeTypes'
        BY <2>1, <3>2 DEF ClaudeInv, ClaudeTypes, Claude!TypeOK
      <4>2. ClaudeRunsKnow'
        BY <2>1, <3>2 DEF ClaudeInv, Claude!ClaudeCodeAssumption, ClaudeTypes,
                          Claude!TypeOK, ClaudeRunsKnow
      <4>3. Claude!SessionsHaveOwners'
        BY <2>1, <3>2 DEF ClaudeInv, Claude!ClaudeCodeAssumption, ClaudeTypes,
                          Claude!TypeOK, Claude!SessionsHaveOwners
      <4>4. Claude!OwnWords'
        BY <2>1, <3>2 DEF ClaudeInv, Claude!ClaudeCodeAssumption, ClaudeTypes,
                          Claude!TypeOK, Claude!OwnWords, ClaudeRunsKnow
      <4> QED BY <4>1, <4>2, <4>3, <4>4 DEF ClaudeInv, Claude!ClaudeCodeAssumption
    <3> QED BY <2>3, <3>1, <3>2 DEF Claude!ReadInit, Claude!Enters, Claude!Set
  <2>4. CASE r \notin cc_aborted /\ Claude!ReadText(r, s)
    <3>1. CASE Claude!End(r, "failed", cc_mine[r]) /\ UNCHANGED <<cc_mine, cc_words>>
      BY <2>1, <3>1, ClaudeEndStep
    <3>2. CASE /\ cc_mine[r] = s
               /\ cc_words' = [cc_words EXCEPT ![r] = cc_words[r] \cup {s}]
               /\ UNCHANGED <<cc_activeRuns, cc_step, cc_verdict, cc_mine>>
      BY <2>1, <3>2 DEF ClaudeInv, Claude!ClaudeCodeAssumption, ClaudeTypes, Claude!TypeOK,
                        ClaudeRunsKnow,
                        Claude!SessionsHaveOwners, Claude!OwnWords
    <3> QED BY <2>4, <3>1, <3>2 DEF Claude!ReadText, Claude!Set
  <2>5. CASE r \notin cc_aborted /\ Claude!ReadResult(r, m, s)
    BY <2>1, <2>5, ClaudeEndStep DEF Claude!ReadResult
  <2> QED BY <1>2, <2>2, <2>3, <2>4, <2>5 DEF Claude!Read
<1>3. ASSUME NEW r \in ClaudeRun, Claude!StreamOver(r) PROVE ClaudeInv'
  BY <1>3, ClaudeEndStep DEF Claude!StreamOver, ClaudeInv, ClaudeTypes
<1>4. ASSUME NEW r \in ClaudeRun, Claude!Dropped(r) PROVE ClaudeInv'
  BY <1>4, ClaudeEndStep DEF Claude!Dropped, ClaudeInv, ClaudeTypes
<1>5. ASSUME NEW r \in ClaudeRun, Claude!Breaks(r) PROVE ClaudeInv'
  BY <1>5 DEF Claude!Breaks, ClaudeInv, Claude!ClaudeCodeAssumption, ClaudeTypes,
              Claude!TypeOK, ClaudeRunsKnow,
              Claude!SessionsHaveOwners, Claude!OwnWords
<1>6. ASSUME NEW r \in ClaudeRun, NEW m \in {"init", "delta", "success", "error"},
             Claude!Speaks(r, m)
      PROVE  ClaudeInv'
  <2>1. PICK s \in ClaudeSession :
          cc_stream' = [cc_stream EXCEPT ![r] = Append(cc_stream[r], Claude!Line(m, s))]
    BY <1>6 DEF Claude!Speaks, Claude!Set
  <2>2. Claude!Line(m, s) \in ClaudeMessages
    BY DEF Claude!Line, ClaudeMessages
  <2>3. cc_stream' \in [ClaudeRun -> Seq(ClaudeMessages)]
    BY <2>1, <2>2 DEF ClaudeInv, ClaudeTypes
  <2> QED BY <1>6, <2>3 DEF Claude!Speaks, ClaudeInv, Claude!ClaudeCodeAssumption,
                            ClaudeTypes, Claude!TypeOK, ClaudeRunsKnow,
                            Claude!SessionsHaveOwners, Claude!OwnWords
<1>7. ASSUME NEW s \in ClaudeSession, Claude!Cancel(s) PROVE ClaudeInv'
  <2>1. /\ cc_activeRuns[s] \in ClaudeRun /\ cc_step[cc_activeRuns[s]] = "reading"
        /\ cc_verdict[cc_activeRuns[s]] = "none"
    BY <1>7 DEF Claude!Cancel, ClaudeInv, ClaudeTypes, Claude!TypeOK, ClaudeRunsKnow,
                Claude!SessionsHaveOwners
  <2> QED BY <1>7, <2>1 DEF Claude!Cancel, ClaudeInv, Claude!ClaudeCodeAssumption,
                            ClaudeTypes, Claude!TypeOK, ClaudeRunsKnow,
                            Claude!SessionsHaveOwners, Claude!OwnWords
<1>8. CASE UNCHANGED Claude!vars
  BY <1>8 DEF Claude!vars, Claude!sdk, ClaudeInv, Claude!ClaudeCodeAssumption, ClaudeTypes,
              Claude!TypeOK, ClaudeRunsKnow,
              Claude!SessionsHaveOwners, Claude!OwnWords
<1> QED BY <1>1, <1>2, <1>3, <1>4, <1>5, <1>6, <1>7, <1>8 DEF Claude!Next

(* The invariant of every reachable state.                                 *)
THEOREM ClaudeInvariant == Claude!ClaudeCodeAssumption /\ Claude!Spec => []ClaudeInv
  BY ClaudeStarts, ClaudeMoves, PTL DEF Claude!Spec

(* A session is owned by the run that is in it, for as long as it is, so    *)
(* that cancel stops no other run and no session is refused for good.      *)
THEOREM ClaudeSessionsHaveOwners ==
  Claude!ClaudeCodeAssumption /\ Claude!Spec => []Claude!SessionsHaveOwners
<1>1. ClaudeInv => Claude!SessionsHaveOwners
  BY DEF ClaudeInv
<1> QED BY <1>1, ClaudeInvariant, PTL

(* A run passes on text of its own session only, and does not complete once *)
(* it was cancelled.                                                       *)
THEOREM ClaudeOwnWords == Claude!ClaudeCodeAssumption /\ Claude!Spec => []Claude!OwnWords
<1>1. ClaudeInv => Claude!OwnWords
  BY DEF ClaudeInv
<1> QED BY <1>1, ClaudeInvariant, PTL

-----------------------------------------------------------------------------
(* The theorems on the components assume what the gateway was configured   *)
(* with.                                                                   *)
LEMMA KernelsAssumed ==
  /\ PiProofs!PiAssumption /\ CodexProofs!CodexAssumption
  /\ OpenClawProofs!OpenClawAssumption /\ Claude!ClaudeCodeAssumption
BY KernelsAssumption DEF Pi!PiAssumption, PiProofs!PiAssumption,
  Codex!CodexAssumption, CodexProofs!CodexAssumption,
  OpenClaw!OpenClawAssumption, OpenClawProofs!OpenClawAssumption

(* The state of every adapter is of its types, in any gateway.             *)
THEOREM KernelsTypeOK == Spec => []TypeOK
<1>1. Spec => []PiProofs!TypeOK
  BY KernelsAssumed, RunsPi, SamePi, PiProofs!PiTypeOK, PTL
<1>2. Spec => []CodexProofs!TypeOK
  BY KernelsAssumed, RunsCodex, SameCodex, CodexProofs!CodexTypeOK, PTL
<1>3. Spec => []Acp!TypeOK
  BY RunsAcp, AcpTypeOK, PTL
<1>4. Spec => []OpenClawProofs!TypeOK
  BY KernelsAssumed, RunsOpenClaw, SameOpenClaw, OpenClawProofs!OpenClawTypeOK, PTL
<1>5. Spec => []ClaudeInv
  BY KernelsAssumed, RunsClaude, ClaudeInvariant, PTL
<1>6. /\ PiProofs!TypeOK /\ CodexProofs!TypeOK /\ Acp!TypeOK /\ OpenClawProofs!TypeOK
      /\ ClaudeInv
      => TypeOK
  <2>1. PiProofs!TypeOK => Pi!TypeOK
    BY DEF Pi!TypeOK, PiProofs!TypeOK
  <2>2. CodexProofs!TypeOK => Codex!TypeOK
    BY DEF Codex!TypeOK, CodexProofs!TypeOK
  <2>3. OpenClawProofs!TypeOK => OpenClaw!TypeOK
    BY DEF OpenClaw!TypeOK, OpenClawProofs!TypeOK, OpenClaw!Client, OpenClawProofs!Client
  <2> QED BY <2>1, <2>2, <2>3 DEF TypeOK, ClaudeInv, ClaudeTypes
<1> QED BY <1>1, <1>2, <1>3, <1>4, <1>5, <1>6, PTL

(* What a run answers are the words of its own turn in its own session,    *)
(* but for the cases each adapter names: no adapter mixes up two runs      *)
(* (the filters by session, turn and run id of the five adapters).         *)
THEOREM KernelsOwnWords == Spec => []OwnWords
<1>1. Spec => []PiProofs!OwnWords
  BY KernelsAssumed, RunsPi, SamePi, PiProofs!PiOwnWords, PTL
<1>2. Spec => []CodexProofs!TroubleNeedsAbandonedRun
  BY KernelsAssumed, RunsCodex, SameCodex, CodexProofs!CodexOwnTurns, PTL
<1>3. Spec => []Acp!OwnWords
  BY RunsAcp, AcpOwnWords, PTL
<1>4. Spec => []OpenClawProofs!OwnWords
  BY KernelsAssumed, RunsOpenClaw, SameOpenClaw, OpenClawProofs!OpenClawOwnWords, PTL
<1>5. Spec => []OpenClawProofs!TextOnce
  BY KernelsAssumed, RunsOpenClaw, SameOpenClaw, OpenClawProofs!OpenClawTextOnce, PTL
<1>6. Spec => []Claude!OwnWords
  BY KernelsAssumed, RunsClaude, ClaudeOwnWords, PTL
<1>7. /\ PiProofs!OwnWords /\ CodexProofs!TroubleNeedsAbandonedRun /\ Acp!OwnWords
      /\ OpenClawProofs!OwnWords /\ OpenClawProofs!TextOnce /\ Claude!OwnWords
      => OwnWords
  <2>1. PiProofs!OwnWords => Pi!OwnWords
    BY DEF Pi!OwnWords, PiProofs!OwnWords, Pi!Turn, PiProofs!Turn
  <2>2. CodexProofs!TroubleNeedsAbandonedRun => Codex!TroubleNeedsAbandonedRun
    BY DEF Codex!TroubleNeedsAbandonedRun, CodexProofs!TroubleNeedsAbandonedRun
  <2>3. OpenClawProofs!OwnWords /\ OpenClawProofs!TextOnce => OpenClaw!OwnWords /\ OpenClaw!TextOnce
    BY DEF OpenClaw!OwnWords, OpenClawProofs!OwnWords, OpenClaw!TextOnce, OpenClawProofs!TextOnce
  <2> QED BY <2>1, <2>2, <2>3 DEF OwnWords
<1> QED BY <1>1, <1>2, <1>3, <1>4, <1>5, <1>6, <1>7, PTL

(* Nothing an adapter lends is lost, in any gateway: a Pi worker is free   *)
(* or held by exactly one run, and a session of the Claude Code adapter    *)
(* that is taken is taken by a run that still uses it, whatever aborts,    *)
(* failures and exits occur (release and the finally blocks of the two     *)
(* adapters).                                                              *)
THEOREM KernelsNothingLeaks == Spec => []NothingLeaks
<1>1. Spec => []PiProofs!WorkersConserved
  BY KernelsAssumed, RunsPi, SamePi, PiProofs!PiWorkersConserved, PTL
<1>2. Spec => []Claude!SessionsHaveOwners
  BY KernelsAssumed, RunsClaude, ClaudeSessionsHaveOwners, PTL
<1>3. PiProofs!WorkersConserved /\ Claude!SessionsHaveOwners => NothingLeaks
  BY DEF NothingLeaks, Pi!WorkersConserved, PiProofs!WorkersConserved,
    Pi!Cardinality, PiProofs!Cardinality
<1> QED BY <1>1, <1>2, <1>3, PTL

(* An agent that waits for an answer of the user waits for somebody who    *)
(* can give it: a Pi process for its dialog, an ACP agent for a            *)
(* permission, a Codex turn for its question; and the Codex adapter        *)
(* answers with nothing only behind another question of the run            *)
(* (pendingUserInputs, activeTurns and the pending dialogs).               *)
THEOREM KernelsQuestionsHaveKeepers == Spec => []QuestionsHaveKeepers
<1>1. Spec => []PiProofs!DialogHasKeeper
  BY KernelsAssumed, RunsPi, SamePi, PiProofs!PiDialogHasKeeper, PTL
<1>2. Spec => []CodexProofs!BlockedTurnHasKeeper
  BY KernelsAssumed, RunsCodex, SameCodex, CodexProofs!CodexBlockedTurnHasKeeper, PTL
<1>3. Spec => []CodexProofs!DeclinedBehindAQuestion
  BY KernelsAssumed, RunsCodex, SameCodex, CodexProofs!CodexDeclinedBehindAQuestion, PTL
<1>4. Spec => []Acp!WantHasKeeper
  BY RunsAcp, AcpWantHasKeeper, PTL
<1>5. /\ PiProofs!DialogHasKeeper /\ CodexProofs!BlockedTurnHasKeeper
      /\ CodexProofs!DeclinedBehindAQuestion /\ Acp!WantHasKeeper
      => QuestionsHaveKeepers
  <2>1. PiProofs!DialogHasKeeper => Pi!DialogHasKeeper
    BY DEF Pi!DialogHasKeeper, PiProofs!DialogHasKeeper, Pi!Reading, PiProofs!Reading,
      Pi!Holding, PiProofs!Holding
  <2>2. CodexProofs!BlockedTurnHasKeeper => Codex!BlockedTurnHasKeeper
    BY DEF Codex!BlockedTurnHasKeeper, CodexProofs!BlockedTurnHasKeeper,
      Codex!Event, CodexProofs!Event
  <2>3. CodexProofs!DeclinedBehindAQuestion => Codex!DeclinedBehindAQuestion
    BY DEF Codex!DeclinedBehindAQuestion, CodexProofs!DeclinedBehindAQuestion
  <2> QED BY <2>1, <2>2, <2>3 DEF QuestionsHaveKeepers
<1> QED BY <1>1, <1>2, <1>3, <1>4, <1>5, PTL

(* The answer of a user reaches the thread that has asked, in any gateway: *)
(* another one only if its run still reads what a child that is gone had   *)
(* asked (resumeInteraction: the adapter keys a question by its request id *)
(* alone).                                                                 *)
THEOREM KernelsAnswersStay == Spec => AnswersStayInTheirThread
<1>1. Spec => CodexProofs!AnswersStayInTheirThread
  BY KernelsAssumed, RunsCodex, SameCodex, CodexProofs!CodexAnswersStay, PTL
<1>2. UNCHANGED CodexProofs!vars <=> UNCHANGED Codex!vars
  BY DEF CodexProofs!vars, Codex!vars, CodexProofs!child, Codex!child,
    CodexProofs!client, Codex!client, CodexProofs!reader, Codex!reader,
    CodexProofs!runs, Codex!runs, CodexProofs!ghosts, Codex!ghosts
<1> DEFINE There ==
             \A w \in cx_wants \ cx_wants' :
               \A t \in CodexThread \ {w.t} :
                 (w.id \in cx_userInputs \ cx_userInputs'
                    /\ (CodexProofs!Answer(t) \/ CodexProofs!Read(t))) => t \in cx_outlived
           Here  ==
             \A w \in cx_wants \ cx_wants' :
               \A t \in CodexThread \ {w.t} :
                 (w.id \in cx_userInputs \ cx_userInputs'
                    /\ (Codex!Answer(t) \/ Codex!Read(t))) => t \in cx_outlived
<1>3. There => Here
  <2> SUFFICES ASSUME There,
                      NEW w \in cx_wants \ cx_wants', NEW t \in CodexThread \ {w.t},
                      w.id \in cx_userInputs \ cx_userInputs',
                      Codex!Answer(t) \/ Codex!Read(t)
               PROVE  t \in cx_outlived
    OBVIOUS
  <2>1. CodexProofs!Answer(t) \/ CodexProofs!Read(t)
    BY DEF CodexProofs!Answer, Codex!Answer, CodexProofs!Read, Codex!Read,
      CodexProofs!ReadAsk, Codex!ReadAsk, CodexProofs!ReadError, Codex!ReadError,
      CodexProofs!End, Codex!End, CodexProofs!Set, Codex!Set, CodexProofs!Fault, Codex!Fault,
      CodexProofs!Foreign, Codex!Foreign, CodexProofs!Without, Codex!Without,
      CodexProofs!Writable, Codex!Writable, CodexProofs!reader, Codex!reader,
      CodexProofs!runs, Codex!runs
  <2> QED BY <2>1
<1>4. [There]_(CodexProofs!vars) => [Here]_(Codex!vars)
  <2> HIDE DEF There, Here
  <2> QED BY <1>2, <1>3
<1>5. CodexProofs!AnswersStayInTheirThread => [][There]_(CodexProofs!vars)
  BY PTL DEF CodexProofs!AnswersStayInTheirThread
<1>6. [][Here]_(Codex!vars) => AnswersStayInTheirThread
  BY PTL DEF AnswersStayInTheirThread, Codex!AnswersStayInTheirThread
<1> QED BY <1>1, <1>4, <1>5, <1>6, PTL
==============================================================================
