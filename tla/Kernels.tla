------------------------------- MODULE Kernels -------------------------------
(***************************************************************************)
(* The gateway and the kernel it is configured with.  A gateway selects    *)
(* one kernel when it starts (createConfiguredAdapter); the other adapters *)
(* are never called.                                                       *)
(***************************************************************************)
EXTENDS Naturals, Sequences

CONSTANTS
  NoOne,  \* no session, turn, worker or run
  PiSession, PiWorker, PiRuns, PiDialogs, PiFaults,
  CodexThread, CodexRuns, CodexAsks, CodexFaults,
  AcpSession, AcpRuns, AcpAsks, AcpFaults,
  OpenClawSession, OpenClawRuns, OpenClawClients, OpenClawFaults,
  ClaudeRun, ClaudeSession, ClaudeLines, ClaudeBuffer, ClaudeFaults

VARIABLES
  kernel,  \* the adapter GATEWAY_ADAPTER selects, or a host's own choice
  pi_available, pi_waiters, pi_on, pi_step, pi_run, pi_words, pi_dialog,
  pi_verdict, pi_broken, pi_current, pi_active, pi_settling, pi_agent,
  pi_blocked, pi_last, pi_wire, pi_left, pi_orphans, pi_spoken, pi_dialogs,
  pi_dropped, pi_faults,
  cx_proc, cx_stdout, cx_serves, cx_turn, cx_wants, cx_lapsed, cx_nextId,
  cx_asked, cx_active, cx_knows, cx_userInputs, cx_tools, cx_queue, cx_ended,
  cx_step, cx_run, cx_loaded, cx_asking, cx_verdict, cx_answered, cx_guessed,
  cx_abandoned, cx_outlived, cx_stolen, cx_faults, cx_crashed, cx_halted,
  acp_up, acp_wire, acp_works, acp_wants, acp_cancelled, acp_spoken,
  acp_entry, acp_step, acp_run, acp_queue, acp_failed, acp_words,
  acp_decisions, acp_asked, acp_verdict, acp_abandoned, acp_faults,
  oc_link, oc_newest, oc_ready, oc_starting, oc_wire, oc_waits, oc_works,
  oc_renamed, oc_last, oc_outcome, oc_step, oc_run, oc_baseline, oc_heard,
  oc_deltas, oc_settled, oc_answer, oc_verdict, oc_blind, oc_abandoned,
  oc_faults, oc_halted,
  cc_activeRuns, cc_step, cc_mine, cc_wanted, cc_speaks, cc_stream, cc_lines,
  cc_open, cc_aborted, cc_words, cc_verdict, cc_faults

Pi == INSTANCE PiPool WITH
  Session <- PiSession, Worker <- PiWorker, NoOne <- NoOne,
  MaxRuns <- PiRuns, MaxDialogs <- PiDialogs, MaxFaults <- PiFaults,
  available <- pi_available, waiters <- pi_waiters, on <- pi_on, step <-
  pi_step, run <- pi_run, words <- pi_words, dialog <- pi_dialog, verdict <-
  pi_verdict, broken <- pi_broken, current <- pi_current, active <- pi_active,
  settling <- pi_settling, agent <- pi_agent, blocked <- pi_blocked, last <-
  pi_last, wire <- pi_wire, left <- pi_left, orphans <- pi_orphans, spoken <-
  pi_spoken, dialogs <- pi_dialogs, dropped <- pi_dropped, faults <- pi_faults

Codex == INSTANCE CodexAppServer WITH
  Thread <- CodexThread, MaxRuns <- CodexRuns, MaxAsks <- CodexAsks,
  MaxFaults <- CodexFaults,
  proc <- cx_proc, stdout <- cx_stdout, serves <- cx_serves, turn <- cx_turn,
  wants <- cx_wants, lapsed <- cx_lapsed, nextId <- cx_nextId, asked <-
  cx_asked, active <- cx_active, knows <- cx_knows, userInputs <-
  cx_userInputs, tools <- cx_tools, queue <- cx_queue, ended <- cx_ended, step
  <- cx_step, run <- cx_run, loaded <- cx_loaded, asking <- cx_asking, verdict
  <- cx_verdict, answered <- cx_answered, guessed <- cx_guessed, abandoned <-
  cx_abandoned, outlived <- cx_outlived, stolen <- cx_stolen, faults <-
  cx_faults, crashed <- cx_crashed, halted <- cx_halted

Acp == INSTANCE AcpClient WITH
  Session <- AcpSession, MaxRuns <- AcpRuns, MaxAsks <- AcpAsks,
  MaxFaults <- AcpFaults,
  up <- acp_up, wire <- acp_wire, works <- acp_works, wants <- acp_wants,
  cancelled <- acp_cancelled, spoken <- acp_spoken, entry <- acp_entry, step
  <- acp_step, run <- acp_run, queue <- acp_queue, failed <- acp_failed, words
  <- acp_words, decisions <- acp_decisions, asked <- acp_asked, verdict <-
  acp_verdict, abandoned <- acp_abandoned, faults <- acp_faults

OpenClaw == INSTANCE OpenClaw WITH
  Session <- OpenClawSession, MaxRuns <- OpenClawRuns,
  MaxClients <- OpenClawClients, MaxFaults <- OpenClawFaults,
  link <- oc_link, newest <- oc_newest, ready <- oc_ready, starting <-
  oc_starting, wire <- oc_wire, waits <- oc_waits, works <- oc_works, renamed
  <- oc_renamed, last <- oc_last, outcome <- oc_outcome, step <- oc_step, run
  <- oc_run, baseline <- oc_baseline, heard <- oc_heard, deltas <- oc_deltas,
  settled <- oc_settled, answer <- oc_answer, verdict <- oc_verdict, blind <-
  oc_blind, abandoned <- oc_abandoned, faults <- oc_faults, halted <-
  oc_halted

Claude == INSTANCE ClaudeCode WITH
  Run <- ClaudeRun, Session <- ClaudeSession, NoRun <- NoOne, NoSession <- NoOne,
  MaxLines <- ClaudeLines, MaxBuffer <- ClaudeBuffer, MaxFaults <- ClaudeFaults,
  activeRuns <- cc_activeRuns, step <- cc_step, mine <- cc_mine, wanted <-
  cc_wanted, speaks <- cc_speaks, stream <- cc_stream, lines <- cc_lines, open
  <- cc_open, aborted <- cc_aborted, words <- cc_words, verdict <- cc_verdict,
  faults <- cc_faults

piVars ==
  <<pi_available, pi_waiters, pi_on, pi_step, pi_run, pi_words, pi_dialog,
    pi_verdict, pi_broken, pi_current, pi_active, pi_settling, pi_agent,
    pi_blocked, pi_last, pi_wire, pi_left, pi_orphans, pi_spoken, pi_dialogs,
    pi_dropped, pi_faults>>

codexVars ==
  <<cx_proc, cx_stdout, cx_serves, cx_turn, cx_wants, cx_lapsed, cx_nextId,
    cx_asked, cx_active, cx_knows, cx_userInputs, cx_tools, cx_queue,
    cx_ended, cx_step, cx_run, cx_loaded, cx_asking, cx_verdict, cx_answered,
    cx_guessed, cx_abandoned, cx_outlived, cx_stolen, cx_faults, cx_crashed,
    cx_halted>>

acpVars ==
  <<acp_up, acp_wire, acp_works, acp_wants, acp_cancelled, acp_spoken,
    acp_entry, acp_step, acp_run, acp_queue, acp_failed, acp_words,
    acp_decisions, acp_asked, acp_verdict, acp_abandoned, acp_faults>>

openclawVars ==
  <<oc_link, oc_newest, oc_ready, oc_starting, oc_wire, oc_waits, oc_works,
    oc_renamed, oc_last, oc_outcome, oc_step, oc_run, oc_baseline, oc_heard,
    oc_deltas, oc_settled, oc_answer, oc_verdict, oc_blind, oc_abandoned,
    oc_faults, oc_halted>>

claudeVars ==
  <<cc_activeRuns, cc_step, cc_mine, cc_wanted, cc_speaks, cc_stream,
    cc_lines, cc_open, cc_aborted, cc_words, cc_verdict, cc_faults>>

vars == <<kernel, piVars, codexVars, acpVars, openclawVars, claudeVars>>

(* What the constants have to be, adapter by adapter.                      *)
ASSUME KernelsAssumption ==
  /\ Pi!PiAssumption /\ Codex!CodexAssumption /\ Acp!AcpAssumption
  /\ OpenClaw!OpenClawAssumption /\ Claude!ClaudeCodeAssumption

Init ==
  /\ kernel \in {"pi", "codex", "acp", "openclaw", "claude"}
  /\ Pi!Init /\ Codex!Init /\ Acp!Init /\ OpenClaw!Init /\ Claude!Init

PiStep ==
  /\ kernel = "pi" /\ Pi!Next
  /\ UNCHANGED <<kernel, codexVars, acpVars, openclawVars, claudeVars>>
CodexStep ==
  /\ kernel = "codex" /\ Codex!Next
  /\ UNCHANGED <<kernel, piVars, acpVars, openclawVars, claudeVars>>
AcpStep ==
  /\ kernel = "acp" /\ Acp!Next
  /\ UNCHANGED <<kernel, piVars, codexVars, openclawVars, claudeVars>>
OpenClawStep ==
  /\ kernel = "openclaw" /\ OpenClaw!Next
  /\ UNCHANGED <<kernel, piVars, codexVars, acpVars, claudeVars>>
ClaudeStep ==
  /\ kernel = "claude" /\ Claude!Next
  /\ UNCHANGED <<kernel, piVars, codexVars, acpVars, openclawVars>>

Next == PiStep \/ CodexStep \/ AcpStep \/ OpenClawStep \/ ClaudeStep

Spec == Init /\ [][Next]_vars

(* No action of an adapter that is not called is ever enabled.            *)
FairSpec ==
  /\ Spec
  /\ Pi!Fairness /\ Codex!Fairness /\ Acp!Fairness /\ OpenClaw!Fairness
  /\ Claude!Fairness

TypeOK ==
  Pi!TypeOK /\ Codex!TypeOK /\ Acp!TypeOK /\ OpenClaw!TypeOK /\ Claude!TypeOK

(* What a run answers are the words of its own turn in its own session,    *)
(* but for the cases each module names: no adapter mixes up two runs.      *)
OwnWords ==
  /\ Pi!OwnWords /\ Acp!OwnWords /\ Claude!OwnWords
  /\ OpenClaw!OwnWords /\ OpenClaw!TextOnce /\ Codex!TroubleNeedsAbandonedRun

(* What the adapters hold for a run, workers and sessions, is held by one  *)
(* run, and by none once the run is over.                                  *)
NothingLeaks == Pi!WorkersConserved /\ Claude!SessionsHaveOwners

(* An agent that waits for an answer of the user waits for somebody who    *)
(* can give it, and is answered with nothing only in the cases the Codex   *)
(* module names.                                                           *)
QuestionsHaveKeepers ==
  /\ Pi!DialogHasKeeper /\ Acp!WantHasKeeper /\ Codex!BlockedTurnHasKeeper
  /\ Codex!DeclinedBehindAQuestion

(* The Codex adapter answers another thread only in the cases its module   *)
(* names.                                                                  *)
AnswersStayInTheirThread == Codex!AnswersStayInTheirThread

(* Every run of every adapter returns, whatever its agent does.            *)
Busy ==
  CASE kernel = "pi" -> Pi!Busy [] kernel = "codex" -> Codex!Busy
    [] kernel = "acp" -> Acp!Busy [] kernel = "openclaw" -> OpenClaw!Busy
    [] kernel = "claude" -> Claude!Busy

RunsReturn ==
  \A s \in PiSession \cup CodexThread \cup AcpSession \cup OpenClawSession \cup ClaudeRun :
    s \in Busy ~> s \notin Busy
=============================================================================
