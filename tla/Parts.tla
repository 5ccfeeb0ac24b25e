--------------------------------- MODULE Parts ---------------------------------
(***************************************************************************)
(* The parts around the core: the process and its owner lock (the module   *)
(* extended here), media out and in, the reply, and a question with its    *)
(* card.  A behaviour is one part's; the others do not start: they share   *)
(* no state, and what a delivery or a run sees of them is in Outbox and    *)
(* Conversations.                                                          *)
(***************************************************************************)
EXTENDS GatewayProcess

CONSTANTS
  Artifact, MaxArtifact, MaxTotal, MaxUpload, MaxSource,        \* MediaSpool
  Message, Gateway, Home(_), MaxBytes, MaxParts,                \* InboundMedia
  MaxDeltas, MaxPartials, MaxStops,                             \* Reply
  Questions, Dialogs, Offers, Presses, Typed, MaxText, MaxPresses, \* Dialogue
  MaxFaults

VARIABLES
  subject,  \* the part that runs
  ms_chain, ms_step, ms_entry, ms_bytes, ms_whole, ms_noted, ms_row,
  ms_upload, ms_sent, ms_up, ms_faults,
  im_folder, im_old, im_step, im_bytes, im_parts, im_proc, im_list, im_doomed,
  im_late, im_crashes,
  rp_spoken, rp_text, rp_timer, rp_pending, rp_flight, rp_head, rp_broken,
  rp_closed, rp_step, rp_stop, rp_stops, rp_card, rp_last, rp_rows, rp_faults,
  dg_step, dg_asker, dg_question, dg_pending, dg_request, dg_card, dg_result,
  dg_reply, dg_said, dg_notice, dg_meant, dg_presses

Spool == INSTANCE MediaSpool WITH
  chain <- ms_chain, step <- ms_step, entry <- ms_entry, bytes <- ms_bytes,
  whole <- ms_whole, noted <- ms_noted, row <- ms_row, upload <- ms_upload,
  sent <- ms_sent, up <- ms_up, faults <- ms_faults

Inbound == INSTANCE InboundMedia WITH
  Proc <- Gateway,
  folder <- im_folder, old <- im_old, step <- im_step, bytes <- im_bytes,
  parts <- im_parts, proc <- im_proc, list <- im_list, doomed <- im_doomed,
  late <- im_late, crashes <- im_crashes

Answer == INSTANCE Reply WITH
  spoken <- rp_spoken, text <- rp_text, timer <- rp_timer, pending <-
  rp_pending, flight <- rp_flight, head <- rp_head, broken <- rp_broken,
  closed <- rp_closed, step <- rp_step, stop <- rp_stop, stops <- rp_stops,
  card <- rp_card, last <- rp_last, rows <- rp_rows, faults <- rp_faults

Talk == INSTANCE Dialogue WITH
  step <- dg_step, asker <- dg_asker, question <- dg_question,
  pending <- dg_pending, request <- dg_request, card <- dg_card,
  result <- dg_result, reply <- dg_reply, said <- dg_said,
  notice <- dg_notice, meant <- dg_meant, presses <- dg_presses

spoolVars ==
  <<ms_chain, ms_step, ms_entry, ms_bytes, ms_whole, ms_noted, ms_row,
    ms_upload, ms_sent, ms_up, ms_faults>>

inboundVars ==
  <<im_folder, im_old, im_step, im_bytes, im_parts, im_proc, im_list,
    im_doomed, im_late, im_crashes>>

replyVars ==
  <<rp_spoken, rp_text, rp_timer, rp_pending, rp_flight, rp_head, rp_broken,
    rp_closed, rp_step, rp_stop, rp_stops, rp_card, rp_last, rp_rows,
    rp_faults>>

talkVars ==
  <<dg_step, dg_asker, dg_question, dg_pending, dg_request, dg_card, dg_result,
    dg_reply, dg_said, dg_notice, dg_meant, dg_presses>>

partsVars == <<subject, vars, spoolVars, inboundVars, replyVars, talkVars>>

(* What the constants have to be, part by part.                            *)
ASSUME PartsAssumption ==
  /\ Spool!SpoolAssumption /\ Inbound!InboundAssumption
  /\ Answer!ReplyAssumption /\ Talk!DialogueAssumption

PartsInit ==
  /\ subject \in {"process", "spool", "inbound", "reply", "dialogue"}
  /\ Init /\ Spool!Init /\ Inbound!Init /\ Answer!Init /\ Talk!Init

ProcessStep ==
  /\ subject = "process" /\ Next
  /\ UNCHANGED <<subject, spoolVars, inboundVars, replyVars, talkVars>>
SpoolStep ==
  /\ subject = "spool" /\ Spool!Next
  /\ UNCHANGED <<subject, vars, inboundVars, replyVars, talkVars>>
InboundStep ==
  /\ subject = "inbound" /\ Inbound!Next
  /\ UNCHANGED <<subject, vars, spoolVars, replyVars, talkVars>>
ReplyStep ==
  /\ subject = "reply" /\ Answer!Next
  /\ UNCHANGED <<subject, vars, spoolVars, inboundVars, talkVars>>
TalkStep ==
  /\ subject = "dialogue" /\ Talk!Next
  /\ UNCHANGED <<subject, vars, spoolVars, inboundVars, replyVars>>

PartsNext == ProcessStep \/ SpoolStep \/ InboundStep \/ ReplyStep \/ TalkStep

PartsSpec == PartsInit /\ [][PartsNext]_partsVars

PartsTypeOK == TypeOK /\ Spool!TypeOK /\ Answer!TypeOK /\ Talk!TypeOK

(* Media out: the quota holds, what is uploaded is what was staged, and    *)
(* no file is lost or left.  Media in: a run finds its files, and only     *)
(* another gateway makes a start fail.                                     *)
MediaKept ==
  /\ Spool!WithinTotal /\ Spool!SentAsStaged /\ Spool!FilesAccounted
  /\ Inbound!RunsFindTheirFiles /\ Inbound!StartsFailForOthers

(* The final text of a reply is whole, is the last one, and is sent.       *)
RepliesClose ==
  /\ Answer!FinalIsLast /\ Answer!AnswerIsWhole /\ Answer!EveryReplyCloses
  /\ Answer!OpenCardsAreSent

(* An agent hears what the human picked or typed, whatever the adapter,    *)
(* the gateway and the transport made of its question on the way; a        *)
(* question an adapter puts is shown, and can be answered.                 *)
AnswersAreMeant ==
  /\ Talk!CodexHearsWhatWasMeant /\ Talk!PiHearsWhatWasMeant
  /\ Talk!ResultIsWhatWasMeant /\ Talk!SecretsAreNotAsked
  /\ Talk!QuestionsAreShown /\ Talk!CardsCanBeAnswered /\ Talk!NoticesAreTrue
================================================================================
