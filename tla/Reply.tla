--------------------------------- MODULE Reply ---------------------------------
(***************************************************************************)
(* The reply of one run: the events of the agent, the projection that      *)
(* turns them into text, and MutableReply, which sends the text in partial *)
(* updates and closes it with the final one.                               *)
(*                                                                         *)
(* A text is the set of the deltas it contains.  Sending is enqueuing: the *)
(* store takes the row or throws, then the row is dispatched (Outbox).     *)
(***************************************************************************)
EXTENDS Naturals, SequencesExt

CONSTANTS
  MaxDeltas,   \* bound: text deltas of the run
  MaxPartials, \* bound: partial updates
  MaxStops,    \* bound: clicks on the control card (a failed one leaves it)
  MaxFaults    \* bound: rows the store does not take

(* What the constants have to be: Parts assumes it.                        *)
ReplyAssumption == {MaxDeltas, MaxPartials, MaxStops, MaxFaults} \subseteq Nat

None == [text |-> {}, final |-> "none"]  \* no pending text

VARIABLES
  spoken,  \* deltas the agent has emitted
  text,    \* those the projection has (its status is left out)
  timer,   \* the update timer is set
  pending, \* pendingText
  flight,  \* inFlight: the updates of the chain that are not through
  head,    \* the first of them: "store" or "dispatch"
  broken,  \* inFlight is rejected
  closed,  \* MutableReply.closed
  step,    \* handle: "open", "run", "card", "close", "final", "sent", "over" or
           \* "crashed", by a rejection nobody handles
  stop,    \* "no", or cancelRequested: "asked"
  stops,
  card,    \* the action card of the reply: "none", "stored", "sent" or "cancelled"
  last,    \* the final text that is to be sent
  rows,    \* what has been enqueued, in order
  faults

vars == <<spoken, text, timer, pending, flight, head, broken, closed, step, stop,
          stops, card, last, rows, faults>>

Fault            == faults < MaxFaults /\ faults' = faults + 1
Partial(t)       == [text |-> t, final |-> "partial"]
Note             == [text |-> {}, final |-> "note"]
Final(kind, t)   == [text |-> t, final |-> kind]
Room             == Len(rows) + Len(flight) <= MaxPartials

Init ==
  /\ spoken = 0 /\ text = {} /\ timer = FALSE /\ pending = None
  /\ flight = <<>> /\ head = "store" /\ broken = FALSE /\ closed = FALSE
  /\ step = "open" /\ stop = "no" /\ stops = 0 /\ card = "none" /\ last = None
  /\ rows = <<>> /\ faults = 0

-----------------------------------------------------------------------------
(* MutableReply                                                            *)

(* update, by an event of the agent or a note that it waits for somebody   *)
Update(row) ==
  IF closed THEN UNCHANGED <<pending, timer>> ELSE pending' = row /\ timer' = TRUE

(* close: nothing that is pending goes out any more.  A reply that is      *)
(* closed stays as it is, and so does the one of a close that failed.      *)
Close(row) ==
  IF closed THEN step' = "over" /\ UNCHANGED <<closed, pending, timer, last>>
  ELSE /\ closed' = TRUE /\ pending' = None /\ timer' = FALSE
       /\ last' = row /\ step' = "close"

(* flushPending: the update waits for those before it.                     *)
Flush ==
  /\ timer /\ timer' = FALSE /\ pending' = None /\ step # "crashed"
  /\ flight' = IF pending = None \/ closed \/ broken THEN flight
               ELSE Append(flight, pending)
  /\ UNCHANGED <<spoken, text, head, broken, closed, step, stop, stops, card, last,
                 rows, faults>>

(* The update is enqueued.  If the store does not take it the chain is     *)
(* rejected, the updates after it are skipped; and unless close waits for  *)
(* it nobody handles the rejection, which ends the process.                *)
Store ==
  /\ flight # <<>> /\ head = "store" /\ step # "crashed"
  /\ \/ /\ rows' = Append(rows, Head(flight)) /\ head' = "dispatch"
        /\ UNCHANGED <<flight, broken, step, faults>>
     \/ /\ Fault /\ broken' = TRUE /\ flight' = <<>>
        /\ step' = IF step = "close" THEN step ELSE "crashed"
        /\ UNCHANGED <<rows, head>>
  /\ UNCHANGED <<spoken, text, timer, pending, closed, stop, stops, card, last>>

(* Its attempt is made, acknowledged or not.                               *)
Dispatched ==
  /\ flight # <<>> /\ head = "dispatch" /\ step # "crashed"
  /\ head' = "store" /\ flight' = Tail(flight)
  /\ UNCHANGED <<spoken, text, timer, pending, broken, closed, step, stop, stops,
                 card, last, rows, faults>>

(* Mutation: the final text does not wait for the partial ones.            *)
AtOnce == TRUE

Awaited == flight = <<>>

(* close goes on.  If the chain is rejected it throws, and so does handle: *)
(* its own close finds the reply closed.                                   *)
Finish ==
  /\ step = "close" /\ Awaited
  /\ \/ /\ ~broken /\ rows' = Append(rows, last) /\ UNCHANGED <<faults, card>>
        /\ step' = IF card = "stored" THEN "final" ELSE "sent"
     \/ /\ broken \/ faults < MaxFaults
        /\ faults' = IF broken THEN faults ELSE faults + 1
        /\ card' = IF card = "stored" THEN "cancelled" ELSE card
        /\ step' = "over" /\ UNCHANGED rows
  /\ UNCHANGED <<spoken, text, timer, pending, flight, head, broken, closed, stop,
                 stops, last>>

(* The card of the final text is a row of its own.                         *)
SendCard ==
  /\ step = "final"
  /\ \/ card' = "sent" /\ step' = "sent" /\ UNCHANGED faults
     \/ Fault /\ card' = "cancelled" /\ step' = "over"
  /\ UNCHANGED <<spoken, text, timer, pending, flight, head, broken, closed, stop,
                 stops, last, rows>>

-----------------------------------------------------------------------------
(* handle                                                                  *)

(* The first text says that the message has come.                          *)
Open ==
  /\ step = "open"
  /\ \/ /\ rows' = <<Partial({})>> /\ step' = "run"
        /\ UNCHANGED <<faults, closed, pending, timer, last>>
     \/ Fault /\ Close(Final("failed", {})) /\ UNCHANGED rows
  /\ UNCHANGED <<spoken, text, flight, head, broken, stop, stops, card>>

(* An event of the agent is passed over while a stop is asked for.         *)
Delta ==
  /\ step = "run" /\ spoken < MaxDeltas /\ spoken' = spoken + 1
  /\ IF stop = "asked" THEN UNCHANGED <<text, pending, timer>>
     ELSE text' = text \cup {spoken + 1} /\ Update(Partial(text'))
  /\ Room
  /\ UNCHANGED <<flight, head, broken, closed, step, stop, stops, card, last, rows,
                 faults>>

(* The run waits for an approval or for an answer: a note in place of the  *)
(* text says so.                                                           *)
Waits ==
  /\ step = "run" /\ Room /\ Update(Note)
  /\ UNCHANGED <<spoken, text, flight, head, broken, closed, step, stop, stops, card,
                 last, rows, faults>>

(* message-completed, with the whole text or without: closeReplyWithActions *)
(* makes the card first, for an agent that offers actions.                 *)
Answer(t) ==
  \/ Close(Final("answer", t)) /\ UNCHANGED <<card, faults>>
  \/ ~closed /\ card' = "stored" /\ Close(Final("answer", t)) /\ UNCHANGED faults
  \/ ~closed /\ Fault /\ Close(Final("failed", {})) /\ UNCHANGED card

Completed ==
  /\ step = "run" /\ stop = "no" /\ ~closed
  /\ \E t \in {text, 1..spoken} : Answer(t)
  /\ UNCHANGED <<spoken, text, flight, head, broken, stop, stops, rows>>

(* The adapter's iteration ends without it, or throws.                     *)
Ended ==
  /\ step = "run" /\ ~closed
  /\ IF stop = "asked" THEN Close(Final("stopped", {})) /\ UNCHANGED <<card, faults>>
     ELSE Answer(text)
  /\ UNCHANGED <<spoken, text, flight, head, broken, stop, stops, rows>>

Failed ==
  /\ step = "run" /\ ~closed
  /\ Close(Final(IF stop = "asked" THEN "stopped" ELSE "failed", {}))
  /\ UNCHANGED <<spoken, text, flight, head, broken, stop, stops, card, rows, faults>>

(* The control card: handleRunControl; a cancel that fails is taken back.  *)
AskStop ==
  /\ step \in {"run", "close", "final"} /\ stop = "no" /\ stops < MaxStops
  /\ stop' = "asked" /\ stops' = stops + 1
  /\ UNCHANGED <<spoken, text, timer, pending, flight, head, broken, closed, step,
                 card, last, rows, faults>>

StopFails ==
  /\ stop = "asked" /\ step # "crashed" /\ stop' = "no"
  /\ UNCHANGED <<spoken, text, timer, pending, flight, head, broken, closed, step,
                 stops, card, last, rows, faults>>

Next ==
  \/ Open \/ Delta \/ Waits \/ Completed \/ Ended \/ Failed
  \/ Flush \/ Store \/ Dispatched \/ Finish \/ SendCard
  \/ AskStop \/ StopFails

Spec == Init /\ [][Next]_vars

-----------------------------------------------------------------------------
(* Properties.                                                             *)

TypeOK ==
  /\ text \subseteq 1..spoken /\ head \in {"store", "dispatch"}
  /\ card \in {"none", "stored", "sent", "cancelled"}
  /\ step \in {"open", "run", "close", "final", "sent", "over", "crashed"}

Finals == {i \in 1..Len(rows) : rows[i].final \notin {"partial", "note"}}

(* One final text, after every partial one; the texts grow, and an answer  *)
(* has all that was shown before.                                          *)
FinalIsLast ==
  /\ Finals \subseteq {Len(rows)}
  /\ \A i, j \in 1..Len(rows) :
       i < j /\ rows[j].final \in {"partial", "answer"} => rows[i].text \subseteq rows[j].text

(* The answer is the whole text of the agent, unless a stop was asked for, *)
(* though it may have failed.                                              *)
AnswerIsWhole ==
  \A i \in Finals : rows[i].final = "answer" /\ stops = 0 => rows[i].text = 1..spoken

(* Every reply gets its final text, unless the store does not take a row.  *)
EveryReplyCloses ==
  step \in {"over", "crashed", "sent"} => Finals # {} \/ faults > 0

(* An action card that is still open has been sent, after its text.        *)
OpenCardsAreSent ==
  /\ step \in {"sent", "over"} => card # "stored"
  /\ card = "sent" => \E i \in Finals : rows[i].final = "answer"
================================================================================
