------------------------------- MODULE Dialogue -------------------------------
(***************************************************************************)
(* What is asked, shown, chosen and answered: a question of an agent       *)
(* becomes a request of the gateway (the adapter), a card or a prompt (the *)
(* gateway, the transport), a press or a text of the human becomes a       *)
(* result (the transport, the gateway) and that the agent's answer (the    *)
(* adapter).  One dialogue per behaviour; who asks, when it expires and    *)
(* what is stored when are Conversations, CodexAppServer and PiPool.       *)
(*                                                                         *)
(* A text is a word, an end and a length; two texts differ in their ends   *)
(* only until they are cut.  The ids the code formats ("option_0") are     *)
(* tuples (<<"option", 0>>).                                               *)
(***************************************************************************)
EXTENDS Naturals, SequencesExt

CONSTANTS
  Questions, \* what Codex may send: sequences of questions
  Dialogs,   \* the dialogs of Pi's extensions
  Offers,    \* requests of the host, and reply actions of an agent
  Presses,   \* what a template_card_event may say
  Typed,     \* messages of the human: texts, blank or too long ones too
  MaxText,   \* maxProactiveTextBytes
  MaxPresses \* bound: presses and messages that answer nothing

VARIABLES
  step,     \* "idle", "asked", "open", "answered", "refused" by the gateway,
            \* "unsent" by the transport, or "over"
  asker,    \* "codex", "pi", "offer"
  question, \* what the agent sent
  pending,  \* Codex: the mode, the question at hand and the answers so far
  request,  \* RuntimeInteractionRequest
  card,     \* what the human sees
  result,   \* RuntimeInteractionResult
  reply,    \* the status of what the agent is told
  said,     \* its values
  notice,   \* the title of the card's last update, "" before, "unsent" if rejected
  meant,    \* for the properties: texts the human picked, field after field
  presses

vars == <<step, asker, question, pending, request, card, result, reply, said,
          notice, meant, presses>>

Word(w, n) == [word |-> w, tail |-> "", len |-> n, says |-> ""]
NoText     == Word("", 0)  \* undefined; another text of length 0 is blank
Nothing    == [x \in {} |-> {}]
Yes        == Word("yes", 2)
No         == Word("no", 2)

(* How many characters a title, a body, an option have, and a card's body  *)
TitleLimit  == 200
BodyLimit   == 2000
OptionLimit == 100
CardLimit   == 112

(* cardExcerpt, and bounded of the Pi adapter                              *)
Excerpt(t, max) ==
  IF t.len <= max THEN t
  ELSE [word |-> t.word, tail |-> "cut", len |-> max, says |-> t.says]

Either(t, default) == IF t = NoText THEN default ELSE t

Unique(s) == \A i, j \in DOMAIN s : s[i] = s[j] => i = j

NoRequest == [kind |-> "none", title |-> NoText, body |-> NoText, fields |-> <<>>,
              min |-> 0, max |-> 0]
NoCard    == [kind |-> "none", title |-> NoText, body |-> NoText, fields |-> <<>>]
NoResult  == [status |-> "none", values |-> Nothing]
NoPending == [mode |-> "none", at |-> 1]

Ask(kind, title, body, fields) ==
  [NoRequest EXCEPT !.kind = kind, !.title = title, !.body = body,
                    !.fields = fields]
FieldOf(id, label, options) == [id |-> id, label |-> label, options |-> options]
Option(value, label)        == [value |-> value, label |-> label]

(* What the questions of the agents and of the host can be, as the adapters *)
(* and the types take them: a form has fields, the other requests have one,  *)
(* without a label; a confirmation has two buttons, a text is typed.         *)
IsSeq(s)   == Len(s) \in Nat /\ DOMAIN s = 1..Len(s)
IsText(t)  == t.len \in Nat
IsTexts(s) == IsSeq(s) /\ \A i \in DOMAIN s : IsText(s[i])

IsRequest(r) ==
  /\ r.kind \in {"confirm", "actions", "single-select", "multi-select", "form",
                 "text-input"}
  /\ IsText(r.title) /\ IsText(r.body) /\ r.min \in Nat /\ r.max \in Nat
  /\ IsSeq(r.fields) /\ (r.kind # "form" => Len(r.fields) = 1)
  /\ \A f \in DOMAIN r.fields :
       /\ IsText(r.fields[f].label) /\ IsSeq(r.fields[f].options)
       /\ r.kind = "confirm" => Len(r.fields[f].options) = 2
       /\ \A i \in DOMAIN r.fields[f].options : IsText(r.fields[f].options[i].label)

DialogueAssumption ==
  /\ \A qs \in Questions : IsSeq(qs) /\ \A k \in DOMAIN qs :
       IsText(qs[k].header) /\ IsText(qs[k].prompt) /\ IsTexts(qs[k].options)
  /\ \A d \in Dialogs :
       /\ d.method \in {"confirm", "select", "input", "editor"}
       /\ IsText(d.title) /\ IsTexts(d.options)
  /\ \A r \in Offers : IsRequest(r)
  /\ \A t \in Typed : IsText(t)
  /\ MaxText \in Nat /\ MaxPresses \in Nat

-----------------------------------------------------------------------------
(* The gateway: a request and its card                                     *)

OptionsOk(os, most, longest) ==
  /\ Len(os) \in 1..most
  /\ \A i \in DOMAIN os : os[i].label.len \in 1..longest
  /\ Unique([i \in DOMAIN os |-> os[i].value])

Most(kind) == CASE kind = "confirm" -> 2 [] kind = "actions" -> 6
                [] kind = "form" -> 10 [] OTHER -> 20
Longest(kind) == IF kind = "confirm" THEN 40 ELSE OptionLimit

Valid(r) ==
  /\ r.title.len \in 1..TitleLimit
  /\ r.body # NoText => r.body.len \in 1..BodyLimit
  /\ r.kind # "text-input" =>
       \A f \in DOMAIN r.fields :
         OptionsOk(r.fields[f].options, Most(r.kind), Longest(r.kind))
  /\ r.kind = "multi-select" =>
       r.max >= 1 /\ r.min <= r.max /\ r.max <= Len(r.fields[1].options)
  /\ r.kind = "form" =>
       /\ Len(r.fields) \in 1..3
       /\ Unique([f \in DOMAIN r.fields |-> r.fields[f].id])
       /\ \A f \in DOMAIN r.fields : r.fields[f].label.len \in 1..OptionLimit

CardKind(r) == CASE r.kind \in {"confirm", "actions"} -> "buttons"
                 [] r.kind = "form" -> "form"
                 [] OTHER -> "vote"

(* The text an option is shown with: a vote has room for the whole label.  *)
Label(r, t) == IF CardKind(r) = "vote" THEN t ELSE Excerpt(t, 10)

Key(r, f)   == IF r.kind = "form" THEN <<"field", f - 1>> ELSE <<"choice">>
Id(r, i) ==
  CASE r.kind = "confirm" -> IF i = 1 THEN <<"confirm">> ELSE <<"cancel">>
    [] r.kind = "actions" -> <<"action", i - 1>>
    [] OTHER -> <<"option", i - 1>>

Presentation(r) ==
  [kind |-> CardKind(r), title |-> Excerpt(r.title, 26),
   body |-> Excerpt(r.body, CardLimit),
   fields |-> [f \in DOMAIN r.fields |->
     [key |-> Key(r, f), label |-> Excerpt(r.fields[f].label, 13),
      options |-> [i \in DOMAIN r.fields[f].options |->
        [id |-> Id(r, i), text |-> Label(r, r.fields[f].options[i].label)]]]]]

(* What the transport checks of a card before it sends it                  *)
Renders(c) ==
  /\ c.title.len \in 1..26 /\ (c.body # NoText => c.body.len \in 1..CardLimit)
  /\ Len(c.fields) \in 1..(IF c.kind = "form" THEN 3 ELSE 1)
  /\ Unique([f \in DOMAIN c.fields |-> c.fields[f].key])
  /\ \A f \in DOMAIN c.fields : LET os == c.fields[f].options IN
       /\ Len(os) \in 1..(CASE c.kind = "buttons" -> 6 [] c.kind = "vote" -> 20
                            [] OTHER -> 10)
       /\ Unique([i \in DOMAIN os |-> os[i].id])
       /\ \A i \in DOMAIN os :
            os[i].text.len \in 1..(IF c.kind = "vote" THEN OptionLimit ELSE 10)
       /\ c.kind = "form" => c.fields[f].label.len \in 1..13

-----------------------------------------------------------------------------
(* The gateway: a press and its result                                     *)

(* The selected items of the event: the first that names a question is the *)
(* selection of its field, and those that name none are left out.          *)
Selects(p, key)   == \E i \in DOMAIN p.items : p.items[i].key = key
Selection(p, key) ==
  LET first == CHOOSE i \in DOMAIN p.items :
                 p.items[i].key = key /\ \A j \in 1..(i - 1) : p.items[j].key # key
  IN  ToSet(p.items[first].ids)

Index(id, prefix, n) ==
  IF id \in {<<prefix, i>> : i \in 0..(n - 1)} THEN id[2] + 1 ELSE 0

(* The ids a press names for a field, and the options they are; 0 stands   *)
(* for an id of none.                                                      *)
Named(r, p, f) ==
  IF r.kind \in {"confirm", "actions"} THEN {p.action}
  ELSE IF Selects(p, Key(r, f)) THEN Selection(p, Key(r, f)) ELSE {<<>>}

Place(r, id, n) ==
  CASE r.kind = "confirm" ->
         IF id = <<"confirm">> THEN 1 ELSE IF id = <<"cancel">> THEN 2 ELSE 0
    [] r.kind = "actions" -> Index(id, "action", n)
    [] OTHER -> Index(id, "option", n)

Picked(r, p, f) ==
  {Place(r, id, Len(r.fields[f].options)) : id \in Named(r, p, f)}

Fits(r, p) == \A f \in DOMAIN r.fields :
  /\ 0 \notin Picked(r, p, f)
  /\ Cardinality(Picked(r, p, f)) \in
       IF r.kind = "multi-select" THEN r.min..r.max ELSE {1}

Values(r, p) ==
  [id \in {r.fields[f].id : f \in DOMAIN r.fields} |->
     LET f == CHOOSE f \in DOMAIN r.fields : r.fields[f].id = id
     IN  {r.fields[f].options[i].value : i \in Picked(r, p, f)}]

ResultOf(r, p) ==
  IF r.kind = "confirm" /\ Picked(r, p, 1) = {2}
  THEN [status |-> "cancelled", values |-> Nothing]
  ELSE [status |-> "submitted", values |-> Values(r, p)]

(* The update of the card.  The transport takes its title from words it    *)
(* finds in the text, the summary of the human's own choice included, and  *)
(* rejects a text of more than 100 characters.                             *)
Says(r, p, verdict) == \E f \in DOMAIN r.fields :
  \/ r.kind = "form" /\ r.fields[f].label.says = verdict
  \/ \E i \in Picked(r, p, f) : r.fields[f].options[i].label.says = verdict

SummaryLen(r, p) ==
  MapThenSumSet(
    LAMBDA f : (IF r.kind = "form" THEN 1 + r.fields[f].label.len ELSE 0)
               + MapThenSumSet(LAMBDA i : 1 + r.fields[f].options[i].label.len,
                               Picked(r, p, f)),
    DOMAIN r.fields)

Title(r, p) ==
  IF 3 + 2 * Len(r.fields) + SummaryLen(r, p) > 100 THEN "unsent"
  ELSE IF Says(r, p, "approved") THEN "approved"
  ELSE IF Says(r, p, "denied") THEN "denied" ELSE "submitted"

Updated(r, p) ==
  IF ResultOf(r, p).status = "cancelled" THEN "result" ELSE Title(r, p)

-----------------------------------------------------------------------------
(* The Codex adapter                                                       *)

WellPut(q) ==
  /\ q.header.len \in 1..OptionLimit /\ q.prompt.len \in 1..BodyLimit
  /\ q.free \/ Len(q.options) \in 1..10
  /\ Unique(q.options)
  /\ \A i \in DOMAIN q.options : q.options[i].len \in 1..OptionLimit

Parsed(qs) ==
  /\ Len(qs) \in 1..3
  /\ Unique([k \in DOMAIN qs |-> qs[k].id])
  /\ \A k \in DOMAIN qs : qs[k].id # "" /\ WellPut(qs[k])

(* A question whose options are all there is: the others are typed.        *)
Closed(q) == ~q.free /\ ~q.other

(* Mutation: a form whatever the length of its labels.                     *)
FitsAnyLabel(qs) == \A k \in DOMAIN qs : Closed(qs[k]) /\ qs[k].header.len <= 13

FitsForm(qs) == \A k \in DOMAIN qs :
  /\ Closed(qs[k]) /\ qs[k].header.len <= 13
  /\ \A i \in DOMAIN qs[k].options : qs[k].options[i].len <= 10

Mode(qs) ==
  CASE Len(qs) = 1 /\ Closed(qs[1]) -> "single"
    [] Len(qs) > 1 /\ FitsForm(qs) -> "form"
    [] OTHER -> "sequential"

CodexField(q, k) ==
  FieldOf(<<"question", k>>, q.header,
          [i \in DOMAIN q.options |-> Option(<<"option", k, i>>, q.options[i])])

CodexQuestion(q, k) ==
  IF Closed(q)
  THEN Ask("single-select", q.header, q.prompt, <<CodexField(q, k)>>)
  ELSE Ask("text-input", q.header, q.prompt, <<FieldOf(<<"question", k>>, NoText, <<>>)>>)

CodexRequest(qs) ==
  IF Mode(qs) = "form"
  THEN Ask("form", Word("codex", 12), qs[1].prompt,
           [k \in DOMAIN qs |-> CodexField(qs[k], k)])
  ELSE CodexQuestion(qs[1], 1)

(* The label a value of the adapter's own stands for                       *)
Selected(q, k, value) ==
  q.options[CHOOSE i \in DOMAIN q.options : value = <<"option", k, i>>]

AnswerTo(q, k, r, values) ==
  IF r.kind = "text-input" THEN values[<<"question", k>>]
  ELSE {Selected(q, k, v) : v \in values[<<"question", k>>]}

With(f, id, a) == [x \in DOMAIN f \union {id} |-> IF x = id THEN a ELSE f[x]]

-----------------------------------------------------------------------------
(* The Pi adapter                                                          *)

(* The options that are not blank, in order                                *)
PiOptions(d) == LET kept == {i \in DOMAIN d.options : d.options[i].len > 0} IN
  [n \in 1..Cardinality(kept) |->
     d.options[CHOOSE i \in kept : Cardinality({j \in kept : j <= i}) = n]]

PiAsks(d) == d.method = "select" => Len(PiOptions(d)) \in 1..20

PiRequest(d) ==
  CASE d.method = "confirm" ->
         Ask("confirm", Excerpt(Either(d.title, Word("confirm", 4)), TitleLimit), NoText,
             <<FieldOf("confirmation", NoText,
                       <<Option("confirmed", Yes), Option("cancelled", No)>>)>>)
    [] d.method = "select" ->
         Ask("single-select", Excerpt(Either(d.title, Word("select", 3)), TitleLimit),
             NoText,
             <<FieldOf("selection", NoText, [i \in DOMAIN PiOptions(d) |->
                 Option(<<"pi-option", i>>, Excerpt(PiOptions(d)[i], OptionLimit))])>>)
    [] d.method \in {"input", "editor"} ->
         Ask("text-input", Excerpt(Either(d.title, Word("input", 5)), TitleLimit), NoText,
             <<FieldOf("value", NoText, <<>>)>>)

(* What the extension is told: a status and, if it has one, its value      *)
PiStatus(d, res) ==
  CASE d.method = "confirm" /\ res.status # "expired" ->
         IF res.status = "submitted" /\ "confirmed" \in res.values["confirmation"]
         THEN "confirmed" ELSE "declined"
    [] d.method # "confirm" /\ res.status = "submitted" -> "value"
    [] OTHER -> "cancelled"

PiValue(d, res) ==
  IF PiStatus(d, res) # "value" THEN Nothing
  ELSE IF d.method = "select"
  THEN [x \in {"value"} |->
          {PiOptions(d)[CHOOSE i \in DOMAIN PiOptions(d) : v = <<"pi-option", i>>] :
             v \in res.values["selection"]}]
  ELSE res.values

-----------------------------------------------------------------------------
Init ==
  /\ step = "idle" /\ asker = "none" /\ question = <<>> /\ pending = NoPending
  /\ request = NoRequest /\ card = NoCard /\ result = NoResult
  /\ reply = "none" /\ said = Nothing /\ notice = "" /\ meant = <<>>
  /\ presses = 0

(* item/tool/requestUserInput: with a secret, or malformed, it is answered *)
(* with nothing.                                                           *)
AskCodex ==
  /\ step = "idle" /\ asker' = "codex"
  /\ \E qs \in Questions :
       /\ question' = qs
       /\ IF Parsed(qs) /\ \A k \in DOMAIN qs : ~qs[k].secret
          THEN /\ step' = "asked" /\ request' = CodexRequest(qs)
               /\ pending' = [mode |-> Mode(qs), at |-> 1] /\ UNCHANGED reply
          ELSE step' = "over" /\ reply' = "answers" /\ UNCHANGED <<request, pending>>
  /\ UNCHANGED <<card, result, said, notice, meant, presses>>

(* extension_ui_request                                                    *)
AskPi ==
  /\ step = "idle" /\ asker' = "pi"
  /\ \E d \in Dialogs :
       /\ question' = d
       /\ IF PiAsks(d)
          THEN step' = "asked" /\ request' = PiRequest(d) /\ UNCHANGED reply
          ELSE step' = "over" /\ reply' = "cancelled" /\ UNCHANGED request
  /\ UNCHANGED <<pending, card, result, said, notice, meant, presses>>

(* A host's request, or actions under a reply                              *)
AskOffer ==
  /\ step = "idle" /\ asker' = "offer" /\ step' = "asked"
  /\ \E r \in Offers : request' = r
  /\ UNCHANGED <<question, pending, card, result, reply, said, notice, meant, presses>>

(* startRuntimeInteraction and the delivery of the card                    *)
Show ==
  /\ step = "asked"
  /\ card' = IF Valid(request) /\ request.kind # "text-input"
             THEN Presentation(request) ELSE NoCard
  /\ step' = IF ~Valid(request) THEN "refused"
             ELSE IF request.kind = "text-input" \/ Renders(Presentation(request))
             THEN "open" ELSE "unsent"
  /\ notice' = ""
  /\ UNCHANGED <<asker, question, pending, request, result, reply, said, meant,
                 presses>>

(* The texts a press picks, as the human reads them                        *)
Reading(p) == [f \in DOMAIN card.fields |->
  {card.fields[f].options[i].text : i \in {i \in DOMAIN card.fields[f].options :
     IF card.kind = "buttons" THEN card.fields[f].options[i].id = p.action
     ELSE /\ Selects(p, card.fields[f].key)
          /\ card.fields[f].options[i].id \in Selection(p, card.fields[f].key)}}]

(* handleRuntimeInteraction: a press that answers nothing leaves the       *)
(* question open.                                                          *)
Press(p) ==
  /\ step = "open" /\ request.kind # "text-input"
  /\ IF Fits(request, p)
     THEN /\ result' = ResultOf(request, p) /\ step' = "answered"
          /\ notice' = Updated(request, p) /\ meant' = meant \o Reading(p)
          /\ UNCHANGED presses
     ELSE /\ presses < MaxPresses /\ presses' = presses + 1 /\ notice' = "result"
          /\ UNCHANGED <<result, step, meant>>
  /\ UNCHANGED <<asker, question, pending, request, card, reply, said>>

(* tryHandleTextInteraction                                                *)
Type(t) ==
  /\ step = "open" /\ request.kind = "text-input"
  /\ IF t.len \in 1..MaxText
     THEN /\ result' = [status |-> "submitted",
                        values |-> [x \in {request.fields[1].id} |-> {t}]]
          /\ step' = "answered" /\ meant' = Append(meant, {t}) /\ UNCHANGED presses
     ELSE /\ presses < MaxPresses /\ presses' = presses + 1
          /\ UNCHANGED <<result, step, meant>>
  /\ UNCHANGED <<asker, question, pending, request, card, reply, said, notice>>

Expire ==
  /\ step = "open"
  /\ result' = [status |-> "expired", values |-> Nothing] /\ step' = "answered"
  /\ UNCHANGED <<asker, question, pending, request, card, reply, said, notice,
                 meant, presses>>

(* resumeInteraction of the Codex adapter                                  *)
ResumeCodex ==
  /\ step = "answered" /\ asker = "codex"
  /\ IF result.status # "submitted"
     THEN said' = Nothing /\ reply' = "answers" /\ step' = "over"
          /\ UNCHANGED <<request, pending>>
     ELSE IF pending.mode = "form"
     THEN /\ said' = [id \in {question[k].id : k \in DOMAIN question} |->
                        LET k == CHOOSE k \in DOMAIN question : question[k].id = id
                        IN  AnswerTo(question[k], k, request, result.values)]
          /\ reply' = "answers" /\ step' = "over" /\ UNCHANGED <<request, pending>>
     ELSE /\ said' = With(said, question[pending.at].id,
                          AnswerTo(question[pending.at], pending.at, request,
                                   result.values))
          /\ IF pending.mode = "sequential" /\ pending.at < Len(question)
             THEN /\ pending' = [pending EXCEPT !.at = pending.at + 1]
                  /\ request' = CodexQuestion(question[pending.at + 1], pending.at + 1)
                  /\ step' = "asked" /\ UNCHANGED reply
             ELSE reply' = "answers" /\ step' = "over" /\ UNCHANGED <<request, pending>>
  /\ UNCHANGED <<asker, question, card, result, notice, meant, presses>>

(* resumeInteraction of the Pi adapter                                     *)
ResumePi ==
  /\ step = "answered" /\ asker = "pi" /\ step' = "over"
  /\ reply' = PiStatus(question, result) /\ said' = PiValue(question, result)
  /\ UNCHANGED <<asker, question, pending, request, card, result, notice, meant, presses>>

(* continueInteraction: the result as it is, or the text of a new turn.    *)
(* An expired or cancelled choice of reply actions starts no turn.         *)
ResumeOffer ==
  /\ step = "answered" /\ asker = "offer" /\ step' = "over"
  /\ reply' = result.status /\ said' = result.values
  /\ UNCHANGED <<asker, question, pending, request, card, result, notice, meant, presses>>

Next ==
  \/ AskCodex \/ AskPi \/ AskOffer \/ Show \/ Expire
  \/ \E p \in Presses : Press(p)
  \/ \E t \in Typed : Type(t)
  \/ ResumeCodex \/ ResumePi \/ ResumeOffer

Spec == Init /\ [][Next]_vars

-----------------------------------------------------------------------------
TypeOK ==
  /\ step \in {"idle", "asked", "open", "answered", "refused", "unsent", "over"}
  /\ asker \in {"none", "codex", "pi", "offer"}
  /\ pending.mode \in {"none", "single", "form", "sequential"}
  /\ result.status \in {"none", "submitted", "cancelled", "expired"}
  /\ notice \in {"", "result", "submitted", "approved", "denied", "unsent"}
  /\ Len(meant) <= 3 /\ presses \in 0..MaxPresses

(* Codex is told, question by question, the very texts the human picked    *)
(* from a card or typed: an answer to each question, or to none.           *)
CodexHearsWhatWasMeant ==
  step = "over" /\ asker = "codex" /\ said # Nothing =>
    /\ DOMAIN said = {question[k].id : k \in DOMAIN question}
    /\ \A k \in DOMAIN question : said[question[k].id] = meant[k]

(* A Pi extension is told the option or the text that was picked, and that *)
(* something is confirmed only by the button that says so.                 *)
PiHearsWhatWasMeant ==
  step = "over" /\ asker = "pi" =>
    /\ reply = "confirmed" <=> question.method = "confirm" /\ meant = <<{Yes}>>
    /\ reply = "value" /\ question.method = "select" =>
         meant = <<{Excerpt(t, OptionLimit) : t \in said["value"]}>>
    /\ reply = "value" /\ question.method # "select" => meant = <<said["value"]>>

(* The values of any other result are those of the options whose texts     *)
(* were picked, field by field.                                            *)
TextsOf(r, values, f) ==
  IF r.kind = "text-input" THEN values[r.fields[f].id]
  ELSE {Label(r, r.fields[f].options[i].label) :
          i \in {i \in DOMAIN r.fields[f].options :
                   r.fields[f].options[i].value \in values[r.fields[f].id]}}

ResultIsWhatWasMeant ==
  step = "over" /\ asker = "offer" /\ reply = "submitted" =>
    \A f \in DOMAIN request.fields : TextsOf(request, said, f) = meant[f]

(* A secret is never asked for in a chat.                                  *)
SecretsAreNotAsked ==
  step \in {"asked", "open", "answered"} /\ asker = "codex" =>
    \A k \in DOMAIN question : ~question[k].secret

(* What an adapter asks the gateway takes, but for a dialog with a blank   *)
(* title, and what the gateway takes the transport can show.               *)
QuestionsAreShown ==
  /\ step # "unsent"
  /\ step = "refused" /\ asker # "offer" =>
       asker = "pi" /\ question.title.len = 0 /\ question.title # NoText

(* A card can be answered: whatever button of it is pressed, and whatever  *)
(* row of options is picked in each field, as many as the request lets the *)
(* human pick, the gateway takes it.                                       *)
PressOf(c, from, n) ==
  [action |-> IF c.kind = "buttons" THEN c.fields[1].options[from[1]].id ELSE <<"submit">>,
   items |-> [f \in DOMAIN c.fields |->
     [key |-> c.fields[f].key,
      ids |-> [i \in 1..n |-> c.fields[f].options[from[f] + i - 1].id]]]]

CardsCanBeAnswered ==
  step = "open" /\ request.kind # "text-input" =>
    \A from \in [DOMAIN card.fields -> UNION {DOMAIN card.fields[f].options :
                                                f \in DOMAIN card.fields}],
       n \in IF request.kind = "multi-select" THEN request.min..request.max ELSE {1} :
      (\A f \in DOMAIN card.fields : from[f] + n <= Len(card.fields[f].options) + 1)
      => Fits(request, PressOf(card, from, n))

(* A card says "submitted" of a submission only, and gives a verdict only  *)
(* if the choice itself has the verdict's words.                           *)
NoticesAreTrue ==
  /\ notice = "submitted" => result.status = "submitted"
  /\ notice \in {"approved", "denied"} /\ step = "answered" =>
       \E f \in DOMAIN request.fields :
         \/ request.fields[f].label.says = notice
         \/ \E i \in DOMAIN request.fields[f].options :
              request.fields[f].options[i].label.says = notice
================================================================================
