---------------------------- MODULE DialogueInputs ----------------------------
(***************************************************************************)
(* What the runs of Dialogue enumerate: texts at the limits of the code,   *)
(* questions, dialogs and requests well and badly formed, and events of    *)
(* cards with buttons and options that are on no card.                     *)
(***************************************************************************)
EXTENDS Naturals, Sequences

Text(w, e, n) == [word |-> w, tail |-> e, len |-> n, says |-> ""]
Undefined == Text("", "", 0)
Blank     == Text("blank", "", 0)
Short     == Text("a", "", 1)
Other     == Text("b", "", 1)
Denies    == [Short EXCEPT !.says = "denied"]
Here      == Text("run", "here", 12)    \* too long for a button or a form,
There     == Text("run", "there", 12)   \* and the same when cut
Heading   == Text("head", "", 14)       \* too long for a form's field
Wide      == Text("wide", "", 98)       \* too long for the update of a card
Huge      == Text("huge", "x", 101)     \* too long for a label,
Huger     == Text("huge", "y", 101)     \* and the same when cut
Why       == Text("why", "", 150)       \* too long for the body of a card

OptionLists ==
  {<<>>, <<Short>>, <<Short, Other>>, <<Here, There>>, <<Short, Short>>,
   <<Denies, Wide>>, <<Short, Blank>>, <<Huge, Huger>>}

QuestionsOf(ids, headers, lists, secrets) ==
  {q \in [id : ids, header : headers, prompt : {Why}, free : BOOLEAN,
          other : BOOLEAN, secret : secrets, options : lists] :
     q.free => q.options = <<>>}

AnyOne == QuestionsOf({"q1", ""}, {Blank, Short, Heading}, OptionLists, BOOLEAN)
Paired(ids) ==
  QuestionsOf(ids, {Short, Heading}, {<<>>, <<Short, Other>>, <<Here, There>>}, {FALSE})
Plain(id) == QuestionsOf({id}, {Short}, {<<>>, <<Short, Other>>}, BOOLEAN)

CodexQuestions ==
  {<<>>} \union {<<q>> : q \in AnyOne}
  \union {<<p, q>> : p \in Paired({"q1"}), q \in Paired({"q1", "q2"})}
  \union {<<p, q, r>> : p \in Plain("q1"), q \in Plain("q2"), r \in Plain("q3")}
  \union {<<p, p, p, p>> : p \in Plain("q1")}

PiDialogs ==
  [method : {"confirm", "select", "input", "editor"},
   title : {Undefined, Blank, Short}, options : OptionLists]

Field(id, label, os) ==
  [id |-> id, label |-> label,
   options |-> [i \in DOMAIN os |-> [value |-> <<id, i>>, label |-> os[i]]]]

RequestsOf(kinds, titles, fields, mins, maxs) ==
  [kind : kinds, title : titles, body : {Undefined, Blank, Why},
   fields : fields, min : mins, max : maxs]

HostRequests ==
  RequestsOf({"confirm"}, {Blank, Heading},
             {<<Field("confirmation", Short, <<l, Other>>)>> :
                l \in {Short, Denies, Wide}}, {0}, {0})
  \union RequestsOf({"actions", "single-select"}, {Blank, Why, Huge},
             {<<Field("f", Short, os)>> : os \in OptionLists}, {0}, {0})
  \union RequestsOf({"multi-select"}, {Short},
             {<<Field("f", Short, os)>> :
                os \in {<<Short>>, <<Short, Other>>, <<Denies, Wide>>}}, 0..3, 0..3)
  \union RequestsOf({"form"}, {Short},
             {<<Field("f", l, os), Field(g, Short, os)>> :
                l \in {Short, Wide}, g \in {"f", "g"}, os \in OptionLists}
             \union {<<>>}, {0}, {0})
  \union RequestsOf({"text-input"}, {Blank, Heading}, {<<Field("f", Short, <<>>)>>},
                    {0}, {0})

Item(key, ids) == [key |-> key, ids |-> ids]
Ids    == {<<"option", i>> : i \in 0..2} \union {<<"action", 0>>}
Lists  == {<<>>} \union {<<i>> : i \in Ids} \union {<<i, j>> : i, j \in Ids}
OneIds == {<<>>, <<<<"option", 0>>>>, <<<<"option", 1>>>>}

CardEvents ==
  [action : {<<"submit">>, <<"confirm">>, <<"cancel">>, <<"approve">>,
             <<"option", 0>>} \union {<<"action", i>> : i \in 0..2},
   items : {<<>>}]
  \union
  [action : {<<"submit">>},
   items : {<<Item(<<"choice">>, l)>> : l \in Lists}
     \union {<<Item(<<>>, l), Item(<<"choice">>, k), Item(<<"choice">>, l)>> :
               k \in OneIds, l \in OneIds}
     \union {<<Item(<<"field", 0>>, l), Item(<<"field", 1>>, k)>> :
               k \in OneIds, l \in OneIds}
     \union {<<Item(<<"field", 2>>, j), Item(<<"field", 0>>, l),
               Item(<<"field", 1>>, k)>> : j \in OneIds, k \in OneIds, l \in OneIds}]

HumanTexts == {Short, Here, Blank, Huge}
================================================================================
