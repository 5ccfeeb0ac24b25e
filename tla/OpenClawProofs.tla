---------------------------- MODULE OpenClawProofs ----------------------------
(***************************************************************************)
(* A run of the OpenClaw adapter answers with the message of its own turn, *)
(* but for the two cases the property names, and passes no text on twice:  *)
(* for any number of sessions, runs, clients and faults, whatever the      *)
(* connections do.                                                         *)
(*                                                                         *)
(* The invariant ties what is on a wire, what the server works on and where*)
(* the run of a session is. A line speaks of the present run of its session*)
(* only if that run is far enough; a turn is under way for nobody but the  *)
(* present run, unless a run of the session was abandoned; and from the    *)
(* moment its baseline is read, the last message of the session is the     *)
(* baseline or the run's own. So a reconciliation, which takes any message *)
(* that is not the baseline, takes the run's own. A step moves one session:*)
(* the others keep their part of the invariant (ClawLocal).                *)
(***************************************************************************)
EXTENDS OpenClaw, TLAPS

(* A list has a line, at some place.                                       *)
ListHas(q, l) == \E i \in DOMAIN q : q[i] = l

(* What a list has after an Append.                                        *)
LEMMA HasInAppend ==
  ASSUME NEW S, NEW q \in Seq(S), NEW x \in S, NEW l, ListHas(Append(q, x), l)
  PROVE  ListHas(q, l) \/ l = x
<1>1. PICK i \in DOMAIN Append(q, x) : Append(q, x)[i] = l
  BY DEF ListHas
<1>2. i \in 1..(Len(q) + 1) /\ (i <= Len(q) => Append(q, x)[i] = q[i])
        /\ (i = Len(q) + 1 => Append(q, x)[i] = x)
  OBVIOUS
<1>3. CASE i <= Len(q)
  <2>1. i \in DOMAIN q /\ q[i] = l
    BY <1>1, <1>2, <1>3
  <2> QED BY <2>1 DEF ListHas
<1>4. CASE i = Len(q) + 1
  BY <1>1, <1>2, <1>4
<1> QED BY <1>2, <1>3, <1>4

(* The tail of a list has nothing more.                                    *)
LEMMA HasInTail ==
  ASSUME NEW S, NEW q \in Seq(S), q # <<>>, NEW l, ListHas(Tail(q), l)
  PROVE  ListHas(q, l)
<1>1. PICK i \in DOMAIN Tail(q) : Tail(q)[i] = l
  BY DEF ListHas
<1>2. i + 1 \in DOMAIN q /\ q[i + 1] = l
  BY <1>1
<1> QED BY <1>2 DEF ListHas

(* The head of a list is one of its lines.                                 *)
LEMMA HasHead ==
  ASSUME NEW S, NEW q \in Seq(S), q # <<>>
  PROVE  Head(q) \in S /\ ListHas(q, Head(q)) /\ Tail(q) \in Seq(S)
<1>1. 1 \in DOMAIN q /\ q[1] = Head(q)
  OBVIOUS
<1>2. ListHas(q, Head(q))
  BY <1>1 DEF ListHas
<1> QED BY <1>1, <1>2

(* What two lists have together.                                           *)
LEMMA HasInConcat ==
  ASSUME NEW S, NEW q \in Seq(S), NEW r \in Seq(S), NEW l, ListHas(q \o r, l)
  PROVE  ListHas(q, l) \/ ListHas(r, l)
<1>1. PICK i \in DOMAIN (q \o r) : (q \o r)[i] = l
  BY DEF ListHas
<1>2. i \in 1..(Len(q) + Len(r)) /\ (q \o r)[i] = IF i <= Len(q) THEN q[i] ELSE r[i - Len(q)]
  OBVIOUS
<1>3. CASE i <= Len(q)
  <2>1. i \in DOMAIN q /\ q[i] = l
    BY <1>1, <1>2, <1>3
  <2> QED BY <2>1 DEF ListHas
<1>4. CASE ~(i <= Len(q))
  <2>1. i - Len(q) \in DOMAIN r /\ r[i - Len(q)] = l
    BY <1>1, <1>2, <1>4
  <2> QED BY <2>1 DEF ListHas
<1> QED BY <1>3, <1>4

(* The empty list has nothing.                                             *)
LEMMA HasNothing == ASSUME NEW l PROVE ~ListHas(<<>>, l)
BY DEF ListHas

-----------------------------------------------------------------------------
ClawKinds == {"history", "sent", "waited", "latest", "delta", "final", "error"}
(* Where a run may be, and what may be on a wire.                          *)
ClawSteps == {"idle", "connecting", "started", "asking", "asked", "sending", "reading"}
ClawLines == [m : ClawKinds, s : Session, n : Nat, v : Nat]

USE DEF ClawSteps

(* The types of the variables, and of what is inside the wires.            *)
ClawTypes ==
  /\ TypeOK
  /\ wire \in [Client -> Seq(ClawLines)]
  /\ works \subseteq Session \X Nat
  /\ waits \subseteq [c : Client, turn : Session \X Nat]
  /\ \A w \in waits : w.turn \in works
  /\ last \in [Session -> Nat] /\ heard \in [Session -> Nat]
  /\ deltas \in [Session -> Nat] /\ answer \in [Session -> Nat]

(* Some client has the line on its wire.                                   *)
ClawHears(l) == \E c \in Client : ListHas(wire[c], l)
(* The property claims something of session s.                             *)
ClawKnown(s) == s \notin blind /\ s \notin abandoned
(* The run of s has not sent chat.send.                                    *)
ClawEarly(s) == step[s] \in {"connecting", "started", "asking", "asked"}

(* What a line on a wire says of the present run of its session.           *)
ClawLineFits(l) ==
  /\ l.n <= run[l.s]
  /\ l.n = run[l.s] => step[l.s] \notin {"connecting", "started"}
  /\ l.m # "history" /\ l.n = run[l.s] => ~ClawEarly(l.s)
  /\ l.m = "latest" /\ l.n = run[l.s] => step[l.s] \in {"reading", "idle"}
  /\ l.m \in {"waited", "latest", "final", "error"} => <<l.s, l.n>> \notin works
  /\ l.m = "delta" => l.v = 1
  /\ l.m = "history" /\ l.n = run[l.s] /\ step[l.s] = "asking" /\ l.s \notin abandoned
     => l.v = last[l.s]
  /\ l.m = "latest" /\ l.n = run[l.s] /\ step[l.s] = "reading" /\ ClawKnown(l.s)
     => l.v \in {baseline[l.s], run[l.s]}

(* Turn n of session s is under way.                                       *)
ClawWorkFits(s, n) ==
  /\ n <= run[s] /\ (n = run[s] => ~ClawEarly(s))
  /\ s \notin abandoned => n = run[s] /\ Pending(s) /\ settled[s] = "open"

(* What the run of s has read, heard and answered.                         *)
ClawRunFits(s) ==
  /\ ClawKnown(s) /\ step[s] \in {"asked", "sending", "reading"}
     => last[s] \in {baseline[s], run[s]}
  /\ ClawEarly(s) => answer[s] = 0
  /\ answer[s] \notin {0, run[s]} => ~ClawKnown(s)
  /\ deltas[s] <= 1 /\ (heard[s] = 0 => deltas[s] = 0)

(* What the invariant says of session s.                                   *)
ClawGood(s) ==
  /\ \A l \in ClawLines : l.s = s /\ ClawHears(l) => ClawLineFits(l)
  /\ \A n \in Nat : <<s, n>> \in works => ClawWorkFits(s, n)
  /\ ClawRunFits(s)

(* The inductive invariant.                                                *)
ClawInv == ClawTypes /\ \A s \in Session : ClawGood(s)

(* Nothing moves that the invariant says of session x.                     *)
ClawSame(x) ==
  /\ step'[x] = step[x] /\ run'[x] = run[x] /\ settled'[x] = settled[x]
  /\ baseline'[x] = baseline[x] /\ last'[x] = last[x] /\ answer'[x] = answer[x]
  /\ heard'[x] = heard[x] /\ deltas'[x] = deltas[x]
  /\ (x \in abandoned') = (x \in abandoned) /\ (x \in blind') = (x \in blind)
  /\ \A n \in Nat : (<<x, n>> \in works') = (<<x, n>> \in works)

(* A session of which nothing moves, and that gets no line, stays good.    *)
LEMMA ClawSameGood ==
  ASSUME NEW x \in Session, ClawGood(x), ClawSame(x),
         \A l \in ClawLines : l.s = x /\ ClawHears(l)' => ClawHears(l)
  PROVE  ClawGood(x)'
<1>1. ASSUME NEW l \in ClawLines, l.s = x, ClawLineFits(l) PROVE ClawLineFits(l)'
  <2>1. l.n \in Nat
    BY DEF ClawLines
  <2> QED BY <1>1, <2>1 DEF ClawLineFits, ClawSame, ClawKnown, ClawEarly
<1>2. ASSUME NEW n \in Nat, ClawWorkFits(x, n) PROVE ClawWorkFits(x, n)'
  BY <1>2 DEF ClawWorkFits, ClawSame, ClawEarly, Pending
<1>3. ClawRunFits(x)'
  BY DEF ClawGood, ClawRunFits, ClawSame, ClawKnown, ClawEarly
<1>4. \A l \in ClawLines : l.s = x /\ ClawHears(l)' => ClawLineFits(l)'
  BY <1>1 DEF ClawGood
<1>5. \A n \in Nat : <<x, n>> \in works' => ClawWorkFits(x, n)'
  BY <1>2 DEF ClawGood, ClawSame
<1> QED BY <1>3, <1>4, <1>5 DEF ClawGood

(* One session moves: it is enough that this one stays good.               *)
LEMMA ClawLocal ==
  ASSUME NEW s \in Session, ClawInv, ClawTypes', ClawGood(s)',
         \A x \in Session : x # s => ClawSame(x),
         \A l \in ClawLines : l.s # s /\ ClawHears(l)' => ClawHears(l)
  PROVE  ClawInv'
<1>1. ASSUME NEW x \in Session, x # s PROVE ClawGood(x)'
  BY <1>1, ClawSameGood DEF ClawInv
<1>2. \A x \in Session : ClawGood(x)'
  BY <1>1
<1> QED BY <1>2 DEF ClawInv

-----------------------------------------------------------------------------
(* After a Post, the wires have what they had and the new line.            *)
LEMMA ClawPosted ==
  ASSUME ClawTypes, Connected, NEW x \in ClawLines, Post(x)
  PROVE  /\ wire' \in [Client -> Seq(ClawLines)]
         /\ \A l \in ClawLines : ClawHears(l)' => ClawHears(l) \/ l = x
<1>1. newest \in Client /\ wire \in [Client -> Seq(ClawLines)]
  BY DEF ClawTypes, TypeOK, Connected, Client
<1>2. wire' = [wire EXCEPT ![newest] = Append(wire[newest], x)]
  BY DEF Post, Set
<1>3. wire'[newest] = Append(wire[newest], x)
        /\ \A c \in Client : c # newest => wire'[c] = wire[c]
  BY <1>1, <1>2
<1>4. ASSUME NEW l \in ClawLines, NEW c \in Client, ListHas(wire'[c], l)
      PROVE  ListHas(wire[c], l) \/ l = x
  <2>1. CASE c = newest
    <3>1. ListHas(Append(wire[newest], x), l) /\ wire[newest] \in Seq(ClawLines)
      BY <1>1, <1>3, <1>4, <2>1
    <3>2. ListHas(wire[newest], l) \/ l = x
      BY <3>1, HasInAppend
    <3> QED BY <3>2, <2>1
  <2> QED BY <1>3, <1>4, <2>1
<1>5. \A l \in ClawLines : ClawHears(l)' => ClawHears(l) \/ l = x
  BY <1>4 DEF ClawHears
<1> QED BY <1>1, <1>2, <1>5

(* Without its first line, a wire has nothing more.                        *)
LEMMA ClawTaken ==
  ASSUME ClawTypes, NEW c \in Client, wire[c] # <<>>, NEW q,
         q = Set(wire, c, Tail(wire[c]))
  PROVE  /\ q \in [Client -> Seq(ClawLines)]
         /\ \A l : \A d \in Client : ListHas(q[d], l) => ListHas(wire[d], l)
<1>1. wire \in [Client -> Seq(ClawLines)] /\ wire[c] \in Seq(ClawLines)
  BY DEF ClawTypes
<1>2. q = [wire EXCEPT ![c] = Tail(wire[c])]
  BY DEF Set
<1>3. q[c] = Tail(wire[c]) /\ \A d \in Client : d # c => q[d] = wire[d]
  BY <1>1, <1>2
<1>4. ASSUME NEW l, NEW d \in Client, ListHas(q[d], l) PROVE ListHas(wire[d], l)
  <2>1. CASE d = c
    <3>1. ListHas(Tail(wire[c]), l)
      BY <1>3, <1>4, <2>1
    <3>2. ListHas(wire[c], l)
      BY <3>1, <1>1, HasInTail
    <3> QED BY <3>2, <2>1
  <2> QED BY <1>3, <1>4, <2>1
<1>5. Tail(wire[c]) \in Seq(ClawLines)
  BY <1>1, HasHead
<1> QED BY <1>1, <1>2, <1>4, <1>5

(* A client takes a line.                                                  *)
LEMMA ClawRead ==
  ASSUME ClawTypes, NEW c \in Client, wire[c] # <<>>, wire' = Set(wire, c, Tail(wire[c]))
  PROVE  /\ wire' \in [Client -> Seq(ClawLines)]
         /\ \A l \in ClawLines : ClawHears(l)' => ClawHears(l)
<1>1. /\ wire' \in [Client -> Seq(ClawLines)]
      /\ \A l : \A d \in Client : ListHas(wire'[d], l) => ListHas(wire[d], l)
  BY ClawTaken
<1> QED BY <1>1 DEF ClawHears

(* A client takes a line, and the newest one gets another.                 *)
LEMMA ClawReadPosted ==
  ASSUME ClawTypes, NEW c \in Client, wire[c] # <<>>, Connected, NEW x \in ClawLines,
         NEW rest, rest = Set(wire, c, Tail(wire[c])),
         wire' = Set(rest, newest, Append(rest[newest], x))
  PROVE  /\ wire' \in [Client -> Seq(ClawLines)]
         /\ \A l \in ClawLines : ClawHears(l)' => ClawHears(l) \/ l = x
<1>1. /\ rest \in [Client -> Seq(ClawLines)]
      /\ \A l : \A d \in Client : ListHas(rest[d], l) => ListHas(wire[d], l)
  BY ClawTaken
<1>2. newest \in Client
  BY DEF ClawTypes, TypeOK, Connected, Client
<1>3. wire' = [rest EXCEPT ![newest] = Append(rest[newest], x)]
  BY DEF Set
<1>4. wire'[newest] = Append(rest[newest], x)
        /\ \A d \in Client : d # newest => wire'[d] = rest[d]
  BY <1>1, <1>2, <1>3
<1>5. ASSUME NEW l \in ClawLines, NEW d \in Client, ListHas(wire'[d], l)
      PROVE  ListHas(wire[d], l) \/ l = x
  <2>1. CASE d = newest
    <3>1. ListHas(Append(rest[newest], x), l) /\ rest[newest] \in Seq(ClawLines)
      BY <1>1, <1>2, <1>4, <1>5, <2>1
    <3>2. ListHas(rest[newest], l) \/ l = x
      BY <3>1, HasInAppend
    <3> QED BY <3>2, <1>1, <2>1
  <2> QED BY <1>1, <1>4, <1>5, <2>1
<1>6. \A l \in ClawLines : ClawHears(l)' => ClawHears(l) \/ l = x
  BY <1>5 DEF ClawHears
<1>7. Append(rest[newest], x) \in Seq(ClawLines)
  <2>1. rest[newest] \in Seq(ClawLines)
    BY <1>1, <1>2
  <2> QED BY <2>1
<1>8. wire' \in [Client -> Seq(ClawLines)]
  BY <1>1, <1>3, <1>7
<1> QED BY <1>6, <1>8

(* The line at the head of a wire fits.                                    *)
LEMMA ClawHead ==
  ASSUME ClawInv, NEW c \in Client, wire[c] # <<>>, NEW l, l = Head(wire[c])
  PROVE  l \in ClawLines /\ l.s \in Session /\ l.n \in Nat /\ l.v \in Nat /\ ClawLineFits(l)
           /\ ClawGood(l.s)
<1>1. wire[c] \in Seq(ClawLines)
  BY DEF ClawInv, ClawTypes
<1>2. l \in ClawLines /\ ListHas(wire[c], l)
  BY <1>1, HasHead
<1>3. l.s \in Session /\ l.n \in Nat /\ l.v \in Nat
  BY <1>2 DEF ClawLines
<1>4. ClawHears(l)
  BY <1>2 DEF ClawHears
<1>5. ClawGood(l.s)
  BY <1>3 DEF ClawInv
<1>6. ClawLineFits(l)
  BY <1>2, <1>4, <1>5 DEF ClawGood
<1> QED BY <1>2, <1>3, <1>5, <1>6

(* The fields of a line.                                                   *)
LEMMA ClawLine ==
  ASSUME NEW m \in ClawKinds, NEW s \in Session, NEW n \in Nat, NEW v \in Nat
  PROVE  /\ Line(m, s, n, v) \in ClawLines /\ Line(m, s, n, v).m = m
         /\ Line(m, s, n, v).s = s /\ Line(m, s, n, v).n = n /\ Line(m, s, n, v).v = v
BY DEF Line, ClawLines

-----------------------------------------------------------------------------
(* Nobody has begun and nothing is on a wire.                              *)
LEMMA ClawStarts == OpenClawAssumption /\ Init => ClawInv
<1> SUFFICES ASSUME OpenClawAssumption, Init PROVE ClawInv
  OBVIOUS
<1>1. ClawTypes
  <2>1. newest \in 0..MaxClients
    BY DEF Init, OpenClawAssumption
  <2>2. wire \in [Client -> Seq(ClawLines)]
    <3>1. <<>> \in Seq(ClawLines)
      OBVIOUS
    <3> QED BY <3>1 DEF Init
  <2> QED BY <2>1, <2>2 DEF Init, ClawTypes, TypeOK
<1>2. ASSUME NEW s \in Session PROVE ClawGood(s)
  <2>1. \A l \in ClawLines : ~ClawHears(l)
    BY HasNothing DEF Init, ClawHears
  <2>2. ClawRunFits(s)
    BY DEF Init, ClawRunFits, ClawEarly
  <2>3. works = {}
    BY DEF Init
  <2> QED BY <2>1, <2>2, <2>3 DEF ClawGood
<1> QED BY <1>1, <1>2 DEF ClawInv

(* A new run knows nothing: what is on the wires is of earlier ones.       *)
LEMMA ClawBegin ==
  ASSUME OpenClawAssumption, ClawInv, NEW s \in Session, Begin(s)
  PROVE  ClawInv'
<1>1. ClawTypes
  BY DEF ClawInv
<1>2. ClawTypes'
  <2>1. /\ run' \in [Session -> Nat] /\ answer' \in [Session -> Nat]
    BY <1>1 DEF Begin, Set, ClawTypes, TypeOK
  <2>2. step' \in [Session -> ClawSteps]
    BY <1>1 DEF Begin, Set, ClawTypes, TypeOK, adapter
  <2>3. newest' \in 0..MaxClients /\ starting' \in BOOLEAN /\ ready' \in BOOLEAN
    <3>1. newest \in 0..MaxClients /\ MaxClients \in Nat /\ starting \in BOOLEAN
            /\ ready \in BOOLEAN
      BY <1>1 DEF ClawTypes, TypeOK, OpenClawAssumption
    <3>2. newest < MaxClients => newest + 1 \in 0..MaxClients
      BY <3>1
    <3>3. /\ newest' = newest \/ (newest < MaxClients /\ newest' = newest + 1)
          /\ starting' = starting \/ starting' = TRUE
          /\ ready' = ready
      BY DEF Begin, adapter
    <3>4. newest' \in 0..MaxClients
      BY <3>1, <3>2, <3>3
    <3> QED BY <3>1, <3>3, <3>4
  <2>4. link' \in [Client -> {"new", "connecting", "up", "down", "closed"}]
    BY <1>1 DEF Begin, Set, ClawTypes, TypeOK, adapter
  <2> QED BY <1>1, <2>1, <2>2, <2>3, <2>4 DEF Begin, ClawTypes, TypeOK, server
<1>3. /\ run'[s] = run[s] + 1 /\ answer'[s] = 0 /\ step'[s] \in {"started", "connecting"}
      /\ run[s] \in Nat /\ step[s] = "idle"
  BY <1>1 DEF Begin, Set, ClawTypes, TypeOK
<1>4. UNCHANGED <<wire, works, last, settled, baseline, heard, deltas, abandoned, blind>>
  BY DEF Begin, server, ghosts
<1>5. \A x \in Session : x # s => ClawSame(x)
  BY <1>1, <1>4 DEF Begin, Set, ClawSame, ClawTypes, TypeOK
<1>6. \A l : ClawHears(l)' => ClawHears(l)
  BY <1>4 DEF ClawHears
<1>7. ClawGood(s)
  BY DEF ClawInv
<1>8. ASSUME NEW l \in ClawLines, l.s = s, ClawLineFits(l) PROVE ClawLineFits(l)'
  <2>1. l.n \in Nat /\ l.n < run'[s] /\ l.n <= run'[s]
    BY <1>3, <1>8 DEF ClawLines, ClawLineFits
  <2>2. run'[l.s] = run'[s] /\ l.n # run'[s]
    BY <1>8, <2>1, <1>3
  <2> QED BY <1>4, <1>8, <2>1, <2>2 DEF ClawLineFits
<1>9. ASSUME NEW n \in Nat, ClawWorkFits(s, n) PROVE ClawWorkFits(s, n)'
  BY <1>3, <1>4, <1>9 DEF ClawWorkFits, Pending
<1>10. ClawRunFits(s)'
  BY <1>3, <1>4, <1>7 DEF ClawGood, ClawRunFits, ClawEarly
<1>11. ClawGood(s)'
  BY <1>4, <1>6, <1>7, <1>8, <1>9, <1>10 DEF ClawGood
<1> QED BY <1>2, <1>5, <1>6, <1>11, ClawLocal

(* What is left to show of the session that moves: its lines, its turns and*)
(* its run, each only where it changes.                                    *)
LEMMA ClawMoves ==
  ASSUME NEW s \in Session, ClawInv, ClawTypes',
         \A x \in Session : x # s => ClawSame(x),
         \A l \in ClawLines : ClawHears(l)' =>
           \/ ClawHears(l) /\ (l.s = s /\ ClawLineFits(l) => ClawLineFits(l)')
           \/ l.s = s /\ ClawLineFits(l)',
         \A n \in Nat :
           <<s, n>> \in works' /\ (<<s, n>> \in works => ClawWorkFits(s, n))
             => ClawWorkFits(s, n)',
         ClawRunFits(s) => ClawRunFits(s)'
  PROVE  ClawInv'
<1>1. ClawGood(s)
  BY DEF ClawInv
<1>2. ClawGood(s)'
  BY <1>1 DEF ClawGood
<1>3. \A l \in ClawLines : l.s # s /\ ClawHears(l)' => ClawHears(l)
  OBVIOUS
<1> QED BY <1>2, <1>3, ClawLocal

(* The run asks for the history, or goes on without one: then it is blind. *)
LEMMA ClawReadBaseline ==
  ASSUME ClawInv, NEW s \in Session, ReadBaseline(s)
  PROVE  ClawInv'
<1>1. ClawTypes
  BY DEF ClawInv
<1>2. /\ run[s] \in Nat /\ last[s] \in Nat /\ step[s] = "started"
      /\ UNCHANGED <<adapter, server, pending, run, verdict, abandoned>>
  BY <1>1 DEF ReadBaseline, ClawTypes, TypeOK
<1>3. step' \in [Session -> ClawSteps]
      /\ baseline' \in [Session -> Nat]
  <2>1. /\ step' = [step EXCEPT ![s] = "asking"] \/ step' = [step EXCEPT ![s] = "asked"]
        /\ baseline' = baseline \/ baseline' = [baseline EXCEPT ![s] = 0]
    BY DEF ReadBaseline, Set
  <2>2. step \in [Session -> ClawSteps] /\ baseline \in [Session -> Nat]
    BY <1>1 DEF ClawTypes, TypeOK
  <2> QED BY <2>1, <2>2
<1>4. \A x \in Session : x # s => ClawSame(x)
  BY <1>1, <1>2 DEF ReadBaseline, Set, ClawSame, ClawTypes, TypeOK, server, pending
<1>5. CASE Connected
  <2> DEFINE x == Line("history", s, run[s], last[s])
  <2>1. Post(x) /\ step' = Set(step, s, "asking") /\ blind' = blind \ {s} /\ UNCHANGED baseline
    BY <1>5 DEF ReadBaseline
  <2>2. x \in ClawLines /\ x.m = "history" /\ x.s = s /\ x.n = run[s] /\ x.v = last[s]
    BY <1>2, ClawLine DEF ClawKinds
  <2> HIDE DEF x
  <2>3. /\ wire' \in [Client -> Seq(ClawLines)]
        /\ \A l \in ClawLines : ClawHears(l)' => ClawHears(l) \/ l = x
    BY <1>1, <1>5, <2>1, <2>2, ClawPosted
  <2>4. ClawTypes'
    BY <1>1, <1>2, <1>3, <2>3 DEF ClawTypes, TypeOK, adapter, server, pending
  <2>5. step'[s] = "asking"
    BY <1>1, <2>1 DEF Set, ClawTypes, TypeOK
  <2>6. ASSUME NEW l \in ClawLines, l.s = s, ClawLineFits(l) PROVE ClawLineFits(l)'
    <3>1. l.n # run[s]
      BY <1>2, <2>6 DEF ClawLineFits
    <3> QED BY <1>2, <2>6, <3>1 DEF ClawLineFits, server
  <2>7. ASSUME NEW l, l = x PROVE ClawLineFits(l)'
    BY <1>2, <2>2, <2>5, <2>7 DEF ClawLineFits, server
  <2>8. \A n \in Nat : ClawWorkFits(s, n) => ClawWorkFits(s, n)'
    BY <1>2, <2>5 DEF ClawWorkFits, ClawEarly, Pending, pending
  <2>9. ClawRunFits(s) => ClawRunFits(s)'
    BY <1>2, <2>5 DEF ClawRunFits, ClawEarly, pending
  <2>10. \A l \in ClawLines : ClawHears(l)' =>
           \/ ClawHears(l) /\ (l.s = s /\ ClawLineFits(l) => ClawLineFits(l)')
           \/ l.s = s /\ ClawLineFits(l)'
    BY <2>2, <2>3, <2>6, <2>7
  <2>11. works' = works
    BY <1>2 DEF server
  <2> QED BY <1>4, <2>4, <2>8, <2>9, <2>10, <2>11, ClawMoves
<1>6. CASE ~Connected
  <2>1. /\ step' = Set(step, s, "asked") /\ baseline' = Set(baseline, s, 0)
        /\ blind' = blind \cup {s} /\ wire' = wire
    BY <1>6 DEF ReadBaseline
  <2>4. ClawTypes'
    BY <1>1, <1>2, <1>3, <2>1 DEF ClawTypes, TypeOK, adapter, server, pending
  <2>5. step'[s] = "asked" /\ s \in blind'
    BY <1>1, <2>1 DEF Set, ClawTypes, TypeOK
  <2>6. ASSUME NEW l \in ClawLines, l.s = s, ClawLineFits(l) PROVE ClawLineFits(l)'
    <3>1. l.n # run[s]
      BY <1>2, <2>6 DEF ClawLineFits
    <3> QED BY <1>2, <2>6, <3>1 DEF ClawLineFits, server
  <2>8. \A n \in Nat : ClawWorkFits(s, n) => ClawWorkFits(s, n)'
    BY <1>2, <2>5 DEF ClawWorkFits, ClawEarly, Pending, pending
  <2>9. ClawRunFits(s) => ClawRunFits(s)'
    BY <1>2, <2>5 DEF ClawRunFits, ClawEarly, ClawKnown, pending
  <2>10. \A l \in ClawLines : ClawHears(l)' =>
           \/ ClawHears(l) /\ (l.s = s /\ ClawLineFits(l) => ClawLineFits(l)')
           \/ l.s = s /\ ClawLineFits(l)'
    BY <2>1, <2>6 DEF ClawHears
  <2>11. works' = works
    BY <1>2 DEF server
  <2> QED BY <1>4, <2>4, <2>8, <2>9, <2>10, <2>11, ClawMoves
<1> QED BY <1>5, <1>6

(* chat.send: what is pending is made new.                                 *)
LEMMA ClawSend ==
  ASSUME ClawInv, NEW s \in Session, Send(s)
  PROVE  ClawInv'
<1>1. ClawTypes
  BY DEF ClawInv
<1>2. /\ run[s] \in Nat /\ step[s] = "asked"
      /\ UNCHANGED <<adapter, waits, last, answer, run, baseline, ghosts>>
  BY <1>1 DEF Send, ClawTypes, TypeOK
<1>3. /\ heard' = Set(heard, s, 0) /\ deltas' = Set(deltas, s, 0)
           /\ settled' = Set(settled, s, "open")
  BY DEF Send
<1>4. /\ step' \in [Session -> ClawSteps]
      /\ heard' \in [Session -> Nat] /\ deltas' \in [Session -> Nat]
      /\ settled' \in [Session -> {"open", "done", "failed"}]
      /\ heard'[s] = 0 /\ deltas'[s] = 0 /\ settled'[s] = "open"
  <2>1. /\ step \in [Session -> ClawSteps]
        /\ heard \in [Session -> Nat] /\ deltas \in [Session -> Nat]
        /\ settled \in [Session -> {"open", "done", "failed"}]
    BY <1>1 DEF ClawTypes, TypeOK
  <2>2. step' = [step EXCEPT ![s] = "sending"] \/ step' = [step EXCEPT ![s] = "idle"]
    BY DEF Send, Set
  <2>3. step' \in [Session -> ClawSteps]
    BY <2>1, <2>2
  <2> QED BY <1>3, <2>1, <2>3 DEF Set
<1>5. works' \subseteq Session \X Nat /\ works \subseteq works'
  BY <1>1, <1>2 DEF Send, ClawTypes
<1>6. \A x \in Session : x # s => ClawSame(x)
  BY <1>1, <1>2, <1>3 DEF Send, Set, ClawSame, ClawTypes, TypeOK, ghosts
<1>7. CASE Connected
  <2> DEFINE x == Line("sent", s, run[s], 0)
  <2>1. Post(x) /\ step' = Set(step, s, "sending") /\ works' = works \cup {<<s, run[s]>>}
    BY <1>7 DEF Send
  <2>2. x \in ClawLines /\ x.m = "sent" /\ x.s = s /\ x.n = run[s]
    BY <1>2, ClawLine DEF ClawKinds
  <2> HIDE DEF x
  <2>3. /\ wire' \in [Client -> Seq(ClawLines)]
        /\ \A l \in ClawLines : ClawHears(l)' => ClawHears(l) \/ l = x
    BY <1>1, <1>7, <2>1, <2>2, ClawPosted
  <2>4. ClawTypes'
    BY <1>1, <1>2, <1>4, <1>5, <2>3 DEF ClawTypes, TypeOK, adapter
  <2>5. step'[s] = "sending"
    BY <1>1, <2>1 DEF Set, ClawTypes, TypeOK
  <2>6. ASSUME NEW l \in ClawLines, l.s = s, ClawLineFits(l) PROVE ClawLineFits(l)'
    <3>1. l.m # "history" => l.n # run[s]
      BY <1>2, <2>6 DEF ClawLineFits, ClawEarly
    <3> QED BY <1>2, <2>1, <2>5, <2>6, <3>1 DEF ClawLineFits, ClawEarly
  <2>7. ASSUME NEW l, l = x PROVE ClawLineFits(l)'
    BY <1>2, <2>2, <2>5, <2>7 DEF ClawLineFits, ClawEarly
  <2>8. ASSUME NEW n \in Nat, <<s, n>> \in works', <<s, n>> \in works => ClawWorkFits(s, n)
        PROVE  ClawWorkFits(s, n)'
    <3>1. n = run[s] \/ <<s, n>> \in works
      BY <2>1, <2>8
    <3> QED BY <1>2, <1>4, <2>5, <2>8, <3>1 DEF ClawWorkFits, ClawEarly, Pending, ghosts
  <2>9. ClawRunFits(s) => ClawRunFits(s)'
    BY <1>2, <1>4, <2>5 DEF ClawRunFits, ClawEarly, ClawKnown, ghosts
  <2>10. \A l \in ClawLines : ClawHears(l)' =>
           \/ ClawHears(l) /\ (l.s = s /\ ClawLineFits(l) => ClawLineFits(l)')
           \/ l.s = s /\ ClawLineFits(l)'
    BY <2>2, <2>3, <2>6, <2>7
  <2> QED BY <1>6, <2>4, <2>8, <2>9, <2>10, ClawMoves
<1>8. CASE ~Connected
  <2>1. step' = Set(step, s, "idle") /\ UNCHANGED <<works, wire>>
    BY <1>8 DEF Send
  <2>4. ClawTypes'
    BY <1>1, <1>2, <1>4, <2>1 DEF ClawTypes, TypeOK, adapter
  <2>5. step'[s] = "idle"
    BY <1>1, <2>1 DEF Set, ClawTypes, TypeOK
  <2>6. ASSUME NEW l \in ClawLines, l.s = s, ClawLineFits(l) PROVE ClawLineFits(l)'
    BY <1>2, <2>1, <2>5, <2>6 DEF ClawLineFits, ClawEarly
  <2>8. ASSUME NEW n \in Nat, ClawWorkFits(s, n) PROVE ClawWorkFits(s, n)'
    BY <1>2, <2>5, <2>8 DEF ClawWorkFits, ClawEarly, Pending, ghosts
  <2>9. ClawRunFits(s) => ClawRunFits(s)'
    BY <1>2, <1>4, <2>5 DEF ClawRunFits, ClawEarly, ClawKnown, ghosts
  <2>10. \A l \in ClawLines : ClawHears(l)' =>
           \/ ClawHears(l) /\ (l.s = s /\ ClawLineFits(l) => ClawLineFits(l)')
           \/ l.s = s /\ ClawLineFits(l)'
    BY <2>1, <2>6 DEF ClawHears
  <2> QED BY <1>6, <2>1, <2>4, <2>8, <2>9, <2>10, ClawMoves
<1> QED BY <1>7, <1>8

(* The run is over; its last event was handed out.                         *)
LEMMA ClawFinish ==
  ASSUME ClawInv, NEW s \in Session, Finish(s)
  PROVE  ClawInv'
<1>1. ClawTypes
  BY DEF ClawInv
<1>2. /\ step[s] = "reading" /\ step'[s] = "idle" /\ settled[s] # "open"
      /\ step' \in [Session -> ClawSteps]
      /\ UNCHANGED <<adapter, wire, server, pending, run, baseline, ghosts>>
  BY <1>1 DEF Finish, Set, ClawTypes, TypeOK
<1>3. ClawTypes'
  BY <1>1, <1>2 DEF ClawTypes, TypeOK, adapter, server, pending
<1>4. \A x \in Session : x # s => ClawSame(x)
  BY <1>1, <1>2 DEF Finish, Set, ClawSame, ClawTypes, TypeOK, server, pending, ghosts
<1>5. ASSUME NEW l \in ClawLines, l.s = s, ClawLineFits(l) PROVE ClawLineFits(l)'
  BY <1>2, <1>5 DEF ClawLineFits, ClawEarly, server
<1>6. \A n \in Nat : ClawWorkFits(s, n) => ClawWorkFits(s, n)'
  BY <1>2 DEF ClawWorkFits, ClawEarly, Pending, pending, ghosts
<1>7. ClawRunFits(s) => ClawRunFits(s)'
  BY <1>2 DEF ClawRunFits, ClawEarly, ClawKnown, pending, ghosts
<1>8. \A l \in ClawLines : ClawHears(l)' =>
        \/ ClawHears(l) /\ (l.s = s /\ ClawLineFits(l) => ClawLineFits(l)')
        \/ l.s = s /\ ClawLineFits(l)'
  BY <1>2, <1>5 DEF ClawHears
<1>9. works' = works
  BY <1>2 DEF server
<1> QED BY <1>3, <1>4, <1>6, <1>7, <1>8, <1>9, ClawMoves

(* A run is given up, by its timer or by the one of its request: nothing is*)
(* claimed of its session any more.                                        *)
LEMMA ClawGivenUp ==
  ASSUME ClawInv, NEW s \in Session, Timeout(s) \/ SendTimesOut(s)
  PROVE  ClawInv'
<1>1. ClawTypes
  BY DEF ClawInv
<1>2. /\ Pending(s) /\ step'[s] \in {step[s], "idle"} /\ abandoned' = abandoned \cup {s}
      /\ step' \in [Session -> ClawSteps]
      /\ settled' \in [Session -> {"open", "done", "failed"}]
      /\ UNCHANGED <<adapter, wire, server, heard, deltas, answer, run, baseline, blind>>
  BY <1>1 DEF Timeout, SendTimesOut, Set, ClawTypes, TypeOK, Pending, runs, pending
<1>3. ClawTypes'
  BY <1>1, <1>2 DEF ClawTypes, TypeOK, adapter, server
<1>4. \A x \in Session : x # s => ClawSame(x)
  BY <1>1, <1>2 DEF Timeout, SendTimesOut, Set, ClawSame, ClawTypes, TypeOK, server, runs, pending
<1>5. ASSUME NEW l \in ClawLines, l.s = s, ClawLineFits(l) PROVE ClawLineFits(l)'
  <2>1. ~ClawEarly(s) /\ ~ClawEarly(s)' /\ s \in abandoned'
          /\ (step[s] = "reading" => step'[s] \in {"reading", "idle"})
        /\ (step[s] = "idle" => step'[s] = "idle")
    BY <1>2 DEF ClawEarly, Pending
  <2> QED BY <1>2, <1>5, <2>1 DEF ClawLineFits, ClawEarly, ClawKnown, server
<1>6. \A n \in Nat : ClawWorkFits(s, n) => ClawWorkFits(s, n)'
  BY <1>2 DEF ClawWorkFits, ClawEarly, Pending
<1>7. ClawRunFits(s) => ClawRunFits(s)'
  BY <1>2 DEF ClawRunFits, ClawEarly, ClawKnown, Pending
<1>8. \A l \in ClawLines : ClawHears(l)' =>
        \/ ClawHears(l) /\ (l.s = s /\ ClawLineFits(l) => ClawLineFits(l)')
        \/ l.s = s /\ ClawLineFits(l)'
  BY <1>2, <1>5 DEF ClawHears
<1>9. works' = works
  BY <1>2 DEF server
<1> QED BY <1>3, <1>4, <1>6, <1>7, <1>8, <1>9, ClawMoves

(* The adapter stops: every run fails, and its turn goes on.               *)
LEMMA ClawStop ==
  ASSUME ClawInv, Stop
  PROVE  ClawInv'
<1>1. ClawTypes
  BY DEF ClawInv
<1>2. UNCHANGED <<newest, starting, wire, server, pending, runs, ghosts>> /\ ready' = FALSE
  BY DEF Stop
<1>3. link' \in [Client -> {"new", "connecting", "up", "down", "closed"}]
  BY <1>1 DEF Stop, Set, ClawTypes, TypeOK
<1>4. ClawTypes'
  BY <1>1, <1>2, <1>3 DEF ClawTypes, TypeOK, server, pending, runs
<1>5. ASSUME NEW x \in Session PROVE ClawGood(x)'
  <2>1. ClawSame(x)
    BY <1>2 DEF ClawSame, server, pending, runs, ghosts
  <2>2. \A l : ClawHears(l)' => ClawHears(l)
    BY <1>2 DEF ClawHears
  <2> QED BY <2>1, <2>2, ClawSameGood DEF ClawInv
<1> QED BY <1>4, <1>5 DEF ClawInv

(* A client is connected, or the connect timer fires: runs that wait for it*)
(* go on or fail, no line is sent.                                         *)
LEMMA ClawHello ==
  ASSUME ClawInv, (\E c \in Client : Hello(c)) \/ ConnectFails
  PROVE  ClawInv'
<1>1. ClawTypes
  BY DEF ClawInv
<1>2. UNCHANGED <<newest, wire, server, pending, run, baseline, ghosts>>
  BY DEF Hello, ConnectFails
<1>3. /\ link' \in [Client -> {"new", "connecting", "up", "down", "closed"}]
      /\ ready' \in BOOLEAN /\ starting' \in BOOLEAN
      /\ step' \in [Session -> ClawSteps]
  BY <1>1 DEF Hello, ConnectFails, Set, ClawTypes, TypeOK
<1>4. ClawTypes'
  BY <1>1, <1>2, <1>3 DEF ClawTypes, TypeOK, server, pending
<1>5. ASSUME NEW x \in Session PROVE ClawGood(x)'
  <2>1. step'[x] = step[x] \/ (step[x] = "connecting" /\ step'[x] \in {"started", "idle"})
    BY DEF Hello, ConnectFails
  <2>2. \A l : ClawHears(l)' => ClawHears(l)
    BY <1>2 DEF ClawHears
  <2>3. CASE step'[x] = step[x]
    <3>1. ClawSame(x)
      BY <1>2, <2>3 DEF ClawSame, server, pending, ghosts
    <3> QED BY <2>2, <3>1, ClawSameGood DEF ClawInv
  <2>4. CASE step[x] = "connecting" /\ step'[x] \in {"started", "idle"}
    <3>1. ASSUME NEW l \in ClawLines, l.s = x, ClawLineFits(l) PROVE ClawLineFits(l)'
      BY <1>2, <2>4, <3>1 DEF ClawLineFits, server
    <3>2. \A n \in Nat : ClawWorkFits(x, n) => ClawWorkFits(x, n)'
      BY <1>2, <2>4 DEF ClawWorkFits, ClawEarly, Pending, pending, ghosts
    <3>3. ClawRunFits(x) => ClawRunFits(x)'
      BY <1>2, <2>4 DEF ClawRunFits, ClawEarly, ClawKnown, pending, ghosts
    <3>4. ClawGood(x) /\ works' = works
      BY <1>2 DEF ClawInv, server
    <3> QED BY <2>2, <3>1, <3>2, <3>3, <3>4 DEF ClawGood
  <2> QED BY <2>1, <2>3, <2>4
<1> QED BY <1>4, <1>5 DEF ClawInv

(* A connection is lost with what is on its wire: the runs that wait for it*)
(* are abandoned, or blind.                                                *)
LEMMA ClawClose ==
  ASSUME ClawInv, NEW c \in Client, Close(c)
  PROVE  ClawInv'
<1>1. ClawTypes
  BY DEF ClawInv
<1>2. UNCHANGED <<newest, starting, works, renamed, last, outcome, heard, deltas, answer, run>>
      /\ wire' = Set(wire, c, <<>>) /\ waits' \subseteq waits /\ ready' = FALSE
  BY DEF Close
<1>3. /\ link' \in [Client -> {"new", "connecting", "up", "down", "closed"}]
      /\ settled' \in [Session -> {"open", "done", "failed"}]
  BY <1>1 DEF Close, Set, ClawTypes, TypeOK
<1>4. /\ step' \in [Session -> ClawSteps]
      /\ baseline' \in [Session -> Nat]
      /\ \A x \in Session :
           /\ x \in abandoned' <=> x \in abandoned \/ Pending(x)
           /\ settled'[x] = settled[x] \/ Pending(x)
           /\ \/ step'[x] = step[x] /\ baseline'[x] = baseline[x]
                   /\ (x \in blind' <=> x \in blind)
              \/ step[x] = "asking" /\ step'[x] = "asked" /\ x \in blind'
              \/ step[x] = "sending" /\ step'[x] = "idle" /\ (x \in blind => x \in blind')
  <2> DEFINE lost(s, m) == \E i \in DOMAIN wire[c] : wire[c][i].m = m /\ wire[c][i].s = s
        /\ wire[c][i].n = run[s]
  <2>1. /\ step' = [s \in Session |->
             CASE step[s] = "asking" /\ lost(s, "history") -> "asked"
               [] step[s] = "sending" /\ lost(s, "sent")   -> "idle"
               [] OTHER -> step[s]]
        /\ baseline' = [s \in Session |-> IF step[s] = "asking" /\ lost(s, "history")
                                          THEN 0 ELSE baseline[s]]
        /\ blind' = blind \cup {s \in Session : step[s] = "asking" /\ lost(s, "history")}
        /\ abandoned' = abandoned \cup {s \in Session : Pending(s)}
        /\ settled' = [s \in Session |-> IF Pending(s) /\ settled[s] = "open"
                                   THEN "failed" ELSE settled[s]]
    BY DEF Close
  <2> HIDE DEF lost
  <2>2. \A x \in Session : step[x] \in ClawSteps /\ baseline[x] \in Nat
    BY <1>1 DEF ClawTypes, TypeOK
  <2>3. \A x \in Session :
          /\ step'[x] = IF step[x] = "asking" /\ lost(x, "history") THEN "asked"
                        ELSE IF step[x] = "sending" /\ lost(x, "sent") THEN "idle" ELSE step[x]
          /\ baseline'[x] = IF step[x] = "asking" /\ lost(x, "history") THEN 0 ELSE baseline[x]
          /\ x \in blind' <=> x \in blind \/ (step[x] = "asking" /\ lost(x, "history"))
    BY <2>1
  <2>4. step' \in [Session -> ClawSteps]
    <3>1. step' = [s \in Session |-> step'[s]]
      BY <2>1
    <3>2. \A x \in Session : step'[x] \in ClawSteps
      BY <2>2, <2>3
    <3> QED BY <3>1, <3>2
  <2>5. baseline' \in [Session -> Nat]
    BY <2>1, <2>2
  <2>6. \A x \in Session : (x \in abandoned' <=> x \in abandoned \/ Pending(x))
          /\ (settled'[x] = settled[x] \/ Pending(x))
    BY <2>1
  <2> QED BY <2>3, <2>4, <2>5, <2>6
<1>5. /\ wire' \in [Client -> Seq(ClawLines)]
      /\ \A l : ClawHears(l)' => ClawHears(l)
  <2>1. wire \in [Client -> Seq(ClawLines)] /\ <<>> \in Seq(ClawLines)
          /\ wire' = [wire EXCEPT ![c] = <<>>]
    BY <1>1, <1>2 DEF ClawTypes, Set
  <2>2. wire'[c] = <<>> /\ \A d \in Client : d # c => wire'[d] = wire[d]
    BY <2>1
  <2>3. ASSUME NEW l, NEW d \in Client, ListHas(wire'[d], l) PROVE ListHas(wire[d], l)
    <3>1. d # c
      BY <2>2, <2>3, HasNothing
    <3> QED BY <2>2, <2>3, <3>1
  <2> QED BY <2>1, <2>3 DEF ClawHears
<1>6. ClawTypes'
  BY <1>1, <1>2, <1>3, <1>4, <1>5 DEF ClawTypes, TypeOK
<1>7. ASSUME NEW x \in Session PROVE ClawGood(x)'
  <2>1. ASSUME NEW l \in ClawLines, l.s = x, ClawLineFits(l) PROVE ClawLineFits(l)'
    BY <1>2, <1>4, <2>1 DEF ClawLineFits, ClawEarly, ClawKnown, Pending
  <2>2. \A n \in Nat : ClawWorkFits(x, n) => ClawWorkFits(x, n)'
    BY <1>2, <1>4 DEF ClawWorkFits, ClawEarly, Pending
  <2>3. ClawRunFits(x) => ClawRunFits(x)'
    BY <1>2, <1>4 DEF ClawRunFits, ClawEarly, ClawKnown, Pending
  <2>4. ClawGood(x)
    BY DEF ClawInv
  <2> QED BY <1>2, <1>5, <2>1, <2>2, <2>3, <2>4 DEF ClawGood
<1> QED BY <1>6, <1>7 DEF ClawInv

-----------------------------------------------------------------------------
(* Nothing moves that the invariant speaks of, and lines are only taken.   *)
LEMMA ClawQuiet ==
  ASSUME ClawInv, ClawTypes', \A x \in Session : ClawSame(x),
         \A l \in ClawLines : ClawHears(l)' => ClawHears(l)
  PROVE  ClawInv'
<1>1. ASSUME NEW x \in Session PROVE ClawGood(x)'
  BY ClawSameGood DEF ClawInv
<1> QED BY <1>1 DEF ClawInv

(* The history is there: unless a turn goes on that nobody waits for, its  *)
(* last message stays the last one until the run sends.                    *)
LEMMA ClawBaselined ==
  ASSUME ClawInv, NEW c \in Client, Baselined(c)
  PROVE  ClawInv'
<1>1. ClawTypes
  BY DEF ClawInv
<1>2. wire[c] # <<>> /\ Head(wire[c]).m = "history" /\ wire' = Set(wire, c, Tail(wire[c]))
      /\ UNCHANGED <<adapter, server, pending, run, verdict, ghosts>>
  BY DEF Baselined, Reads
<1>3. PICK line : line = Head(wire[c])
  OBVIOUS
<1>4. line \in ClawLines /\ line.s \in Session /\ line.n \in Nat /\ line.v \in Nat
        /\ ClawLineFits(line)
      /\ line.m = "history"
  BY <1>2, <1>3, ClawHead
<1>5. IF Mine(line, "asking") THEN step' = Set(step, line.s, "asked")
        /\ baseline' = Set(baseline, line.s, line.v)
      ELSE UNCHANGED <<step, baseline>>
  BY <1>3 DEF Baselined
<1>6. wire' \in [Client -> Seq(ClawLines)] /\ \A l \in ClawLines : ClawHears(l)' => ClawHears(l)
  BY <1>1, <1>2, ClawRead
<1>7. step' \in [Session -> ClawSteps]
      /\ baseline' \in [Session -> Nat]
  BY <1>1, <1>4, <1>5 DEF Set, ClawTypes, TypeOK
<1>8. ClawTypes'
  BY <1>1, <1>2, <1>6, <1>7 DEF ClawTypes, TypeOK, adapter, server, pending
<1>9. CASE Mine(line, "asking")
  <2>1. PICK s \in Session : s = line.s
    BY <1>4
  <2>2. step[s] = "asking" /\ run[s] = line.n /\ step'[s] = "asked" /\ baseline'[s] = line.v
        /\ \A x \in Session : x # s => step'[x] = step[x] /\ baseline'[x] = baseline[x]
    BY <1>1, <1>5, <1>9, <2>1 DEF Mine, Set, ClawTypes, TypeOK
  <2>3. \A x \in Session : x # s => ClawSame(x)
    BY <1>2, <2>2 DEF ClawSame, server, pending, ghosts
  <2>4. ASSUME NEW l \in ClawLines, l.s = s, ClawLineFits(l) PROVE ClawLineFits(l)'
    BY <1>2, <2>2, <2>4 DEF ClawLineFits, ClawEarly, server
  <2>5. \A n \in Nat : ClawWorkFits(s, n) => ClawWorkFits(s, n)'
    BY <1>2, <2>2 DEF ClawWorkFits, ClawEarly, Pending, pending, ghosts
  <2>6. s \notin abandoned => line.v = last[s]
    BY <1>4, <2>1, <2>2 DEF ClawLineFits
  <2>7. ClawRunFits(s) => ClawRunFits(s)'
    BY <1>2, <2>2, <2>6 DEF ClawRunFits, ClawEarly, ClawKnown, server, pending, ghosts
  <2>8. \A l \in ClawLines : ClawHears(l)' =>
          \/ ClawHears(l) /\ (l.s = s /\ ClawLineFits(l) => ClawLineFits(l)')
          \/ l.s = s /\ ClawLineFits(l)'
    BY <1>6, <2>4
  <2>9. works' = works
    BY <1>2 DEF server
  <2> QED BY <1>8, <2>3, <2>5, <2>7, <2>8, <2>9, ClawMoves
<1>10. CASE ~Mine(line, "asking")
  <2>1. \A x \in Session : ClawSame(x)
    BY <1>2, <1>5, <1>10 DEF ClawSame, server, pending, ghosts
  <2> QED BY <1>6, <1>8, <2>1, ClawQuiet
<1> QED BY <1>9, <1>10

(* chat.send was answered, or refused: the run waits for the end of its    *)
(* turn, or has given it up.                                               *)
LEMMA ClawSent ==
  ASSUME ClawInv, NEW c \in Client, Sent(c)
  PROVE  ClawInv'
<1>1. ClawTypes
  BY DEF ClawInv
<1>2. wire[c] # <<>> /\ Head(wire[c]).m = "sent"
      /\ UNCHANGED <<adapter, works, renamed, last, outcome, heard, deltas, answer, run,
           baseline, verdict, blind>>
  BY DEF Sent, Reads
<1>3. PICK line : line = Head(wire[c])
  OBVIOUS
<1>4. line \in ClawLines /\ line.s \in Session /\ line.n \in Nat /\ ClawLineFits(line)
  BY <1>2, <1>3, ClawHead
<1>5. PICK s \in Session : s = line.s
  BY <1>4
<1>6. PICK rest : rest = Set(wire, c, Tail(wire[c]))
  OBVIOUS
<1>7. \/ /\ Mine(line, "sending") /\ Connected
         /\ step' = Set(step, s, "reading")
         /\ waits' = IF <<s, line.n>> \in works
                     THEN waits \cup {[c |-> newest, turn |-> <<s, line.n>>]} ELSE waits
         /\ wire' = IF <<s, line.n>> \in works THEN rest
                    ELSE Set(rest, newest, Append(rest[newest], Line("waited", s, line.n, 0)))
         /\ UNCHANGED <<settled, abandoned>>
      \/ /\ Mine(line, "sending") /\ ~Connected
         /\ step' = Set(step, s, "reading") /\ wire' = rest
         /\ settled' = IF settled[s] = "open" THEN Set(settled, s, "failed") ELSE settled
         /\ abandoned' = abandoned \cup {s} /\ UNCHANGED waits
      \/ /\ ~Mine(line, "sending") /\ wire' = rest
         /\ UNCHANGED <<step, waits, settled, abandoned>>
  BY <1>3, <1>5, <1>6 DEF Sent
<1>8. waits' \subseteq [c : Client, turn : Session \X Nat] /\ \A w \in waits' : w.turn \in works
  <2>1. CASE waits' = waits
    BY <1>1, <2>1 DEF ClawTypes
  <2>2. CASE Connected /\ <<s, line.n>> \in works
               /\ waits' = waits \cup {[c |-> newest, turn |-> <<s, line.n>>]}
    <3>1. newest \in Client
      BY <1>1, <2>2 DEF ClawTypes, TypeOK, Connected, Client
    <3>2. [c |-> newest, turn |-> <<s, line.n>>] \in [c : Client, turn : Session \X Nat]
      BY <1>4, <3>1
    <3>3. PICK w : w = [c |-> newest, turn |-> <<s, line.n>>]
      OBVIOUS
    <3>4. w \in [c : Client, turn : Session \X Nat] /\ w.turn \in works /\ waits' = waits \cup {w}
      BY <2>2, <3>2, <3>3
    <3>5. waits \subseteq [c : Client, turn : Session \X Nat] /\ \A y \in waits : y.turn \in works
      BY <1>1 DEF ClawTypes
    <3> QED BY <3>4, <3>5
  <2>3. waits' = waits \/ (Connected /\ <<s, line.n>> \in works
          /\ waits' = waits \cup {[c |-> newest, turn |-> <<s, line.n>>]})
    BY <1>7
  <2> QED BY <2>1, <2>2, <2>3
<1>9. step' \in [Session -> ClawSteps]
      /\ settled' \in [Session -> {"open", "done", "failed"}]
  BY <1>1, <1>7 DEF Set, ClawTypes, TypeOK
<1>10. CASE Mine(line, "sending")
  <2>1. /\ step[s] = "sending" /\ run[s] = line.n /\ step'[s] = "reading"
        /\ \A x \in Session : x # s => step'[x] = step[x] /\ settled'[x] = settled[x]
    BY <1>1, <1>5, <1>7, <1>10 DEF Mine, Set, ClawTypes, TypeOK
  <2>2. (settled'[s] = settled[s] /\ abandoned' = abandoned) \/ abandoned' = abandoned \cup {s}
    BY <1>7, <1>10
  <2>3. \A x \in Session : x # s => ClawSame(x)
    BY <1>2, <2>1, <2>2 DEF ClawSame
  <2>4. ASSUME NEW l \in ClawLines, l.s = s, ClawLineFits(l) PROVE ClawLineFits(l)'
    BY <1>2, <2>1, <2>2, <2>4 DEF ClawLineFits, ClawEarly
  <2>5. \A n \in Nat : ClawWorkFits(s, n) => ClawWorkFits(s, n)'
    BY <1>2, <2>1, <2>2 DEF ClawWorkFits, ClawEarly, Pending
  <2>6. ClawRunFits(s) => ClawRunFits(s)'
    BY <1>2, <2>1, <2>2 DEF ClawRunFits, ClawEarly, ClawKnown
  <2>7. works' = works
    BY <1>2
  <2>8. CASE wire' = rest
    <3>1. wire' \in [Client -> Seq(ClawLines)]
            /\ \A l \in ClawLines : ClawHears(l)' => ClawHears(l)
      BY <1>1, <1>2, <1>6, <2>8, ClawRead
    <3>2. ClawTypes'
      BY <1>1, <1>2, <1>8, <1>9, <3>1 DEF ClawTypes, TypeOK, adapter
    <3>3. \A l \in ClawLines : ClawHears(l)' =>
            \/ ClawHears(l) /\ (l.s = s /\ ClawLineFits(l) => ClawLineFits(l)')
            \/ l.s = s /\ ClawLineFits(l)'
      BY <2>4, <3>1
    <3> QED BY <2>3, <2>5, <2>6, <2>7, <3>2, <3>3, ClawMoves
  <2>9. CASE wire' # rest
    <3>1. PICK x : x = Line("waited", s, line.n, 0)
      OBVIOUS
    <3>2. x \in ClawLines /\ x.m = "waited" /\ x.s = s /\ x.n = run[s]
      BY <1>4, <2>1, <3>1, ClawLine DEF ClawKinds
    <3>3. Connected /\ <<s, run[s]>> \notin works
            /\ wire' = Set(rest, newest, Append(rest[newest], x))
      BY <1>7, <1>10, <2>1, <2>9, <3>1
    <3>4. wire' \in [Client -> Seq(ClawLines)]
            /\ \A l \in ClawLines : ClawHears(l)' => ClawHears(l) \/ l = x
      BY <1>1, <1>2, <1>6, <3>2, <3>3, ClawReadPosted
    <3>5. ClawTypes'
      BY <1>1, <1>2, <1>8, <1>9, <3>4 DEF ClawTypes, TypeOK, adapter
    <3>6. ASSUME NEW l, l = x PROVE ClawLineFits(l)'
      <4>1. run[s] \in Nat
        BY <1>1 DEF ClawTypes, TypeOK
      <4> QED BY <1>2, <2>1, <3>2, <3>3, <3>6, <4>1 DEF ClawLineFits, ClawEarly
    <3>7. \A l \in ClawLines : ClawHears(l)' =>
            \/ ClawHears(l) /\ (l.s = s /\ ClawLineFits(l) => ClawLineFits(l)')
            \/ l.s = s /\ ClawLineFits(l)'
      BY <2>4, <3>2, <3>4, <3>6
    <3> QED BY <2>3, <2>5, <2>6, <2>7, <3>5, <3>7, ClawMoves
  <2> QED BY <2>8, <2>9
<1>11. CASE ~Mine(line, "sending")
  <2>1. wire' = rest /\ UNCHANGED <<step, waits, settled, abandoned>>
    BY <1>7, <1>11
  <2>2. wire' \in [Client -> Seq(ClawLines)] /\ \A l \in ClawLines : ClawHears(l)' => ClawHears(l)
    BY <1>1, <1>2, <1>6, <2>1, ClawRead
  <2>3. ClawTypes'
    BY <1>1, <1>2, <2>1, <2>2 DEF ClawTypes, TypeOK, adapter
  <2>4. \A x \in Session : ClawSame(x)
    BY <1>2, <2>1 DEF ClawSame
  <2> QED BY <2>2, <2>3, <2>4, ClawQuiet
<1> QED BY <1>10, <1>11

(* A chat event: text or the end of the turn, for the run of its session   *)
(* only; the clients hear it twice, and the run takes it once (lastSeq).   *)
LEMMA ClawEventStep ==
  ASSUME ClawInv, NEW c \in Client, ChatEvent(c)
  PROVE  ClawInv'
<1>1. ClawTypes
  BY DEF ClawInv
<1>2. wire[c] # <<>> /\ Head(wire[c]).m \in {"delta", "final", "error"}
      /\ wire' = Set(wire, c, Tail(wire[c]))
      /\ UNCHANGED <<adapter, server, runs, ghosts>>
  BY DEF ChatEvent, Reads
<1>3. PICK line : line = Head(wire[c])
  OBVIOUS
<1>4. line \in ClawLines /\ line.s \in Session /\ line.n \in Nat /\ line.v \in Nat
        /\ ClawLineFits(line)
      /\ line.m \in {"delta", "final", "error"}
  BY <1>2, <1>3, ClawHead
<1>5. PICK s \in Session : s = line.s
  BY <1>4
<1>6. \/ /\ Takes(line) /\ heard' = Set(heard, s, line.v)
         /\ deltas' = IF line.m = "delta"
              /\ settled[s] = "open" THEN Set(deltas, s, deltas[s] + 1) ELSE deltas
         /\ settled' = IF settled[s] = "open" /\ line.m # "delta"
                       THEN Set(settled, s, IF line.m = "final" THEN "done" ELSE "failed")
                       ELSE settled
         /\ answer' = IF settled[s] = "open"
              /\ line.m = "final" THEN Set(answer, s, line.n) ELSE answer
      \/ ~Takes(line) /\ UNCHANGED pending
  BY <1>3, <1>5 DEF ChatEvent
<1>7. wire' \in [Client -> Seq(ClawLines)] /\ \A l \in ClawLines : ClawHears(l)' => ClawHears(l)
  BY <1>1, <1>2, ClawRead
<1>8. CASE ~Takes(line)
  <2>1. UNCHANGED pending
    BY <1>6, <1>8
  <2>2. ClawTypes'
    BY <1>1, <1>2, <1>7, <2>1 DEF ClawTypes, TypeOK, adapter, server, runs, pending
  <2>3. \A x \in Session : ClawSame(x)
    BY <1>2, <2>1 DEF ClawSame, server, runs, pending, ghosts
  <2> QED BY <1>7, <2>2, <2>3, ClawQuiet
<1>9. CASE Takes(line)
  <2>1. heard[s] \in Nat /\ deltas[s] \in Nat /\ answer[s] \in Nat
          /\ settled[s] \in {"open", "done", "failed"}
    BY <1>1 DEF ClawTypes, TypeOK
  <2>2. /\ Pending(s) /\ run[s] = line.n /\ line.v > heard[s]
    BY <1>5, <1>9 DEF Takes
  <2>3. /\ heard' \in [Session -> Nat] /\ heard'[s] = line.v
        /\ \A x \in Session : x # s => heard'[x] = heard[x]
    BY <1>1, <1>4, <1>6, <1>9 DEF Set, ClawTypes
  <2>4. /\ deltas' \in [Session -> Nat]
        /\ deltas'[s] = IF line.m = "delta"
             /\ settled[s] = "open" THEN deltas[s] + 1 ELSE deltas[s]
        /\ \A x \in Session : x # s => deltas'[x] = deltas[x]
    <3>1. deltas' = deltas \/ deltas' = [deltas EXCEPT ![s] = deltas[s] + 1]
      BY <1>6, <1>9 DEF Set
    <3>2. deltas \in [Session -> Nat] /\ deltas[s] + 1 \in Nat
      BY <1>1, <2>1 DEF ClawTypes
    <3>3. deltas' = IF line.m = "delta"
            /\ settled[s] = "open" THEN [deltas EXCEPT ![s] = deltas[s] + 1] ELSE deltas
      BY <1>6, <1>9 DEF Set
    <3> QED BY <3>1, <3>2, <3>3
  <2>5. /\ settled' \in [Session -> {"open", "done", "failed"}]
        /\ settled'[s] = settled[s] \/ line.m # "delta"
        /\ \A x \in Session : x # s => settled'[x] = settled[x]
    BY <1>1, <1>6, <1>9 DEF Set, ClawTypes, TypeOK
  <2>6. /\ answer' \in [Session -> Nat] /\ answer'[s] \in {answer[s], run[s]}
        /\ \A x \in Session : x # s => answer'[x] = answer[x]
    BY <1>1, <1>4, <1>6, <1>9, <2>2 DEF Set, ClawTypes
  <2>7. ClawTypes'
    BY <1>1, <1>2, <1>7, <2>3, <2>4, <2>5, <2>6 DEF ClawTypes, TypeOK, adapter, server, runs
  <2>8. \A x \in Session : x # s => ClawSame(x)
    BY <1>2, <2>3, <2>4, <2>5, <2>6 DEF ClawSame, server, runs, ghosts
  <2>9. \A l \in ClawLines : ClawLineFits(l) => ClawLineFits(l)'
    BY <1>2 DEF ClawLineFits, ClawEarly, ClawKnown, server, runs, ghosts
  <2>10. ASSUME NEW n \in Nat, <<s, n>> \in works, ClawWorkFits(s, n) PROVE ClawWorkFits(s, n)'
    <3>1. line.m # "delta" => <<s, run[s]>> \notin works
      BY <1>4, <1>5, <2>2 DEF ClawLineFits
    <3>2. s \notin abandoned => settled'[s] = settled[s]
      BY <2>5, <2>10, <3>1 DEF ClawWorkFits
    <3> QED BY <1>2, <2>10, <3>2 DEF ClawWorkFits, ClawEarly, Pending, runs, ghosts
  <2>11. ASSUME ClawRunFits(s) PROVE ClawRunFits(s)'
    <3>1. line.m = "delta" => line.v = 1
      BY <1>4 DEF ClawLineFits
    <3>2. deltas'[s] <= 1 /\ heard'[s] # 0
      BY <1>4, <2>1, <2>2, <2>3, <2>4, <2>11, <3>1 DEF ClawRunFits
    <3>3. ~ClawEarly(s)
      BY <2>2 DEF ClawEarly, Pending
    <3> QED BY <1>2, <2>6, <2>11, <3>2, <3>3 DEF ClawRunFits, ClawEarly, ClawKnown, server,
                 runs, ghosts
  <2>12. \A l \in ClawLines : ClawHears(l)' =>
          \/ ClawHears(l) /\ (l.s = s /\ ClawLineFits(l) => ClawLineFits(l)')
          \/ l.s = s /\ ClawLineFits(l)'
    BY <1>7, <2>9
  <2>13. works' = works
    BY <1>2 DEF server
  <2> QED BY <2>7, <2>8, <2>10, <2>11, <2>12, <2>13, ClawMoves
<1> QED BY <1>8, <1>9

(* The end of a turn is known: the run is settled, perhaps with an answer. *)
LEMMA ClawSettles ==
  ASSUME ClawInv, NEW s \in Session, UNCHANGED <<adapter, server, heard, deltas, runs, ghosts>>,
         wire' \in [Client -> Seq(ClawLines)],
         \A l \in ClawLines : ClawHears(l)' => ClawHears(l),
         settled' = settled \/ settled' = Set(settled, s, "done")
           \/ settled' = Set(settled, s, "failed"),
         answer' = answer \/ \E n \in Nat : answer' = Set(answer, s, n),
         settled' = settled \/ (run[s] \in Nat /\ <<s, run[s]>> \notin works),
         answer' = answer \/ (~ClawEarly(s) /\ (answer'[s] = run[s] \/ ~ClawKnown(s)))
  PROVE  ClawInv'
<1>1. ClawTypes
  BY DEF ClawInv
<1>2. /\ settled' \in [Session -> {"open", "done", "failed"}] /\ answer' \in [Session -> Nat]
      /\ \A x \in Session : x # s => settled'[x] = settled[x] /\ answer'[x] = answer[x]
  <2>1. settled \in [Session -> {"open", "done", "failed"}] /\ answer \in [Session -> Nat]
    BY <1>1 DEF ClawTypes, TypeOK
  <2>2. answer' \in [Session -> Nat] /\ \A x \in Session : x # s => answer'[x] = answer[x]
    <3>1. ASSUME NEW n \in Nat, answer' = Set(answer, s, n)
          PROVE  answer' \in [Session -> Nat]
                   /\ \A x \in Session : x # s => answer'[x] = answer[x]
      BY <2>1, <3>1 DEF Set
    <3> QED BY <2>1, <3>1
  <2>3. settled' \in [Session -> {"open", "done", "failed"}]
          /\ \A x \in Session : x # s => settled'[x] = settled[x]
    BY <2>1 DEF Set
  <2> QED BY <2>2, <2>3
<1>3. ClawTypes'
  BY <1>1, <1>2 DEF ClawTypes, TypeOK, adapter, server, runs
<1>4. \A x \in Session : x # s => ClawSame(x)
  BY <1>2 DEF ClawSame, server, runs, ghosts
<1>5. \A l \in ClawLines : ClawLineFits(l) => ClawLineFits(l)'
  BY DEF ClawLineFits, ClawEarly, ClawKnown, server, runs, ghosts
<1>6. ASSUME NEW n \in Nat, <<s, n>> \in works, ClawWorkFits(s, n) PROVE ClawWorkFits(s, n)'
  BY <1>6 DEF ClawWorkFits, ClawEarly, Pending, runs, ghosts
<1>7. ClawRunFits(s) => ClawRunFits(s)'
  BY DEF ClawRunFits, ClawEarly, ClawKnown, server, runs, ghosts
<1>8. \A l \in ClawLines : ClawHears(l)' =>
        \/ ClawHears(l) /\ (l.s = s /\ ClawLineFits(l) => ClawLineFits(l)')
        \/ l.s = s /\ ClawLineFits(l)'
  BY <1>5
<1>9. works' = works
  BY DEF server
<1> QED BY <1>3, <1>4, <1>6, <1>7, <1>8, <1>9, ClawMoves

(* The last message of the session is there: it is the baseline or the     *)
(* run's own.                                                              *)
LEMMA ClawReconciled ==
  ASSUME ClawInv, NEW c \in Client, Reconciled(c)
  PROVE  ClawInv'
<1>1. ClawTypes
  BY DEF ClawInv
<1>2. wire[c] # <<>> /\ Head(wire[c]).m = "latest" /\ wire' = Set(wire, c, Tail(wire[c]))
      /\ UNCHANGED <<adapter, server, heard, deltas, runs, ghosts>>
  BY DEF Reconciled, Reads
<1>3. PICK line : line = Head(wire[c])
  OBVIOUS
<1>4. line \in ClawLines /\ line.s \in Session /\ line.n \in Nat /\ line.v \in Nat
        /\ ClawLineFits(line)
      /\ line.m = "latest"
  BY <1>2, <1>3, ClawHead
<1>5. PICK s \in Session : s = line.s
  BY <1>4
<1>6. wire' \in [Client -> Seq(ClawLines)] /\ \A l \in ClawLines : ClawHears(l)' => ClawHears(l)
  BY <1>1, <1>2, ClawRead
<1>7. LET open == Mine(line, "reading") /\ settled[s] = "open"
          new  == line.v # 0 /\ line.v # baseline[s]
      IN /\ settled' = IF open THEN Set(settled, s, IF new THEN "done" ELSE "failed") ELSE settled
         /\ answer' = IF open /\ new THEN Set(answer, s, line.v) ELSE answer
  BY <1>3, <1>5 DEF Reconciled
<1>8. CASE Mine(line, "reading")
  <2>1. step[s] = "reading" /\ run[s] = line.n
    BY <1>5, <1>8 DEF Mine
  <2>2. run[s] \in Nat /\ <<s, run[s]>> \notin works
    BY <1>4, <1>5, <2>1 DEF ClawLineFits
  <2>3. ClawKnown(s) => line.v \in {baseline[s], run[s]}
    BY <1>4, <1>5, <2>1 DEF ClawLineFits
  <2>4. answer' = answer \/ (answer' = Set(answer, s, line.v) /\ line.v # baseline[s])
    BY <1>7
  <2>5. answer' = Set(answer, s, line.v) => answer'[s] = line.v
    BY <1>1 DEF Set, ClawTypes
  <2>6. answer' = answer \/ (~ClawEarly(s) /\ (answer'[s] = run[s] \/ ~ClawKnown(s)))
    BY <2>1, <2>3, <2>4, <2>5 DEF ClawEarly
  <2>7. settled' = settled \/ settled' = Set(settled, s, "done")
          \/ settled' = Set(settled, s, "failed")
    BY <1>7
  <2>8. answer' = answer \/ \E n \in Nat : answer' = Set(answer, s, n)
    BY <1>4, <2>4
  <2> QED BY <1>2, <1>6, <2>2, <2>6, <2>7, <2>8, ClawSettles
<1>9. CASE ~Mine(line, "reading")
  <2>1. settled' = settled /\ answer' = answer
    BY <1>7, <1>9
  <2> QED BY <1>2, <1>6, <2>1, ClawSettles
<1> QED BY <1>8, <1>9

(* agent.wait was answered: the last message, which is asked for now, is   *)
(* the baseline or the run's own.                                          *)
LEMMA ClawWaited ==
  ASSUME ClawInv, NEW c \in Client, Waited(c)
  PROVE  ClawInv'
<1>1. ClawTypes
  BY DEF ClawInv
<1>2. wire[c] # <<>> /\ Head(wire[c]).m = "waited"
      /\ UNCHANGED <<adapter, server, heard, deltas, answer, runs, ghosts>>
  BY DEF Waited, Reads
<1>3. PICK line : line = Head(wire[c])
  OBVIOUS
<1>4. line \in ClawLines /\ line.s \in Session /\ line.n \in Nat /\ ClawLineFits(line)
      /\ line.m = "waited" /\ ClawGood(line.s)
  BY <1>2, <1>3, ClawHead
<1>5. PICK s \in Session : s = line.s
  BY <1>4
<1>6. PICK rest : rest = Set(wire, c, Tail(wire[c]))
  OBVIOUS
<1>7. \/ /\ Mine(line, "reading") /\ Connected
         /\ wire' = Set(rest, newest, Append(rest[newest], Line("latest", s, line.n, last[s])))
         /\ UNCHANGED settled
      \/ Mine(line, "reading") /\ settled' = Set(settled, s, "failed") /\ wire' = rest
      \/ wire' = rest /\ UNCHANGED settled
  BY <1>3, <1>5, <1>6 DEF Waited
<1>8. CASE wire' = rest
  <2>1. wire' \in [Client -> Seq(ClawLines)] /\ \A l \in ClawLines : ClawHears(l)' => ClawHears(l)
    BY <1>1, <1>2, <1>6, <1>8, ClawRead
  <2>2. run[s] \in Nat /\ (Mine(line, "reading") => <<s, run[s]>> \notin works)
    BY <1>1, <1>4, <1>5 DEF ClawLineFits, Mine, ClawTypes, TypeOK
  <2>3. CASE settled' = settled
    BY <1>2, <2>1, <2>3, ClawSettles
  <2>4. CASE settled' = Set(settled, s, "failed") /\ Mine(line, "reading")
    BY <1>2, <2>1, <2>2, <2>4, ClawSettles
  <2>5. CASE wire' = Set(rest, newest, Append(rest[newest], Line("latest", s, line.n,
               last[s]))) /\ UNCHANGED settled
    BY <1>2, <2>1, <2>5, ClawSettles
  <2> QED BY <1>7, <2>3, <2>4, <2>5
<1>9. CASE wire' # rest
  <2>1. PICK x : x = Line("latest", s, line.n, last[s])
    OBVIOUS
  <2>2. /\ step[s] = "reading" /\ run[s] = line.n /\ Connected /\ settled' = settled
        /\ wire' = Set(rest, newest, Append(rest[newest], x))
    BY <1>5, <1>7, <1>9, <2>1 DEF Mine
  <2>3. last[s] \in Nat /\ run[s] \in Nat
    BY <1>1 DEF ClawTypes, TypeOK
  <2>4. x \in ClawLines /\ x.m = "latest" /\ x.s = s /\ x.n = run[s] /\ x.v = last[s]
    BY <2>1, <2>2, <2>3, ClawLine DEF ClawKinds
  <2>5. wire' \in [Client -> Seq(ClawLines)]
          /\ \A l \in ClawLines : ClawHears(l)' => ClawHears(l) \/ l = x
    BY <1>1, <1>2, <1>6, <2>2, <2>4, ClawReadPosted
  <2>6. ClawTypes'
    BY <1>1, <1>2, <2>2, <2>5 DEF ClawTypes, TypeOK, adapter, server, runs
  <2>7. \A y \in Session : ClawSame(y)
    BY <1>2, <2>2 DEF ClawSame, server, runs, ghosts
  <2>8. \A l \in ClawLines : ClawLineFits(l) => ClawLineFits(l)'
    BY <1>2 DEF ClawLineFits, ClawEarly, ClawKnown, server, runs, ghosts
  <2>9. ASSUME NEW l, l = x PROVE ClawLineFits(l)'
    <3>1. <<s, run[s]>> \notin works
      BY <1>4, <1>5, <2>2 DEF ClawLineFits
    <3>2. ClawKnown(s) => last[s] \in {baseline[s], run[s]}
      BY <1>4, <1>5, <2>2 DEF ClawGood, ClawRunFits
    <3> QED BY <1>2, <2>2, <2>3, <2>4, <2>9, <3>1, <3>2 DEF ClawLineFits, ClawEarly, ClawKnown,
                 server, runs, ghosts
  <2>10. \A n \in Nat : ClawWorkFits(s, n) => ClawWorkFits(s, n)'
    BY <1>2, <2>2 DEF ClawWorkFits, ClawEarly, Pending, runs, ghosts
  <2>11. ClawRunFits(s) => ClawRunFits(s)'
    BY <1>2 DEF ClawRunFits, ClawEarly, ClawKnown, server, runs, ghosts
  <2>12. \A l \in ClawLines : ClawHears(l)' =>
          \/ ClawHears(l) /\ (l.s = s /\ ClawLineFits(l) => ClawLineFits(l)')
          \/ l.s = s /\ ClawLineFits(l)'
    BY <2>4, <2>5, <2>8, <2>9
  <2>13. works' = works
    BY <1>2 DEF server
  <2> QED BY <2>6, <2>7, <2>10, <2>11, <2>12, <2>13, ClawMoves
<1> QED BY <1>8, <1>9

-----------------------------------------------------------------------------
(* An event of the server: every wire has what it had and the event.       *)
LEMMA ClawBroadcast ==
  ASSUME ClawTypes, NEW Q, Q \in [Client -> Seq(ClawLines)],
         wire' = [c \in Client |-> IF link[c] = "up" THEN wire[c] \o Q[c] ELSE wire[c]]
  PROVE  /\ wire' \in [Client -> Seq(ClawLines)]
         /\ \A l \in ClawLines : ClawHears(l)' => ClawHears(l)
              \/ \E c \in Client : ListHas(Q[c], l)
<1>1. \A c \in Client : wire[c] \in Seq(ClawLines) /\ Q[c] \in Seq(ClawLines)
  BY DEF ClawTypes
<1>2. wire' \in [Client -> Seq(ClawLines)]
  BY <1>1
<1>3. ASSUME NEW l \in ClawLines, NEW c \in Client, ListHas(wire'[c], l)
      PROVE  ListHas(wire[c], l) \/ ListHas(Q[c], l)
  <2>1. CASE link[c] = "up"
    <3>1. ListHas(wire[c] \o Q[c], l)
      BY <1>3, <2>1
    <3> QED BY <1>1, <3>1, HasInConcat
  <2>2. CASE link[c] # "up"
    BY <1>3, <2>2
  <2> QED BY <2>1, <2>2
<1> QED BY <1>2, <1>3 DEF ClawHears

(* A list of one line has that line.                                       *)
LEMMA HasInOne == ASSUME NEW x, NEW l, ListHas(<<x>>, l) PROVE l = x
BY DEF ListHas

(* A turn speaks: it is under way, so its run is not an earlier one unless *)
(* that one was abandoned.                                                 *)
LEMMA ClawSpeaks ==
  ASSUME ClawInv, NEW t \in works, Speaks(t)
  PROVE  ClawInv'
<1>1. ClawTypes
  BY DEF ClawInv
<1>2. PICK s \in Session, n \in Nat : t = <<s, n>>
  BY <1>1 DEF ClawTypes
<1>3. PICK x : x = Line("delta", s, n, 1)
  OBVIOUS
<1>4. x \in ClawLines /\ x.m = "delta" /\ x.s = s /\ x.n = n /\ x.v = 1
  BY <1>3, ClawLine DEF ClawKinds
<1>5. PICK Q : Q = [c \in Client |-> <<x>>]
  OBVIOUS
<1>6. wire' = [c \in Client |-> IF link[c] = "up" THEN wire[c] \o <<x>> ELSE wire[c]]
      /\ UNCHANGED <<adapter, server, pending, runs, ghosts>>
  BY <1>2, <1>3 DEF Speaks, Broadcast
<1>7. wire' = [c \in Client |-> IF link[c] = "up" THEN wire[c] \o Q[c] ELSE wire[c]]
  BY <1>5, <1>6
<1>8. Q \in [Client -> Seq(ClawLines)]
  BY <1>4, <1>5
<1>9. wire' \in [Client -> Seq(ClawLines)]
      /\ \A l \in ClawLines : ClawHears(l)' => ClawHears(l) \/ \E c \in Client : ListHas(Q[c], l)
  BY <1>1, <1>7, <1>8, ClawBroadcast
<1>10. \A l \in ClawLines : ClawHears(l)' => ClawHears(l) \/ l = x
  BY <1>5, <1>9, HasInOne
<1>11. ClawTypes'
  BY <1>1, <1>6, <1>9 DEF ClawTypes, TypeOK, adapter, server, pending, runs
<1>12. \A y \in Session : ClawSame(y)
  BY <1>6 DEF ClawSame, server, pending, runs, ghosts
<1>13. \A l \in ClawLines : ClawLineFits(l) => ClawLineFits(l)'
  BY <1>6 DEF ClawLineFits, ClawEarly, ClawKnown, server, runs, ghosts
<1>14. ClawWorkFits(s, n)
  BY <1>2 DEF ClawInv, ClawGood
<1>15. ASSUME NEW l, l = x PROVE ClawLineFits(l)'
  BY <1>4, <1>6, <1>14, <1>15 DEF ClawLineFits, ClawWorkFits, ClawEarly, runs
<1>16. \A k \in Nat : ClawWorkFits(s, k) => ClawWorkFits(s, k)'
  BY <1>6 DEF ClawWorkFits, ClawEarly, Pending, runs, pending, ghosts
<1>17. ClawRunFits(s) => ClawRunFits(s)'
  BY <1>6 DEF ClawRunFits, ClawEarly, ClawKnown, server, runs, pending, ghosts
<1>18. \A l \in ClawLines : ClawHears(l)' =>
        \/ ClawHears(l) /\ (l.s = s /\ ClawLineFits(l) => ClawLineFits(l)')
        \/ l.s = s /\ ClawLineFits(l)'
  BY <1>4, <1>10, <1>13, <1>15
<1>19. works' = works
  BY <1>6 DEF server
<1> QED BY <1>11, <1>12, <1>16, <1>17, <1>18, <1>19, ClawMoves

(* What a client gets when a turn ends speaks of that turn.                *)
LEMMA ClawLastLines ==
  ASSUME NEW c, NEW s \in Session, NEW n \in Nat, NEW m \in {"final", "lost", "error"}
  PROVE  /\ LastLines(c, s, n, m) \in Seq(ClawLines)
         /\ \A l : ListHas(LastLines(c, s, n, m), l) =>
               l.s = s /\ l.n = n /\ l.m \in {"final", "error", "waited"}
<1> DEFINE a == IF m = "lost" THEN <<>> ELSE <<Line(m, s, n, 2)>>
           b == IF [c |-> c, turn |-> <<s, n>>] \in waits THEN <<Line("waited", s, n,
             0)>> ELSE <<>>
<1>1. m # "lost" => Line(m, s, n, 2) \in ClawLines /\ Line(m, s, n, 2).m = m
                   /\ Line(m, s, n, 2).s = s /\ Line(m, s, n, 2).n = n
  BY ClawLine DEF ClawKinds
<1>2. Line("waited", s, n, 0) \in ClawLines /\ Line("waited", s, n, 0).m = "waited"
      /\ Line("waited", s, n, 0).s = s /\ Line("waited", s, n, 0).n = n
  BY ClawLine DEF ClawKinds
<1>3. a \in Seq(ClawLines) /\ b \in Seq(ClawLines)
  BY <1>1, <1>2
<1>4. ASSUME NEW l, ListHas(a, l) PROVE l.s = s /\ l.n = n /\ l.m \in {"final", "error", "waited"}
  <2>1. m # "lost" /\ ListHas(<<Line(m, s, n, 2)>>, l)
    BY <1>4, HasNothing
  <2>2. l = Line(m, s, n, 2)
    BY <2>1, HasInOne
  <2> QED BY <1>1, <2>1, <2>2
<1>5. ASSUME NEW l, ListHas(b, l) PROVE l.s = s /\ l.n = n /\ l.m \in {"final", "error", "waited"}
  <2>1. ListHas(<<Line("waited", s, n, 0)>>, l)
    BY <1>5, HasNothing
  <2>2. l = Line("waited", s, n, 0)
    BY <2>1, HasInOne
  <2> QED BY <1>2, <2>2
<1>6. LastLines(c, s, n, m) = a \o b
  BY DEF LastLines
<1> HIDE DEF a, b
<1>7. ASSUME NEW l, ListHas(a \o b, l) PROVE l.s = s /\ l.n = n
               /\ l.m \in {"final", "error", "waited"}
  <2>1. ListHas(a, l) \/ ListHas(b, l)
    BY <1>3, <1>7, HasInConcat
  <2> QED BY <1>4, <1>5, <2>1
<1>8. a \o b \in Seq(ClawLines)
  BY <1>3
<1> QED BY <1>6, <1>7, <1>8

(* A turn ends, heard or not, with a message or none: it was the run's own,*)
(* unless one was abandoned.                                               *)
LEMMA ClawEnds ==
  ASSUME ClawInv, NEW t \in works, NEW m \in {"final", "lost", "error"}, NEW writes, Ends(t, m,
           writes)
  PROVE  ClawInv'
<1>1. ClawTypes
  BY DEF ClawInv
<1>2. PICK s \in Session, n \in Nat : t = <<s, n>>
  BY <1>1 DEF ClawTypes
<1>3. PICK Q : Q = [c \in Client |-> LastLines(c, s, n, m)]
  OBVIOUS
<1>4. /\ works' = works \ {t} /\ waits' = {w \in waits : w.turn # t}
      /\ last' = IF writes THEN Set(last, s, n) ELSE last
      /\ wire' = [c \in Client |-> IF link[c] = "up" THEN wire[c] \o LastLines(c, s, n,
           m) ELSE wire[c]]
      /\ UNCHANGED <<adapter, pending, runs, ghosts>>
  BY <1>2 DEF Ends, Broadcast
<1>5. wire' = [c \in Client |-> IF link[c] = "up" THEN wire[c] \o Q[c] ELSE wire[c]]
  BY <1>3, <1>4
<1>6. Q \in [Client -> Seq(ClawLines)]
  BY <1>3, ClawLastLines
<1>7. wire' \in [Client -> Seq(ClawLines)]
      /\ \A l \in ClawLines : ClawHears(l)' => ClawHears(l) \/ \E c \in Client : ListHas(Q[c], l)
  BY <1>1, <1>5, <1>6, ClawBroadcast
<1>8. \A l \in ClawLines : ClawHears(l)' =>
         ClawHears(l) \/ (l.s = s /\ l.n = n /\ l.m \in {"final", "error", "waited"})
  BY <1>3, <1>7, ClawLastLines
<1>9. last' \in [Session -> Nat] /\ last'[s] \in {last[s], n}
        /\ \A x \in Session : x # s => last'[x] = last[x]
  BY <1>1, <1>4 DEF Set, ClawTypes
<1>10. ClawTypes'
  BY <1>1, <1>4, <1>7, <1>9 DEF ClawTypes, TypeOK, adapter, pending, runs
<1>11. \A x \in Session : x # s => ClawSame(x)
  BY <1>2, <1>4, <1>9 DEF ClawSame, pending, runs, ghosts
<1>12. ClawWorkFits(s, n)
  BY <1>2 DEF ClawInv, ClawGood
<1>13. s \notin abandoned => n = run[s] /\ step[s] \in {"sending", "reading"}
  BY <1>12 DEF ClawWorkFits, Pending
<1>14. ASSUME NEW l \in ClawLines, l.s = s, ClawLineFits(l) PROVE ClawLineFits(l)'
  BY <1>4, <1>9, <1>13, <1>14 DEF ClawLineFits, ClawEarly, ClawKnown, runs, ghosts
<1>15. ASSUME NEW l \in ClawLines, l.s = s, l.n = n, l.m \in {"final", "error", "waited"}
       PROVE  ClawLineFits(l)'
  BY <1>2, <1>4, <1>12, <1>15 DEF ClawLineFits, ClawWorkFits, ClawEarly, runs
<1>16. \A k \in Nat : ClawWorkFits(s, k) => ClawWorkFits(s, k)'
  BY <1>4 DEF ClawWorkFits, ClawEarly, Pending, runs, pending, ghosts
<1>17. ClawRunFits(s) => ClawRunFits(s)'
  BY <1>4, <1>9, <1>13 DEF ClawRunFits, ClawEarly, ClawKnown, runs, pending, ghosts
<1>18. \A l \in ClawLines : ClawHears(l)' =>
        \/ ClawHears(l) /\ (l.s = s /\ ClawLineFits(l) => ClawLineFits(l)')
        \/ l.s = s /\ ClawLineFits(l)'
  BY <1>8, <1>14, <1>15
<1>19. works' \subseteq works
  BY <1>4
<1> QED BY <1>10, <1>11, <1>16, <1>17, <1>18, <1>19, ClawMoves

(* Every step keeps the invariant.                                         *)
LEMMA ClawNext ==
  OpenClawAssumption /\ ClawInv /\ [Next]_vars => ClawInv'
<1> SUFFICES ASSUME OpenClawAssumption, ClawInv, [Next]_vars PROVE ClawInv'
  OBVIOUS
<1>1. ASSUME NEW s \in Session, Cancel(s) PROVE ClawInv'
  <2>1. <<s, run[s]>> \in works /\ Ends(<<s, run[s]>>, "error", FALSE)
    BY <1>1 DEF Cancel, Fails
  <2> QED BY <2>1, ClawEnds
<1>2. ASSUME NEW t \in works, Completes(t) \/ EndsUnheard(t) \/ Fails(t) PROVE ClawInv'
  <2>1. \E m \in {"final", "lost", "error"}, writes \in BOOLEAN : Ends(t, m, writes)
    BY <1>2 DEF Completes, EndsUnheard, Fails
  <2> QED BY <2>1, ClawEnds
<1>3. ASSUME NEW c \in Client, Deliver(c) PROVE ClawInv'
  BY <1>3, ClawBaselined, ClawSent, ClawEventStep, ClawReconciled, ClawWaited DEF Deliver
<1>4. CASE UNCHANGED vars
  <2>1. ClawTypes'
    BY <1>4 DEF ClawInv, ClawTypes, TypeOK, vars, adapter, server, pending, runs
  <2>2. \A x \in Session : ClawSame(x)
    BY <1>4 DEF ClawSame, vars, server, pending, runs, ghosts
  <2>3. \A l : ClawHears(l)' => ClawHears(l)
    BY <1>4 DEF ClawHears, vars
  <2> QED BY <2>1, <2>2, <2>3, ClawQuiet
<1>5. ASSUME NEW s \in Session, Begin(s) \/ ReadBaseline(s) \/ Send(s) \/ Finish(s)
               \/ Timeout(s) \/ SendTimesOut(s)
      PROVE  ClawInv'
  BY <1>5, ClawBegin, ClawReadBaseline, ClawSend, ClawFinish, ClawGivenUp
<1>6. ASSUME NEW c \in Client, Hello(c) \/ Close(c) PROVE ClawInv'
  BY <1>6, ClawHello, ClawClose
<1>7. CASE ConnectFails \/ Stop
  BY <1>7, ClawHello, ClawStop
<1> QED BY <1>1, <1>2, <1>3, <1>4, <1>5, <1>6, <1>7, ClawSpeaks DEF Next

(* The invariant of every reachable state.                                 *)
THEOREM OpenClawInvariant == OpenClawAssumption /\ Spec => []ClawInv
<1> SUFFICES ASSUME OpenClawAssumption PROVE Spec => []ClawInv
  OBVIOUS
<1>1. Init => ClawInv
  BY ClawStarts
<1>2. ClawInv /\ [Next]_vars => ClawInv'
  BY ClawNext
<1> QED BY <1>1, <1>2, PTL DEF Spec

(* Every variable has its type, for any number of sessions, runs and       *)
(* clients.                                                                *)
THEOREM OpenClawTypeOK == OpenClawAssumption /\ Spec => []TypeOK
<1>1. ClawInv => TypeOK
  BY DEF ClawInv, ClawTypes
<1> QED BY <1>1, OpenClawInvariant, PTL

(* A run answers with the message of its own turn. The reconciliation      *)
(* (reconcileRun) takes another one only if the baseline of the run could  *)
(* not be read, or an earlier turn of its session was still under way when *)
(* its run had ended.                                                      *)
THEOREM OpenClawOwnWords == OpenClawAssumption /\ Spec => []OwnWords
<1>1. ClawInv => OwnWords
  BY DEF ClawInv, ClawTypes, ClawGood, ClawRunFits, ClawKnown, OwnWords
<1> QED BY <1>1, OpenClawInvariant, PTL

(* No text is passed on twice, though the adapter may have several clients *)
(* connected that hear the same chat event (lastSeq in onChatEvent).       *)
THEOREM OpenClawTextOnce == OpenClawAssumption /\ Spec => []TextOnce
<1>1. ClawInv => TextOnce
  BY DEF ClawInv, ClawTypes, ClawGood, ClawRunFits, TextOnce
<1> QED BY <1>1, OpenClawInvariant, PTL
=============================================================================
