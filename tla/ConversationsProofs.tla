------------------------ MODULE ConversationsProofs -------------------------
(***************************************************************************)
(* Turns of a conversation never overlap, slots and reservations are exact, *)
(* and verdicts stand, for any number of conversations, messages, slots,    *)
(* questions, attempts and faults.                                         *)
(*                                                                         *)
(* The invariant orders the unfinished jobs of each conversation: there is  *)
(* a place r[j] for every job such that the entry of queues is the last one *)
(* of its line, and every job but the first still waits for the one directly *)
(* in front of it.  Questions exist in the order of their numbers, no resume *)
(* row exists before its question has a verdict, no job is known before its *)
(* message or its claim, and runWaiters holds every job that waits for a    *)
(* slot once.                                                              *)
(***************************************************************************)
EXTENDS Conversations, FiniteSetTheorems, TLAPS

USE ConversationsAssumption DEF ConversationsAssumption

-----------------------------------------------------------------------------
(* Questions.                                                              *)

(* Questions exist in the order of their numbers; no resume row exists       *)
(* before its question has a verdict, and only a row that exists is claimed. *)
AsksInOrder == \E n \in 0 .. MaxAsks : \A i \in Asks : ask[i] # "none" <=> i <= n
RowsFollowVerdicts ==
  \A i \in Asks :
    /\ ask[i] \in {"none", "pending"} => resume[i] = "none"
    /\ attempts[i] > 0 => resume[i] # "none"

AsksInv == AsksInOrder /\ RowsFollowVerdicts /\ OneOpenAsk

(* What a step may do to a question that exists.                           *)
AskKept(i) ==
  /\ ask[i] # "none" => ask'[i] # "none" /\ kind'[i] = kind[i] /\ home'[i] = home[i]
  /\ ask[i] \in AskVerdict => ask'[i] = ask[i]
  /\ resume[i] \in {"delivered", "dead"} => resume'[i] = resume[i]
  /\ attempts'[i] \in Nat /\ attempts'[i] >= attempts[i]

(* The ways in which the steps change questions and resumes.               *)
AskChange ==
  \/ UNCHANGED <<asks, resume, attempts>>
  \/ /\ \E c \in Conv, k \in AskKind, s \in {"pending", "cancelled"} : Create(c, k, s)
     /\ UNCHANGED <<resume, attempts>>
  \/ \E i \in Asks, d \in {"answered", "cancelled"} : ResolveAsk(i, d)
  \/ /\ \E i \in Asks : lapsed' = lapsed \cup {i}
     /\ UNCHANGED <<ask, kind, home, resume, attempts>>
  \/ \E i \in Asks, s \in {"delivered", "dead", "pending"} : Settled(i, s) /\ UNCHANGED asks
  \/ Flush

(* Each step changes them in one of these ways.                            *)
LEMMA EveryAskChange == TypeOK /\ [Next]_vars => AskChange
<1> SUFFICES ASSUME TypeOK, [Next]_vars PROVE AskChange
  OBVIOUS
<1>1. ASSUME NEW m \in Message, MessageStep(m) PROVE AskChange
  <2>1. CASE Admit(m) \/ AbandonRun(m) \/ Closed(m)
    BY <2>1 DEF AskChange, Admit, AbandonRun, Closed, rows
  <2>2. CASE TextAnswer(m)
    BY <2>2 DEF AskChange, TextAnswer, rows, OpenText
  <2>3. CASE FinishRun(m)
    BY <2>3 DEF AskChange, FinishRun, Offered, Shown, Unstored, rows, TypeOK
  <2>4. ASSUME NEW k \in AskKind, OpenAsk(m, k) PROVE AskChange
    BY <2>4 DEF AskChange, OpenAsk, Shown, Refused, Unstored, rows, TypeOK
  <2> QED BY <1>1, <2>1, <2>2, <2>3, <2>4 DEF MessageStep
<1>2. ASSUME NEW i \in Asks, AskStep(i) PROVE AskChange
  BY <1>2 DEF AskChange, AskStep, Acked, Lapse, TimePasses, Answer, rows, asks
<1>3. ASSUME NEW i \in Asks, NEW k \in Claims, ResumeStep(i, k) PROVE AskChange
  <2>1. CASE ResumeLive(i, k)
    BY <2>1 DEF AskChange, ResumeLive, Shown, Refused, Unstored, rows, TypeOK
  <2>2. CASE ContinueTurn(i, k)
    BY <2>2 DEF AskChange, ContinueTurn, Shown, Refused, Unstored, rows, TypeOK
  <2>3. CASE CompleteResume(i, k)
    BY <2>3 DEF AskChange, CompleteResume, rows
  <2>4. CASE SettleFailedResume(i, k)
    BY <2>4 DEF AskChange, SettleFailedResume, rows
  <2> QED BY <1>3, <2>1, <2>2, <2>3, <2>4 DEF ResumeStep
<1>4. ASSUME NEW j \in Job, Acquire(j) PROVE AskChange
  BY <1>4 DEF AskChange, Acquire, rows
<1>5. ASSUME NEW F \in flights, FlightOver(F) PROVE AskChange
  BY <1>5 DEF AskChange, FlightOver, rows
<1>6. CASE Start \/ Stop \/ Stopped \/ Crash \/ UNCHANGED vars
  BY <1>6 DEF AskChange, Start, Stop, Stopped, Crash, Gone, rows, vars
<1>7. CASE Flush
  BY <1>7 DEF AskChange
<1> QED BY <1>1, <1>2, <1>3, <1>4, <1>5, <1>6, <1>7 DEF Next

(* The next question is the first that does not exist.                     *)
LEMMA NewAskIsNext ==
  ASSUME TypeOK, AsksInOrder
  PROVE  NewAsk \in Nat /\ \A i \in Asks : ask[i] # "none" <=> i < NewAsk
<1>1. PICK n \in 0 .. MaxAsks : \A i \in Asks : ask[i] # "none" <=> i <= n
  BY DEF AsksInOrder
<1>2. {i \in Asks : ask[i] # "none"} = 1 .. n
  BY <1>1 DEF Asks
<1>3. Cardinality(1 .. n) = n
  BY FS_Interval
<1>4. NewAsk = n + 1
  BY <1>2, <1>3 DEF NewAsk
<1> QED BY <1>1, <1>4 DEF Asks

(* The attempts of a resume are a number.                                  *)
LEMMA AttemptsAreNumbers == TypeOK => \A i \in Asks : attempts[i] \in Nat
  BY DEF TypeOK, Claims

(* A step that leaves questions and resumes alone keeps what they are.     *)
LEMMA AskUnchanged ==
  ASSUME TypeOK, NEW i \in Asks, UNCHANGED <<ask, kind, home, resume, attempts>>
  PROVE  AskKept(i)
  BY AttemptsAreNumbers DEF AskKept

(* A new question takes the place of what was offered before.              *)
LEMMA CreateStep ==
  ASSUME TypeOK, AsksInv, NEW c \in Conv, NEW k \in AskKind, NEW s \in {"pending", "cancelled"},
         Create(c, k, s), UNCHANGED <<resume, attempts>>
  PROVE  AsksInv' /\ \A i \in Asks : AskKept(i)
<1>1. NewAsk \in Asks /\ \A i \in Asks : ask[i] # "none" <=> i < NewAsk
  BY NewAskIsNext DEF AsksInv, Create
<1> DEFINE a == NewAsk
<1>2. a \in Asks /\ ask[a] = "none" /\ \A i \in Asks : ask[i] # "none" <=> i < a
  BY <1>1 DEF Asks
<1>3. /\ ~Held(c)
      /\ ask' = [i \in Asks |-> IF i = a THEN s
                                ELSE IF Pending(i) /\ home[i] = c THEN "cancelled" ELSE ask[i]]
      /\ kind' = [kind EXCEPT ![a] = k] /\ home' = [home EXCEPT ![a] = c]
      /\ UNCHANGED lapsed
  BY DEF Create
<1> HIDE DEF a
<1>4. AsksInOrder'
  <2>1. \A i \in Asks : ask'[i] # "none" <=> i <= a
    BY <1>2, <1>3 DEF TypeOK, Asks, Pending, AskVerdict
  <2>2. a \in 0 .. MaxAsks
    BY <1>2 DEF Asks
  <2> QED BY <2>1, <2>2 DEF AsksInOrder
<1>5. RowsFollowVerdicts'
  BY <1>2, <1>3 DEF AsksInv, RowsFollowVerdicts, TypeOK, Pending
<1>6. OneOpenAsk'
  BY <1>2, <1>3 DEF AsksInv, OneOpenAsk, TypeOK, Pending
<1>7. \A i \in Asks : AskKept(i)
  BY <1>2, <1>3, AttemptsAreNumbers DEF AskKept, TypeOK, Pending, AskVerdict
<1> QED BY <1>4, <1>5, <1>6, <1>7 DEF AsksInv

(* The sweep expires questions, the claim leases resumes.                  *)
LEMMA FlushAsks ==
  ASSUME TypeOK, AsksInv, Flush
  PROVE  AsksInv' /\ \A i \in Asks : AskKept(i)
<1>1. PICK S \in SUBSET ToExpire, due \in SUBSET Asks :
        /\ ask' = Expired(S)
        /\ \A i \in due : resume[i] \in {"pending", "leased"} \/ i \in Revived(S)
        /\ resume' = [i \in Asks |-> IF i \in due THEN "leased"
                                     ELSE IF i \in Revived(S) THEN "pending" ELSE resume[i]]
        /\ attempts' = [i \in Asks |-> IF i \in due THEN attempts[i] + 1 ELSE attempts[i]]
        /\ UNCHANGED <<kind, home, lapsed>>
  <2>1. PICK swept, claimed \in BOOLEAN :
          LET S      == IF swept THEN ToExpire ELSE {}
              status == [i \in Asks |-> IF i \in Revived(S) THEN "pending" ELSE resume[i]]
              due    == {i \in Asks : i \in ripe \cup Revived(S) /\ status[i] \in {"pending", "leased"}}
          IN  /\ ask' = Expired(S)
              /\ ClaimResumes(status, IF claimed THEN due ELSE {})
    BY DEF Flush
  <2> DEFINE S == IF swept THEN ToExpire ELSE {}
             status == [i \in Asks |-> IF i \in Revived(S) THEN "pending" ELSE resume[i]]
             due == {i \in Asks : i \in ripe \cup Revived(S) /\ status[i] \in {"pending", "leased"}}
             claim == IF claimed THEN due ELSE {}
  <2>2. S \in SUBSET ToExpire /\ claim \in SUBSET Asks
    OBVIOUS
  <2>3. \A i \in claim : resume[i] \in {"pending", "leased"} \/ i \in Revived(S)
    OBVIOUS
  <2>4. /\ resume' = [i \in Asks |-> IF i \in claim THEN "leased" ELSE status[i]]
        /\ attempts' = [i \in Asks |-> IF i \in claim THEN attempts[i] + 1 ELSE attempts[i]]
    BY <2>1 DEF ClaimResumes
  <2>5. resume' = [i \in Asks |-> IF i \in claim THEN "leased"
                                  ELSE IF i \in Revived(S) THEN "pending" ELSE resume[i]]
    BY <2>4
  <2>6. UNCHANGED <<kind, home, lapsed>>
    BY DEF Flush
  <2> QED BY <2>1, <2>2, <2>3, <2>4, <2>5, <2>6
<1>2. \A i \in Asks : ask'[i] = IF i \in S THEN "expired" ELSE ask[i]
  BY <1>1 DEF Expired
<1>3. \A i \in S : i \in Asks /\ ask[i] = "pending"
  BY <1>1 DEF ToExpire
<1>4. Revived(S) \subseteq S
  BY DEF Revived
<1>5. \A i \in Asks : resume'[i] = IF i \in due THEN "leased"
                                   ELSE IF i \in Revived(S) THEN "pending" ELSE resume[i]
  BY <1>1
<1>6. \A i \in Asks : attempts'[i] = IF i \in due THEN attempts[i] + 1 ELSE attempts[i]
  BY <1>1
<1>7. AsksInOrder'
  BY <1>2, <1>3 DEF AsksInv, AsksInOrder
<1>8. RowsFollowVerdicts'
  <2>1. \A i \in Asks : ask'[i] \in {"none", "pending"} => resume'[i] = "none"
    BY <1>1, <1>2, <1>3, <1>4, <1>5 DEF AsksInv, RowsFollowVerdicts
  <2>2. \A i \in Asks : attempts'[i] > 0 => resume'[i] # "none"
    BY <1>1, <1>5, <1>6 DEF AsksInv, RowsFollowVerdicts
  <2> QED BY <2>1, <2>2 DEF RowsFollowVerdicts
<1>9. OneOpenAsk'
  BY <1>1, <1>2, <1>3 DEF AsksInv, OneOpenAsk, Pending
<1>10. \A i \in Asks : AskKept(i)
  <2> TAKE i \in Asks
  <2>1. /\ ask[i] # "none" => ask'[i] # "none" /\ kind'[i] = kind[i] /\ home'[i] = home[i]
        /\ ask[i] \in AskVerdict => ask'[i] = ask[i]
    BY <1>1, <1>2, <1>3 DEF AskVerdict
  <2>2. resume[i] \in {"delivered", "dead"} => resume'[i] = resume[i]
    BY <1>1, <1>3, <1>4, <1>5 DEF AsksInv, RowsFollowVerdicts
  <2>3. attempts'[i] \in Nat /\ attempts'[i] >= attempts[i]
    BY <1>6, AttemptsAreNumbers
  <2> QED BY <2>1, <2>2, <2>3 DEF AskKept
<1> QED BY <1>7, <1>8, <1>9, <1>10 DEF AsksInv

(* Every change preserves the invariant and what is said of a question.    *)
LEMMA AsksStep ==
  ASSUME TypeOK, AsksInv, [Next]_vars
  PROVE  AsksInv' /\ \A i \in Asks : AskKept(i)
<1>1. CASE UNCHANGED <<asks, resume, attempts>>
  <2>1. AsksInv'
    BY <1>1 DEF AsksInv, AsksInOrder, RowsFollowVerdicts, OneOpenAsk, Pending, asks
  <2> QED BY <1>1, <2>1, AskUnchanged DEF asks
<1>2. ASSUME NEW i \in Asks, NEW d \in {"answered", "cancelled"}, ResolveAsk(i, d)
      PROVE  AsksInv' /\ \A q \in Asks : AskKept(q)
  <2>1. AsksInOrder'
    BY <1>2 DEF AsksInv, AsksInOrder, ResolveAsk, TypeOK, Pending
  <2>2. RowsFollowVerdicts'
    BY <1>2 DEF AsksInv, RowsFollowVerdicts, ResolveAsk, TypeOK, Pending
  <2>3. OneOpenAsk'
    BY <1>2 DEF AsksInv, OneOpenAsk, ResolveAsk, TypeOK, Pending
  <2>4. \A q \in Asks : AskKept(q)
    BY <1>2, AttemptsAreNumbers
       DEF AskKept, AsksInv, RowsFollowVerdicts, ResolveAsk, TypeOK, Pending, AskVerdict
  <2> QED BY <2>1, <2>2, <2>3, <2>4 DEF AsksInv
<1>3. ASSUME NEW i \in Asks, lapsed' = lapsed \cup {i},
             UNCHANGED <<ask, kind, home, resume, attempts>>
      PROVE  AsksInv' /\ \A q \in Asks : AskKept(q)
  <2>1. AsksInOrder' /\ RowsFollowVerdicts'
    BY <1>3 DEF AsksInv, AsksInOrder, RowsFollowVerdicts
  <2>2. OneOpenAsk'
    BY <1>3 DEF AsksInv, OneOpenAsk, Pending
  <2> QED BY <1>3, <2>1, <2>2, AskUnchanged DEF AsksInv
<1>4. ASSUME NEW i \in Asks, NEW s \in {"delivered", "dead", "pending"}, Settled(i, s),
             UNCHANGED asks
      PROVE  AsksInv' /\ \A q \in Asks : AskKept(q)
  <2>1. AsksInOrder' /\ OneOpenAsk'
    BY <1>4 DEF AsksInv, AsksInOrder, OneOpenAsk, Pending, asks
  <2>2. RowsFollowVerdicts'
    BY <1>4 DEF AsksInv, RowsFollowVerdicts, Settled, Holds, TypeOK, asks
  <2>3. \A q \in Asks : AskKept(q)
    BY <1>4, AttemptsAreNumbers DEF AskKept, Settled, Holds, TypeOK, asks
  <2> QED BY <2>1, <2>2, <2>3 DEF AsksInv
<1>5. ASSUME NEW c \in Conv, NEW k \in AskKind, NEW s \in {"pending", "cancelled"},
             Create(c, k, s), UNCHANGED <<resume, attempts>>
      PROVE  AsksInv' /\ \A q \in Asks : AskKept(q)
  BY <1>5, CreateStep
<1>6. CASE Flush
  BY <1>6, FlushAsks
<1>7. AskChange
  BY EveryAskChange
<1> QED BY <1>1, <1>2, <1>3, <1>4, <1>5, <1>6, <1>7 DEF AskChange

-----------------------------------------------------------------------------
(* Jobs.                                                                   *)

Chains(j) == j \in Message \/ ~Direct(j[1])         \* it waits for its conversation
Chained   == {j \in Job : Unfinished(j) /\ Chains(j)}
Turns     == {j \in Job : InTurn(j)}
TurnStates == {"running", "closing", "resumed", "failed"}

(* What a job can be before it is known to the gateway, and that only jobs  *)
(* of a chain wait.                                                        *)
JobsInv ==
  /\ \A m \in Message : m \notin inbox => at[m] = "none"
  /\ \A m \in Message : at[m] \notin {"resumed", "failed"}
  /\ \A i \in Asks, k \in Claims :
       at[<<i, k>>] # "none" => k <= attempts[i] /\ ask[i] # "none"
  /\ \A j \in Job : at[j] \in {"queued", "slot"} => Chains(j)

(* runWaiters holds those who wait for a slot, each once.                  *)
WaitersInv ==
  /\ \A n \in 1 .. Len(waiters) : at[waiters[n]] = "slot"
  /\ \A n, p \in 1 .. Len(waiters) : waiters[n] = waiters[p] => n = p
  /\ \A j \in Job : at[j] = "slot" => \E n \in 1 .. Len(waiters) : waiters[n] = j

(* The ways in which the steps change jobs and slots.                      *)
JobChange ==
  \/ UNCHANGED <<inbox, at, chains, counts>>
  \/ \E j \in Job : Acquire(j)
  \/ \E m \in Message : Admit(m)
  \/ \E m \in Message :
       /\ m \notin inbox /\ inbox' = inbox \cup {m}
       /\ at' = [at EXCEPT ![m] = "answer"] /\ UNCHANGED <<chains, counts>>
  \/ \E j \in Job, s \in TurnStates :
       /\ at[j] \in TurnStates /\ at' = [at EXCEPT ![j] = s]
       /\ j \in Message => s = "closing"
       /\ UNCHANGED <<inbox, chains, counts>>
  \/ \E m \in Message : Closed(m)
  \/ \E i \in Asks, k \in Claims :
       /\ at[<<i, k>>] \in TurnStates /\ Return(i, k) /\ UNCHANGED <<inbox, counts>>
  \/ Flush
  \/ Gone

(* Each step changes them in one of these ways.                            *)
LEMMA EveryJobChange == TypeOK /\ [Next]_vars => JobChange
<1> SUFFICES ASSUME TypeOK, [Next]_vars PROVE JobChange
  OBVIOUS
<1>1. ASSUME NEW m \in Message, MessageStep(m) PROVE JobChange
  <2>1. CASE Admit(m) \/ Closed(m)
    BY <2>1 DEF JobChange
  <2>2. CASE TextAnswer(m)
    BY <2>2 DEF JobChange, TextAnswer
  <2>3. CASE FinishRun(m)
    BY <2>3 DEF JobChange, FinishRun, TurnStates, Job
  <2>4. CASE AbandonRun(m)
    BY <2>4 DEF JobChange, AbandonRun, TurnStates, Job
  <2>5. ASSUME NEW k \in AskKind, OpenAsk(m, k) PROVE JobChange
    <3>1. \/ UNCHANGED at
          \/ at[m] = "running" /\ at' = [at EXCEPT ![m] = "closing"]
      BY <2>5 DEF OpenAsk
    <3>2. UNCHANGED <<inbox, chains, counts>>
      BY <2>5 DEF OpenAsk
    <3> QED BY <3>1, <3>2 DEF JobChange, TurnStates, Job
  <2> QED BY <1>1, <2>1, <2>2, <2>3, <2>4, <2>5 DEF MessageStep
<1>2. ASSUME NEW i \in Asks, AskStep(i) PROVE JobChange
  BY <1>2 DEF JobChange, AskStep, Acked, Lapse, TimePasses, Answer
<1>3. ASSUME NEW i \in Asks, NEW k \in Claims, ResumeStep(i, k) PROVE JobChange
  <2> <<i, k>> \in Job /\ <<i, k>> \notin Message
    BY JobsAssumption DEF Job, Resume
  <2>1. CASE ResumeLive(i, k)
    <3>1. /\ at[<<i, k>>] = "running" /\ UNCHANGED <<inbox, chains, counts>>
          /\ \E s \in {"resumed", "failed"} : at' = [at EXCEPT ![<<i, k>>] = s]
      BY <2>1 DEF ResumeLive
    <3> QED BY <3>1 DEF JobChange, TurnStates
  <2>2. CASE ContinueTurn(i, k)
    <3>1. /\ at[<<i, k>>] = "running" /\ UNCHANGED <<inbox, chains, counts>>
          /\ \E s \in {"resumed", "failed"} : at' = [at EXCEPT ![<<i, k>>] = s]
      BY <2>2 DEF ContinueTurn
    <3> QED BY <3>1 DEF JobChange, TurnStates
  <2>3. CASE CompleteResume(i, k)
    <3>1. /\ at[<<i, k>>] = "resumed" /\ UNCHANGED <<inbox, counts>>
          /\ \/ Return(i, k)
             \/ at' = [at EXCEPT ![<<i, k>>] = "failed"] /\ UNCHANGED chains
      BY <2>3 DEF CompleteResume
    <3> QED BY <3>1 DEF JobChange, TurnStates
  <2>4. CASE SettleFailedResume(i, k)
    <3>1. at[<<i, k>>] = "failed" /\ UNCHANGED <<inbox, counts>> /\ Return(i, k)
      BY <2>4 DEF SettleFailedResume
    <3> QED BY <3>1 DEF JobChange, TurnStates
  <2> QED BY <1>3, <2>1, <2>2, <2>3, <2>4 DEF ResumeStep
<1>4. ASSUME NEW j \in Job, Acquire(j) PROVE JobChange
  BY <1>4 DEF JobChange
<1>5. ASSUME NEW F \in flights, FlightOver(F) PROVE JobChange
  BY <1>5 DEF JobChange, FlightOver
<1>6. CASE Start \/ Stop \/ UNCHANGED vars
  BY <1>6 DEF JobChange, Start, Stop, vars
<1>7. CASE Stopped \/ Crash
  BY <1>7 DEF JobChange, Stopped, Crash
<1>8. CASE Flush
  BY <1>8 DEF JobChange
<1> QED BY <1>1, <1>2, <1>3, <1>4, <1>5, <1>6, <1>7, <1>8 DEF Next

-----------------------------------------------------------------------------
(* The promise chain of a conversation is a line.  C are the jobs in a      *)
(* line, Q those of them that wait for the one in front, h their            *)
(* conversation, b the job in front, t the last of each line, and r their   *)
(* place: the job in front of j is the one with the next lower place, and   *)
(* only the first of a line need not wait.                                 *)
LineOf(C, Q, h, b, t, r) ==
  /\ \A c \in Conv : t[c] # Nobody => t[c] \in C /\ h[t[c]] = c
  /\ \A j \in C : t[h[j]] # Nobody /\ r[j] <= r[t[h[j]]]
  /\ \A j, q \in C : h[j] = h[q] /\ r[j] = r[q] => j = q
  /\ \A j, q \in C : h[j] = h[q] /\ r[q] < r[j] =>
       /\ j \in Q /\ b[j] \in C /\ h[b[j]] = h[j]
       /\ r[b[j]] < r[j] /\ r[q] <= r[b[j]]

(* The first of a line leaves it.                                          *)
LEMMA LineLeave ==
  ASSUME NEW C \in SUBSET Job, NEW Q, NEW h \in [Job -> Conv], NEW b,
         NEW t \in [Conv -> Job \cup {Nobody}], NEW r \in [Job -> Nat],
         LineOf(C, Q, h, b, t, r), NEW j \in C, j \notin Q,
         NEW u, u = [t EXCEPT ![h[j]] = IF @ = j THEN Nobody ELSE @]
  PROVE  LineOf(C \ {j}, Q, h, b, u, r)
<1>1. \A q \in C : h[q] = h[j] => r[j] <= r[q]
  BY DEF LineOf
<1>2. \A c \in Conv : u[c] # Nobody => u[c] = t[c] /\ u[c] # j
  BY DEF LineOf
<1>3. \A q \in C \ {j} : u[h[q]] = t[h[q]]
  BY <1>1 DEF LineOf
<1>4. \A p, q \in C \ {j} : h[p] = h[q] /\ r[q] < r[p] => b[p] # j
  BY <1>1 DEF LineOf
<1> QED BY <1>2, <1>3, <1>4 DEF LineOf

(* A job whose predecessor is not in the line is its first, and stops       *)
(* waiting.                                                                *)
LEMMA LineAcquire ==
  ASSUME NEW C \in SUBSET Job, NEW Q \in SUBSET Job, NEW h \in [Job -> Conv],
         NEW b \in [Job -> Job \cup {Nobody}],
         NEW t \in [Conv -> Job \cup {Nobody}], NEW r \in [Job -> Nat],
         LineOf(C, Q, h, b, t, r), NEW j \in C, b[j] \notin C
  PROVE  LineOf(C, Q \ {j}, h, [b EXCEPT ![j] = Nobody], t, r)
<1>1. \A q \in C : h[q] = h[j] => ~(r[q] < r[j])
  BY DEF LineOf
<1> QED BY <1>1 DEF LineOf

(* The jobs D follow each other, and the last job of t, in the order of x;  *)
(* then u has the last jobs and v the jobs in front.                       *)
Joins(D, h, x, v, t, u) ==
  /\ \A j \in D : x[j] > 0
  /\ \A j, q \in D : h[j] = h[q] /\ x[j] = x[q] => j = q
  /\ \A j \in D :
       \/ v[j] = t[h[j]] /\ \A q \in D : h[q] = h[j] => ~(x[q] < x[j])
       \/ /\ v[j] \in D /\ h[v[j]] = h[j] /\ x[v[j]] < x[j]
          /\ \A q \in D : h[q] = h[j] /\ x[q] < x[j] => x[q] <= x[v[j]]
  /\ \A c \in Conv :
       \/ u[c] = t[c] /\ \A q \in D : h[q] # c
       \/ u[c] \in D /\ h[u[c]] = c /\ \A q \in D : h[q] = c => x[q] <= x[u[c]]

(* New jobs D come to the ends of the lines in the order of x.              *)
LEMMA LineExtend ==
  ASSUME NEW C \in SUBSET Job, NEW Q \in SUBSET Job, NEW h \in [Job -> Conv],
         NEW b \in [Job -> Job \cup {Nobody}],
         NEW t \in [Conv -> Job \cup {Nobody}], NEW r \in [Job -> Nat],
         LineOf(C, Q, h, b, t, r),
         NEW D \in SUBSET Job, D \cap C = {}, Nobody \notin Job,
         NEW x \in [Job -> Nat], NEW v, NEW u, \A j \in C : v[j] = b[j], Joins(D, h, x, v, t, u)
  PROVE  \E s \in [Job -> Nat] : LineOf(C \cup D, Q \cup D, h, v, u, s)
<1> DEFINE base(c) == IF t[c] = Nobody THEN 0 ELSE r[t[c]]
           s == [j \in Job |-> IF j \in D THEN base(h[j]) + x[j] ELSE r[j]]
<1> USE DEF Joins
<1>1. \A c \in Conv : base(c) \in Nat
  OBVIOUS
<1>2. s \in [Job -> Nat]
  BY <1>1
<1>3. \A j \in D : s[j] = base(h[j]) + x[j] /\ s[j] > base(h[j])
  BY <1>1
<1>4. \A j \in C : s[j] = r[j] /\ r[j] <= base(h[j])
  BY DEF LineOf
<1> HIDE DEF s, base
<1>5. \A c \in Conv : u[c] # Nobody => u[c] \in C \cup D /\ h[u[c]] = c
  BY DEF LineOf
<1>6. \A j \in C \cup D : u[h[j]] # Nobody /\ s[j] <= s[u[h[j]]]
  <2>1. CASE \E q \in D : TRUE
    <3>1. ASSUME NEW j \in C \cup D PROVE u[h[j]] # Nobody /\ s[j] <= s[u[h[j]]]
      <4>1. h[j] \in Conv
        OBVIOUS
      <4>2. CASE u[h[j]] = t[h[j]] /\ \A q \in D : h[q] # h[j]
        <5>1. j \in C
          BY <4>2
        <5>2. t[h[j]] # Nobody /\ t[h[j]] \in C /\ r[j] <= r[t[h[j]]]
          BY <4>1, <5>1 DEF LineOf
        <5> QED BY <1>4, <4>2, <5>1, <5>2
      <4>3. CASE u[h[j]] \in D /\ h[u[h[j]]] = h[j] /\ \A q \in D : h[q] = h[j] => x[q] <= x[u[h[j]]]
        <5>1. s[u[h[j]]] = base(h[j]) + x[u[h[j]]] /\ s[u[h[j]]] > base(h[j])
          BY <1>3, <4>3
        <5>2. CASE j \in D
          BY <1>1, <1>2, <1>3, <4>1, <4>3, <5>1, <5>2
        <5>3. CASE j \in C
          BY <1>1, <1>2, <1>4, <4>1, <4>3, <5>1, <5>3
        <5> QED BY <5>2, <5>3
      <4> QED BY <4>1, <4>2, <4>3
    <3> QED BY <3>1
  <2>2. CASE D = {}
    BY <1>4, <2>2 DEF LineOf
  <2> QED BY <2>1, <2>2
<1>7. \A j, q \in C \cup D : h[j] = h[q] /\ s[j] = s[q] => j = q
  <2>1. ASSUME NEW j \in D, NEW q \in D, h[j] = h[q], s[j] = s[q] PROVE j = q
    <3>1. PICK z \in Nat : s[j] = z + x[j] /\ s[q] = z + x[q]
      BY <1>1, <1>3, <2>1
    <3>2. x[j] \in Nat /\ x[q] \in Nat
      OBVIOUS
    <3>3. x[j] = x[q]
      <4> HIDE DEF Joins
      <4>1. z + x[j] = z + x[q]
        BY <2>1, <3>1
      <4> QED BY <3>2, <4>1
    <3> QED BY <2>1, <3>3
  <2>2. ASSUME NEW j \in C, NEW q \in C, h[j] = h[q], s[j] = s[q] PROVE j = q
    BY <1>4, <2>2 DEF LineOf
  <2>3. ASSUME NEW j \in C, NEW q \in D, h[j] = h[q] PROVE s[j] # s[q]
    BY <1>1, <1>2, <1>3, <1>4, <2>3
  <2> QED BY <2>1, <2>2, <2>3
<1>8. ASSUME NEW j \in C \cup D, NEW q \in C \cup D, h[j] = h[q], s[q] < s[j]
      PROVE  /\ j \in Q \cup D /\ v[j] \in C \cup D /\ h[v[j]] = h[j]
             /\ s[v[j]] < s[j] /\ s[q] <= s[v[j]]
  <2>1. CASE j \in C
    <3>1. q \in C
      BY <1>1, <1>2, <1>3, <1>4, <1>8, <2>1
    <3> QED BY <1>4, <1>8, <2>1, <3>1 DEF LineOf
  <2>2. CASE j \in D /\ v[j] = t[h[j]] /\ \A p \in D : h[p] = h[j] => ~(x[p] < x[j])
    <3>1. q \in C
      BY <1>1, <1>2, <1>3, <1>8, <2>2
    <3>2. t[h[j]] # Nobody /\ t[h[j]] \in C /\ h[t[h[j]]] = h[j] /\ r[q] <= r[t[h[j]]]
      BY <1>8, <3>1 DEF LineOf
    <3>3. base(h[j]) = r[t[h[j]]]
      BY <3>2 DEF base
    <3> QED BY <1>3, <1>4, <2>2, <3>1, <3>2, <3>3
  <2>3. CASE /\ j \in D /\ v[j] \in D /\ h[v[j]] = h[j] /\ x[v[j]] < x[j]
             /\ \A p \in D : h[p] = h[j] /\ x[p] < x[j] => x[p] <= x[v[j]]
    <3>1. s[v[j]] = base(h[j]) + x[v[j]] /\ s[j] = base(h[j]) + x[j] /\ s[v[j]] > base(h[j])
      BY <1>3, <2>3
    <3>2. s[v[j]] < s[j]
      BY <1>1, <2>3, <3>1
    <3>3. CASE q \in D
      <4>1. s[q] = base(h[j]) + x[q]
        BY <1>3, <1>8, <3>3
      <4>2. x[q] < x[j]
        BY <1>1, <1>8, <3>1, <3>3, <4>1
      <4> QED BY <1>1, <1>8, <2>3, <3>1, <3>2, <3>3, <4>1, <4>2
    <3>4. CASE q \in C
      BY <1>1, <1>2, <1>4, <1>8, <2>3, <3>1, <3>2, <3>4
    <3> QED BY <3>3, <3>4
  <2> QED BY <2>1, <2>2, <2>3
<1>9. LineOf(C \cup D, Q \cup D, h, v, u, s)
  BY <1>5, <1>6, <1>7, <1>8 DEF LineOf
<1> QED BY <1>2, <1>9

(* Only the jobs in a line matter.                                         *)
LEMMA LineSame ==
  ASSUME NEW C, NEW Q, NEW h, NEW g, NEW b, NEW v, NEW t, NEW r, LineOf(C, Q, h, b, t, r),
         \A j \in C : g[j] = h[j] /\ v[j] = b[j]
  PROVE  LineOf(C, Q, g, v, t, r)
  BY DEF LineOf

-----------------------------------------------------------------------------
(* What the steps do to jobs, in a form the rest of the proof can use.     *)

(* A nonempty set of questions has a last one.                             *)
LEMMA HasMax ==
  ASSUME NEW n \in Nat, NEW S \in SUBSET (1 .. n), S # {}
  PROVE  \E i \in S : \A q \in S : q <= i
<1> DEFINE T == {i .. n : i \in S}
<1>1. T \subseteq FiniteSubsetsOf(Nat) /\ T # {}
  <2>1. \A i \in S : i .. n \in SUBSET Nat /\ IsFiniteSet(i .. n)
    BY FS_Interval
  <2> QED BY <2>1 DEF FiniteSubsetsOf
<1>2. PICK x \in T : \A y \in T : ~(<<y, x>> \in StrictSubsetOrdering(Nat))
  BY <1>1, FS_StrictSubsetOrderingWellFounded, WFMin
<1>3. PICK i \in S : x = i .. n
  OBVIOUS
<1>4. ASSUME NEW q \in S, q > i PROVE FALSE
  <2>1. q .. n \in T /\ q .. n \subseteq i .. n /\ i \notin q .. n /\ i \in i .. n
    BY <1>4
  <2> HIDE DEF T
  <2>2. q .. n # i .. n /\ q .. n \in SUBSET Nat /\ i .. n \in SUBSET Nat
    BY <2>1, <1>4
  <2> QED BY <1>2, <1>3, <2>1, <2>2 DEF StrictSubsetOrdering
<1> QED BY <1>4

(* The jobs of a flush that claims due.                                    *)
NewJob(i) == <<i, attempts[i] + 1>>
NewJobs(due) == {NewJob(i) : i \in due}
Queued(due, c) == {i \in due : ~Direct(i) /\ home[i] = c}
Before(due, i) == {q \in Queued(due, home[i]) : q < i}
Last(S) == CHOOSE i \in S : \A q \in S : q <= i

(* Such a set has the last question that the dispatch refers to.          *)
LEMMA LastIsLast ==
  ASSUME NEW S \in SUBSET Asks, S # {}
  PROVE  Last(S) \in S /\ \A q \in S : q <= Last(S)
<1>1. \E i \in S : \A q \in S : q <= i
  BY HasMax DEF Asks
<1> QED BY <1>1 DEF Last

(* The due resumes, each with its new job.                                 *)
FlushOf(due) ==
  /\ \A i \in due : /\ NewJob(i) \in Resume /\ at[NewJob(i)] = "none"
                    /\ ask[i] # "none" /\ attempts'[i] = attempts[i] + 1
  /\ at' = [j \in Job |-> IF j \in NewJobs(due)
                          THEN IF Direct(j[1]) THEN "running" ELSE "queued" ELSE at[j]]
  /\ \A j \in Job : j \notin NewJobs(due) => behind'[j] = behind[j]
  /\ \A i \in due : ~Direct(i) =>
       behind'[NewJob(i)] = IF Before(due, i) = {} THEN tail[home[i]]
                            ELSE NewJob(Last(Before(due, i)))
  /\ DOMAIN behind' = Job /\ behind' = [j \in Job |-> behind'[j]]
  /\ \A i \in due : Direct(i) => behind'[NewJob(i)] = behind[NewJob(i)]
  /\ tail' = [c \in Conv |-> IF Queued(due, c) = {} THEN tail[c]
                             ELSE NewJob(Last(Queued(due, c)))]
  /\ flushing' = NewJobs(due)
  /\ flights' = flights \/ flights' = flights \cup {NewJobs(due)}
  /\ mine' = mine \cup due /\ ripe' \subseteq Asks /\ timer' \in BOOLEAN
  /\ ask' \in [Asks -> {"none", "pending"} \cup AskVerdict]
  /\ resume' \in [Asks -> {"none", "pending", "leased", "delivered", "dead"}]
  /\ attempts' \in [Asks -> {0} \cup Claims]
  /\ UNCHANGED <<inbox, kind, home, lapsed, mode, active, waiters, counts, request, remembered,
                 acking>>

(* Every flush dispatches some resumes that are due, or none.              *)
LEMMA FlushJobs ==
  ASSUME TypeOK, AsksInv, JobsInv, Flush
  PROVE  \E due \in SUBSET Asks : FlushOf(due)
<1>1. PICK swept, claimed \in BOOLEAN :
        LET S      == IF swept THEN ToExpire ELSE {}
            status == [i \in Asks |-> IF i \in Revived(S) THEN "pending" ELSE resume[i]]
            due    == {i \in Asks : i \in ripe \cup Revived(S) /\ status[i] \in {"pending", "leased"}}
        IN  /\ ask' = Expired(S)
            /\ ClaimResumes(status, IF claimed THEN due ELSE {})
            /\ ripe' = (ripe \cup Revived(S)) \ (IF claimed THEN due ELSE {})
  BY DEF Flush
<1> DEFINE S == IF swept THEN ToExpire ELSE {}
           status == [i \in Asks |-> IF i \in Revived(S) THEN "pending" ELSE resume[i]]
           all == {i \in Asks : i \in ripe \cup Revived(S) /\ status[i] \in {"pending", "leased"}}
           due == IF claimed THEN all ELSE {}
<1>2. ClaimResumes(status, due) /\ ripe' = (ripe \cup Revived(S)) \ due
  BY <1>1
<1>3. due \in SUBSET Asks /\ ripe' \subseteq Asks
  BY <1>2 DEF Revived, ToExpire, TypeOK
<1>4. \A i \in due : ask[i] # "none"
  BY DEF AsksInv, RowsFollowVerdicts, Revived, ToExpire
<1> HIDE DEF S, status, all, due
<1>5. /\ \A i \in due : attempts[i] + 1 \in Claims
      /\ attempts' = [i \in Asks |-> IF i \in due THEN attempts[i] + 1 ELSE attempts[i]]
      /\ mine' = mine \cup due
      /\ at' = [j \in Job |-> IF \E i \in due : j = NewJob(i)
                              THEN IF Direct(j[1]) THEN "running" ELSE "queued" ELSE at[j]]
      /\ behind' = [j \in Job |->
           IF \E i \in due : j = NewJob(i) /\ ~Direct(i)
           THEN IF Before(due, j[1]) = {} THEN tail[home[j[1]]] ELSE NewJob(Last(Before(due, j[1])))
           ELSE behind[j]]
      /\ tail' = [c \in Conv |-> IF Queued(due, c) = {} THEN tail[c]
                                 ELSE NewJob(Last(Queued(due, c)))]
      /\ flushing' = NewJobs(due)
      /\ flights' = IF due = {} THEN flights ELSE flights \cup {flushing'}
      /\ timer' = (due = {})
  BY <1>2 DEF ClaimResumes, NewJob, NewJobs, Queued, Before, Last
<1>6. \A i \in due : /\ NewJob(i) \in Resume /\ at[NewJob(i)] = "none"
                     /\ ask[i] # "none" /\ attempts'[i] = attempts[i] + 1
  <2> TAKE i \in due
  <2>1. i \in Asks /\ attempts[i] \in Nat /\ attempts[i] + 1 \in Claims
    BY <1>3, <1>5, AttemptsAreNumbers
  <2>2. at[<<i, attempts[i] + 1>>] = "none"
    BY <2>1 DEF JobsInv
  <2> QED BY <1>4, <1>5, <2>1, <2>2 DEF NewJob, Resume
<1>7. \A j \in Job : (\E i \in due : j = NewJob(i)) <=> j \in NewJobs(due)
  BY DEF NewJobs
<1>8. \A j \in Job : j \notin NewJobs(due) => behind'[j] = behind[j]
  BY <1>5, <1>7
<1>9. \A i \in due : NewJob(i)[1] = i /\ NewJob(i) \in Job
  BY <1>6 DEF NewJob, Job
<1>10. \A i, q \in due : NewJob(i) = NewJob(q) => i = q
  BY DEF NewJob
<1>11. \A i \in due : ~Direct(i) =>
         behind'[NewJob(i)] = IF Before(due, i) = {} THEN tail[home[i]]
                              ELSE NewJob(Last(Before(due, i)))
  <2> HIDE DEF NewJob
  <2> QED BY <1>5, <1>9
<1>12. \A i \in due : Direct(i) => behind'[NewJob(i)] = behind[NewJob(i)]
  <2> HIDE DEF NewJob
  <2> QED BY <1>5, <1>9, <1>10
<1>13. UNCHANGED <<inbox, kind, home, lapsed, mode, active, waiters, counts, request, remembered,
                   acking>>
  BY DEF Flush
<1>14. DOMAIN behind' = Job /\ behind' = [j \in Job |-> behind'[j]]
  BY <1>5
<1>15. at' = [j \in Job |-> IF j \in NewJobs(due)
                            THEN IF Direct(j[1]) THEN "running" ELSE "queued" ELSE at[j]]
  BY <1>5, <1>7
<1>16. timer' \in BOOLEAN /\ (flights' = flights \/ flights' = flights \cup {NewJobs(due)})
  BY <1>5
<1>17. /\ ask' \in [Asks -> {"none", "pending"} \cup AskVerdict]
       /\ resume' \in [Asks -> {"none", "pending", "leased", "delivered", "dead"}]
  BY <1>1, <1>2 DEF ClaimResumes, Expired, AskVerdict, TypeOK, S, status, due
<1>18. attempts' \in [Asks -> {0} \cup Claims]
  BY <1>5 DEF TypeOK
<1> QED BY <1>3, <1>5, <1>6, <1>8, <1>11, <1>12, <1>13, <1>14, <1>15, <1>16, <1>17, <1>18 DEF FlushOf

(* A job that exists keeps its conversation and the way it is dispatched.  *)
LEMMA JobsAreStable ==
  ASSUME JobsInv, \A i \in Asks : AskKept(i), NEW j \in Job, at[j] # "none"
  PROVE  (Chains(j)' <=> Chains(j)) /\ Home(j)' = Home(j)
<1>1. CASE j \in Message
  BY <1>1 DEF Chains, Home
<1>2. ASSUME NEW i \in Asks, NEW k \in Claims, j = <<i, k>>
      PROVE  (Chains(j)' <=> Chains(j)) /\ Home(j)' = Home(j)
  <2>1. ask[i] # "none" /\ j[1] = i
    BY <1>2 DEF JobsInv
  <2>2. kind'[i] = kind[i] /\ home'[i] = home[i]
    BY <2>1 DEF AskKept
  <2> QED BY <2>1, <2>2 DEF Chains, Home, Direct
<1> QED BY <1>1, <1>2 DEF Job, Resume

(* Leave ends a turn and hands its slot to the first waiter.               *)
LEMMA LeaveJobs ==
  ASSUME TypeOK, WaitersInv, NEW j \in Job, at[j] \in TurnStates, Leave(j)
  PROVE  /\ tail' = [tail EXCEPT ![Home(j)] = IF @ = j THEN Nobody ELSE @] /\ behind' = behind
         /\ \/ /\ waiters = <<>> /\ waiters' = <<>> /\ active' = active - 1
               /\ at' = [at EXCEPT ![j] = "done"]
            \/ /\ waiters # <<>> /\ waiters' = Tail(waiters) /\ active' = active
               /\ Head(waiters) \in Job \ {j} /\ at[Head(waiters)] = "slot"
               /\ at' = [at EXCEPT ![j] = "done", ![Head(waiters)] = "running"]
<1>1. CASE waiters = <<>>
  BY <1>1 DEF Leave
<1>2. CASE waiters # <<>>
  <2>1. 1 \in 1 .. Len(waiters) /\ Head(waiters) = waiters[1] /\ Head(waiters) \in Job
    BY <1>2 DEF TypeOK
  <2>2. at[Head(waiters)] = "slot"
    BY <2>1 DEF WaitersInv
  <2> QED BY <1>2, <2>1, <2>2 DEF Leave, TurnStates
<1> QED BY <1>1, <1>2

(* Dead promises, empty tables.                                            *)
LEMMA GoneJobs ==
  ASSUME TypeOK, Gone
  PROVE  /\ \A j \in Job : ~Unfinished(j)' /\ (at'[j] = at[j] \/ (at'[j] = "lost" /\ at[j] # "none"))
         /\ \A c \in Conv : tail'[c] = Nobody
<1>1. \A j \in Job : at'[j] = IF Unfinished(j) THEN "lost" ELSE at[j]
  BY DEF Gone
<1>2. \A j \in Job : Unfinished(j)' <=> at'[j] \notin {"none", "answer", "done", "lost"}
  BY DEF Unfinished
<1>3. \A c \in Conv : tail'[c] = Nobody
  BY DEF Gone
<1>4. ASSUME NEW j \in Job
      PROVE  ~Unfinished(j)' /\ (at'[j] = at[j] \/ (at'[j] = "lost" /\ at[j] # "none"))
  <2>1. CASE Unfinished(j)
    BY <1>1, <1>2, <2>1 DEF Unfinished
  <2>2. CASE ~Unfinished(j)
    <3>1. at'[j] = at[j]
      BY <1>1, <2>2
    <3>2. at[j] \in {"none", "answer", "done", "lost"}
      BY <2>2 DEF Unfinished
    <3>3. ~Unfinished(j)'
      BY <1>2, <3>1, <3>2
    <3> QED BY <3>1, <3>3
  <2> QED BY <2>1, <2>2
<1> QED BY <1>3, <1>4

-----------------------------------------------------------------------------
(* Jobs and waiters.                                                       *)


(* What is known of a job holds after every step.                          *)
LEMMA JobsStep ==
  ASSUME TypeOK, AsksInv, JobsInv, WaitersInv, [Next]_vars
  PROVE  JobsInv'
<1>1. \A i \in Asks : AskKept(i)
  BY AsksStep
<1>2. \A j \in Job : at[j] # "none" => (Chains(j)' <=> Chains(j))
  BY <1>1, JobsAreStable
<1>3. \A i \in Asks, k \in Claims :
        at[<<i, k>>] # "none" => k <= attempts'[i] /\ ask'[i] # "none"
  <2> TAKE i \in Asks, k \in Claims
  <2> HAVE at[<<i, k>>] # "none"
  <2>1. k <= attempts[i] /\ ask[i] # "none"
    BY DEF JobsInv
  <2>2. ask'[i] # "none" /\ attempts'[i] >= attempts[i] /\ attempts'[i] \in Nat
    BY <1>1, <2>1 DEF AskKept
  <2>3. attempts[i] \in Nat /\ k \in Int
    BY AttemptsAreNumbers DEF Claims
  <2> QED BY <2>1, <2>2, <2>3
<1> DEFINE
      A == \A m \in Message : m \notin inbox' => at'[m] = "none"
      B == \A m \in Message : at'[m] \notin {"resumed", "failed"}
      C == \A i \in Asks, k \in Claims :
             at'[<<i, k>>] # "none" => k <= attempts'[i] /\ ask'[i] # "none"
      D == \A j \in Job : at'[j] \in {"queued", "slot"} => Chains(j)'
<1>4. SUFFICES A /\ B /\ C /\ D
  BY DEF JobsInv
<1>5. \A i \in Asks, k \in Claims : <<i, k>> \in Job /\ <<i, k>> \notin Message
  BY JobsAssumption DEF Job, Resume
<1>6. /\ \A m \in Message : m \in Job /\ Chains(m) /\ Chains(m)'
      /\ DOMAIN at = Job
  BY DEF Job, Chains, TypeOK
<1>7. ASSUME UNCHANGED inbox, \A j \in Job : at'[j] = at[j] \/ at'[j] = "done" \/ at'[j] = "lost",
             \A j \in Job : at'[j] # at[j] => at[j] # "none"
      PROVE  A /\ B /\ C /\ D
  BY <1>2, <1>3, <1>5, <1>6, <1>7 DEF JobsInv
<1>8. CASE UNCHANGED <<inbox, at, chains, counts>>
  BY <1>7, <1>8
<1>9. ASSUME NEW j \in Job, Acquire(j) PROVE A /\ B /\ C /\ D
  <2>1. /\ UNCHANGED inbox /\ at[j] = "queued"
        /\ at' = [at EXCEPT ![j] = "running"] \/ at' = [at EXCEPT ![j] = "slot"]
    BY <1>9 DEF Acquire
  <2> QED BY <1>2, <1>3, <1>5, <1>6, <2>1 DEF JobsInv
<1>10. ASSUME NEW m \in Message, Admit(m) PROVE A /\ B /\ C /\ D
  <2>1. inbox' = inbox \cup {m} /\ m \notin inbox /\ at' = [at EXCEPT ![m] = "queued"]
    BY <1>10 DEF Admit
  <2> QED BY <1>2, <1>3, <1>5, <1>6, <2>1 DEF JobsInv
<1>11. ASSUME NEW m \in Message, m \notin inbox, inbox' = inbox \cup {m},
              at' = [at EXCEPT ![m] = "answer"]
       PROVE  A /\ B /\ C /\ D
  BY <1>2, <1>3, <1>5, <1>6, <1>11 DEF JobsInv
<1>12. ASSUME NEW j \in Job, NEW s \in TurnStates, at[j] \in TurnStates,
              at' = [at EXCEPT ![j] = s], j \in Message => s = "closing", UNCHANGED inbox
       PROVE  A /\ B /\ C /\ D
  BY <1>2, <1>3, <1>5, <1>6, <1>12 DEF JobsInv, TurnStates
<1>13. ASSUME NEW j \in Job, at[j] \in TurnStates, Leave(j), UNCHANGED inbox
       PROVE  A /\ B /\ C /\ D
  <2>1. CASE at' = [at EXCEPT ![j] = "done"]
    BY <1>7, <1>13, <2>1, <1>6 DEF TurnStates
  <2>2. ASSUME NEW w \in Job \ {j}, at[w] = "slot",
               at' = [at EXCEPT ![j] = "done", ![w] = "running"]
        PROVE  A /\ B /\ C /\ D
    BY <1>2, <1>3, <1>5, <1>6, <1>13, <2>2 DEF JobsInv, TurnStates
  <2> QED BY <1>13, <2>1, <2>2, LeaveJobs
<1>14. ASSUME NEW m \in Message, Closed(m) PROVE A /\ B /\ C /\ D
  BY <1>6, <1>13, <1>14 DEF Closed, TurnStates
<1>15. ASSUME NEW i \in Asks, NEW k \in Claims, at[<<i, k>>] \in TurnStates, Return(i, k),
              UNCHANGED <<inbox, counts>>
       PROVE  A /\ B /\ C /\ D
  <2>1. CASE Direct(i)
    BY <1>5, <1>6, <1>7, <1>15, <2>1 DEF Return, TurnStates
  <2>2. CASE ~Direct(i)
    BY <1>5, <1>13, <1>15, <2>2 DEF Return
  <2> QED BY <2>1, <2>2
<1>16. CASE Flush
  <2>1. PICK due \in SUBSET Asks : FlushOf(due)
    BY <1>16, FlushJobs
  <2>2. /\ UNCHANGED <<inbox, kind, home>> /\ NewJobs(due) \subseteq Resume
        /\ \A j \in Job : at'[j] = IF j \in NewJobs(due)
                                   THEN IF Direct(j[1]) THEN "running" ELSE "queued" ELSE at[j]
    BY <2>1 DEF FlushOf, NewJobs
  <2>3. A /\ B
    BY <1>5, <1>6, <2>2, JobsAssumption DEF JobsInv
  <2>4. C
    <3>1. ASSUME NEW i \in Asks, NEW k \in Claims, <<i, k>> \in NewJobs(due)
          PROVE  k <= attempts'[i] /\ ask'[i] # "none"
      <4>1. i \in due /\ k = attempts[i] + 1
        BY <3>1 DEF NewJobs, NewJob
      <4>2. attempts'[i] = attempts[i] + 1 /\ ask[i] # "none"
        BY <2>1, <4>1 DEF FlushOf
      <4>3. ask'[i] # "none" /\ attempts'[i] \in Nat
        BY <1>1, <4>2 DEF AskKept
      <4> QED BY <4>1, <4>2, <4>3
    <3> QED BY <1>3, <1>5, <2>2, <3>1
  <2>5. D
    <3>1. \A j \in Job : Chains(j)' <=> Chains(j)
      BY <2>2 DEF Chains, Direct
    <3> QED BY <2>2, <3>1 DEF JobsInv, Chains
  <2> QED BY <2>3, <2>4, <2>5
<1>17. CASE Gone
  BY <1>7, <1>17, GoneJobs DEF Gone
<1>18. JobChange
  BY EveryJobChange
<1> HIDE DEF A, B, C, D
<1> QED BY <1>8, <1>9, <1>10, <1>11, <1>12, <1>14, <1>15, <1>16, <1>17, <1>18 DEF JobChange

(* Whoever waits for a slot is in runWaiters once.                         *)
LEMMA WaitersStep ==
  ASSUME TypeOK, AsksInv, JobsInv, WaitersInv, [Next]_vars
  PROVE  WaitersInv'
<1> DEFINE W == WaitersInv'
<1>1. ASSUME UNCHANGED waiters, \A j \in Job : at'[j] = "slot" <=> at[j] = "slot"
      PROVE  W
  BY <1>1 DEF WaitersInv, TypeOK
<1>2. waiters \in Seq(Job) /\ DOMAIN at = Job
  BY DEF TypeOK
<1>3. CASE UNCHANGED <<inbox, at, chains, counts>>
  BY <1>1, <1>3 DEF chains
<1>4. ASSUME NEW j \in Job, Acquire(j) PROVE W
  <2>1. CASE at' = [at EXCEPT ![j] = "running"] /\ UNCHANGED waiters
    BY <1>1, <1>2, <1>4, <2>1 DEF Acquire
  <2>2. CASE at' = [at EXCEPT ![j] = "slot"] /\ waiters' = Append(waiters, j)
    <3>1. at[j] = "queued"
      BY <1>4 DEF Acquire
    <3>2. /\ Len(waiters') = Len(waiters) + 1 /\ waiters'[Len(waiters) + 1] = j
          /\ \A n \in 1 .. Len(waiters) : waiters'[n] = waiters[n] /\ waiters[n] \in Job
      BY <1>2, <2>2
    <3>3. \A n \in 1 .. Len(waiters) : waiters[n] # j
      BY <3>1 DEF WaitersInv
    <3>4. Len(waiters) \in Nat
      BY <1>2
    <3>5. \A n \in 1 .. Len(waiters') : at'[waiters'[n]] = "slot"
      BY <1>2, <2>2, <3>2, <3>4 DEF WaitersInv
    <3>6. \A n, p \in 1 .. Len(waiters') : waiters'[n] = waiters'[p] => n = p
      BY <3>2, <3>3, <3>4 DEF WaitersInv
    <3>7. \A q \in Job : at'[q] = "slot" => \E n \in 1 .. Len(waiters') : waiters'[n] = q
      <4>1. ASSUME NEW q \in Job, at'[q] = "slot" PROVE \E n \in 1 .. Len(waiters') : waiters'[n] = q
        <5>1. CASE q = j
          BY <3>2, <3>4, <5>1
        <5>2. CASE q # j
          <6>1. PICK n \in 1 .. Len(waiters) : waiters[n] = q
            BY <1>2, <2>2, <4>1, <5>2 DEF WaitersInv
          <6> QED BY <3>2, <3>4, <6>1
        <5> QED BY <5>1, <5>2
      <4> QED BY <4>1
    <3> QED BY <3>5, <3>6, <3>7 DEF WaitersInv
  <2> QED BY <1>4, <2>1, <2>2 DEF Acquire
<1>5. ASSUME NEW j \in Job, NEW s, at' = [at EXCEPT ![j] = s], s # "slot", at[j] # "slot",
             UNCHANGED waiters
      PROVE  W
  BY <1>1, <1>2, <1>5
<1>6. ASSUME NEW m \in Message, Admit(m) PROVE W
  <2>1. at[m] = "none" /\ m \in Job
    BY <1>6 DEF Admit, JobsInv, Job
  <2> QED BY <1>5, <1>6, <2>1 DEF Admit
<1>7. ASSUME NEW m \in Message, m \notin inbox, at' = [at EXCEPT ![m] = "answer"],
             UNCHANGED chains
      PROVE  W
  <2>1. at[m] = "none" /\ m \in Job
    BY <1>7 DEF JobsInv, Job
  <2> QED BY <1>5, <1>7, <2>1 DEF chains
<1>8. ASSUME NEW j \in Job, NEW s \in TurnStates, at[j] \in TurnStates,
             at' = [at EXCEPT ![j] = s], UNCHANGED chains
      PROVE  W
  BY <1>5, <1>8 DEF TurnStates, chains
<1>9. ASSUME NEW j \in Job, at[j] \in TurnStates, Leave(j) PROVE W
  <2>1. CASE waiters' = waiters /\ at' = [at EXCEPT ![j] = "done"]
    BY <1>5, <1>9, <2>1 DEF TurnStates
  <2>2. CASE /\ waiters # <<>> /\ waiters' = Tail(waiters)
             /\ Head(waiters) \in Job \ {j} /\ at[Head(waiters)] = "slot"
             /\ at' = [at EXCEPT ![j] = "done", ![Head(waiters)] = "running"]
    <3>1. /\ Len(waiters) \in Nat \ {0} /\ Len(waiters') = Len(waiters) - 1
          /\ \A n \in 1 .. Len(waiters') : waiters'[n] = waiters[n + 1]
          /\ Head(waiters) = waiters[1]
          /\ \A n \in 1 .. Len(waiters) : waiters[n] \in Job
      BY <1>2, <2>2
    <3>2. \A q \in Job : at'[q] = "slot" <=> at[q] = "slot" /\ q # waiters[1]
      BY <1>2, <1>9, <2>2, <3>1 DEF TurnStates
    <3>3. \A n \in 1 .. Len(waiters') : n + 1 \in 1 .. Len(waiters) /\ n + 1 # 1
      BY <3>1
    <3>4. \A n \in 1 .. Len(waiters') : waiters'[n] \in Job /\ waiters'[n] # waiters[1]
      BY <3>1, <3>3 DEF WaitersInv
    <3>5. \A n \in 1 .. Len(waiters') : at'[waiters'[n]] = "slot"
      BY <3>1, <3>2, <3>3, <3>4 DEF WaitersInv
    <3>6. \A n, p \in 1 .. Len(waiters') : waiters'[n] = waiters'[p] => n = p
      <4>1. ASSUME NEW n \in 1 .. Len(waiters'), NEW p \in 1 .. Len(waiters'),
                   waiters'[n] = waiters'[p]
            PROVE  n = p
        <5>1. waiters[n + 1] = waiters[p + 1]
          BY <3>1, <4>1
        <5>2. n + 1 = p + 1
          BY <3>3, <5>1 DEF WaitersInv
        <5> QED BY <5>2
      <4> QED BY <4>1
    <3>7. \A q \in Job : at'[q] = "slot" => \E n \in 1 .. Len(waiters') : waiters'[n] = q
      <4>1. ASSUME NEW q \in Job, at'[q] = "slot"
            PROVE  \E n \in 1 .. Len(waiters') : waiters'[n] = q
        <5>1. PICK n \in 1 .. Len(waiters) : waiters[n] = q
          BY <3>2, <4>1 DEF WaitersInv
        <5>2. n # 1
          BY <3>2, <4>1, <5>1
        <5>3. n - 1 \in 1 .. Len(waiters') /\ (n - 1) + 1 = n
          BY <3>1, <5>2
        <5> QED BY <3>1, <5>1, <5>3
      <4> QED BY <4>1
    <3> QED BY <3>5, <3>6, <3>7 DEF WaitersInv
  <2> QED BY <1>9, <2>1, <2>2, LeaveJobs
<1>10. ASSUME NEW m \in Message, Closed(m) PROVE W
  BY <1>9, <1>10 DEF Closed, TurnStates, Job
<1>11. ASSUME NEW i \in Asks, NEW k \in Claims, at[<<i, k>>] \in TurnStates, Return(i, k)
       PROVE  W
  <2>1. <<i, k>> \in Job
    BY DEF Job, Resume
  <2>2. CASE Direct(i)
    BY <1>5, <1>11, <2>1, <2>2 DEF Return, TurnStates, chains
  <2>3. CASE ~Direct(i)
    BY <1>9, <1>11, <2>1, <2>3 DEF Return
  <2> QED BY <2>2, <2>3
<1>12. CASE Flush
  <2>1. PICK due \in SUBSET Asks : FlushOf(due)
    BY <1>12, FlushJobs
  <2>2. \A j \in NewJobs(due) : at[j] = "none"
    BY <2>1 DEF FlushOf, NewJobs
  <2>3. /\ UNCHANGED waiters
        /\ at' = [j \in Job |-> IF j \in NewJobs(due)
                                THEN IF Direct(j[1]) THEN "running" ELSE "queued" ELSE at[j]]
    BY <2>1 DEF FlushOf
  <2> QED BY <1>1, <2>2, <2>3
<1>13. CASE Gone
  <2>1. waiters' = <<>> /\ \A j \in Job : at'[j] # "slot"
    BY <1>13 DEF Gone, Unfinished
  <2> QED BY <2>1 DEF WaitersInv
<1>14. JobChange
  BY EveryJobChange
<1> HIDE DEF W
<1> QED BY <1>3, <1>4, <1>6, <1>7, <1>8, <1>10, <1>11, <1>12, <1>13, <1>14 DEF JobChange, W

-----------------------------------------------------------------------------
(* Lines.                                                                  *)

Waiting == {j \in Chained : at[j] = "queued"}
HomeOf  == [j \in Job |-> Home(j)]

LineInv == \E r \in [Job -> Nat] : LineOf(Chained, Waiting, HomeOf, behind, tail, r)

(* A step that keeps the jobs in a line, and what they wait for.           *)
LEMMA LineKept ==
  ASSUME TypeOK, JobsInv, LineInv, \A i \in Asks : AskKept(i),
         Chained' = Chained, Waiting' = Waiting, UNCHANGED <<behind, tail>>
  PROVE  LineInv'
<1>1. PICK r \in [Job -> Nat] : LineOf(Chained, Waiting, HomeOf, behind, tail, r)
  BY DEF LineInv
<1>2. \A j \in Chained : HomeOf'[j] = HomeOf[j]
  BY JobsAreStable DEF HomeOf, Chained, Unfinished
<1>3. LineOf(Chained, Waiting, HomeOf', behind, tail, r)
  BY <1>1, <1>2, LineSame
<1> QED BY <1>3 DEF LineInv

(* Everything in a line is known.                                          *)
LEMMA LineTypes ==
  ASSUME TypeOK
  PROVE  /\ Chained \in SUBSET Job /\ Waiting \in SUBSET Job /\ HomeOf \in [Job -> Conv]
         /\ behind \in [Job -> Job \cup {Nobody}] /\ tail \in [Conv -> Job \cup {Nobody}]
<1>1. \A j \in Job : Home(j) \in Conv
  BY DEF Home, Job, Resume, TypeOK
<1> QED BY <1>1 DEF HomeOf, Chained, Waiting, TypeOK

(* A job changes its state and does not leave its line.                    *)
LEMMA LineMoves ==
  ASSUME TypeOK, JobsInv, LineInv, \A i \in Asks : AskKept(i),
         \A j \in Job : \/ at'[j] = at[j]
                        \/ Unfinished(j) /\ Unfinished(j)' /\ at[j] # "queued" /\ at'[j] # "queued"
                        \/ at[j] = "none" /\ at'[j] = "answer"
                        \/ at[j] # "none" /\ ~Chains(j) /\ at'[j] # "queued",
         UNCHANGED <<behind, tail>>
  PROVE  LineInv'
<1>1. \A j \in Job : at[j] # "none" => (Chains(j)' <=> Chains(j))
  BY JobsAreStable
<1>2. \A j \in Job : (Unfinished(j) /\ Chains(j) <=> Unfinished(j)' /\ Chains(j)')
                  /\ (at'[j] = "queued" /\ Chains(j)' <=> at[j] = "queued" /\ Chains(j))
  BY <1>1 DEF Unfinished
<1>3. Chained' = Chained /\ Waiting' = Waiting
  BY <1>2 DEF Chained, Waiting
<1> QED BY <1>3, LineKept

(* The first of a line leaves.                                             *)
LEMMA LineShorter ==
  ASSUME TypeOK, JobsInv, WaitersInv, LineInv, \A i \in Asks : AskKept(i),
         NEW j \in Job, at[j] \in TurnStates, Chains(j), Leave(j)
  PROVE  LineInv'
<1>1. PICK r \in [Job -> Nat] : LineOf(Chained, Waiting, HomeOf, behind, tail, r)
  BY DEF LineInv
<1>2. j \in Chained /\ j \notin Waiting /\ HomeOf[j] = Home(j)
  BY DEF Chained, Waiting, HomeOf, Unfinished, TurnStates
<1>3. tail' = [tail EXCEPT ![HomeOf[j]] = IF @ = j THEN Nobody ELSE @] /\ behind' = behind
  BY <1>2, LeaveJobs
<1>4. LineOf(Chained \ {j}, Waiting, HomeOf, behind, tail', r)
  BY <1>1, <1>2, <1>3, LineTypes, LineLeave
<1>5. \A q \in Job : \/ q = j /\ at'[q] = "done"
                     \/ q # j /\ at'[q] = at[q]
                     \/ q # j /\ at[q] = "slot" /\ at'[q] = "running"
  <2>1. DOMAIN at = Job
    BY DEF TypeOK
  <2> QED BY <2>1, LeaveJobs
<1>6. \A q \in Job : at[q] # "none" => (Chains(q)' <=> Chains(q)) /\ HomeOf'[q] = HomeOf[q]
  BY JobsAreStable DEF HomeOf
<1>7. Chained' = Chained \ {j}
  BY <1>5, <1>6 DEF Chained, Unfinished
<1>8. Waiting' = Waiting
  BY <1>5, <1>6, <1>7, <1>2 DEF Waiting, Chained, Unfinished
<1>9. \A q \in Chained \ {j} : HomeOf'[q] = HomeOf[q]
  BY <1>6 DEF Chained, Unfinished
<1>10. LineOf(Chained \ {j}, Waiting, HomeOf', behind, tail', r)
  BY <1>4, <1>9, LineSame
<1> QED BY <1>3, <1>7, <1>8, <1>10 DEF LineInv

(* A message comes to the end of its line.                                 *)
LEMMA LineAdmits ==
  ASSUME TypeOK, JobsInv, LineInv, \A i \in Asks : AskKept(i), NEW m \in Message, Admit(m)
  PROVE  LineInv'
<1>1. PICK r \in [Job -> Nat] : LineOf(Chained, Waiting, HomeOf, behind, tail, r)
  BY DEF LineInv
<1> DEFINE x == [j \in Job |-> 1]
           D == {m}
<1>2. /\ at[m] = "none" /\ m \in Job /\ Chains(m) /\ Chains(m)' /\ ConvOf[m] \in Conv
      /\ HomeOf[m] = ConvOf[m] /\ HomeOf'[m] = ConvOf[m]
  BY DEF Admit, JobsInv, Job, Chains, HomeOf, Home
<1>3. /\ at' = [at EXCEPT ![m] = "queued"]
      /\ behind' = [behind EXCEPT ![m] = tail[ConvOf[m]]]
      /\ tail' = [tail EXCEPT ![ConvOf[m]] = m]
  BY DEF Admit
<1>4. m \notin Chained
  BY <1>2 DEF Chained, Unfinished
<1>5. \E s \in [Job -> Nat] :
        LineOf(Chained \cup D, Waiting \cup D, HomeOf, behind', tail', s)
  <2>1. D \in SUBSET Job /\ D \cap Chained = {} /\ Nobody \notin Job
    BY <1>2, <1>4, JobsAssumption
  <2>2. x \in [Job -> Nat] /\ \A j \in D : x[j] > 0
    BY <2>1
  <2>3. \A j, q \in D : HomeOf[j] = HomeOf[q] /\ x[j] = x[q] => j = q
    OBVIOUS
  <2>4. \A j \in Chained : behind'[j] = behind[j]
    BY <1>3, <1>4, LineTypes
  <2>5. \A j \in D : behind'[j] = tail[HomeOf[j]] /\ \A q \in D : HomeOf[q] = HomeOf[j] => ~(x[q] < x[j])
    BY <1>2, <1>3, LineTypes
  <2>6. \A c \in Conv : \/ tail'[c] = tail[c] /\ \A q \in D : HomeOf[q] # c
                        \/ tail'[c] \in D /\ HomeOf[tail'[c]] = c
                           /\ \A q \in D : HomeOf[q] = c => x[q] <= x[tail'[c]]
    BY <1>2, <1>3, LineTypes
  <2> HIDE DEF x, D
  <2>7. Joins(D, HomeOf, x, behind', tail, tail')
    BY <2>2, <2>3, <2>5, <2>6 DEF Joins
  <2> QED BY <1>1, <2>1, <2>2, <2>4, <2>7, LineTypes, LineExtend
<1>6. \A q \in Job : at[q] # "none" => (Chains(q)' <=> Chains(q)) /\ HomeOf'[q] = HomeOf[q]
  BY JobsAreStable DEF HomeOf
<1>7. \A q \in Job : at'[q] = IF q = m THEN "queued" ELSE at[q]
  BY <1>3 DEF TypeOK
<1>8. Chained' = Chained \cup D /\ Waiting' = Waiting \cup D
  BY <1>2, <1>6, <1>7 DEF Chained, Waiting, Unfinished
<1>9. \A q \in Chained \cup D : HomeOf'[q] = HomeOf[q]
  BY <1>2, <1>6 DEF Chained, Unfinished
<1> HIDE DEF D
<1>10. \E s \in [Job -> Nat] :
        LineOf(Chained \cup D, Waiting \cup D, HomeOf', behind', tail', s)
  BY <1>5, <1>9, LineSame
<1> QED BY <1>8, <1>10 DEF LineInv

(* The continuations of a flush come to the ends of their lines.           *)
LEMMA LineFlushes ==
  ASSUME TypeOK, AsksInv, JobsInv, LineInv, \A i \in Asks : AskKept(i), Flush
  PROVE  LineInv'
<1>1. PICK r \in [Job -> Nat] : LineOf(Chained, Waiting, HomeOf, behind, tail, r)
  BY DEF LineInv
<1>2. PICK due \in SUBSET Asks : FlushOf(due)
  BY FlushJobs
<1> DEFINE D == {NewJob(i) : i \in {q \in due : ~Direct(q)}}
           x == [j \in Job |-> IF j \in Resume THEN j[1] ELSE 0]
<1>3. \A i \in due : /\ NewJob(i) \in Resume /\ NewJob(i) \in Job /\ NewJob(i) \notin Message
                     /\ NewJob(i)[1] = i /\ at[NewJob(i)] = "none" /\ i \in Asks
  BY <1>2, JobsAssumption DEF FlushOf, Job, NewJob
<1>4. \A i \in due : x[NewJob(i)] = i /\ HomeOf[NewJob(i)] = home[i] /\ home[i] \in Conv
                  /\ i \in Nat /\ i > 0
  BY <1>3 DEF HomeOf, Home, TypeOK, Asks
<1>5. \A j \in Job : at'[j] = IF j \in NewJobs(due)
                              THEN IF Direct(j[1]) THEN "running" ELSE "queued" ELSE at[j]
  BY <1>2 DEF FlushOf
<1>6. D \subseteq Job /\ D \cap Chained = {} /\ D \subseteq NewJobs(due)
  BY <1>3 DEF Chained, Unfinished, NewJobs
<1>7. x \in [Job -> Nat] /\ \A j \in D : x[j] > 0
  <2>1. \A j \in Resume : j[1] \in Nat
    BY DEF Resume, Asks
  <2>2. x \in [Job -> Nat]
    BY <2>1
  <2> HIDE DEF x
  <2> QED BY <1>4, <2>2
<1> HIDE DEF x
<1>8. \A c \in Conv : Queued(due, c) \in SUBSET Asks
  BY DEF Queued
<1>9. \A i \in due : Before(due, i) \in SUBSET Asks
  BY DEF Before, Queued
<1>10. \A j, q \in D : HomeOf[j] = HomeOf[q] /\ x[j] = x[q] => j = q
  BY <1>4
<1>11. \A j \in Chained : behind'[j] = behind[j]
  <2>1. \A j \in Chained : j \in Job /\ j \notin NewJobs(due)
    BY <1>3 DEF Chained, Unfinished, NewJobs
  <2> QED BY <1>2, <2>1 DEF FlushOf
<1>12. ASSUME NEW i \in due, ~Direct(i)
       PROVE  \/ /\ behind'[NewJob(i)] = tail[HomeOf[NewJob(i)]]
                 /\ \A q \in D : HomeOf[q] = HomeOf[NewJob(i)] => ~(x[q] < x[NewJob(i)])
              \/ /\ behind'[NewJob(i)] \in D
                 /\ HomeOf[behind'[NewJob(i)]] = HomeOf[NewJob(i)]
                 /\ x[behind'[NewJob(i)]] < x[NewJob(i)]
                 /\ \A q \in D : HomeOf[q] = HomeOf[NewJob(i)] /\ x[q] < x[NewJob(i)]
                                   => x[q] <= x[behind'[NewJob(i)]]
  <2>1. behind'[NewJob(i)] = IF Before(due, i) = {} THEN tail[home[i]]
                             ELSE NewJob(Last(Before(due, i)))
    BY <1>2, <1>12 DEF FlushOf
  <2>2. \A q \in due : ~Direct(q) /\ home[q] = home[i] /\ q < i => q \in Before(due, i)
    BY DEF Before, Queued
  <2>3. CASE Before(due, i) = {}
    BY <1>4, <2>1, <2>2, <2>3
  <2>4. CASE Before(due, i) # {}
    <3> DEFINE l == Last(Before(due, i))
    <3>1. l \in Before(due, i) /\ \A q \in Before(due, i) : q <= l
      BY <1>9, <2>4, LastIsLast
    <3>2. l \in due /\ ~Direct(l) /\ home[l] = home[i] /\ l < i
      BY <3>1 DEF Before, Queued
    <3>3. behind'[NewJob(i)] = NewJob(l) /\ NewJob(l) \in D
      BY <2>1, <2>4, <3>2
    <3> HIDE DEF l
    <3> QED BY <1>4, <2>2, <3>1, <3>2, <3>3
  <2> QED BY <2>3, <2>4
<1>13. ASSUME NEW c \in Conv
       PROVE  \/ tail'[c] = tail[c] /\ \A q \in D : HomeOf[q] # c
              \/ tail'[c] \in D /\ HomeOf[tail'[c]] = c
                 /\ \A q \in D : HomeOf[q] = c => x[q] <= x[tail'[c]]
  <2>1. tail'[c] = IF Queued(due, c) = {} THEN tail[c] ELSE NewJob(Last(Queued(due, c)))
    BY <1>2 DEF FlushOf
  <2>2. \A q \in due : ~Direct(q) /\ home[q] = c => q \in Queued(due, c)
    BY DEF Queued
  <2>3. CASE Queued(due, c) = {}
    BY <1>4, <2>1, <2>2, <2>3
  <2>4. CASE Queued(due, c) # {}
    <3> DEFINE l == Last(Queued(due, c))
    <3>1. l \in Queued(due, c) /\ \A q \in Queued(due, c) : q <= l
      BY <1>8, <2>4, LastIsLast
    <3>2. l \in due /\ ~Direct(l) /\ home[l] = c
      BY <3>1 DEF Queued
    <3>3. tail'[c] = NewJob(l) /\ NewJob(l) \in D
      BY <2>1, <2>4, <3>2
    <3> HIDE DEF l
    <3> QED BY <1>4, <2>2, <3>1, <3>2, <3>3
  <2> QED BY <2>3, <2>4
<1>14. \E s \in [Job -> Nat] :
         LineOf(Chained \cup D, Waiting \cup D, HomeOf, behind', tail', s)
  <2>1. \A j \in D : \E i \in due : ~Direct(i) /\ j = NewJob(i)
    OBVIOUS
  <2> HIDE DEF D
  <2>2. \A j \in D :
           \/ behind'[j] = tail[HomeOf[j]] /\ \A q \in D : HomeOf[q] = HomeOf[j] => ~(x[q] < x[j])
           \/ /\ behind'[j] \in D /\ HomeOf[behind'[j]] = HomeOf[j] /\ x[behind'[j]] < x[j]
              /\ \A q \in D : HomeOf[q] = HomeOf[j] /\ x[q] < x[j] => x[q] <= x[behind'[j]]
    BY <1>12, <2>1
  <2>3. D \in SUBSET Job /\ Nobody \notin Job
    BY <1>6, JobsAssumption
  <2>4. Joins(D, HomeOf, x, behind', tail, tail')
    BY <1>7, <1>10, <1>13, <2>2 DEF Joins
  <2> QED BY <1>1, <1>6, <1>7, <1>11, <2>3, <2>4, LineTypes, LineExtend
<1>15. UNCHANGED <<kind, home>>
  BY <1>2 DEF FlushOf
<1>16. \A j \in Job : (Chains(j)' <=> Chains(j)) /\ HomeOf'[j] = HomeOf[j]
  BY <1>15 DEF Chains, Direct, HomeOf, Home
<1>17. \A j \in Job : j \in D <=> j \in NewJobs(due) /\ ~Direct(j[1])
  BY <1>3 DEF NewJobs
<1>18. \A j \in NewJobs(due) : j \in Job /\ j \notin Message /\ at[j] = "none"
  BY <1>3 DEF NewJobs
<1> HIDE DEF D
<1>19. Chained' = Chained \cup D
  BY <1>5, <1>6, <1>16, <1>17, <1>18 DEF Chained, Unfinished, Chains
<1>20. Waiting' = Waiting \cup D
  BY <1>5, <1>6, <1>16, <1>17, <1>18, <1>19 DEF Waiting, Chained, Unfinished, Chains
<1>21. \A j \in Chained \cup D : HomeOf'[j] = HomeOf[j]
  BY <1>6, <1>16 DEF Chained
<1>22. \E s \in [Job -> Nat] :
         LineOf(Chained \cup D, Waiting \cup D, HomeOf', behind', tail', s)
  BY <1>14, <1>21, LineSame
<1> QED BY <1>19, <1>20, <1>22 DEF LineInv

(* Every step keeps the lines.                                             *)
LEMMA LineStep ==
  ASSUME TypeOK, AsksInv, JobsInv, WaitersInv, LineInv, [Next]_vars
  PROVE  LineInv'
<1>1. \A i \in Asks : AskKept(i)
  BY AsksStep
<1>2. DOMAIN at = Job
  BY DEF TypeOK
<1>3. CASE UNCHANGED <<inbox, at, chains, counts>>
  BY <1>1, <1>3, LineMoves DEF chains
<1>4. ASSUME NEW j \in Job, Acquire(j) PROVE LineInv'
  <2>1. PICK r \in [Job -> Nat] : LineOf(Chained, Waiting, HomeOf, behind, tail, r)
    BY DEF LineInv
  <2>2. /\ at[j] = "queued" /\ (behind[j] # Nobody => at[behind[j]] = "done")
        /\ at' = [at EXCEPT ![j] = "running"] \/ at' = [at EXCEPT ![j] = "slot"]
        /\ behind' = [behind EXCEPT ![j] = Nobody] /\ tail' = tail
    BY <1>4 DEF Acquire
  <2>3. behind[j] \notin Chained /\ j \in Chained
    BY <2>2, JobsAssumption DEF Chained, Unfinished, JobsInv
  <2>4. LineOf(Chained, Waiting \ {j}, HomeOf, behind', tail, r)
    BY <2>1, <2>2, <2>3, LineTypes, LineAcquire
  <2>5. \A q \in Job : at[q] # "none" => (Chains(q)' <=> Chains(q)) /\ HomeOf'[q] = HomeOf[q]
    BY <1>1, JobsAreStable DEF HomeOf
  <2>6. \A q \in Job : \/ q # j /\ at'[q] = at[q]
                       \/ q = j /\ at'[q] \in {"running", "slot"}
    BY <1>2, <2>2
  <2>7. Chained' = Chained
    BY <2>2, <2>5, <2>6 DEF Chained, Unfinished
  <2>8. Waiting' = Waiting \ {j}
    BY <2>2, <2>5, <2>6, <2>7 DEF Waiting, Chained, Unfinished
  <2>9. \A q \in Chained : HomeOf'[q] = HomeOf[q]
    BY <2>5 DEF Chained, Unfinished
  <2>10. LineOf(Chained, Waiting \ {j}, HomeOf', behind', tail, r)
    BY <2>4, <2>9, LineSame
  <2> QED BY <2>2, <2>7, <2>8, <2>10 DEF LineInv
<1>5. ASSUME NEW m \in Message, Admit(m) PROVE LineInv'
  BY <1>1, <1>5, LineAdmits
<1>6. ASSUME NEW m \in Message, m \notin inbox, at' = [at EXCEPT ![m] = "answer"],
             UNCHANGED chains
      PROVE  LineInv'
  <2>1. at[m] = "none" /\ m \in Job
    BY <1>6 DEF JobsInv, Job
  <2>2. \A j \in Job : at'[j] = at[j] \/ (at[j] = "none" /\ at'[j] = "answer")
    BY <1>2, <1>6, <2>1
  <2> QED BY <1>1, <1>6, <2>2, LineMoves DEF chains
<1>7. ASSUME NEW j \in Job, NEW s \in TurnStates, at[j] \in TurnStates,
             at' = [at EXCEPT ![j] = s], UNCHANGED chains
      PROVE  LineInv'
  <2>1. \A q \in Job : \/ at'[q] = at[q]
                       \/ /\ Unfinished(q) /\ Unfinished(q)'
                          /\ at[q] # "queued" /\ at'[q] # "queued"
    BY <1>2, <1>7 DEF TurnStates, Unfinished
  <2> QED BY <1>1, <1>7, <2>1, LineMoves DEF chains
<1>8. ASSUME NEW m \in Message, Closed(m) PROVE LineInv'
  BY <1>1, <1>8, LineShorter DEF Closed, TurnStates, Job, Chains
<1>9. ASSUME NEW i \in Asks, NEW k \in Claims, at[<<i, k>>] \in TurnStates, Return(i, k)
      PROVE  LineInv'
  <2>1. <<i, k>> \in Job /\ <<i, k>>[1] = i /\ <<i, k>> \notin Message
    BY JobsAssumption DEF Job, Resume
  <2>2. CASE Direct(i)
    <3>1. at' = [at EXCEPT ![<<i, k>>] = "done"] /\ UNCHANGED chains
      BY <1>9, <2>2 DEF Return
    <3>2. ~Chains(<<i, k>>)
      BY <2>1, <2>2 DEF Chains
    <3>3. \A q \in Job : \/ at'[q] = at[q]
                         \/ at[q] # "none" /\ ~Chains(q) /\ at'[q] # "queued"
      BY <1>2, <1>9, <3>1, <3>2 DEF TurnStates
    <3> QED BY <1>1, <3>1, <3>3, LineMoves DEF chains
  <2>3. CASE ~Direct(i)
    <3>1. Chains(<<i, k>>) /\ Leave(<<i, k>>)
      BY <1>9, <2>1, <2>3 DEF Chains, Return
    <3> QED BY <1>1, <1>9, <2>1, <3>1, LineShorter
  <2> QED BY <2>2, <2>3
<1>10. CASE Flush
  BY <1>1, <1>10, LineFlushes
<1>11. CASE Gone
  <2>1. Chained' = {} /\ \A c \in Conv : tail'[c] = Nobody
    BY <1>11, GoneJobs DEF Chained
  <2>2. LineOf({}, Waiting', HomeOf', behind', tail', [j \in Job |-> 0])
    BY <2>1 DEF LineOf
  <2>3. [j \in Job |-> 0] \in [Job -> Nat]
    OBVIOUS
  <2> QED BY <2>1, <2>2, <2>3 DEF LineInv
<1>12. JobChange
  BY EveryJobChange
<1> QED BY <1>3, <1>4, <1>5, <1>6, <1>7, <1>8, <1>9, <1>10, <1>11, <1>12 DEF JobChange

-----------------------------------------------------------------------------
(* Slots and reservations.                                                 *)

SlotsInv ==
  /\ IsFiniteSet(Turns) /\ active = Cardinality(Turns)
  /\ waiters # <<>> => active = MaxRuns

AdmittedOf(c) == {m \in Admitted : ConvOf[m] = c}

ReservationsInv ==
  /\ IsFiniteSet(Admitted) /\ total = Cardinality(Admitted)
  /\ \A c \in Conv : pendingIn[c] = Cardinality(AdmittedOf(c))

(* Whoever is in a turn has a slot, whoever is admitted a reservation.     *)
LEMMA CountsArePositive ==
  ASSUME SlotsInv, ReservationsInv
  PROVE  /\ active \in Nat /\ (Turns # {} => active > 0)
         /\ total \in Nat /\ (Admitted # {} => total > 0)
         /\ \A c \in Conv : IsFiniteSet(AdmittedOf(c)) /\ pendingIn[c] \in Nat
                            /\ (AdmittedOf(c) # {} => pendingIn[c] > 0)
<1>1. \A c \in Conv : IsFiniteSet(AdmittedOf(c))
  BY FS_Subset DEF AdmittedOf, ReservationsInv
<1>2. Cardinality(Turns) \in Nat /\ Cardinality(Admitted) \in Nat
      /\ \A c \in Conv : Cardinality(AdmittedOf(c)) \in Nat
  BY <1>1, FS_CardinalityType DEF SlotsInv, ReservationsInv
<1> QED BY <1>1, <1>2, FS_EmptySet DEF SlotsInv, ReservationsInv

(* What a step owes to the slots and to the reservations.                  *)
SlotsKept == SlotsInv' /\ active' \in 0 .. MaxRuns
ReservationsKept ==
  ReservationsInv' /\ total' \in 0 .. MaxPending /\ pendingIn' \in [Conv -> 0 .. MaxPerConv]

(* A job leaves its turn, a waiter gets its slot.                          *)
LEMMA SlotsStep ==
  ASSUME TypeOK, AsksInv, JobsInv, WaitersInv, SlotsInv, ReservationsInv, [Next]_vars
  PROVE  SlotsKept
<1>1. \A j \in Job : at[j] # "none" => (Chains(j)' <=> Chains(j))
  BY AsksStep, JobsAreStable
<1>2. DOMAIN at = Job /\ MaxRuns \in Nat /\ active \in 0 .. MaxRuns
  BY DEF TypeOK
<1>3. Turns = {j \in Job : at[j] \in TurnStates /\ Chains(j)}
  BY DEF Turns, InTurn, TurnStates, Chains
<1>4. Turns' = {j \in Job : at'[j] \in TurnStates /\ Chains(j)'}
  BY DEF Turns, InTurn, TurnStates, Chains
<1>5. ASSUME Turns' = Turns, active' = active, waiters' # <<>> => active = MaxRuns
      PROVE  SlotsKept
  BY <1>2, <1>5 DEF SlotsKept, SlotsInv
<1>6. waiters # <<>> => active = MaxRuns
  BY DEF SlotsKept, SlotsInv
<1>7. CASE UNCHANGED <<inbox, at, chains, counts>>
  <2>1. Turns' = Turns
    BY <1>1, <1>3, <1>4, <1>7 DEF TurnStates
  <2> QED BY <1>5, <1>6, <1>7, <2>1 DEF chains
<1>8. ASSUME NEW j \in Job, Acquire(j) PROVE SlotsKept
  <2>1. at[j] = "queued" /\ Chains(j)
    BY <1>8 DEF Acquire, JobsInv
  <2>2. CASE active < MaxRuns
    <3>1. active' = active + 1 /\ at' = [at EXCEPT ![j] = "running"] /\ waiters' = waiters
      BY <1>8, <2>2 DEF Acquire
    <3>2. Turns' = Turns \cup {j} /\ j \notin Turns
      BY <1>1, <1>2, <1>3, <1>4, <2>1, <3>1 DEF TurnStates
    <3>3. IsFiniteSet(Turns') /\ Cardinality(Turns') = Cardinality(Turns) + 1
      BY <3>2, FS_AddElement DEF SlotsKept, SlotsInv
    <3> QED BY <1>2, <1>6, <2>2, <3>1, <3>3 DEF SlotsKept, SlotsInv
  <2>3. CASE ~(active < MaxRuns)
    <3>1. active' = active /\ at' = [at EXCEPT ![j] = "slot"]
      BY <1>8, <2>3 DEF Acquire
    <3>2. Turns' = Turns
      BY <1>1, <1>2, <1>3, <1>4, <2>1, <3>1 DEF TurnStates
    <3> QED BY <1>2, <1>5, <2>3, <3>1, <3>2
  <2> QED BY <2>2, <2>3
<1>9. ASSUME NEW j \in Job, NEW s, at[j] \notin TurnStates, s \notin TurnStates,
             at' = [at EXCEPT ![j] = s], UNCHANGED <<active, waiters>>
      PROVE  SlotsKept
  <2>1. Turns' = Turns
    BY <1>1, <1>2, <1>3, <1>4, <1>9 DEF TurnStates
  <2> QED BY <1>5, <1>6, <1>9, <2>1
<1>10. ASSUME NEW m \in Message, Admit(m) PROVE SlotsKept
  <2>1. at[m] = "none" /\ m \in Job
    BY <1>10 DEF Admit, JobsInv, Job
  <2> QED BY <1>9, <1>10, <2>1 DEF Admit, TurnStates
<1>11. ASSUME NEW m \in Message, m \notin inbox, at' = [at EXCEPT ![m] = "answer"],
              UNCHANGED chains
       PROVE  SlotsKept
  <2>1. at[m] = "none" /\ m \in Job
    BY <1>11 DEF JobsInv, Job
  <2> QED BY <1>9, <1>11, <2>1 DEF TurnStates, chains
<1>12. ASSUME NEW j \in Job, NEW s \in TurnStates, at[j] \in TurnStates,
              at' = [at EXCEPT ![j] = s], UNCHANGED chains
       PROVE  SlotsKept
  <2>1. Turns' = Turns
    BY <1>1, <1>2, <1>3, <1>4, <1>12 DEF TurnStates
  <2> QED BY <1>5, <1>6, <1>12, <2>1 DEF chains
<1>13. ASSUME NEW j \in Job, at[j] \in TurnStates, Chains(j), Leave(j) PROVE SlotsKept
  <2>1. j \in Turns
    BY <1>3, <1>13
  <2>2. /\ IsFiniteSet(Turns \ {j}) /\ Cardinality(Turns \ {j}) = Cardinality(Turns) - 1
        /\ active > 0
    BY <2>1, FS_RemoveElement, CountsArePositive DEF SlotsKept, SlotsInv
  <2>3. CASE waiters' = <<>> /\ active' = active - 1 /\ at' = [at EXCEPT ![j] = "done"]
    <3>1. Turns' = Turns \ {j}
      BY <1>1, <1>2, <1>3, <1>4, <1>13, <2>3 DEF TurnStates
    <3> QED BY <1>2, <2>2, <2>3, <3>1 DEF SlotsKept, SlotsInv
  <2>4. ASSUME NEW w \in Job \ {j}, waiters # <<>>, active' = active, at[w] = "slot",
               at' = [at EXCEPT ![j] = "done", ![w] = "running"]
        PROVE  SlotsKept
    <3>1. Chains(w) /\ w \notin Turns \ {j}
      BY <1>3, <2>4 DEF JobsInv, TurnStates
    <3>2. Turns' = (Turns \ {j}) \cup {w}
      BY <1>1, <1>2, <1>3, <1>4, <1>13, <2>4, <3>1 DEF TurnStates
    <3>3. IsFiniteSet(Turns') /\ Cardinality(Turns') = Cardinality(Turns \ {j}) + 1
      BY <2>2, <3>1, <3>2, FS_AddElement
    <3>4. Cardinality(Turns') = Cardinality(Turns)
      <4>1. Cardinality(Turns) \in Nat
        BY FS_CardinalityType DEF SlotsKept, SlotsInv
      <4> QED BY <2>2, <3>3, <4>1
    <3> QED BY <1>2, <1>6, <2>4, <3>3, <3>4 DEF SlotsKept, SlotsInv
  <2> QED BY <1>13, <2>3, <2>4, LeaveJobs
<1>14. ASSUME NEW m \in Message, Closed(m) PROVE SlotsKept
  BY <1>13, <1>14 DEF Closed, TurnStates, Job, Chains
<1>15. ASSUME NEW i \in Asks, NEW k \in Claims, at[<<i, k>>] \in TurnStates, Return(i, k)
       PROVE  SlotsKept
  <2>1. <<i, k>> \in Job /\ <<i, k>>[1] = i /\ <<i, k>> \notin Message
    BY JobsAssumption DEF Job, Resume
  <2>2. CASE Direct(i)
    <3>1. at' = [at EXCEPT ![<<i, k>>] = "done"] /\ UNCHANGED chains
      BY <1>15, <2>2 DEF Return
    <3>2. ~Chains(<<i, k>>) /\ at[<<i, k>>] # "none"
      BY <1>15, <2>1, <2>2 DEF Chains, TurnStates
    <3>3. Turns' = Turns
      BY <1>1, <1>2, <1>3, <1>4, <2>1, <3>1, <3>2 DEF TurnStates
    <3> QED BY <1>5, <1>6, <3>1, <3>3 DEF chains
  <2>3. CASE ~Direct(i)
    <3>1. Chains(<<i, k>>) /\ Leave(<<i, k>>)
      BY <1>15, <2>1, <2>3 DEF Chains, Return
    <3> QED BY <1>13, <1>15, <2>1, <3>1
  <2> QED BY <2>2, <2>3
<1>16. CASE Flush
  <2>1. PICK due \in SUBSET Asks : FlushOf(due)
    BY <1>16, FlushJobs
  <2>2. \A j \in NewJobs(due) : at[j] = "none" /\ j \in Resume /\ j \notin Message
    BY <2>1, JobsAssumption DEF FlushOf, NewJobs, Job
  <2>3. /\ UNCHANGED <<active, waiters, kind>>
        /\ \A j \in Job : at'[j] = IF j \in NewJobs(due)
                                   THEN IF Direct(j[1]) THEN "running" ELSE "queued" ELSE at[j]
    BY <2>1 DEF FlushOf
  <2>4. \A j \in Job : Chains(j)' <=> Chains(j)
    BY <2>3 DEF Chains, Direct
  <2>5. Turns' = Turns
    BY <1>3, <1>4, <2>2, <2>3, <2>4 DEF TurnStates, Chains
  <2> QED BY <1>5, <1>6, <2>3, <2>5
<1>17. CASE Gone
  <2>1. active' = 0 /\ waiters' = <<>> /\ Turns' = {}
    BY <1>4, <1>17 DEF Gone, Unfinished, TurnStates
  <2> QED BY <1>2, <2>1, FS_EmptySet DEF SlotsKept, SlotsInv
<1>18. JobChange
  BY EveryJobChange
<1> QED
  BY <1>7, <1>8, <1>10, <1>11, <1>12, <1>14, <1>15, <1>16, <1>17, <1>18 DEF JobChange

(* A message takes its reservation when it is admitted and returns it at    *)
(* the end of its turn.                                                    *)
LEMMA ReservationsStep ==
  ASSUME TypeOK, AsksInv, JobsInv, WaitersInv, SlotsInv, ReservationsInv, [Next]_vars
  PROVE  ReservationsKept
<1>1. /\ DOMAIN at = Job /\ MaxPending \in Nat /\ MaxPerConv \in Nat
      /\ total \in 0 .. MaxPending /\ pendingIn \in [Conv -> 0 .. MaxPerConv]
  BY DEF TypeOK
<1>2. \A m \in Message : m \in Job /\ ConvOf[m] \in Conv
  BY DEF Job
<1>3. ASSUME \A m \in Message : Unfinished(m)' <=> Unfinished(m), UNCHANGED counts
      PROVE  ReservationsKept
  <2>1. Admitted' = Admitted
    BY <1>3 DEF Admitted
  <2>2. \A c \in Conv : AdmittedOf(c)' = AdmittedOf(c)
    BY <2>1 DEF AdmittedOf
  <2> QED BY <1>1, <1>3, <2>1, <2>2 DEF ReservationsKept, ReservationsInv, counts
<1>4. CASE UNCHANGED <<inbox, at, chains, counts>>
  BY <1>3, <1>4 DEF Unfinished
<1>5. ASSUME NEW j \in Job, Acquire(j) PROVE ReservationsKept
  <2>1. at[j] = "queued" /\ UNCHANGED counts
        /\ (at' = [at EXCEPT ![j] = "running"] \/ at' = [at EXCEPT ![j] = "slot"])
    BY <1>5 DEF Acquire
  <2> QED BY <1>1, <1>2, <1>3, <2>1 DEF Unfinished
<1>6. ASSUME NEW m \in Message, Admit(m) PROVE ReservationsKept
  <2>1. at[m] = "none" /\ at' = [at EXCEPT ![m] = "queued"] /\ Room(ConvOf[m])
        /\ total' = total + 1 /\ pendingIn' = [pendingIn EXCEPT ![ConvOf[m]] = @ + 1]
    BY <1>6 DEF Admit, JobsInv
  <2>2. \A q \in Message : Unfinished(q)' <=> Unfinished(q) \/ q = m
    BY <1>1, <1>2, <2>1 DEF Unfinished
  <2>3. Admitted' = Admitted \cup {m} /\ m \notin Admitted
    BY <2>1, <2>2 DEF Admitted, Unfinished
  <2>4. \A c \in Conv : AdmittedOf(c)' = IF c = ConvOf[m] THEN AdmittedOf(c) \cup {m} ELSE AdmittedOf(c)
    BY <2>3 DEF AdmittedOf
  <2>5. IsFiniteSet(Admitted') /\ total' = Cardinality(Admitted')
    BY <2>1, <2>3, FS_AddElement DEF ReservationsKept, ReservationsInv
  <2>6. ASSUME NEW c \in Conv PROVE pendingIn'[c] = Cardinality(AdmittedOf(c)')
    <3>1. IsFiniteSet(AdmittedOf(c)) /\ m \notin AdmittedOf(c)
      BY <2>3, CountsArePositive DEF AdmittedOf
    <3>2. CASE c = ConvOf[m]
      <4>1. Cardinality(AdmittedOf(c) \cup {m}) = Cardinality(AdmittedOf(c)) + 1
        BY <3>1, FS_AddElement
      <4> QED BY <1>1, <2>1, <2>4, <3>2, <4>1 DEF ReservationsKept, ReservationsInv
    <3>3. CASE c # ConvOf[m]
      BY <1>1, <2>1, <2>4, <3>3 DEF ReservationsKept, ReservationsInv
    <3> QED BY <3>2, <3>3
  <2>7. total' \in 0 .. MaxPending /\ pendingIn' \in [Conv -> 0 .. MaxPerConv]
    BY <1>1, <1>2, <2>1 DEF Room
  <2> QED BY <2>5, <2>6, <2>7 DEF ReservationsKept, ReservationsInv
<1>7. ASSUME NEW m \in Message, m \notin inbox, at' = [at EXCEPT ![m] = "answer"],
             UNCHANGED counts
      PROVE  ReservationsKept
  <2>1. at[m] = "none"
    BY <1>7 DEF JobsInv
  <2> QED BY <1>1, <1>2, <1>3, <1>7, <2>1 DEF Unfinished
<1>8. ASSUME NEW j \in Job, NEW s \in TurnStates, at[j] \in TurnStates,
             at' = [at EXCEPT ![j] = s], UNCHANGED counts
      PROVE  ReservationsKept
  BY <1>1, <1>2, <1>3, <1>8 DEF Unfinished, TurnStates
<1>9. ASSUME NEW m \in Message, Closed(m) PROVE ReservationsKept
  <2>1. at[m] = "closing" /\ Leave(m) /\ m \in Job /\ at[m] \in TurnStates
        /\ total' = total - 1 /\ pendingIn' = [pendingIn EXCEPT ![ConvOf[m]] = @ - 1]
    BY <1>2, <1>9 DEF Closed, TurnStates
  <2>2. \A q \in Job : \/ q = m /\ at'[q] = "done"
                       \/ q # m /\ at'[q] = at[q]
                       \/ q # m /\ at[q] = "slot" /\ at'[q] = "running"
    BY <1>1, <2>1, LeaveJobs
  <2>3. \A q \in Message : Unfinished(q)' <=> Unfinished(q) /\ q # m
    BY <1>2, <2>2 DEF Unfinished
  <2>4. Admitted' = Admitted \ {m} /\ m \in Admitted
    BY <2>1, <2>3 DEF Admitted, Unfinished
  <2>5. \A c \in Conv : AdmittedOf(c)' = IF c = ConvOf[m] THEN AdmittedOf(c) \ {m} ELSE AdmittedOf(c)
    BY <2>4 DEF AdmittedOf
  <2>6. IsFiniteSet(Admitted') /\ total' = Cardinality(Admitted')
    BY <2>1, <2>4, FS_RemoveElement DEF ReservationsKept, ReservationsInv
  <2>7. ASSUME NEW c \in Conv PROVE pendingIn'[c] = Cardinality(AdmittedOf(c)')
    <3>1. IsFiniteSet(AdmittedOf(c)) /\ (c = ConvOf[m] => m \in AdmittedOf(c))
      BY <2>4, CountsArePositive DEF AdmittedOf
    <3>2. CASE c = ConvOf[m]
      <4>1. Cardinality(AdmittedOf(c) \ {m}) = Cardinality(AdmittedOf(c)) - 1
        BY <3>1, <3>2, FS_RemoveElement
      <4> QED BY <1>1, <2>1, <2>5, <3>2, <4>1 DEF ReservationsKept, ReservationsInv
    <3>3. CASE c # ConvOf[m]
      BY <1>1, <2>1, <2>5, <3>3 DEF ReservationsKept, ReservationsInv
    <3> QED BY <3>2, <3>3
  <2>8. total > 0 /\ pendingIn[ConvOf[m]] > 0
    <3>1. Admitted # {} /\ AdmittedOf(ConvOf[m]) # {}
      BY <2>4 DEF AdmittedOf
    <3> QED BY <1>2, <3>1, CountsArePositive
  <2>9. total' \in 0 .. MaxPending /\ pendingIn' \in [Conv -> 0 .. MaxPerConv]
    BY <1>1, <1>2, <2>1, <2>8
  <2> QED BY <2>6, <2>7, <2>9 DEF ReservationsKept, ReservationsInv
<1>10. ASSUME NEW i \in Asks, NEW k \in Claims, at[<<i, k>>] \in TurnStates, Return(i, k),
              UNCHANGED counts
       PROVE  ReservationsKept
  <2>1. <<i, k>> \in Job /\ <<i, k>> \notin Message
    BY JobsAssumption DEF Job, Resume
  <2>2. CASE Direct(i)
    BY <1>1, <1>2, <1>3, <1>10, <2>1, <2>2 DEF Return, Unfinished
  <2>3. CASE ~Direct(i)
    <3>1. \A q \in Job : \/ q = <<i, k>>
                         \/ at'[q] = at[q]
                         \/ at[q] = "slot" /\ at'[q] = "running"
      <4>1. Leave(<<i, k>>)
        BY <1>10, <2>3 DEF Return
      <4> QED BY <1>1, <1>10, <2>1, <4>1, LeaveJobs
    <3> QED BY <1>2, <1>3, <1>10, <2>1, <3>1 DEF Unfinished
  <2> QED BY <2>2, <2>3
<1>11. CASE Flush
  <2>1. PICK due \in SUBSET Asks : FlushOf(due)
    BY <1>11, FlushJobs
  <2>2. \A m \in Message : m \notin NewJobs(due)
    BY <2>1, JobsAssumption DEF FlushOf, NewJobs
  <2>3. UNCHANGED counts /\ \A m \in Message : at'[m] = at[m]
    BY <1>2, <2>1, <2>2 DEF FlushOf
  <2> QED BY <1>3, <2>3 DEF Unfinished
<1>12. CASE Gone
  <2>1. total' = 0 /\ pendingIn' = [c \in Conv |-> 0] /\ Admitted' = {}
    BY <1>2, <1>12, GoneJobs DEF Gone, Admitted
  <2>2. \A c \in Conv : AdmittedOf(c)' = {}
    BY <2>1 DEF AdmittedOf
  <2>3. IsFiniteSet(Admitted') /\ total' = Cardinality(Admitted')
    BY <2>1, FS_EmptySet
  <2>4. \A c \in Conv : pendingIn'[c] = Cardinality(AdmittedOf(c)')
    BY <2>1, <2>2, FS_EmptySet
  <2>5. total' \in 0 .. MaxPending /\ pendingIn' \in [Conv -> 0 .. MaxPerConv]
    BY <1>1, <2>1
  <2> QED BY <2>3, <2>4, <2>5 DEF ReservationsKept, ReservationsInv
<1>13. JobChange
  BY EveryJobChange
<1> QED
  BY <1>4, <1>5, <1>6, <1>7, <1>8, <1>9, <1>10, <1>11, <1>12, <1>13 DEF JobChange

-----------------------------------------------------------------------------
(* Types.                                                                  *)

AtState == {"none", "answer", "queued", "slot", "running", "closing", "resumed", "failed",
            "done", "lost"}

AskTypes ==
  /\ ask \in [Asks -> {"none", "pending"} \cup AskVerdict]
  /\ kind \in [Asks -> {"none"} \cup AskKind] /\ home \in [Asks -> Conv]
  /\ lapsed \subseteq Asks
  /\ resume \in [Asks -> {"none", "pending", "leased", "delivered", "dead"}]
  /\ attempts \in [Asks -> {0} \cup Claims]
JobTypes ==
  /\ inbox \subseteq Message /\ at \in [Job -> AtState]
  /\ behind \in [Job -> Job \cup {Nobody}] /\ tail \in [Conv -> Job \cup {Nobody}]
  /\ waiters \in Seq(Job)
OtherTypes ==
  /\ ripe \subseteq Asks /\ mine \subseteq Asks
  /\ mode \in {"down", "up", "stopping"} /\ request \in [Conv -> {0} \cup Asks]
  /\ remembered \subseteq Asks /\ acking \subseteq Asks
  /\ timer \in BOOLEAN /\ flights \subseteq SUBSET Resume /\ flushing \subseteq Resume
  /\ faults \in 0 .. MaxFaults

OthersKept ==
  /\ ripe' \subseteq Asks /\ mine' \subseteq Asks
  /\ mode' \in {"down", "up", "stopping"} /\ request' \in [Conv -> {0} \cup Asks]
  /\ remembered' \subseteq Asks /\ acking' \subseteq Asks
  /\ timer' \in BOOLEAN /\ flights' \subseteq SUBSET Resume /\ flushing' \subseteq Resume

(* Questions and resumes.                                                  *)
LEMMA AskTypesStep ==
  ASSUME TypeOK, AsksInv, JobsInv, [Next]_vars
  PROVE  AskTypes'
<1>1. AskTypes
  BY DEF AskTypes, TypeOK
<1>2. CASE UNCHANGED <<asks, resume, attempts>>
  BY <1>1, <1>2 DEF AskTypes, asks
<1>3. ASSUME NEW c \in Conv, NEW k \in AskKind, NEW s \in {"pending", "cancelled"},
             Create(c, k, s), UNCHANGED <<resume, attempts>>
      PROVE  AskTypes'
  <2>1. ask' \in [Asks -> {"none", "pending"} \cup AskVerdict]
    BY <1>1, <1>3 DEF AskTypes, Create, AskVerdict
  <2>2. kind' \in [Asks -> {"none"} \cup AskKind] /\ home' \in [Asks -> Conv]
    BY <1>1, <1>3 DEF AskTypes, Create
  <2> QED BY <1>1, <1>3, <2>1, <2>2 DEF AskTypes, Create
<1>4. ASSUME NEW i \in Asks, NEW d \in {"answered", "cancelled"}, ResolveAsk(i, d) PROVE AskTypes'
  BY <1>1, <1>4 DEF AskTypes, ResolveAsk, AskVerdict
<1>5. ASSUME NEW i \in Asks, lapsed' = lapsed \cup {i},
             UNCHANGED <<ask, kind, home, resume, attempts>>
      PROVE  AskTypes'
  BY <1>1, <1>5 DEF AskTypes
<1>6. ASSUME NEW i \in Asks, NEW s \in {"delivered", "dead", "pending"}, Settled(i, s),
             UNCHANGED asks
      PROVE  AskTypes'
  BY <1>1, <1>6 DEF AskTypes, Settled, asks
<1>7. CASE Flush
  <2>1. PICK due \in SUBSET Asks : FlushOf(due)
    BY <1>7, FlushJobs
  <2> QED BY <1>1, <2>1 DEF FlushOf, AskTypes
<1>8. AskChange
  BY EveryAskChange
<1> QED BY <1>2, <1>3, <1>4, <1>5, <1>6, <1>7, <1>8 DEF AskChange

(* Jobs and their lines.                                                   *)
LEMMA JobTypesStep ==
  ASSUME TypeOK, AsksInv, JobsInv, WaitersInv, [Next]_vars
  PROVE  JobTypes'
<1>1. JobTypes
  BY DEF JobTypes, TypeOK, AtState
<1>2. \A m \in Message : m \in Job /\ ConvOf[m] \in Conv
  BY DEF Job
<1>3. CASE UNCHANGED <<inbox, at, chains, counts>>
  BY <1>1, <1>3 DEF JobTypes, chains
<1>4. ASSUME NEW j \in Job, Acquire(j) PROVE JobTypes'
  <2>1. at' = [at EXCEPT ![j] = "running"] \/ at' = [at EXCEPT ![j] = "slot"]
    BY <1>4 DEF Acquire
  <2>2. at' \in [Job -> AtState]
    BY <1>1, <2>1 DEF JobTypes, AtState
  <2>3. waiters' = waiters \/ waiters' = Append(waiters, j)
    BY <1>4 DEF Acquire
  <2>4. waiters' \in Seq(Job)
    BY <1>1, <2>3 DEF JobTypes
  <2>5. /\ UNCHANGED <<inbox, tail>> /\ behind' = [behind EXCEPT ![j] = Nobody]
    BY <1>4 DEF Acquire
  <2>6. behind' \in [Job -> Job \cup {Nobody}]
    BY <1>1, <2>5 DEF JobTypes
  <2> QED BY <1>1, <2>2, <2>4, <2>5, <2>6 DEF JobTypes
<1>5. ASSUME NEW m \in Message, Admit(m) PROVE JobTypes'
  BY <1>1, <1>2, <1>5 DEF Admit, JobTypes, AtState
<1>6. ASSUME NEW m \in Message, inbox' = inbox \cup {m}, at' = [at EXCEPT ![m] = "answer"],
             UNCHANGED chains
      PROVE  JobTypes'
  BY <1>1, <1>6 DEF JobTypes, AtState, chains
<1>7. ASSUME NEW j \in Job, NEW s \in TurnStates, at' = [at EXCEPT ![j] = s],
             UNCHANGED <<inbox, chains>>
      PROVE  JobTypes'
  BY <1>1, <1>7 DEF JobTypes, AtState, TurnStates, chains
<1>8. ASSUME NEW j \in Job, at[j] \in TurnStates, Leave(j), UNCHANGED inbox PROVE JobTypes'
  <2>1. at' \in [Job -> AtState] /\ waiters' \in Seq(Job)
    <3>1. CASE waiters = <<>> /\ waiters' = <<>> /\ at' = [at EXCEPT ![j] = "done"]
      BY <1>1, <3>1 DEF JobTypes, AtState
    <3>2. CASE /\ waiters # <<>> /\ waiters' = Tail(waiters) /\ Head(waiters) \in Job
               /\ at' = [at EXCEPT ![j] = "done", ![Head(waiters)] = "running"]
      <4>1. at' \in [Job -> AtState]
        BY <1>1, <3>2 DEF JobTypes, AtState
      <4>2. waiters' \in Seq(Job)
        BY <1>1, <3>2 DEF JobTypes
      <4> QED BY <4>1, <4>2
    <3> QED BY <1>8, <3>1, <3>2, LeaveJobs
  <2>2. tail' \in [Conv -> Job \cup {Nobody}] /\ behind' = behind
    BY <1>1, <1>8, LeaveJobs DEF JobTypes
  <2> QED BY <1>1, <1>8, <2>1, <2>2 DEF JobTypes
<1>9. ASSUME NEW m \in Message, Closed(m) PROVE JobTypes'
  BY <1>2, <1>8, <1>9 DEF Closed, TurnStates
<1>10. ASSUME NEW i \in Asks, NEW k \in Claims, at[<<i, k>>] \in TurnStates, Return(i, k),
              UNCHANGED inbox
       PROVE  JobTypes'
  <2>1. <<i, k>> \in Job
    BY DEF Job, Resume
  <2>2. CASE Direct(i)
    BY <1>1, <1>10, <2>1, <2>2 DEF Return, JobTypes, AtState, chains
  <2>3. CASE ~Direct(i)
    BY <1>8, <1>10, <2>1, <2>3 DEF Return
  <2> QED BY <2>2, <2>3
<1>11. CASE Flush
  <2>1. PICK due \in SUBSET Asks : FlushOf(due)
    BY <1>11, FlushJobs
  <2>2. \A i \in due : NewJob(i) \in Job
    BY <2>1 DEF FlushOf, Job
  <2>3. \A S \in SUBSET due : S # {} => NewJob(Last(S)) \in Job
    BY <2>2, LastIsLast
  <2>4. at' \in [Job -> AtState]
    BY <1>1, <2>1 DEF FlushOf, JobTypes, AtState
  <2>5. tail' \in [Conv -> Job \cup {Nobody}]
    <3>1. \A c \in Conv : Queued(due, c) \in SUBSET due
      BY DEF Queued
    <3>2. tail' = [c \in Conv |-> IF Queued(due, c) = {} THEN tail[c]
                                  ELSE NewJob(Last(Queued(due, c)))]
      BY <2>1 DEF FlushOf
    <3> QED BY <1>1, <2>3, <3>1, <3>2 DEF JobTypes
  <2>6. \A j \in Job : behind'[j] \in Job \cup {Nobody}
    <3>1. ASSUME NEW j \in Job, j \notin NewJobs(due) PROVE behind'[j] \in Job \cup {Nobody}
      BY <1>1, <2>1, <3>1 DEF FlushOf, JobTypes
    <3>2. ASSUME NEW i \in due PROVE behind'[NewJob(i)] \in Job \cup {Nobody}
      <4>1. CASE Direct(i)
        BY <1>1, <2>1, <2>2, <4>1 DEF FlushOf, JobTypes
      <4>2. CASE ~Direct(i)
        <5>1. Before(due, i) \in SUBSET due /\ tail[home[i]] \in Job \cup {Nobody}
          BY <1>1 DEF Before, Queued, JobTypes, TypeOK
        <5>2. behind'[NewJob(i)] = IF Before(due, i) = {} THEN tail[home[i]]
                                   ELSE NewJob(Last(Before(due, i)))
          BY <2>1, <4>2 DEF FlushOf
        <5> QED BY <2>3, <5>1, <5>2
      <4> QED BY <4>1, <4>2
    <3> QED BY <3>1, <3>2 DEF NewJobs
  <2>7. behind' = [j \in Job |-> behind'[j]] /\ UNCHANGED <<inbox, waiters>>
    BY <2>1 DEF FlushOf
  <2>8. behind' \in [Job -> Job \cup {Nobody}]
    BY <2>6, <2>7
  <2> QED BY <1>1, <2>4, <2>5, <2>7, <2>8 DEF JobTypes
<1>12. CASE Gone
  <2>1. waiters' = <<>> /\ <<>> \in Seq(Job)
    BY <1>12 DEF Gone
  <2> QED BY <1>1, <1>12, <2>1 DEF Gone, JobTypes, AtState
<1>13. JobChange
  BY EveryJobChange
<1> QED BY <1>3, <1>4, <1>5, <1>6, <1>7, <1>9, <1>10, <1>11, <1>12, <1>13 DEF JobChange

(* Each step uses up a fault or none.                                      *)
LEMMA EveryFaultCounts == [Next]_vars => UNCHANGED faults \/ Fault
<1> SUFFICES ASSUME [Next]_vars PROVE UNCHANGED faults \/ Fault
  OBVIOUS
<1>1. ASSUME NEW m \in Message, MessageStep(m) PROVE UNCHANGED faults \/ Fault
  BY <1>1 DEF MessageStep, Admit, TextAnswer, FinishRun, AbandonRun, Closed, OpenAsk, Offered,
              Shown, Refused, Unstored, NoFault
<1>2. ASSUME NEW i \in Asks, AskStep(i) PROVE UNCHANGED faults \/ Fault
  BY <1>2 DEF AskStep, Acked, Lapse, TimePasses, Answer, NoFault
<1>3. ASSUME NEW i \in Asks, NEW k \in Claims, ResumeStep(i, k)
      PROVE  UNCHANGED faults \/ Fault
  BY <1>3 DEF ResumeStep, ResumeLive, ContinueTurn, CompleteResume, SettleFailedResume,
              Shown, Refused, Unstored, NoFault
<1>4. ASSUME NEW j \in Job, Acquire(j) PROVE UNCHANGED faults \/ Fault
  BY <1>4 DEF Acquire
<1>5. ASSUME NEW F \in flights, FlightOver(F) PROVE UNCHANGED faults \/ Fault
  BY <1>5 DEF FlightOver
<1>6. CASE Start \/ Stop \/ Stopped \/ Crash \/ UNCHANGED vars
  BY <1>6 DEF Start, Stop, Stopped, Crash, vars
<1>7. CASE Flush
  BY <1>7 DEF Flush, NoFault
<1> QED BY <1>1, <1>2, <1>3, <1>4, <1>5, <1>6, <1>7 DEF Next

(* The rest.                                                               *)
LEMMA OtherTypesStep ==
  ASSUME TypeOK, AsksInv, JobsInv, [Next]_vars
  PROVE  OtherTypes'
<1>1. OtherTypes
  BY DEF OtherTypes, TypeOK
<1>2. /\ faults' \in 0 .. MaxFaults
  <2>1. faults \in 0 .. MaxFaults /\ MaxFaults \in Nat
    BY <1>1 DEF OtherTypes
  <2> QED BY <2>1, EveryFaultCounts DEF Fault
<1>3. ASSUME NEW m \in Message, MessageStep(m) PROVE OthersKept
  <2>1. CASE Admit(m) \/ FinishRun(m) \/ Closed(m)
    BY <1>1, <2>1 DEF OthersKept, OtherTypes, Admit, FinishRun, Closed, rows, outbox
  <2>2. CASE AbandonRun(m)
    BY <1>1, <2>2 DEF OthersKept, OtherTypes, AbandonRun, rows, outbox
  <2>3. CASE TextAnswer(m)
    BY <1>1, <2>3 DEF OthersKept, OtherTypes, TextAnswer, ResolveAsk, OpenText, rows, outbox
  <2>4. ASSUME NEW k \in AskKind, OpenAsk(m, k) PROVE OthersKept
    <3>1. request' = request \/ (NewAsk \in Asks /\ request' = [request EXCEPT ![ConvOf[m]] = NewAsk])
      BY <2>4 DEF OpenAsk, Shown, Create
    <3>2. request' \in [Conv -> {0} \cup Asks]
      BY <1>1, <3>1 DEF OtherTypes
    <3> QED BY <1>1, <2>4, <3>2 DEF OthersKept, OtherTypes, OpenAsk, rows, outbox
  <2> QED BY <1>3, <2>1, <2>2, <2>3, <2>4 DEF MessageStep
<1>4. ASSUME NEW i \in Asks, AskStep(i) PROVE OthersKept
  BY <1>1, <1>4 DEF OthersKept, OtherTypes, AskStep, Acked, Lapse, TimePasses, Answer, ResolveAsk, rows, outbox
<1>5. ASSUME NEW i \in Asks, NEW k \in Claims, ResumeStep(i, k) PROVE OthersKept
  <2>1. CASE ResumeLive(i, k)
    <3>1. \/ request' = request
          \/ request' = [request EXCEPT ![home[i]] = 0]
          \/ NewAsk \in Asks /\ request' = [request EXCEPT ![home[i]] = NewAsk]
      BY <2>1 DEF ResumeLive, Shown, Create
    <3>2. request' \in [Conv -> {0} \cup Asks]
      BY <1>1, <3>1 DEF OtherTypes
    <3>3. remembered' \subseteq remembered \cup {i}
      BY <2>1 DEF ResumeLive
    <3>4. UNCHANGED <<rows, mode, acking, outbox>>
      BY <2>1 DEF ResumeLive
    <3> QED BY <1>1, <3>2, <3>3, <3>4 DEF OthersKept, OtherTypes, rows, outbox
  <2>2. CASE ContinueTurn(i, k)
    BY <1>1, <2>2 DEF OthersKept, OtherTypes, ContinueTurn, rows, outbox
  <2>3. CASE CompleteResume(i, k)
    BY <1>1, <2>3 DEF OthersKept, OtherTypes, CompleteResume, Settled, rows, outbox
  <2>4. CASE SettleFailedResume(i, k)
    BY <1>1, <2>4 DEF OthersKept, OtherTypes, SettleFailedResume, Settled, rows, outbox
  <2> QED BY <1>5, <2>1, <2>2, <2>3, <2>4 DEF ResumeStep
<1>6. ASSUME NEW j \in Job, Acquire(j) PROVE OthersKept
  BY <1>1, <1>6 DEF OthersKept, OtherTypes, Acquire, rows, outbox
<1>7. ASSUME NEW F \in flights, FlightOver(F) PROVE OthersKept
  BY <1>1, <1>7 DEF OthersKept, OtherTypes, FlightOver, rows
<1>8. ASSUME Start \/ Stop \/ UNCHANGED vars PROVE OthersKept
  BY <1>1, <1>8 DEF OthersKept, OtherTypes, Start, Stop, rows, outbox, vars
<1>9. ASSUME Stopped \/ Crash PROVE OthersKept
  BY <1>1, <1>9 DEF OthersKept, OtherTypes, Stopped, Crash, Gone
<1>10. ASSUME Flush PROVE OthersKept
  <2>1. PICK due \in SUBSET Asks : FlushOf(due)
    BY <1>10, FlushJobs
  <2>2. NewJobs(due) \subseteq Resume
    BY <2>1 DEF FlushOf, NewJobs
  <2> QED BY <1>1, <2>1, <2>2 DEF OthersKept, OtherTypes, FlushOf
<1>11. OthersKept
  BY <1>3, <1>4, <1>5, <1>6, <1>7, <1>8, <1>9, <1>10 DEF Next
<1> QED BY <1>2, <1>11 DEF OtherTypes, OthersKept

-----------------------------------------------------------------------------
(* The invariant.                                                          *)

ConversationsInv ==
  TypeOK /\ AsksInv /\ JobsInv /\ WaitersInv /\ LineInv /\ SlotsInv /\ ReservationsInv

(* It holds in an empty store and a process that is not started.           *)
LEMMA ConversationsInit == Init => ConversationsInv
<1> SUFFICES ASSUME Init PROVE ConversationsInv
  OBVIOUS
<1> USE ConversationsAssumption
<1>1. (CHOOSE c \in Conv : TRUE) \in Conv
  OBVIOUS
<1>2. AskTypes
  BY <1>1 DEF Init, AskTypes
<1>3. JobTypes
  BY DEF Init, JobTypes, AtState
<1>4. OtherTypes
  <2>1. /\ ripe \subseteq Asks /\ mine \subseteq Asks /\ remembered \subseteq Asks
        /\ acking \subseteq Asks /\ flights \subseteq SUBSET Resume /\ flushing \subseteq Resume
    BY DEF Init
  <2>2. mode \in {"down", "up", "stopping"} /\ faults \in 0 .. MaxFaults
    BY DEF Init
  <2>3. timer \in BOOLEAN
    BY DEF Init
  <2>4. request \in [Conv -> {0} \cup Asks]
    BY DEF Init
  <2> QED BY <2>1, <2>2, <2>3, <2>4 DEF OtherTypes
<1>5. active \in 0 .. MaxRuns /\ total \in 0 .. MaxPending /\ pendingIn \in [Conv -> 0 .. MaxPerConv]
  BY DEF Init
<1>6. TypeOK
  BY <1>2, <1>3, <1>4, <1>5 DEF TypeOK, AskTypes, JobTypes, OtherTypes, AtState
<1>7. AsksInv
  <2>1. AsksInOrder
    <3>1. 0 \in 0 .. MaxAsks /\ \A i \in Asks : ask[i] # "none" <=> i <= 0
      BY DEF Init, Asks
    <3> QED BY <3>1 DEF AsksInOrder
  <2>2. RowsFollowVerdicts
    BY DEF Init, RowsFollowVerdicts
  <2>3. OneOpenAsk
    BY DEF Init, OneOpenAsk, Pending
  <2> QED BY <2>1, <2>2, <2>3 DEF AsksInv
<1>8. \A j \in Job : at[j] = "none"
  BY DEF Init
<1>9. JobsInv
  <2>1. \A m \in Message : m \in Job
    BY DEF Job
  <2>2. \A i \in Asks, k \in Claims : <<i, k>> \in Job
    BY DEF Job, Resume
  <2> QED BY <1>8, <2>1, <2>2 DEF JobsInv
<1>10. WaitersInv
  BY <1>8 DEF Init, WaitersInv
<1>11. Chained = {} /\ Turns = {} /\ Admitted = {}
  <2>1. \A m \in Message : m \in Job
    BY DEF Job
  <2> QED BY <1>8, <2>1 DEF Chained, Turns, Admitted, Unfinished, InTurn
<1>12. LineInv
  <2> DEFINE r == [j \in Job |-> 0]
  <2>1. r \in [Job -> Nat]
    OBVIOUS
  <2>2. \A c \in Conv : tail[c] = Nobody
    BY DEF Init
  <2>3. LineOf(Chained, Waiting, HomeOf, behind, tail, r)
    BY <1>11, <2>2 DEF LineOf
  <2> QED BY <2>1, <2>3 DEF LineInv
<1>13. SlotsInv
  BY <1>11, FS_EmptySet DEF Init, SlotsInv
<1>14. ReservationsInv
  <2>1. \A c \in Conv : AdmittedOf(c) = {}
    BY <1>11 DEF AdmittedOf
  <2> QED BY <1>11, <2>1, FS_EmptySet DEF Init, ReservationsInv
<1> QED BY <1>6, <1>7, <1>9, <1>10, <1>12, <1>13, <1>14 DEF ConversationsInv

(* Every step preserves it.                                                *)
LEMMA ConversationsStep == ConversationsInv /\ [Next]_vars => ConversationsInv'
<1> SUFFICES ASSUME ConversationsInv, [Next]_vars PROVE ConversationsInv'
  OBVIOUS
<1>1. TypeOK /\ AsksInv /\ JobsInv /\ WaitersInv /\ LineInv /\ SlotsInv /\ ReservationsInv
  BY DEF ConversationsInv
<1>2. AsksInv'
  BY <1>1, AsksStep
<1>3. JobsInv'
  BY <1>1, JobsStep
<1>4. WaitersInv'
  BY <1>1, WaitersStep
<1>5. LineInv'
  BY <1>1, LineStep
<1>6. SlotsKept
  BY <1>1, SlotsStep
<1>7. ReservationsKept
  BY <1>1, ReservationsStep
<1>8. AskTypes' /\ JobTypes' /\ OtherTypes'
  BY <1>1, AskTypesStep, JobTypesStep, OtherTypesStep
<1>9. TypeOK'
  BY <1>6, <1>7, <1>8
     DEF TypeOK, AskTypes, JobTypes, OtherTypes, AtState, SlotsKept, ReservationsKept
<1> QED BY <1>2, <1>3, <1>4, <1>5, <1>6, <1>7, <1>9 DEF ConversationsInv, SlotsKept, ReservationsKept

(* The invariant of every reachable state.                                 *)
THEOREM ConversationsInvariant == Spec => []ConversationsInv
  BY ConversationsInit, ConversationsStep, PTL DEF Spec

-----------------------------------------------------------------------------
(* What follows from it.                                                   *)

(* Every variable of the gateway's turns and questions has its type.       *)
THEOREM ConversationsTypeOK == Spec => []TypeOK
<1>1. ConversationsInv => TypeOK
  BY DEF ConversationsInv
<1> QED BY <1>1, ConversationsInvariant, PTL

(* The turns of one conversation never overlap: the promise chain lets a     *)
(* turn start only when the one before it is over, and no job deletes the   *)
(* chain of a later one.                                                   *)
THEOREM ConversationsOneTurn == Spec => []OneTurnPerConversation
<1>1. ConversationsInv => OneTurnPerConversation
  <2> SUFFICES ASSUME ConversationsInv, NEW c \in Conv
               PROVE  Cardinality({j \in Job : InTurn(j) /\ Home(j) = c}) <= 1
    BY DEF OneTurnPerConversation
  <2> DEFINE S == {j \in Job : InTurn(j) /\ Home(j) = c}
  <2>1. PICK r \in [Job -> Nat] : LineOf(Chained, Waiting, HomeOf, behind, tail, r)
    BY DEF ConversationsInv, LineInv
  <2>2. \A j \in S : j \in Chained /\ j \notin Waiting /\ HomeOf[j] = c
    BY DEF InTurn, Chained, Waiting, HomeOf, Chains, Unfinished
  <2>3. \A j, q \in S : j = q
    <3> SUFFICES ASSUME NEW j \in S, NEW q \in S, j # q PROVE FALSE
      OBVIOUS
    <3>1. r[j] \in Nat /\ r[q] \in Nat
      BY <2>1
    <3>2. r[j] # r[q]
      BY <2>1, <2>2 DEF LineOf
    <3>3. r[j] < r[q] \/ r[q] < r[j]
      BY <3>1, <3>2
    <3> QED BY <2>1, <2>2, <3>3 DEF LineOf
  <2>4. CASE S = {}
    <3>1. Cardinality(S) = 0
      BY <2>4, FS_EmptySet
    <3> QED BY <3>1
  <2>5. ASSUME NEW j \in S PROVE Cardinality(S) <= 1
    <3>1. S = {j}
      BY <2>3, <2>5
    <3>2. Cardinality(S) = 1
      BY <3>1, FS_Singleton
    <3> QED BY <3>2
  <2> QED BY <2>4, <2>5
<1> QED BY <1>1, ConversationsInvariant, PTL

(* A conversation has at most one question or set of actions open, although  *)
(* expiry, answers and new questions race each other.                      *)
THEOREM ConversationsOneOpenAsk == Spec => []OneOpenAsk
<1>1. ConversationsInv => OneOpenAsk
  BY DEF ConversationsInv, AsksInv
<1> QED BY <1>1, ConversationsInvariant, PTL

(* Run slots are neither lost nor made up, for any number of slots: a freed  *)
(* slot goes to the first waiter or back to the counter, never both.       *)
THEOREM ConversationsSlotsExact == Spec => []SlotsExact
<1>1. ConversationsInv => SlotsExact
  <2> SUFFICES ASSUME ConversationsInv PROVE SlotsExact
    OBVIOUS
  <2>1. active = Cardinality({j \in Job : InTurn(j)}) /\ (waiters # <<>> => active = MaxRuns)
    BY DEF ConversationsInv, SlotsInv, Turns
  <2>2. waiters \in Seq(Job) /\ WaitersInv
    BY DEF ConversationsInv, TypeOK
  <2>3. DOMAIN waiters = 1 .. Len(waiters) /\ \A n \in DOMAIN waiters : waiters[n] \in Job
    BY <2>2
  <2>4. {waiters[n] : n \in DOMAIN waiters} = {j \in Job : at[j] = "slot"}
    BY <2>2, <2>3 DEF WaitersInv
  <2> QED BY <2>1, <2>4 DEF SlotsExact
<1> QED BY <1>1, ConversationsInvariant, PTL

(* The admission counters are the numbers of admitted messages that are not  *)
(* finished, in total and of each conversation: nothing leaks capacity.    *)
THEOREM ConversationsReservationsExact == Spec => []ReservationsExact
<1>1. ConversationsInv => ReservationsExact
  BY DEF ConversationsInv, ReservationsInv, ReservationsExact, AdmittedOf
<1> QED BY <1>1, ConversationsInvariant, PTL

(* The first verdict on a question stands, and so does the end of its        *)
(* resume: clicks, texts, sweeps, replacements and retries never race it.  *)
THEOREM ConversationsVerdictsStand == Spec => VerdictsStand
<1>1. ConversationsInv /\ [Next]_vars =>
        [\A i \in Asks :
           /\ ask[i] \in AskVerdict => ask'[i] = ask[i]
           /\ resume[i] \in {"delivered", "dead"} => resume'[i] = resume[i]]_vars
  BY AsksStep DEF ConversationsInv, AskKept
<1> QED BY <1>1, ConversationsInvariant, PTL DEF Spec, VerdictsStand

(* A message starts at most one turn: not after a redelivery, after a crash, *)
(* or after it answered a question.                                        *)
THEOREM ConversationsTurnStartsOnce == Spec => TurnStartsOnce
<1>1. ConversationsInv /\ [Next]_vars =>
        [\A m \in Message : at'[m] = "queued" /\ at[m] # "queued" => m \notin inbox]_vars
  <2> SUFFICES ASSUME ConversationsInv, [Next]_vars,
                      NEW m \in Message, at'[m] = "queued", at[m] # "queued"
               PROVE  m \notin inbox
    OBVIOUS
  <2>1. TypeOK /\ AsksInv /\ JobsInv /\ WaitersInv /\ m \in Job /\ DOMAIN at = Job
    BY DEF ConversationsInv, TypeOK, Job
  <2>2. CASE UNCHANGED <<inbox, at, chains, counts>>
    BY <2>2
  <2>3. ASSUME NEW j \in Job, Acquire(j) PROVE FALSE
    BY <2>1, <2>3 DEF Acquire
  <2>4. ASSUME NEW n \in Message, Admit(n) PROVE m \notin inbox
    BY <2>1, <2>4 DEF Admit
  <2>5. ASSUME NEW n \in Message, at' = [at EXCEPT ![n] = "answer"] PROVE FALSE
    BY <2>1, <2>5
  <2>6. ASSUME NEW j \in Job, NEW s \in TurnStates, at' = [at EXCEPT ![j] = s] PROVE FALSE
    BY <2>1, <2>6 DEF TurnStates
  <2>7. ASSUME NEW j \in Job, at[j] \in TurnStates, Leave(j) PROVE FALSE
    BY <2>1, <2>7, LeaveJobs
  <2>8. ASSUME NEW n \in Message, Closed(n) PROVE FALSE
    <3>1. n \in Job /\ at[n] \in TurnStates /\ Leave(n)
      BY <2>8 DEF Closed, TurnStates, Job
    <3> QED BY <2>7, <3>1
  <2>9. ASSUME NEW i \in Asks, NEW k \in Claims, at[<<i, k>>] \in TurnStates, Return(i, k)
        PROVE  FALSE
    <3>1. <<i, k>> \in Job
      BY DEF Job, Resume
    <3>2. CASE Direct(i)
      BY <2>1, <2>9, <3>2 DEF Return
    <3>3. CASE ~Direct(i)
      BY <2>7, <2>9, <3>1, <3>3 DEF Return
    <3> QED BY <3>2, <3>3
  <2>10. CASE Flush
    <3>1. PICK due \in SUBSET Asks : FlushOf(due)
      BY <2>1, <2>10, FlushJobs
    <3>2. m \notin NewJobs(due)
      BY <3>1, JobsAssumption DEF FlushOf, NewJobs
    <3>3. at'[m] = at[m]
      BY <2>1, <3>1, <3>2 DEF FlushOf
    <3> QED BY <3>3
  <2>11. CASE Gone
    BY <2>1, <2>11, GoneJobs
  <2>12. JobChange
    BY <2>1, EveryJobChange
  <2> QED BY <2>2, <2>3, <2>4, <2>5, <2>6, <2>8, <2>9, <2>10, <2>11, <2>12 DEF JobChange
<1> QED BY <1>1, ConversationsInvariant, PTL DEF Spec, TurnStartsOnce

-----------------------------------------------------------------------------
(* Blocked agents.  While nothing fails, an agent that is blocked on a       *)
(* question can still be woken.  Its question is one of its own conversation *)
(* that is not replaced by another, no attempt of its resume has been        *)
(* handled, and the adapter does not remember it.                            *)

Handled == {"resumed", "failed"}

Blocked(c, x) ==
  /\ Live /\ home[x] = c /\ kind[x] # "actions" /\ ask[x] # "none" /\ x \notin remembered
  /\ \A k \in Claims : at[<<x, k>>] \notin Handled
  /\ ask[x] = "pending" \/ resume[x] \in {"pending", "leased"}
  /\ \A q \in Asks : Pending(q) /\ home[q] = c /\ kind[q] # "actions" => q = x

AgentsWakeable ==
  /\ \A c \in Conv : request[c] # 0 => Blocked(c, request[c])
  /\ \A i \in remembered : ask[i] # "none"

(* While the counter is zero nothing has failed, and nothing fails now.    *)
LEMMA NothingFails == ASSUME TypeOK, faults' = 0 PROVE ~Fault
BY DEF Fault, TypeOK

-----------------------------------------------------------------------------
(* A blocked agent and its question.                                       *)

(* What a step keeps of the question x of a blocked agent of c.            *)
Stays(c, x) ==
  /\ ask'[x] = "pending" \/ resume'[x] \in {"pending", "leased"}
  /\ \A q \in Asks : Pending(q)' /\ home'[q] = c /\ kind'[q] # "actions" => q = x

(* The sweep and the claims of a flush.                                    *)
LEMMA FlushRows ==
  ASSUME TypeOK, Flush, NEW x \in Asks, kind[x] # "actions",
         ask[x] = "pending" \/ resume[x] \in {"pending", "leased"}
  PROVE  /\ ask'[x] = "pending" \/ resume'[x] \in {"pending", "leased"}
         /\ \A q \in Asks : ask'[q] = "pending" => ask[q] = "pending"
         /\ UNCHANGED <<kind, home, lapsed>>
<1>1. PICK swept, claimed \in BOOLEAN :
        LET S      == IF swept THEN ToExpire ELSE {}
            status == [i \in Asks |-> IF i \in Revived(S) THEN "pending" ELSE resume[i]]
            due    == {i \in Asks : i \in ripe \cup Revived(S) /\ status[i] \in {"pending", "leased"}}
        IN  /\ ask' = Expired(S)
            /\ ClaimResumes(status, IF claimed THEN due ELSE {})
  BY DEF Flush
<1> DEFINE S == IF swept THEN ToExpire ELSE {}
           status == [i \in Asks |-> IF i \in Revived(S) THEN "pending" ELSE resume[i]]
           due == {i \in Asks : i \in ripe \cup Revived(S) /\ status[i] \in {"pending", "leased"}}
           claim == IF claimed THEN due ELSE {}
<1>2. /\ ask' = Expired(S)
      /\ resume' = [i \in Asks |-> IF i \in claim THEN "leased" ELSE status[i]]
  BY <1>1 DEF ClaimResumes
<1>3. \A q \in Asks : ask'[q] = IF q \in S THEN "expired" ELSE ask[q]
  BY <1>2 DEF Expired
<1>4. x \in S => x \in Revived(S)
  BY DEF Revived
<1>5. x \in S => resume'[x] \in {"pending", "leased"}
  BY <1>2, <1>4
<1>6. resume[x] \in {"pending", "leased"} => resume'[x] \in {"pending", "leased"}
  BY <1>2
<1>7. UNCHANGED <<kind, home, lapsed>>
  BY DEF Flush
<1> HIDE DEF S, status, due, claim
<1>8. ask'[x] = "pending" \/ resume'[x] \in {"pending", "leased"}
  BY <1>3, <1>5, <1>6
<1> QED BY <1>3, <1>7, <1>8

LEMMA BlockedKept ==
  ASSUME NEW c \in Conv, NEW x \in Asks, Blocked(c, x), Stays(c, x), AskKept(x),
         \A k \in Claims : at'[<<x, k>>] \in Handled => at[<<x, k>>] \in Handled,
         x \notin remembered'
  PROVE  Blocked(c, x)'
<1>1. home'[x] = c /\ kind'[x] # "actions" /\ ask'[x] # "none"
  BY DEF AskKept, Blocked
<1>2. \A k \in Claims : at'[<<x, k>>] \notin Handled
  BY DEF Blocked
<1> QED BY <1>1, <1>2 DEF Blocked, Stays

(* The ways in which questions and resumes change.                         *)
LEMMA SameStays ==
  ASSUME NEW c \in Conv, NEW x \in Asks, Blocked(c, x), UNCHANGED <<asks, resume>>
  PROVE  Stays(c, x)
BY DEF Blocked, Stays, asks, Pending

LEMMA ResolveStays ==
  ASSUME TypeOK, NEW c \in Conv, NEW x \in Asks, Blocked(c, x),
         NEW i \in Asks, NEW d \in {"answered", "cancelled"}, ResolveAsk(i, d)
  PROVE  Stays(c, x)
<1>1. \A q \in Asks : Pending(q)' => Pending(q)
  BY DEF ResolveAsk, TypeOK, Pending
<1>2. ask'[x] = "pending" \/ resume'[x] \in {"pending", "leased"}
  BY DEF ResolveAsk, TypeOK, Blocked
<1>3. UNCHANGED <<kind, home>>
  BY DEF ResolveAsk
<1> QED BY <1>1, <1>2, <1>3 DEF Blocked, Stays

LEMMA LapseStays ==
  ASSUME NEW c \in Conv, NEW x \in Asks, Blocked(c, x),
         NEW i \in Asks, lapsed' = lapsed \cup {i}, UNCHANGED <<ask, kind, home, resume>>
  PROVE  Stays(c, x)
<1>1. \A q \in Asks : Pending(q)' => Pending(q)
  BY DEF Pending
<1> QED BY <1>1 DEF Blocked, Stays

LEMMA SettledStays ==
  ASSUME TypeOK, NEW c \in Conv, NEW x \in Asks, Blocked(c, x),
         NEW i \in Asks, NEW s \in {"delivered", "dead", "pending"}, Settled(i, s),
         i # x \/ s = "pending", UNCHANGED asks
  PROVE  Stays(c, x)
<1>1. \A q \in Asks : Pending(q)' => Pending(q)
  BY DEF Pending, asks
<1>2. ask'[x] = "pending" \/ resume'[x] \in {"pending", "leased"}
  BY DEF Settled, TypeOK, Blocked, asks
<1>3. UNCHANGED <<kind, home>>
  BY DEF asks
<1> QED BY <1>1, <1>2, <1>3 DEF Blocked, Stays

LEMMA FlushStays ==
  ASSUME TypeOK, NEW c \in Conv, NEW x \in Asks, Blocked(c, x), Flush
  PROVE  Stays(c, x)
<1>1. /\ ask'[x] = "pending" \/ resume'[x] \in {"pending", "leased"}
      /\ \A q \in Asks : ask'[q] = "pending" => ask[q] = "pending"
      /\ UNCHANGED <<kind, home, lapsed>>
  <2>1. kind[x] # "actions" /\ (ask[x] = "pending" \/ resume[x] \in {"pending", "leased"})
    BY DEF Blocked
  <2> QED BY <2>1, FlushRows
<1>2. \A q \in Asks : Pending(q)' => Pending(q)
  BY <1>1 DEF Pending
<1> QED BY <1>1, <1>2 DEF Blocked, Stays

(* The conversation of a blocked agent gets no other question: it is held.  *)
LEMMA CreateStays ==
  ASSUME TypeOK, AsksInv, NEW c \in Conv, NEW x \in Asks, Blocked(c, x), UNCHANGED resume,
         NEW d \in Conv, NEW k \in AskKind, NEW s \in {"pending", "cancelled"}, Create(d, k, s),
         d # c \/ k = "actions" \/ s = "cancelled"
  PROVE  Stays(c, x)
<1>1. NewAsk \in Asks /\ NewAsk \in Nat /\ \A i \in Asks : ask[i] # "none" <=> i < NewAsk
  BY NewAskIsNext DEF AsksInv, Create
<1>2. /\ ~Held(d) /\ UNCHANGED lapsed
      /\ ask' = [i \in Asks |-> IF i = NewAsk THEN s
                                ELSE IF Pending(i) /\ home[i] = d THEN "cancelled" ELSE ask[i]]
      /\ kind' = [kind EXCEPT ![NewAsk] = k] /\ home' = [home EXCEPT ![NewAsk] = d]
  BY DEF Create
<1> HIDE DEF NewAsk
<1>3. x # NewAsk
  <2>1. ask[x] # "none" /\ x \in Nat
    BY DEF Blocked, Asks
  <2> QED BY <1>1, <2>1
<1>4. ~(Pending(x) /\ home[x] = d)
  BY <1>2 DEF Held, Blocked
<1>5. ask'[x] = "pending" \/ resume'[x] \in {"pending", "leased"}
  BY <1>2, <1>3, <1>4 DEF Blocked
<1>6. \A q \in Asks : q # NewAsk => kind'[q] = kind[q] /\ home'[q] = home[q]
  BY <1>2 DEF TypeOK
<1>7. \A q \in Asks : q # NewAsk /\ ask'[q] = "pending" => ask[q] = "pending"
  BY <1>2
<1>8. \A q \in Asks : q # NewAsk /\ Pending(q)' => Pending(q)
  BY <1>2, <1>7 DEF Pending
<1>9. ask'[NewAsk] = s /\ home'[NewAsk] = d /\ kind'[NewAsk] = k
  BY <1>1, <1>2 DEF TypeOK
<1>10. \A q \in Asks : q = NewAsk => ~(Pending(q)' /\ home'[q] = c /\ kind'[q] # "actions")
  BY <1>1, <1>9 DEF Pending
<1>11. \A q \in Asks : Pending(q)' /\ home'[q] = c /\ kind'[q] # "actions" => q = x
  <2> TAKE q \in Asks
  <2>1. CASE q = NewAsk
    BY <2>1, <1>10
  <2>2. CASE q # NewAsk
    BY <2>2, <1>6, <1>8 DEF Blocked
  <2> QED BY <2>1, <2>2
<1> QED BY <1>5, <1>11 DEF Stays

-----------------------------------------------------------------------------
(* The steps.                                                              *)

(* What a step that deals with the resumes of D only may do to the jobs and *)
(* to the memory of the adapter.                                           *)
OnlyHandles(D) ==
  /\ \A i \in D : ask[i] # "none"
  /\ remembered' \subseteq remembered \cup D
  /\ \A q \in Asks, k \in Claims :
       q \notin D /\ at'[<<q, k>>] \in Handled => at[<<q, k>>] \in Handled

LEMMA AgentsAfter ==
  ASSUME TypeOK, \A i \in Asks : AskKept(i), AgentsWakeable, NEW D \in SUBSET Asks, OnlyHandles(D),
         \A c \in Conv :
           \/ request'[c] = 0
           \/ request'[c] \in Asks /\ Blocked(c, request[c])'
           \/ request'[c] = request[c] /\ request[c] \notin D /\ Stays(c, request[c])
  PROVE  AgentsWakeable'
<1>1. \A q \in remembered' : ask'[q] # "none"
  BY DEF AgentsWakeable, OnlyHandles, AskKept, TypeOK
<1>2. ASSUME NEW c \in Conv, request'[c] # 0 PROVE Blocked(c, request[c])'
  <2>1. CASE Blocked(c, request[c])'
    BY <2>1
  <2>2. CASE request'[c] = request[c] /\ request[c] \notin D /\ Stays(c, request[c])
    <3>1. PICK x \in Asks : x = request[c] /\ x \notin D
      BY <1>2, <2>2 DEF TypeOK
    <3>2. Blocked(c, x) /\ Stays(c, x) /\ x \notin remembered'
      BY <1>2, <2>2, <3>1 DEF AgentsWakeable, OnlyHandles, Blocked
    <3>3. \A k \in Claims : at'[<<x, k>>] \in Handled => at[<<x, k>>] \in Handled
      BY <3>1 DEF OnlyHandles
    <3>4. Blocked(c, x)'
      BY <3>2, <3>3, BlockedKept
    <3> QED BY <2>2, <3>1, <3>4
  <2> QED BY <1>2, <2>1, <2>2
<1> QED BY <1>1, <1>2 DEF AgentsWakeable

(* A step that hands nothing to an adapter.                                *)
LEMMA AgentsKept ==
  ASSUME TypeOK, \A i \in Asks : AskKept(i), AgentsWakeable,
         remembered' \subseteq remembered,
         \A j \in Job : at'[j] \in Handled => at[j] \in Handled,
         \A c \in Conv : request'[c] \in {request[c], 0},
         \A c \in Conv, x \in Asks : Blocked(c, x) => Stays(c, x)
  PROVE  AgentsWakeable'
<1>1. \A q \in remembered' : ask'[q] # "none"
  BY DEF AgentsWakeable, AskKept, TypeOK
<1>2. \A q \in Asks, k \in Claims : <<q, k>> \in Job
  BY DEF Job, Resume
<1>3. ASSUME NEW c \in Conv, request'[c] # 0 PROVE Blocked(c, request[c])'
  <2>1. PICK x \in Asks : x = request[c] /\ request'[c] = x
    BY <1>3 DEF TypeOK
  <2>2. Blocked(c, x) /\ Stays(c, x) /\ x \notin remembered'
    BY <1>3, <2>1 DEF AgentsWakeable, Blocked
  <2>3. Blocked(c, x)'
    BY <1>2, <2>2, BlockedKept
  <2> QED BY <2>1, <2>3
<1> QED BY <1>1, <1>3 DEF AgentsWakeable

(* A new question of a live agent is one its agent can be woken by.        *)
LEMMA FreshBlocked ==
  ASSUME TypeOK, AsksInv, JobsInv, AgentsWakeable, Live, NEW c \in Conv,
         NEW k \in AskKind, k # "actions", Create(c, k, "pending"),
         NEW D \in SUBSET Asks, OnlyHandles(D)
  PROVE  NewAsk \in Asks /\ \A x \in Asks : x = NewAsk => Blocked(c, x)'
<1>1. NewAsk \in Asks /\ NewAsk \in Nat /\ \A q \in Asks : ask[q] # "none" <=> q < NewAsk
  BY NewAskIsNext DEF AsksInv, Create
<1>2. /\ UNCHANGED lapsed
      /\ ask' = [q \in Asks |-> IF q = NewAsk THEN "pending"
                                ELSE IF Pending(q) /\ home[q] = c THEN "cancelled" ELSE ask[q]]
      /\ kind' = [kind EXCEPT ![NewAsk] = k] /\ home' = [home EXCEPT ![NewAsk] = c]
  BY DEF Create
<1> HIDE DEF NewAsk
<1>3. SUFFICES ASSUME NEW x \in Asks, x = NewAsk PROVE Blocked(c, x)'
  BY <1>1
<1>4. ask[x] = "none"
  <2>1. x \in Nat /\ ~(x < x)
    BY DEF Asks
  <2> QED BY <1>1, <1>3, <2>1
<1>5. x \notin D /\ x \notin remembered'
  BY <1>4 DEF OnlyHandles, AgentsWakeable
<1>6. \A n \in Claims : at'[<<x, n>>] \notin Handled
  <2> TAKE n \in Claims
  <2>1. at[<<x, n>>] = "none"
    BY <1>4 DEF JobsInv
  <2> QED BY <1>5, <2>1 DEF OnlyHandles, Handled
<1>7. ask'[x] = "pending" /\ home'[x] = c /\ kind'[x] = k
  BY <1>2, <1>3 DEF TypeOK
<1>8. \A q \in Asks : Pending(q)' /\ home'[q] = c => q = x
  <2> SUFFICES ASSUME NEW q \in Asks, q # x, Pending(q)', home'[q] = c PROVE FALSE
    OBVIOUS
  <2>1. ask'[q] = "pending" /\ q \notin lapsed /\ home[q] = c
    BY <1>2, <1>3 DEF Pending, TypeOK
  <2>2. ask[q] = "pending"
    BY <1>2, <1>3, <2>1
  <2> QED BY <1>2, <1>3, <2>1, <2>2 DEF Pending
<1> QED BY <1>5, <1>6, <1>7, <1>8 DEF Blocked

(* Runs of messages.                                                       *)
LEMMA MessageWakes ==
  ASSUME TypeOK, AsksInv, JobsInv, WaitersInv, \A i \in Asks : AskKept(i), AgentsWakeable,
         ~Fault, NEW m \in Message, MessageStep(m)
  PROVE  AgentsWakeable'
<1>1. m \in Job /\ ConvOf[m] \in Conv /\ DOMAIN at = Job /\ DOMAIN request = Conv
  BY DEF Job, TypeOK
<1>3. CASE Admit(m)
  <2>1. UNCHANGED <<asks, resume, request, remembered>> /\ at' = [at EXCEPT ![m] = "queued"]
    BY <1>3 DEF Admit, rows
  <2>2. \A j \in Job : at'[j] \in Handled => at[j] \in Handled
    BY <1>1, <2>1 DEF Handled
  <2> QED BY <2>1, <2>2, AgentsKept, SameStays
<1>4. CASE TextAnswer(m)
  <2>1. UNCHANGED <<request, remembered>> /\ at' = [at EXCEPT ![m] = "answer"]
    BY <1>4 DEF TextAnswer
  <2>2. \A j \in Job : at'[j] \in Handled => at[j] \in Handled
    BY <1>1, <2>1 DEF Handled
  <2>3. \/ UNCHANGED <<asks, resume>>
        \/ \E i \in Asks : ResolveAsk(i, "answered")
    BY <1>4 DEF TextAnswer, OpenText, rows
  <2>4. \A c \in Conv, x \in Asks : Blocked(c, x) => Stays(c, x)
    BY <2>3, SameStays, ResolveStays
  <2> QED BY <2>1, <2>2, <2>4, AgentsKept
<1>5. CASE FinishRun(m)
  <2>1. /\ UNCHANGED <<resume, request, remembered>> /\ at' = [at EXCEPT ![m] = "closing"]
        /\ Offered(ConvOf[m])
    BY <1>5 DEF FinishRun, rows
  <2>2. \A j \in Job : at'[j] \in Handled => at[j] \in Handled
    BY <1>1, <2>1 DEF Handled
  <2>3. \/ UNCHANGED <<asks, resume>>
        \/ "actions" \in AskKind /\ Create(ConvOf[m], "actions", "pending")
    BY <2>1 DEF Offered, Shown, Unstored
  <2>4. \A c \in Conv, x \in Asks : Blocked(c, x) => Stays(c, x)
    BY <1>1, <2>1, <2>3, SameStays, CreateStays
  <2> QED BY <2>1, <2>2, <2>4, AgentsKept
<1>6. CASE AbandonRun(m)
  <2>1. /\ UNCHANGED <<asks, resume, remembered>> /\ at' = [at EXCEPT ![m] = "closing"]
        /\ request' = [request EXCEPT ![ConvOf[m]] = 0]
    BY <1>6 DEF AbandonRun, rows
  <2>2. \A j \in Job : at'[j] \in Handled => at[j] \in Handled
    BY <1>1, <2>1 DEF Handled
  <2>3. \A c \in Conv : request'[c] \in {request[c], 0}
    BY <1>1, <2>1
  <2> QED BY <2>1, <2>2, <2>3, AgentsKept, SameStays
<1>7. CASE Closed(m)
  <2>1. UNCHANGED <<asks, resume, request, remembered>> /\ at[m] = "closing" /\ Leave(m)
    BY <1>7 DEF Closed, rows
  <2>2. \A j \in Job : at'[j] \in Handled => at[j] \in Handled
    BY <1>1, <2>1, LeaveJobs DEF Handled, TurnStates
  <2> QED BY <2>1, <2>2, AgentsKept, SameStays
<1>8. ASSUME NEW k \in AskKind, OpenAsk(m, k) PROVE AgentsWakeable'
  <2> DEFINE c == ConvOf[m]
  <2>1. /\ UNCHANGED <<resume, remembered>> /\ k # "actions" /\ request[c] = 0
        /\ UNCHANGED at \/ at' = [at EXCEPT ![m] = "closing"]
    BY <1>8 DEF OpenAsk, rows
  <2>2. \A j \in Job : at'[j] \in Handled => at[j] \in Handled
    BY <1>1, <2>1 DEF Handled
  <2>3. CASE UNCHANGED <<asks, request>>
    BY <2>1, <2>2, <2>3, AgentsKept, SameStays
  <2>4. CASE Create(c, k, "pending") /\ request' = IF Live THEN [request EXCEPT ![c] = NewAsk]
                                                   ELSE request
    <3>1. ASSUME NEW d \in Conv, NEW x \in Asks, Blocked(d, x), x = request[d]
          PROVE  Stays(d, x)
      <4>1. d # c
        BY <2>1, <3>1 DEF Asks
      <4> QED BY <1>1, <2>1, <2>4, <3>1, <4>1, CreateStays
    <3>2. CASE ~Live
      <4>1. \A d \in Conv : request'[d] = 0
        <5>1. request' = request
          BY <2>4, <3>2
        <5> QED BY <3>2, <5>1 DEF AgentsWakeable, Blocked, TypeOK
      <4>2. \A q \in remembered' : ask'[q] # "none"
        BY <2>1 DEF AgentsWakeable, AskKept, TypeOK
      <4> QED BY <4>1, <4>2 DEF AgentsWakeable
    <3>3. CASE Live
      <4>1. OnlyHandles({})
        BY <1>1, <2>1, <2>2 DEF OnlyHandles, Job, Resume
      <4>2. NewAsk \in Asks /\ \A x \in Asks : x = NewAsk => Blocked(c, x)'
        BY <1>1, <2>1, <2>4, <3>3, <4>1, FreshBlocked
      <4>3. request' = [request EXCEPT ![c] = NewAsk]
        BY <2>4, <3>3
      <4>4. PICK n \in Asks : n = NewAsk
        BY <4>2
      <4>5. \A d \in Conv : d = c => request'[d] \in Asks /\ Blocked(d, request[d])'
        BY <1>1, <4>2, <4>3, <4>4 DEF Blocked
      <4>6. ASSUME NEW d \in Conv, d # c, request[d] # 0
            PROVE  request'[d] = request[d] /\ Stays(d, request[d])
        <5>1. request[d] \in Asks /\ Blocked(d, request[d])
          BY <4>6 DEF AgentsWakeable, TypeOK
        <5> QED BY <1>1, <3>1, <4>3, <4>6, <5>1
      <4>7. \A d \in Conv : d # c /\ request[d] = 0 => request'[d] = 0
        BY <1>1, <4>3
      <4>8. \A d \in Conv :
              \/ request'[d] = 0
              \/ request'[d] \in Asks /\ Blocked(d, request[d])'
              \/ request'[d] = request[d] /\ request[d] \notin {} /\ Stays(d, request[d])
        <5> TAKE d \in Conv
        <5>1. CASE d = c
          BY <4>5, <5>1 DEF Blocked
        <5>2. CASE d # c
          BY <4>6, <4>7, <5>2
        <5> QED BY <5>1, <5>2
      <4>9. {} \in SUBSET Asks
        OBVIOUS
      <4> QED BY <4>1, <4>8, <4>9, AgentsAfter
    <3> QED BY <3>2, <3>3
  <2>5. \/ UNCHANGED <<asks, request>>
        \/ Create(c, k, "pending") /\ request' = IF Live THEN [request EXCEPT ![c] = NewAsk]
                                                  ELSE request
    BY <1>8 DEF OpenAsk, Shown, Refused, Unstored
  <2> QED BY <2>3, <2>4, <2>5
<1> QED BY <1>3, <1>4, <1>5, <1>6, <1>7, <1>8 DEF MessageStep

(* Resumes.  What is handed over is the result of another question than the *)
(* one its conversation is blocked on, or it is the one that ends the block. *)
LEMMA ResumeWakes ==
  ASSUME TypeOK, AsksInv, JobsInv, WaitersInv, \A q \in Asks : AskKept(q), AgentsWakeable,
         ~Fault, NEW i \in Asks, NEW k \in Claims, ResumeStep(i, k)
  PROVE  AgentsWakeable'
<1>0. PICK c \in Conv : c = home[i]
  BY DEF TypeOK
<1> DEFINE j == <<i, k>>
<1>1. j \in Job /\ c = home[i] /\ DOMAIN at = Job /\ DOMAIN request = Conv
  BY <1>0 DEF Job, Resume, TypeOK
<1>2. \A d \in Conv : request[d] # 0 => request[d] \in Asks /\ Blocked(d, request[d])
  BY DEF AgentsWakeable, TypeOK
<1>3. ASSUME at[j] # "none", NEW s, at' = [at EXCEPT ![j] = s],
             remembered' \subseteq remembered \cup {i}
      PROVE  OnlyHandles({i})
  <2>1. ask[i] # "none"
    BY <1>3 DEF JobsInv
  <2>2. \A q \in Asks, n \in Claims : q # i => at'[<<q, n>>] = at[<<q, n>>]
    BY <1>1, <1>3
  <2> QED BY <1>3, <2>1, <2>2 DEF OnlyHandles
<1>4. CASE ResumeLive(i, k)
  <2>1. /\ at[j] = "running" /\ Direct(i) /\ UNCHANGED resume
        /\ \E s \in {"resumed", "failed"} : at' = [at EXCEPT ![j] = s]
        /\ remembered' \subseteq remembered \cup {i}
    BY <1>4 DEF ResumeLive, rows
  <2>2. OnlyHandles({i})
    BY <1>3, <2>1
  <2>3. ask[i] \notin {"none", "pending"}
    <3>1. attempts[i] > 0
      BY <2>1, AttemptsAreNumbers DEF JobsInv, Claims
    <3> QED BY <3>1 DEF AsksInv, RowsFollowVerdicts
  <2>4. ASSUME NEW d \in Conv, d # c, request[d] # 0 PROVE request[d] # i
    BY <1>1, <1>2, <2>4 DEF Blocked
  <2>5. CASE UNCHANGED <<asks, request>> /\ request[c] # i
    <3>1. ASSUME NEW d \in Conv, request[d] # 0
          PROVE  request'[d] = request[d] /\ request[d] \notin {i} /\ Stays(d, request[d])
      BY <1>2, <2>1, <2>4, <2>5, <3>1, SameStays
    <3> QED BY <2>2, <2>5, <3>1, AgentsAfter
  <2>6. CASE UNCHANGED asks /\ request' = [request EXCEPT ![c] = 0]
    <3>1. ASSUME NEW d \in Conv, d # c, request[d] # 0
          PROVE  request'[d] = request[d] /\ request[d] \notin {i} /\ Stays(d, request[d])
      BY <1>1, <1>2, <2>1, <2>4, <2>6, <3>1, SameStays
    <3>2. \A d \in Conv : d = c \/ request[d] = 0 => request'[d] = 0
      BY <1>1, <2>6
    <3> QED BY <2>2, <3>1, <3>2, AgentsAfter
  <2>7. ASSUME NEW n \in AskKind, n # "actions", Create(c, n, "pending"),
               request' = [request EXCEPT ![c] = NewAsk]
        PROVE  AgentsWakeable'
    <3>1. ASSUME NEW d \in Conv, d # c, request[d] # 0
          PROVE  request'[d] = request[d] /\ request[d] \notin {i} /\ Stays(d, request[d])
      BY <1>1, <1>2, <2>1, <2>4, <2>7, <3>1, CreateStays
    <3>2. NewAsk \in Asks /\ \A x \in Asks : x = NewAsk => Blocked(c, x)'
      BY <1>1, <2>1, <2>2, <2>7, FreshBlocked DEF Direct
    <3>3. PICK x \in Asks : x = NewAsk
      BY <3>2
    <3>4. request'[c] = x /\ Blocked(c, x)'
      BY <1>1, <2>7, <3>2, <3>3
    <3>5. \A e \in Conv : e # c /\ request[e] = 0 => request'[e] = 0
      BY <1>1, <2>7
    <3>6. \A e \in Conv :
            \/ request'[e] = 0
            \/ request'[e] \in Asks /\ Blocked(e, request[e])'
            \/ request'[e] = request[e] /\ request[e] \notin {i} /\ Stays(e, request[e])
      <4> TAKE e \in Conv
      <4>1. CASE e = c
        BY <3>4, <4>1 DEF Blocked
      <4>2. CASE e # c
        BY <3>1, <3>5, <4>2
      <4> QED BY <4>1, <4>2
    <3> QED BY <2>2, <3>6, AgentsAfter
  <2>8. ASSUME Held(c), UNCHANGED <<asks, request>> PROVE AgentsWakeable'
    <3>1. request[c] # i
      <4> SUFFICES ASSUME request[c] = i PROVE FALSE
        OBVIOUS
      <4>1. PICK q \in Asks : Pending(q) /\ home[q] = c /\ kind[q] # "actions"
        BY <2>8 DEF Held
      <4>2. Blocked(c, i)
        BY <1>1, <1>2 DEF Asks
      <4>3. q = i
        BY <4>1, <4>2 DEF Blocked
      <4> QED BY <2>3, <4>1, <4>3 DEF Pending
    <3> QED BY <2>5, <2>8, <3>1
  <2>9. CASE i \in remembered /\ UNCHANGED <<asks, request>>
    <3>1. request[c] # i
      BY <1>1, <1>2, <2>9 DEF Blocked, Asks
    <3> QED BY <2>5, <2>9, <3>1
  <2>10. \/ i \in remembered /\ UNCHANGED <<asks, request>>
         \/ UNCHANGED asks /\ request' = [request EXCEPT ![c] = 0]
         \/ \E n \in AskKind \ {"actions"} :
              Create(c, n, "pending") /\ request' = [request EXCEPT ![c] = NewAsk]
         \/ Held(c) /\ UNCHANGED <<asks, request>>
         \/ UNCHANGED <<asks, request>> /\ request[c] # i
    BY <1>1, <1>4 DEF ResumeLive, Shown, Refused, Unstored
  <2> QED BY <2>5, <2>6, <2>7, <2>8, <2>9, <2>10
<1>5. CASE ContinueTurn(i, k)
  <2>1. /\ at[j] = "running" /\ ~Direct(i) /\ UNCHANGED <<resume, request>>
        /\ \E s \in {"resumed", "failed"} : at' = [at EXCEPT ![j] = s]
        /\ remembered' \subseteq remembered \cup {i}
    BY <1>5 DEF ContinueTurn, rows
  <2>2. OnlyHandles({i})
    BY <1>3, <2>1
  <2>3. \/ UNCHANGED asks
        \/ "actions" \in AskKind /\ Create(c, "actions", "pending")
    BY <1>1, <1>5 DEF ContinueTurn, Shown, Refused
  <2>4. ASSUME NEW d \in Conv, request[d] # 0
        PROVE  request'[d] = request[d] /\ request[d] \notin {i} /\ Stays(d, request[d])
    <3>1. request[d] \in Asks /\ Blocked(d, request[d]) /\ request[d] # i
      BY <1>2, <2>1, <2>4 DEF Blocked, Direct
    <3>2. Stays(d, request[d])
      BY <1>1, <2>1, <2>3, <3>1, SameStays, CreateStays
    <3> QED BY <2>1, <3>1, <3>2
  <2>5. \A d \in Conv : request[d] = 0 => request'[d] = 0
    BY <2>1
  <2> QED BY <2>2, <2>4, <2>5, AgentsAfter
<1>6. ASSUME at[j] \in Handled, UNCHANGED <<asks, request, remembered>>,
             \/ UNCHANGED resume
             \/ \E s \in {"delivered", "dead", "pending"} : Settled(i, s),
             \/ Return(i, k)
             \/ at' = [at EXCEPT ![j] = "failed"]
      PROVE  AgentsWakeable'
  <2>1. at[j] \in TurnStates
    BY <1>6 DEF Handled, TurnStates
  <2>2. \A q \in Job : at'[q] \in Handled => at[q] \in Handled
    <3>1. CASE at' = [at EXCEPT ![j] = "failed"] \/ at' = [at EXCEPT ![j] = "done"]
      BY <1>1, <1>6, <3>1 DEF Handled
    <3>2. CASE Leave(j)
      BY <1>1, <2>1, <3>2, LeaveJobs DEF Handled
    <3> QED BY <1>6, <3>1, <3>2 DEF Return
  <2>3. ASSUME NEW d \in Conv, NEW x \in Asks, Blocked(d, x) PROVE Stays(d, x)
    <3>1. x # i
      BY <1>6, <2>3 DEF Blocked
    <3> QED BY <1>6, <2>3, <3>1, SameStays, SettledStays
  <2> QED BY <1>6, <2>2, <2>3, AgentsKept
<1>7. CASE CompleteResume(i, k)
  <2>1. /\ at[j] \in Handled /\ UNCHANGED <<asks, request, remembered>>
        /\ UNCHANGED resume \/ Settled(i, "delivered")
        /\ Return(i, k) \/ at' = [at EXCEPT ![j] = "failed"]
    BY <1>7 DEF CompleteResume, Handled, rows
  <2> QED BY <1>6, <2>1
<1>8. CASE SettleFailedResume(i, k)
  <2>1. /\ at[j] \in Handled /\ UNCHANGED <<asks, request, remembered>> /\ Return(i, k)
        /\ UNCHANGED resume \/ Settled(i, "dead") \/ Settled(i, "pending")
    BY <1>8 DEF SettleFailedResume, Handled, rows
  <2> QED BY <1>6, <2>1
<1> QED BY <1>4, <1>5, <1>7, <1>8 DEF ResumeStep

(* Clicks, deadlines, the timer and the process.                           *)
LEMMA OtherWakes ==
  ASSUME TypeOK, AsksInv, JobsInv, WaitersInv, \A i \in Asks : AskKept(i), AgentsWakeable,
         ~Fault, \/ \E j \in Job : Acquire(j)
                 \/ \E i \in Asks : AskStep(i)
                 \/ Flush \/ \E F \in flights : FlightOver(F)
                 \/ Start \/ Stop \/ Stopped \/ Crash
  PROVE  AgentsWakeable'
<1>1. ASSUME NEW j \in Job, Acquire(j) PROVE AgentsWakeable'
  <2>1. UNCHANGED <<asks, resume, request, remembered>>
    BY <1>1 DEF Acquire, rows
  <2>2. \A q \in Job : at'[q] \in Handled => at[q] \in Handled
    BY <1>1 DEF Acquire, Handled, TypeOK
  <2> QED BY <2>1, <2>2, AgentsKept, SameStays
<1>2. ASSUME NEW i \in Asks, AskStep(i) PROVE AgentsWakeable'
  <2>1. UNCHANGED <<at, request, remembered>>
    BY <1>2 DEF AskStep, Acked, Lapse, TimePasses, Answer
  <2>2. \/ UNCHANGED <<asks, resume>>
        \/ lapsed' = lapsed \cup {i} /\ UNCHANGED <<ask, kind, home, resume>>
        \/ \E d \in {"answered", "cancelled"} : ResolveAsk(i, d)
    BY <1>2 DEF AskStep, Acked, Lapse, TimePasses, Answer, rows
  <2>3. \A c \in Conv, x \in Asks : Blocked(c, x) => Stays(c, x)
    BY <2>2, SameStays, LapseStays, ResolveStays
  <2> QED BY <2>1, <2>3, AgentsKept
<1>3. CASE Flush
  <2>1. UNCHANGED <<request, remembered>>
    BY <1>3 DEF Flush
  <2>2. PICK due \in SUBSET Asks : FlushOf(due)
    BY <1>3, FlushJobs
  <2>3. \A q \in Job : at'[q] \in Handled => at[q] \in Handled
    BY <2>2 DEF FlushOf, Handled
  <2> QED BY <1>3, <2>1, <2>3, AgentsKept, FlushStays
<1>4. ASSUME NEW F \in flights, FlightOver(F) PROVE AgentsWakeable'
  BY <1>4, AgentsKept, SameStays DEF FlightOver, rows
<1>5. CASE Start
  BY <1>5, AgentsKept, SameStays DEF Start, rows
<1>6. CASE Stopped
  <2>1. Gone
    BY <1>6 DEF Stopped
  <2>2. (\A c \in Conv : request'[c] = 0) /\ remembered' = {}
    BY <2>1 DEF Gone
  <2> QED BY <2>2 DEF AgentsWakeable
<1>7. ~Stop /\ ~Crash
  BY DEF Stop, Crash
<1> QED BY <1>1, <1>2, <1>3, <1>4, <1>5, <1>6, <1>7

(* While nothing failed, every blocked agent has a question or a result.   *)
Calm == faults = 0 => AgentsWakeable

LEMMA CalmStep == ConversationsInv /\ Calm /\ [Next]_vars => Calm'
<1> SUFFICES ASSUME ConversationsInv, Calm, [Next]_vars, faults' = 0 PROVE AgentsWakeable'
  BY DEF Calm
<1>1. TypeOK /\ AsksInv /\ JobsInv /\ WaitersInv /\ \A i \in Asks : AskKept(i)
  BY AsksStep DEF ConversationsInv
<1>2. ~Fault
  BY <1>1, NothingFails
<1>3. AgentsWakeable
  <2>1. faults = 0
    BY <1>2, EveryFaultCounts
  <2> QED BY <2>1 DEF Calm
<1>4. CASE UNCHANGED vars
  BY <1>1, <1>3, <1>4, AgentsKept, SameStays DEF vars, rows
<1>5. CASE Next
  BY <1>1, <1>2, <1>3, <1>5, MessageWakes, ResumeWakes, OtherWakes DEF Next
<1> QED BY <1>4, <1>5

LEMMA CalmInit == Init => Calm
  BY DEF Init, Calm, AgentsWakeable

(* While nothing failed, an agent that is blocked on a question is woken:    *)
(* its question is open, its result waits to be handed over, or it is being  *)
(* handed over.  No answer, expiry, replacement or retry leaves it behind.  *)
THEOREM ConversationsNobodyStranded == Spec => []NobodyStranded
<1>1. ConversationsInv /\ Calm => NobodyStranded
  BY DEF Calm, AgentsWakeable, Blocked, NobodyStranded
<1>2. Spec => []Calm
  BY CalmInit, CalmStep, ConversationsInvariant, PTL DEF Spec
<1> QED BY <1>1, <1>2, ConversationsInvariant, PTL
=============================================================================
