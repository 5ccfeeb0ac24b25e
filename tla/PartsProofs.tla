------------------------------ MODULE PartsProofs ------------------------------
(***************************************************************************)
(* Proofs about Parts: the owner lock, media out and in, the reply and the *)
(* dialogue, each for any number of whatever it has. A part is proved on   *)
(* its own, from the invariant that follows; the last section says that a  *)
(* behaviour of the parts is a behaviour of each, so that what is proved   *)
(* of a part holds in the composition.                                     *)
(*                                                                         *)
(* The owner lock: Ordered says which calls come after which; LockKept,    *)
(* which a blind removal breaks, says what the lock, the process that      *)
(* writes its record and the one process behind the reaper know of each    *)
(* other.                                                                  *)
(*                                                                         *)
(* Media out: calls take turns (Turns), so that the bytes a stage has      *)
(* counted are still there when it writes (Quota), and a row and a stage   *)
(* tell what the file is (FileOf). Media in: a clean-up removes only what  *)
(* it has found old, and what it has yet to look at is not (CleanupApart). *)
(* The reply: every text has what the texts before it had (TextsGrow), and *)
(* all that was said as long as nobody asked for a stop (TextWhole).       *)
(*                                                                         *)
(* The dialogue: the request under way is what its adapter made of the     *)
(* question (TalkOrigin), the card what the gateway made of the request    *)
(* (TalkShown), and the result what was read on the card (TalkMeant).      *)
(* Between them are lemmas on the conversions, which say that each loses   *)
(* nothing: the id of an option names it, the option picked is the one     *)
(* read, its value is that of its label, and a text that was cut is never  *)
(* an answer.                                                              *)
(***************************************************************************)
EXTENDS Parts, Sequences, FiniteSetTheorems, TLAPS

(* The steps of a process that has won the lock, and all steps.            *)
Serving == {"adapters", "transport", "probe", "unlink", "bind", "running", "failed"}
Steps   == Serving \cup {"new", "create", "write", "undo", "stat", "read", "reap",
                         "remove", "unreap", "giveup", "dead"}

(* A process serves once it has won the lock, looks again and removes only *)
(* behind the reaper, and is alone there.                                  *)
Ordered ==
  /\ step \in [Proc -> Steps] /\ holding \subseteq Proc /\ blind \subseteq Proc
  /\ crashes \in Nat
  /\ \A p \in Proc : step[p] \in Serving \cup {"unreap"} => p \in won
  /\ \A p \in won : step[p] \in Serving \cup {"unreap", "dead"}
  /\ \A p \in Proc : halt[p] # "no" => step[p] \in Serving
  /\ \A p \in Proc : step[p] = "read" => saw[p] # "nothing"
  /\ \A p \in Proc : step[p] = "reap" => p \notin holding
  /\ \A p \in Proc : step[p] = "remove" => p \in holding
  /\ \A p \in holding : step[p] \notin Serving
  /\ \A p, q \in holding : p = q
  /\ holding # {} => reaper

(* The record is the one living winner's; a lock without a record is being *)
(* written by the process that made it, or will be old before it is judged.*)
RecordKept ==
  /\ record # NoOne => record \in won
  /\ \A p \in Owners : record = p
  /\ \A p \in Proc : step[p] = "write" => dir /\ record = NoOne /\ ~aged
  /\ \A p, q \in Proc : step[p] = "write" /\ step[q] = "write" => p = q
  /\ \A p \in Proc : step[p] # "undo"
  /\ aged => dir /\ (record # NoOne => ~Alive(record))

(* What the process behind the reaper has seen still holds when it removes *)
(* the lock.                                                               *)
VerdictKept ==
  /\ \A p \in holding : step[p] = "read" /\ saw[p] = "old" => dir /\ aged
  /\ \A p \in Proc : step[p] = "remove" /\ saw[p] # "nothing" =>
       /\ dir
       /\ record # NoOne => ~Alive(record)
       /\ record = NoOne => aged

(* An owner that listens has the socket.                                   *)
SocketKept == \A p \in Owners : Listening(p) => socket = p

(* What the lock, its writer and the process behind the reaper know of     *)
(* each other, which a blind removal breaks.                               *)
LockKept == RecordKept /\ VerdictKept /\ SocketKept

(* The inductive invariant of the owner lock.                              *)
ProcessInv == TypeOK /\ Ordered /\ (blind = {} => LockKept)

(* Who has left a reaper or a lock behind was killed.                      *)
LeftByTheKilled ==
  /\ reaper => crashes > 0 \/ \E q \in holding : Alive(q)
  /\ blind = {} /\ dir =>
       \/ crashes > 0
       \/ record # NoOne /\ Alive(record)
       \/ record = NoOne /\ \E q \in Proc : step[q] = "write"

(* With what was left behind by processes that were killed.                *)
ConflictInv == ProcessInv /\ LeftByTheKilled

-----------------------------------------------------------------------------
(* Init and every action keep the invariant; the lemmas go by its parts,   *)
(* each with a step per action.                                            *)

(* Init establishes the invariant.                                         *)
LEMMA ProcessInit == Init => ConflictInv
<1>. SUFFICES ASSUME Init PROVE ConflictInv
  OBVIOUS
<1>1. TypeOK
  BY ProcessAssumption DEF Init, TypeOK
<1>2. Ordered
  BY ProcessAssumption DEF Init, Ordered, Serving, Steps
<1>3. LockKept
  BY ProcessAssumption DEF Init, LockKept, RecordKept, VerdictKept, SocketKept, Owners
<1>. QED
  BY <1>1, <1>2, <1>3 DEF Init, ConflictInv, ProcessInv, LeftByTheKilled

(* The types, whatever was removed.                                        *)
LEMMA TypeStep == TypeOK /\ Ordered /\ [Next]_vars => TypeOK'
<1>. SUFFICES ASSUME TypeOK, Ordered, [Next]_vars PROVE TypeOK'
  OBVIOUS
<1>. USE ProcessAssumption DEF TypeOK, Ordered, Serving, Steps, Alive, Goto,
         Set, lock
<1>1. ASSUME NEW p \in Proc, Begin(p) PROVE TypeOK'
  BY <1>1 DEF Begin
<1>2. ASSUME NEW p \in Proc, Create(p) PROVE TypeOK'
  <2>1. dir' \in BOOLEAN /\ aged' \in BOOLEAN /\ record' = record /\ (record' # NoOne => dir')
    BY <1>2 DEF Create
  <2>2. connected' \subseteq {q \in won' : step'[q] # "dead"}
    BY <1>2 DEF Create
  <2> QED BY <1>2, <2>1, <2>2 DEF Create
<1>3. ASSUME NEW p \in Proc, Write(p) PROVE TypeOK'
  BY <1>3 DEF Write
<1>4. ASSUME NEW p \in Proc, Undo(p) PROVE TypeOK'
  BY <1>4 DEF Undo
<1>5. ASSUME NEW p \in Proc, Stat(p) PROVE TypeOK'
  BY <1>5 DEF Stat, Stale
<1>6. ASSUME NEW p \in Proc, Read(p) PROVE TypeOK'
  BY <1>6 DEF Read, Stale
<1>7. ASSUME NEW p \in Proc, Reap(p) PROVE TypeOK'
  <2>1. CASE Goto(p, "stat") /\ reaper' = TRUE
    BY <1>7, <2>1 DEF Reap
  <2>2. CASE Goto(p, "giveup") /\ UNCHANGED reaper
    BY <1>7, <2>2 DEF Reap
  <2>. QED
    BY <1>7, <2>1, <2>2 DEF Reap
<1>8. ASSUME NEW p \in Proc, Remove(p) PROVE TypeOK'
  BY <1>8 DEF Remove
<1>9. ASSUME NEW p \in Proc, Unreap(p) PROVE TypeOK'
  BY <1>9 DEF Unreap
<1>10. ASSUME NEW p \in Proc, Adapters(p) PROVE TypeOK'
  BY <1>10 DEF Adapters
<1>11. ASSUME NEW p \in Proc, Connect(p) PROVE TypeOK'
  BY <1>11 DEF Connect
<1>12. ASSUME NEW p \in Proc, Probe(p) PROVE TypeOK'
  BY <1>12 DEF Probe
<1>13. ASSUME NEW p \in Proc, Unlink(p) PROVE TypeOK'
  BY <1>13 DEF Unlink
<1>14. ASSUME NEW p \in Proc, Bind(p) PROVE TypeOK'
  BY <1>14 DEF Bind
<1>15. ASSUME NEW p \in Proc, Stop(p) PROVE TypeOK'
  BY <1>15 DEF Stop
<1>16. ASSUME NEW p \in Proc, Close(p) PROVE TypeOK'
  BY <1>16 DEF Close
<1>17. ASSUME NEW p \in Proc, Disconnect(p) PROVE TypeOK'
  BY <1>17 DEF Disconnect
<1>18. ASSUME NEW p \in Proc, Release(p) PROVE TypeOK'
  BY <1>18 DEF Release
<1>19. ASSUME NEW p \in Proc, Crash(p) PROVE TypeOK'
  BY <1>19 DEF Crash
<1>20. CASE Age
  BY <1>20 DEF Age
<1>21. CASE UNCHANGED vars
  BY <1>21 DEF vars
<1>. QED
  BY <1>1, <1>2, <1>3, <1>4, <1>5, <1>6, <1>7, <1>8, <1>9, <1>10, <1>11,
     <1>12, <1>13, <1>14, <1>15, <1>16, <1>17, <1>18, <1>19, <1>20, <1>21 DEF
     Next, Acquire, Run, Shutdown

(* The order of the calls, whatever was removed.                           *)
LEMMA OrderedStep == TypeOK /\ Ordered /\ [Next]_vars => Ordered'
<1>. SUFFICES ASSUME TypeOK, Ordered, [Next]_vars PROVE Ordered'
  OBVIOUS
<1>. USE ProcessAssumption DEF TypeOK, Ordered, Serving, Steps, Alive, Goto,
         Set, lock
<1>1. ASSUME NEW p \in Proc, Begin(p) PROVE Ordered'
  BY <1>1 DEF Begin
<1>2. ASSUME NEW p \in Proc, Create(p) PROVE Ordered'
  <2>1. CASE ~dir /\ Goto(p, "write")
    BY <1>2, <2>1 DEF Create
  <2>2. CASE dir /\ Goto(p, "giveup")
    BY <1>2, <2>2 DEF Create
  <2>3. CASE dir /\ Goto(p, "stat")
    BY <1>2, <2>3 DEF Create
  <2>. QED
    BY <1>2, <2>1, <2>2, <2>3 DEF Create
<1>3. ASSUME NEW p \in Proc, Write(p) PROVE Ordered'
  BY <1>3 DEF Write
<1>4. ASSUME NEW p \in Proc, Undo(p) PROVE Ordered'
  BY <1>4 DEF Undo
<1>5. ASSUME NEW p \in Proc, Stat(p) PROVE Ordered'
  BY <1>5 DEF Stat, Stale
<1>6. ASSUME NEW p \in Proc, Read(p) PROVE Ordered'
  BY <1>6 DEF Read, Stale
<1>7. ASSUME NEW p \in Proc, Reap(p) PROVE Ordered'
  <2>1. CASE ~reaper /\ reaper' = TRUE /\ holding' = holding \cup {p} /\ Goto(p, "stat")
    <3>1. holding = {} /\ holding' = {p}
      BY <2>1
    <3>. QED
      BY <1>7, <2>1, <3>1 DEF Reap
  <2>2. CASE reaper /\ Goto(p, "giveup") /\ UNCHANGED <<reaper, holding>>
    BY <1>7, <2>2 DEF Reap
  <2>. QED
    BY <1>7, <2>1, <2>2 DEF Reap
<1>8. ASSUME NEW p \in Proc, Remove(p) PROVE Ordered'
  BY <1>8 DEF Remove
<1>9. ASSUME NEW p \in Proc, Unreap(p) PROVE Ordered'
  <2>1. CASE p \in holding
    <3>1. holding = {p}
      BY <2>1
    <3>2. holding' = {}
      BY <1>9, <3>1 DEF Unreap
    <3>3. ~reaper'
      BY <1>9, <2>1 DEF Unreap
    <3>. QED
      BY <1>9, <2>1, <3>2, <3>3 DEF Unreap
  <2>2. CASE p \notin holding
    <3>1. holding' = holding /\ reaper' = reaper
      BY <1>9, <2>2 DEF Unreap
    <3>. QED
      BY <1>9, <2>2, <3>1 DEF Unreap
  <2>. QED
    BY <2>1, <2>2
<1>10. ASSUME NEW p \in Proc, Adapters(p) PROVE Ordered'
  BY <1>10 DEF Adapters
<1>11. ASSUME NEW p \in Proc, Connect(p) PROVE Ordered'
  BY <1>11 DEF Connect
<1>12. ASSUME NEW p \in Proc, Probe(p) PROVE Ordered'
  BY <1>12 DEF Probe
<1>13. ASSUME NEW p \in Proc, Unlink(p) PROVE Ordered'
  BY <1>13 DEF Unlink
<1>14. ASSUME NEW p \in Proc, Bind(p) PROVE Ordered'
  BY <1>14 DEF Bind
<1>15. ASSUME NEW p \in Proc, Stop(p) PROVE Ordered'
  BY <1>15 DEF Stop
<1>16. ASSUME NEW p \in Proc, Close(p) PROVE Ordered'
  BY <1>16 DEF Close
<1>17. ASSUME NEW p \in Proc, Disconnect(p) PROVE Ordered'
  BY <1>17 DEF Disconnect
<1>18. ASSUME NEW p \in Proc, Release(p) PROVE Ordered'
  BY <1>18 DEF Release
<1>19. ASSUME NEW p \in Proc, Crash(p) PROVE Ordered'
  BY <1>19 DEF Crash
<1>20. CASE Age
  BY <1>20 DEF Age
<1>21. CASE UNCHANGED vars
  BY <1>21 DEF vars
<1>. QED
  BY <1>1, <1>2, <1>3, <1>4, <1>5, <1>6, <1>7, <1>8, <1>9, <1>10, <1>11,
     <1>12, <1>13, <1>14, <1>15, <1>16, <1>17, <1>18, <1>19, <1>20, <1>21 DEF
     Next, Acquire, Run, Shutdown

(* The record of the lock and the process that writes it.                  *)
LEMMA RecordStep == ProcessInv /\ [Next]_vars /\ blind' = {} => RecordKept'
<1>. SUFFICES ASSUME TypeOK, Ordered, blind = {} => LockKept, [Next]_vars, blind' = {}
              PROVE  RecordKept'
  BY DEF ProcessInv
<1>. USE ProcessAssumption DEF TypeOK, Ordered, Serving, Steps, Alive, Goto,
         Set, lock, LockKept, RecordKept, VerdictKept, SocketKept, Owners,
         Listening
<1>1. ASSUME NEW p \in Proc, Begin(p) PROVE RecordKept'
  BY <1>1 DEF Begin
<1>2. ASSUME NEW p \in Proc, Create(p) PROVE RecordKept'
  BY <1>2 DEF Create
<1>3. ASSUME NEW p \in Proc, Write(p) PROVE RecordKept'
  BY <1>3 DEF Write
<1>4. ASSUME NEW p \in Proc, Undo(p) PROVE RecordKept'
  BY <1>4 DEF Undo
<1>5. ASSUME NEW p \in Proc, Stat(p) PROVE RecordKept'
  BY <1>5 DEF Stat, Stale
<1>6. ASSUME NEW p \in Proc, Read(p) PROVE RecordKept'
  BY <1>6 DEF Read, Stale
<1>7. ASSUME NEW p \in Proc, Reap(p) PROVE RecordKept'
  BY <1>7 DEF Reap
<1>8. ASSUME NEW p \in Proc, Remove(p) PROVE RecordKept'
  BY <1>8 DEF Remove
<1>9. ASSUME NEW p \in Proc, Unreap(p) PROVE RecordKept'
  BY <1>9 DEF Unreap
<1>10. ASSUME NEW p \in Proc, Adapters(p) PROVE RecordKept'
  BY <1>10 DEF Adapters
<1>11. ASSUME NEW p \in Proc, Connect(p) PROVE RecordKept'
  BY <1>11 DEF Connect
<1>12. ASSUME NEW p \in Proc, Probe(p) PROVE RecordKept'
  BY <1>12 DEF Probe
<1>13. ASSUME NEW p \in Proc, Unlink(p) PROVE RecordKept'
  BY <1>13 DEF Unlink
<1>14. ASSUME NEW p \in Proc, Bind(p) PROVE RecordKept'
  BY <1>14 DEF Bind
<1>15. ASSUME NEW p \in Proc, Stop(p) PROVE RecordKept'
  BY <1>15 DEF Stop
<1>16. ASSUME NEW p \in Proc, Close(p) PROVE RecordKept'
  BY <1>16 DEF Close
<1>17. ASSUME NEW p \in Proc, Disconnect(p) PROVE RecordKept'
  BY <1>17 DEF Disconnect
<1>18. ASSUME NEW p \in Proc, Release(p) PROVE RecordKept'
  BY <1>18 DEF Release
<1>19. ASSUME NEW p \in Proc, Crash(p) PROVE RecordKept'
  BY <1>19 DEF Crash
<1>20. CASE Age
  BY <1>20 DEF Age
<1>21. CASE UNCHANGED vars
  BY <1>21 DEF vars
<1>. QED
  BY <1>1, <1>2, <1>3, <1>4, <1>5, <1>6, <1>7, <1>8, <1>9, <1>10, <1>11,
     <1>12, <1>13, <1>14, <1>15, <1>16, <1>17, <1>18, <1>19, <1>20, <1>21 DEF
     Next, Acquire, Run, Shutdown

(* What the process behind the reaper has seen of the lock.                *)
LEMMA VerdictStep == ProcessInv /\ [Next]_vars /\ blind' = {} => VerdictKept'
<1>. SUFFICES ASSUME TypeOK, Ordered, blind = {} => LockKept, [Next]_vars, blind' = {}
              PROVE  VerdictKept'
  BY DEF ProcessInv
<1>. USE ProcessAssumption DEF TypeOK, Ordered, Serving, Steps, Alive, Goto,
         Set, lock, LockKept, RecordKept, VerdictKept, SocketKept, Owners,
         Listening
<1>1. ASSUME NEW p \in Proc, Begin(p) PROVE VerdictKept'
  BY <1>1 DEF Begin
<1>2. ASSUME NEW p \in Proc, Create(p) PROVE VerdictKept'
  BY <1>2 DEF Create
<1>3. ASSUME NEW p \in Proc, Write(p) PROVE VerdictKept'
  BY <1>3 DEF Write
<1>4. ASSUME NEW p \in Proc, Undo(p) PROVE VerdictKept'
  BY <1>4 DEF Undo
<1>5. ASSUME NEW p \in Proc, Stat(p) PROVE VerdictKept'
  BY <1>5 DEF Stat, Stale
<1>6. ASSUME NEW p \in Proc, Read(p) PROVE VerdictKept'
  BY <1>6 DEF Read, Stale
<1>7. ASSUME NEW p \in Proc, Reap(p) PROVE VerdictKept'
  BY <1>7 DEF Reap
<1>8. ASSUME NEW p \in Proc, Remove(p) PROVE VerdictKept'
  BY <1>8 DEF Remove
<1>9. ASSUME NEW p \in Proc, Unreap(p) PROVE VerdictKept'
  BY <1>9 DEF Unreap
<1>10. ASSUME NEW p \in Proc, Adapters(p) PROVE VerdictKept'
  BY <1>10 DEF Adapters
<1>11. ASSUME NEW p \in Proc, Connect(p) PROVE VerdictKept'
  BY <1>11 DEF Connect
<1>12. ASSUME NEW p \in Proc, Probe(p) PROVE VerdictKept'
  BY <1>12 DEF Probe
<1>13. ASSUME NEW p \in Proc, Unlink(p) PROVE VerdictKept'
  BY <1>13 DEF Unlink
<1>14. ASSUME NEW p \in Proc, Bind(p) PROVE VerdictKept'
  BY <1>14 DEF Bind
<1>15. ASSUME NEW p \in Proc, Stop(p) PROVE VerdictKept'
  BY <1>15 DEF Stop
<1>16. ASSUME NEW p \in Proc, Close(p) PROVE VerdictKept'
  BY <1>16 DEF Close
<1>17. ASSUME NEW p \in Proc, Disconnect(p) PROVE VerdictKept'
  BY <1>17 DEF Disconnect
<1>18. ASSUME NEW p \in Proc, Release(p) PROVE VerdictKept'
  BY <1>18 DEF Release
<1>19. ASSUME NEW p \in Proc, Crash(p) PROVE VerdictKept'
  BY <1>19 DEF Crash
<1>20. CASE Age
  BY <1>20 DEF Age
<1>21. CASE UNCHANGED vars
  BY <1>21 DEF vars
<1>. QED
  BY <1>1, <1>2, <1>3, <1>4, <1>5, <1>6, <1>7, <1>8, <1>9, <1>10, <1>11,
     <1>12, <1>13, <1>14, <1>15, <1>16, <1>17, <1>18, <1>19, <1>20, <1>21 DEF
     Next, Acquire, Run, Shutdown

(* The control socket is the one owner's.                                  *)
LEMMA SocketStep == ProcessInv /\ [Next]_vars /\ blind' = {} => SocketKept'
<1>. SUFFICES ASSUME TypeOK, Ordered, blind = {} => LockKept, [Next]_vars, blind' = {}
              PROVE  SocketKept'
  BY DEF ProcessInv
<1>. USE ProcessAssumption DEF TypeOK, Ordered, Serving, Steps, Alive, Goto,
         Set, lock, LockKept, RecordKept, VerdictKept, SocketKept, Owners,
         Listening
<1>1. ASSUME NEW p \in Proc, Begin(p) PROVE SocketKept'
  BY <1>1 DEF Begin
<1>2. ASSUME NEW p \in Proc, Create(p) PROVE SocketKept'
  BY <1>2 DEF Create
<1>3. ASSUME NEW p \in Proc, Write(p) PROVE SocketKept'
  BY <1>3 DEF Write
<1>4. ASSUME NEW p \in Proc, Undo(p) PROVE SocketKept'
  BY <1>4 DEF Undo
<1>5. ASSUME NEW p \in Proc, Stat(p) PROVE SocketKept'
  BY <1>5 DEF Stat, Stale
<1>6. ASSUME NEW p \in Proc, Read(p) PROVE SocketKept'
  BY <1>6 DEF Read, Stale
<1>7. ASSUME NEW p \in Proc, Reap(p) PROVE SocketKept'
  BY <1>7 DEF Reap
<1>8. ASSUME NEW p \in Proc, Remove(p) PROVE SocketKept'
  BY <1>8 DEF Remove
<1>9. ASSUME NEW p \in Proc, Unreap(p) PROVE SocketKept'
  BY <1>9 DEF Unreap
<1>10. ASSUME NEW p \in Proc, Adapters(p) PROVE SocketKept'
  BY <1>10 DEF Adapters
<1>11. ASSUME NEW p \in Proc, Connect(p) PROVE SocketKept'
  BY <1>11 DEF Connect
<1>12. ASSUME NEW p \in Proc, Probe(p) PROVE SocketKept'
  BY <1>12 DEF Probe
<1>13. ASSUME NEW p \in Proc, Unlink(p) PROVE SocketKept'
  BY <1>13 DEF Unlink
<1>14. ASSUME NEW p \in Proc, Bind(p) PROVE SocketKept'
  BY <1>14 DEF Bind
<1>15. ASSUME NEW p \in Proc, Stop(p) PROVE SocketKept'
  BY <1>15 DEF Stop
<1>16. ASSUME NEW p \in Proc, Close(p) PROVE SocketKept'
  BY <1>16 DEF Close
<1>17. ASSUME NEW p \in Proc, Disconnect(p) PROVE SocketKept'
  BY <1>17 DEF Disconnect
<1>18. ASSUME NEW p \in Proc, Release(p) PROVE SocketKept'
  BY <1>18 DEF Release
<1>19. ASSUME NEW p \in Proc, Crash(p) PROVE SocketKept'
  BY <1>19 DEF Crash
<1>20. CASE Age
  BY <1>20 DEF Age
<1>21. CASE UNCHANGED vars
  BY <1>21 DEF vars
<1>. QED
  BY <1>1, <1>2, <1>3, <1>4, <1>5, <1>6, <1>7, <1>8, <1>9, <1>10, <1>11,
     <1>12, <1>13, <1>14, <1>15, <1>16, <1>17, <1>18, <1>19, <1>20, <1>21 DEF
     Next, Acquire, Run, Shutdown

(* Who left a reaper or a lock behind.                                     *)
LEMMA LeftStep == ConflictInv /\ [Next]_vars => LeftByTheKilled'
<1>. SUFFICES ASSUME TypeOK, Ordered, blind = {} => LockKept, LeftByTheKilled, [Next]_vars
              PROVE  LeftByTheKilled'
  BY DEF ConflictInv, ProcessInv
<1>. USE ProcessAssumption DEF TypeOK, Ordered, Serving, Steps, Alive, Goto,
         Set, lock, LockKept, RecordKept, LeftByTheKilled, Owners
<1>1. ASSUME NEW p \in Proc, Begin(p) PROVE LeftByTheKilled'
  BY <1>1 DEF Begin
<1>2. ASSUME NEW p \in Proc, Create(p) PROVE LeftByTheKilled'
  BY <1>2 DEF Create
<1>3. ASSUME NEW p \in Proc, Write(p) PROVE LeftByTheKilled'
  BY <1>3 DEF Write
<1>4. ASSUME NEW p \in Proc, Undo(p) PROVE LeftByTheKilled'
  BY <1>4 DEF Undo
<1>5. ASSUME NEW p \in Proc, Stat(p) PROVE LeftByTheKilled'
  BY <1>5 DEF Stat, Stale
<1>6. ASSUME NEW p \in Proc, Read(p) PROVE LeftByTheKilled'
  BY <1>6 DEF Read, Stale
<1>7. ASSUME NEW p \in Proc, Reap(p) PROVE LeftByTheKilled'
  BY <1>7 DEF Reap
<1>8. ASSUME NEW p \in Proc, Remove(p) PROVE LeftByTheKilled'
  BY <1>8 DEF Remove
<1>9. ASSUME NEW p \in Proc, Unreap(p) PROVE LeftByTheKilled'
  <2>1. CASE p \in holding
    <3>1. holding = {p}
      BY <2>1
    <3>2. holding' = {}
      BY <1>9, <3>1 DEF Unreap
    <3>3. ~reaper'
      BY <1>9, <2>1 DEF Unreap
    <3>. QED
      BY <1>9, <2>1, <3>2, <3>3 DEF Unreap
  <2>2. CASE p \notin holding
    <3>1. holding' = holding /\ reaper' = reaper
      BY <1>9, <2>2 DEF Unreap
    <3>. QED
      BY <1>9, <2>2, <3>1 DEF Unreap
  <2>. QED
    BY <2>1, <2>2
<1>10. ASSUME NEW p \in Proc, Adapters(p) PROVE LeftByTheKilled'
  BY <1>10 DEF Adapters
<1>11. ASSUME NEW p \in Proc, Connect(p) PROVE LeftByTheKilled'
  BY <1>11 DEF Connect
<1>12. ASSUME NEW p \in Proc, Probe(p) PROVE LeftByTheKilled'
  BY <1>12 DEF Probe
<1>13. ASSUME NEW p \in Proc, Unlink(p) PROVE LeftByTheKilled'
  BY <1>13 DEF Unlink
<1>14. ASSUME NEW p \in Proc, Bind(p) PROVE LeftByTheKilled'
  BY <1>14 DEF Bind
<1>15. ASSUME NEW p \in Proc, Stop(p) PROVE LeftByTheKilled'
  BY <1>15 DEF Stop
<1>16. ASSUME NEW p \in Proc, Close(p) PROVE LeftByTheKilled'
  BY <1>16 DEF Close
<1>17. ASSUME NEW p \in Proc, Disconnect(p) PROVE LeftByTheKilled'
  BY <1>17 DEF Disconnect
<1>18. ASSUME NEW p \in Proc, Release(p) PROVE LeftByTheKilled'
  BY <1>18 DEF Release
<1>19. ASSUME NEW p \in Proc, Crash(p) PROVE LeftByTheKilled'
  BY <1>19 DEF Crash
<1>20. CASE Age
  BY <1>20 DEF Age
<1>21. CASE UNCHANGED vars
  BY <1>21 DEF vars
<1>. QED
  BY <1>1, <1>2, <1>3, <1>4, <1>5, <1>6, <1>7, <1>8, <1>9, <1>10, <1>11,
     <1>12, <1>13, <1>14, <1>15, <1>16, <1>17, <1>18, <1>19, <1>20, <1>21 DEF
     Next, Acquire, Run, Shutdown

(* The parts together: the invariant holds in every state.                 *)
LEMMA ProcessInvStep == ProcessInv /\ [Next]_vars => ProcessInv'
  BY TypeStep, OrderedStep, RecordStep, VerdictStep, SocketStep DEF ProcessInv, LockKept

(* With what the killed left behind: still inductive.                       *)
LEMMA ConflictInvStep == ConflictInv /\ [Next]_vars => ConflictInv'
  BY ProcessInvStep, LeftStep DEF ConflictInv

(* Hence it is an invariant of the specification.                          *)
LEMMA ProcessInvariant == Spec => []ConflictInv
  BY ProcessInit, ConflictInvStep, PTL DEF Spec

(* bot-owner-lock.ts, any number of processes and crashes: every variable  *)
(* keeps its type.                                                         *)
THEOREM ProcessTypeOK == Spec => []TypeOK
<1>1. ConflictInv => TypeOK
  BY DEF ConflictInv, ProcessInv
<1>. QED
  BY <1>1, ProcessInvariant, PTL

(* acquireBotOwnerLock: one process owns the Bot, its record is the lock's *)
(* and the control socket its own, unless a lock was removed blindly.      *)
THEOREM ProcessOneOwner == Spec => []OneOwnerUnlessBlind
<1>1. ConflictInv => OneOwnerUnlessBlind
  BY DEF ConflictInv, ProcessInv, OneOwnerUnlessBlind, LockKept, RecordKept, SocketKept,
         TypeOK, Owners
<1>. QED
  BY <1>1, ProcessInvariant, PTL

(* Two processes never serve the Bot at once, unless a lock was removed    *)
(* blindly: the promise of docs/adr/0026 under the condition it needs.     *)
THEOREM ProcessAlone == Spec => [](blind = {} => \A p, q \in connected : p = q)
<1>1. ConflictInv => (blind = {} => \A p, q \in connected : p = q)
  BY DEF ConflictInv, ProcessInv, LockKept, RecordKept, TypeOK, Owners
<1>. QED
  BY <1>1, ProcessInvariant, PTL

(* A process gives up only where NoFalseConflict names the reason: behind  *)
(* the reaper as the lock is there again, on the lock's record, or as the  *)
(* reaper is taken.                                                        *)
LEMMA ConflictHasReason ==
  ASSUME ConflictInv, Next, NEW p \in Proc, step[p] # "giveup", step'[p] = "giveup"
  PROVE  \/ \E q \in Proc \ {p} : Alive(q)
         \/ step[p] = "read" /\ saw[p] = "fresh"
         \/ crashes > 0 /\ reaper
         \/ blind # {}
<1>. USE ProcessAssumption
     DEF ConflictInv, ProcessInv, TypeOK, Ordered, Serving, Steps, Alive, Goto, Set
<1>1. \/ Create(p) \/ Read(p) \/ Reap(p) \/ Undo(p)
  <2>1. ASSUME NEW q \in Proc, Acquire(q) PROVE Create(p) \/ Read(p) \/ Reap(p) \/ Undo(p)
    BY <2>1 DEF Acquire, Begin, Create, Write, Undo, Stat, Stale, Read, Reap, Remove, Unreap
  <2>2. ASSUME NEW q \in Proc, Run(q) PROVE FALSE
    BY <2>2 DEF Run, Adapters, Connect, Probe, Unlink, Bind
  <2>3. ASSUME NEW q \in Proc, Shutdown(q) \/ Crash(q) PROVE FALSE
    BY <2>3 DEF Shutdown, Stop, Close, Disconnect, Release, Crash
  <2>4. ~Age
    BY DEF Age
  <2>. QED
    BY <2>1, <2>2, <2>3, <2>4 DEF Next
<1>2. CASE Create(p) /\ blind = {}
  <2>1. p \in holding /\ dir /\ reaper /\ step[p] = "create" /\ p \notin won
    BY <1>2 DEF Create
  <2>2. \/ crashes > 0
        \/ record # NoOne /\ Alive(record)
        \/ record = NoOne /\ \E q \in Proc : step[q] = "write"
    BY <1>2, <2>1 DEF LeftByTheKilled
  <2>. QED
    BY <1>2, <2>1, <2>2 DEF LockKept, RecordKept
<1>3. CASE Read(p) /\ blind = {}
  <2>1. step[p] = "read" /\ p \notin won
    BY <1>3 DEF Read
  <2>2. (record # NoOne /\ Alive(record)) \/ saw[p] = "fresh"
    BY <1>3 DEF Read, Stale
  <2>. QED
    BY <1>3, <2>1, <2>2 DEF LockKept, RecordKept
<1>4. CASE Reap(p)
  <2>1. reaper /\ p \notin holding
    BY <1>4 DEF Reap
  <2>. QED
    BY <2>1 DEF LeftByTheKilled
<1>5. CASE Undo(p) /\ blind = {}
  BY <1>5 DEF Undo, LockKept, RecordKept
<1>. QED
  BY <1>1, <1>2, <1>3, <1>4, <1>5

(* acquireBotOwnerLock and BotOwnerConflictError: no process gives up on a *)
(* Bot that nobody owns, but for the cases NoFalseConflict names.          *)
THEOREM ProcessNoFalseConflict == Spec => NoFalseConflict
<1>1. ConflictInv /\ [Next]_vars =>
        [\A p \in Proc :
           step[p] # "giveup" /\ step'[p] = "giveup" =>
             \/ \E q \in Proc \ {p} : Alive(q)
             \/ step[p] = "read" /\ saw[p] = "fresh"
             \/ crashes > 0 /\ reaper
             \/ blind # {}]_vars
  BY ConflictHasReason
<1>. QED
  BY <1>1, ProcessInvariant, PTL DEF Spec, NoFalseConflict

-----------------------------------------------------------------------------
(* Media out                                                               *)

(* The values of the spool's variables.                                    *)
SpoolTypes ==
  /\ ms_chain \in Seq({"stage", "release"} \X Artifact)
  /\ ms_step \in [Artifact -> {"idle", "read", "measure", "make", "write", "rename"}]
  /\ ms_entry \in [Artifact -> {"none", "staging", "staged"}]
  /\ ms_bytes \in [Artifact -> 0..MaxArtifact] /\ ms_noted \in [Artifact -> 0..MaxArtifact]
  /\ ms_row \in [Artifact -> {"none", "asked", "staged", "queued", "over"}]
  /\ ms_upload \in [Artifact -> {"no", "checked", "sent"}]
  /\ ms_sent = {} /\ ms_faults \in Nat

(* The steps of a stage that only the first call of the chain is in.       *)
InTurn == {"measure", "make", "write", "rename"}

(* One call waits for an artifact, and the stage that has gone past the    *)
(* source is the first.                                                    *)
Turns ==
  /\ \A i, j \in 1..Len(ms_chain) : i # j => ms_chain[i][2] # ms_chain[j][2]
  /\ \A i \in 1..Len(ms_chain) : ms_chain[i][1] = "stage" => ms_row[ms_chain[i][2]] = "asked"
  /\ \A i \in 1..Len(ms_chain) : ms_chain[i][1] = "release" => ms_row[ms_chain[i][2]] = "over"
  /\ \A a \in Artifact : ms_step[a] # "idle" => ms_row[a] = "asked"
  /\ \A a \in Artifact : ms_step[a] \in InTurn => ms_chain # <<>> /\ ms_chain[1] = <<"stage", a>>
  /\ ~ms_up => ms_chain = <<>>

(* A call for an artifact waits or runs.                                   *)
Waits(op, a) == \E i \in 1..Len(ms_chain) : ms_chain[i] = <<op, a>>

(* What the file of an artifact is, by what its row and its stage are.     *)
FileOf(a) ==
  /\ ms_entry[a] = "staging" => ms_step[a] \in {"write", "rename"} \/ ~ms_up
  /\ ms_step[a] \in {"write", "rename"} => ms_entry[a] = "staging"
  /\ ms_step[a] = "rename" => ms_bytes[a] = ms_noted[a]
  /\ ms_row[a] = "none" => ms_entry[a] = "none" /\ ms_step[a] = "idle"
  /\ ms_row[a] = "asked" => ms_entry[a] # "staged" /\ ms_up
  /\ ms_row[a] \in {"staged", "queued"} => ms_entry[a] = "staged"
  /\ ms_row[a] = "staged" => ms_up
  /\ ms_row[a] = "over" /\ ms_up => ms_entry[a] = "none" \/ Waits("release", a)
  /\ ms_upload[a] = "checked" => ms_row[a] = "queued"

(* Every file is accounted for by its row and its stage.                   *)
Files == \A a \in Artifact : FileOf(a)

(* currentBytes is within maxTotalBytes, and who has passed the check of   *)
(* stage still fits: nobody else has written since.                        *)
Quota ==
  /\ IsFiniteSet(Spool!Units) /\ Spool!CurrentBytes \in Nat /\ Spool!CurrentBytes <= MaxTotal
  /\ \A a \in Artifact : ms_step[a] \in {"make", "write", "rename"} => ~Spool!Exceeds(a)

(* The inductive invariant of the spool.                                   *)
SpoolInv == SpoolTypes /\ Turns /\ Files /\ Quota

(* Cardinality is in MediaSpool what it is here.                           *)
LEMMA SameCount == \A S : Spool!Cardinality(S) = Cardinality(S)
BY DEF Spool!Cardinality, Cardinality

(* A call is appended to the chain.                                        *)
LEMMA Behind ==
  ASSUME NEW S, NEW c \in Seq(S), NEW x \in S
  PROVE  /\ Append(c, x) \in Seq(S) /\ Len(Append(c, x)) = Len(c) + 1 /\ Len(c) \in Nat
         /\ Append(c, x)[Len(c) + 1] = x /\ Append(c, x) # <<>>
         /\ \A i \in 1..Len(c) : Append(c, x)[i] = c[i]
OBVIOUS

(* The first call of the chain is through.                                 *)
LEMMA AfterTheFirst ==
  ASSUME NEW S, NEW c \in Seq(S), c # <<>>
  PROVE  /\ Tail(c) \in Seq(S) /\ Len(Tail(c)) = Len(c) - 1 /\ Len(c) \in Nat \ {0}
         /\ Head(c) = c[1] /\ c[1] \in S
         /\ \A i \in 1..Len(Tail(c)) : i + 1 \in 1..Len(c) /\ Tail(c)[i] = c[i + 1]
OBVIOUS

(* Whoever waits still waits when another call has come.                   *)
LEMMA Waiting ==
  ASSUME SpoolTypes, NEW op \in {"stage", "release"}, NEW a \in Artifact,
         ms_chain' = Append(ms_chain, <<op, a>>)
  PROVE  /\ ms_chain' \in Seq({"stage", "release"} \X Artifact) /\ ms_chain' # <<>>
         /\ Len(ms_chain') = Len(ms_chain) + 1 /\ Len(ms_chain) \in Nat
         /\ ms_chain'[Len(ms_chain) + 1] = <<op, a>>
         /\ \A i \in 1..Len(ms_chain) : ms_chain'[i] = ms_chain[i]
         /\ \A b \in Artifact : Waits("release", b) => Waits("release", b)'
         /\ op = "release" => Waits("release", a)'
<1>1. ms_chain \in Seq({"stage", "release"} \X Artifact) /\ <<op, a>> \in {"stage",
        "release"} \X Artifact
  BY DEF SpoolTypes
<1>2. /\ ms_chain' \in Seq({"stage", "release"} \X Artifact) /\ ms_chain' # <<>>
      /\ Len(ms_chain') = Len(ms_chain) + 1 /\ Len(ms_chain) \in Nat
      /\ ms_chain'[Len(ms_chain) + 1] = <<op, a>>
      /\ \A i \in 1..Len(ms_chain) : ms_chain'[i] = ms_chain[i]
  BY <1>1, Behind
<1>3. \A i \in 1..Len(ms_chain) : i \in 1..Len(ms_chain')
  BY <1>2
<1>4. Len(ms_chain) + 1 \in 1..Len(ms_chain')
  BY <1>2
<1> QED BY <1>2, <1>3, <1>4 DEF Waits

(* When the first call is through, no other call for its artifact waits,   *)
(* and whoever waited for another one still waits.                         *)
LEMMA Passing ==
  ASSUME SpoolTypes, Turns, NEW op, NEW a \in Artifact,
         ms_chain # <<>>, Head(ms_chain) = <<op, a>>, ms_chain' = Tail(ms_chain)
  PROVE  /\ ms_chain' \in Seq({"stage", "release"} \X Artifact)
         /\ ms_chain[1] = <<op, a>> /\ 1 \in 1..Len(ms_chain)
         /\ \A i \in 1..Len(ms_chain') :
              /\ i + 1 \in 1..Len(ms_chain) /\ ms_chain'[i] = ms_chain[i + 1]
              /\ ms_chain[i + 1][2] # a
         /\ \A b \in Artifact \ {a} : Waits("release", b) => Waits("release", b)'
<1>1. ms_chain \in Seq({"stage", "release"} \X Artifact)
  BY DEF SpoolTypes
<1>2. /\ ms_chain' \in Seq({"stage", "release"} \X Artifact)
      /\ Len(ms_chain') = Len(ms_chain) - 1 /\ Len(ms_chain) \in Nat \ {0}
      /\ ms_chain[1] = <<op, a>>
      /\ \A i \in 1..Len(ms_chain') : i + 1 \in 1..Len(ms_chain) /\ ms_chain'[i] = ms_chain[i + 1]
  BY <1>1, AfterTheFirst
<1>3. \A i \in 1..Len(ms_chain') : ms_chain[i + 1][2] # a
  BY <1>2 DEF Turns
<1>4. ASSUME NEW b \in Artifact \ {a}, NEW i \in 1..Len(ms_chain), ms_chain[i] = <<"release", b>>
      PROVE  \E k \in 1..Len(ms_chain') : ms_chain'[k] = <<"release", b>>
  <2>1. i # 1
    BY <1>2, <1>4
  <2>2. i - 1 \in 1..Len(ms_chain') /\ (i - 1) + 1 = i
    BY <1>2, <2>1
  <2> QED BY <1>2, <1>4, <2>2
<1>5. \A b \in Artifact \ {a} : Waits("release", b) => Waits("release", b)'
  BY <1>4 DEF Waits
<1> QED BY <1>2, <1>3, <1>5

(* A call joins those that wait: nobody else's turn is touched.            *)
LEMMA TurnsJoined ==
  ASSUME SpoolTypes, Turns, NEW op \in {"stage", "release"}, NEW a \in Artifact,
         ms_chain' = Append(ms_chain, <<op, a>>), ms_row[a] \notin {"asked", "over"},
         op = "stage" => ms_row'[a] = "asked", op = "release" => ms_row'[a] = "over",
         \A b \in Artifact \ {a} : ms_row'[b] = ms_row[b] /\ ms_step'[b] = ms_step[b],
         ms_step'[a] \notin InTurn, ms_step'[a] # "idle" => op = "stage", ms_up, ms_up'
  PROVE  Turns'
<1>c. /\ Len(ms_chain') = Len(ms_chain) + 1 /\ Len(ms_chain) \in Nat /\ ms_chain' # <<>>
      /\ ms_chain'[Len(ms_chain) + 1] = <<op, a>>
      /\ \A i \in 1..Len(ms_chain) : ms_chain'[i] = ms_chain[i]
  BY Waiting
<1>0. \A i \in 1..Len(ms_chain) : ms_chain[i] \in {"stage", "release"} \X Artifact
  BY DEF SpoolTypes
<1>1. \A i \in 1..Len(ms_chain) : ms_chain[i][2] \in Artifact \ {a}
  BY <1>0 DEF Turns
<1>2. \A i \in 1..Len(ms_chain) : ms_row'[ms_chain[i][2]] = ms_row[ms_chain[i][2]]
  BY <1>1
<1>3. \A i \in 1..Len(ms_chain') : i \in 1..Len(ms_chain) \/ i = Len(ms_chain) + 1
  BY <1>c
<1>4. \A i, j \in 1..Len(ms_chain') : i # j => ms_chain'[i][2] # ms_chain'[j][2]
  BY <1>c, <1>1, <1>3 DEF Turns
<1>5. \A i \in 1..Len(ms_chain') : ms_chain'[i][1] = "stage" => ms_row'[ms_chain'[i][2]] = "asked"
  BY <1>c, <1>2, <1>3 DEF Turns
<1>6. \A i \in 1..Len(ms_chain') : ms_chain'[i][1] = "release" => ms_row'[ms_chain'[i][2]] = "over"
  BY <1>c, <1>2, <1>3 DEF Turns
<1>7. \A b \in Artifact : ms_step'[b] # "idle" => ms_row'[b] = "asked"
  BY DEF Turns
<1>8. \A b \in Artifact : ms_step'[b] \in InTurn => ms_chain # <<>> /\ ms_chain[1] = <<"stage", b>>
  BY DEF Turns
<1>9. ms_chain # <<>> => 1 \in 1..Len(ms_chain)
  BY <1>c DEF SpoolTypes
<1> QED BY <1>4, <1>5, <1>6, <1>7, <1>8, <1>9, <1>c DEF Turns

(* The first call is through: the others keep their turns.                 *)
LEMMA TurnsPassed ==
  ASSUME SpoolTypes, Turns, NEW op, NEW a \in Artifact,
         ms_chain # <<>>, Head(ms_chain) = <<op, a>>, ms_chain' = Tail(ms_chain),
         \A b \in Artifact \ {a} : ms_row'[b] = ms_row[b] /\ ms_step'[b] = ms_step[b],
         ms_step'[a] = "idle", ms_up'
  PROVE  Turns'
<1>c. /\ ms_chain[1] = <<op, a>>
      /\ \A i \in 1..Len(ms_chain') :
           i + 1 \in 1..Len(ms_chain) /\ ms_chain'[i] = ms_chain[i + 1] /\ ms_chain[i + 1][2] # a
  BY Passing, ZenonT(40)
<1>0. \A i \in 1..Len(ms_chain) : ms_chain[i] \in {"stage", "release"} \X Artifact
  BY DEF SpoolTypes
<1>1. \A i \in 1..Len(ms_chain') : ms_chain[i + 1][2] \in Artifact \ {a}
  BY <1>0, <1>c
<1>2. \A i \in 1..Len(ms_chain') : ms_row'[ms_chain'[i][2]] = ms_row[ms_chain[i + 1][2]]
  BY <1>1, <1>c
<1>3. \A i, j \in 1..Len(ms_chain') : i # j => i + 1 # j + 1
  OBVIOUS
<1>4. \A i, j \in 1..Len(ms_chain') : i # j => ms_chain'[i][2] # ms_chain'[j][2]
  BY <1>c, <1>3 DEF Turns
<1>5. \A i \in 1..Len(ms_chain') : ms_chain'[i][1] = "stage" => ms_row'[ms_chain'[i][2]] = "asked"
  BY <1>c, <1>2 DEF Turns
<1>6. \A i \in 1..Len(ms_chain') : ms_chain'[i][1] = "release" => ms_row'[ms_chain'[i][2]] = "over"
  BY <1>c, <1>2 DEF Turns
<1>7. \A b \in Artifact : ms_step'[b] # "idle" => ms_row'[b] = "asked"
  BY DEF Turns
<1>8. \A b \in Artifact : ms_step'[b] \notin InTurn
  BY <1>c DEF Turns, InTurn
<1> QED BY <1>4, <1>5, <1>6, <1>7, <1>8 DEF Turns

(* No call comes or goes.                                                  *)
LEMMA TurnsStay ==
  ASSUME SpoolTypes, Turns, NEW a \in Artifact, ms_chain' = ms_chain, ms_up' = ms_up,
         \A b \in Artifact : ms_row'[b] = ms_row[b] \/ ms_row[b] \notin {"asked", "over"},
         \A b \in Artifact \ {a} : ms_step'[b] = ms_step[b],
         ms_step'[a] # "idle" => ms_row[a] = "asked",
         ms_step'[a] \in InTurn => ms_chain # <<>> /\ ms_chain[1] = <<"stage", a>>
  PROVE  Turns'
<1>0. \A i \in 1..Len(ms_chain) : ms_chain[i] \in {"stage", "release"} \X Artifact
  BY DEF SpoolTypes
<1>1. \A i \in 1..Len(ms_chain) : ms_chain[i][2] \in Artifact /\ ms_chain[i][1] \in {"stage",
        "release"}
  BY <1>0
<1>2. \A i \in 1..Len(ms_chain) : ms_row'[ms_chain[i][2]] = ms_row[ms_chain[i][2]]
  BY <1>1 DEF Turns
<1>3. \A b \in Artifact : ms_step'[b] # "idle" => ms_row'[b] = "asked"
  BY DEF Turns
<1>4. \A b \in Artifact : ms_step'[b] \in InTurn => ms_chain # <<>> /\ ms_chain[1] = <<"stage", b>>
  BY DEF Turns
<1> QED BY <1>2, <1>3, <1>4 DEF Turns

(* What leaves the spool, or changes none of its files, keeps the quota.   *)
LEMMA QuotaKept ==
  ASSUME Spool!SpoolAssumption, Quota, SpoolTypes, Spool!Units' \subseteq Spool!Units,
         \A a \in Artifact : ms_step'[a] \in {"make", "write", "rename"} =>
           ms_noted'[a] = ms_noted[a] /\ ~Spool!Exceeds(a)
  PROVE  Quota'
<1>1. IsFiniteSet(Spool!Units') /\ Cardinality(Spool!Units') <= Cardinality(Spool!Units)
  BY FS_Subset DEF Quota
<1>2. Cardinality(Spool!Units') \in Nat /\ Cardinality(Spool!Units) \in Nat /\ MaxTotal \in Nat
  BY <1>1, FS_CardinalityType DEF Quota, Spool!SpoolAssumption
<1> QED BY SameCount, <1>1, <1>2 DEF Quota, Spool!CurrentBytes, Spool!Exceeds, SpoolTypes

(* An empty spool.                                                         *)
LEMMA SpoolInit == Spool!SpoolAssumption /\ Spool!Init => SpoolInv
<1> SUFFICES ASSUME Spool!SpoolAssumption, Spool!Init PROVE SpoolInv
  OBVIOUS
<1>1. SpoolTypes /\ Turns /\ Files
  BY DEF Spool!SpoolAssumption, Spool!Init, SpoolTypes, Turns, Files, FileOf, InTurn
<1>2. Spool!Units = {}
  BY DEF Spool!Init, Spool!Units, Spool!Staged
<1>3. IsFiniteSet(Spool!Units) /\ Spool!CurrentBytes = 0
  BY SameCount, <1>2, FS_EmptySet DEF Spool!CurrentBytes
<1>4. Quota
  BY <1>3 DEF Quota, Spool!Init, Spool!SpoolAssumption
<1> QED BY <1>1, <1>4 DEF SpoolInv

(* Every step of the spool, a crash and a start too, keeps the turns, the  *)
(* files and the quota.                                                    *)
LEMMA SpoolMoves == Spool!SpoolAssumption /\ SpoolInv /\ [Spool!Next]_(Spool!vars) => SpoolInv'
<1> SUFFICES ASSUME Spool!SpoolAssumption, SpoolInv, [Spool!Next]_(Spool!vars) PROVE SpoolInv'
  OBVIOUS
<1>0. SpoolTypes /\ Turns /\ Files /\ Quota
  BY DEF SpoolInv
<1>1. ASSUME NEW a \in Artifact, Spool!Ask(a) PROVE SpoolInv'
  <2>c. /\ ms_chain' \in Seq({"stage", "release"} \X Artifact) /\ ms_chain' # <<>>
        /\ Len(ms_chain') = Len(ms_chain) + 1 /\ Len(ms_chain) \in Nat
        /\ ms_chain'[Len(ms_chain) + 1] = <<"stage", a>>
        /\ \A i \in 1..Len(ms_chain) : ms_chain'[i] = ms_chain[i]
        /\ \A b \in Artifact : Waits("release", b) => Waits("release", b)'
        /\ "stage" = "release" => Waits("release", a)'
    BY <1>0, <1>1, Waiting DEF Spool!Ask, Spool!Put, Spool!Wait
  <2>1. SpoolTypes'
    BY <1>0, <1>1, <2>c DEF Spool!Ask, Spool!Put, Spool!Wait, SpoolTypes, Spool!SpoolAssumption
  <2>2. Turns'
    <3>1. /\ ms_row[a] \notin {"asked", "over"} /\ ms_up /\ ms_up' /\ ms_step'[a] \notin InTurn
          /\ ms_row'[a] = "asked"
          /\ \A b \in Artifact \ {a} : ms_row'[b] = ms_row[b] /\ ms_step'[b] = ms_step[b]
          /\ ms_step'[a] # "idle" => "stage" = "stage"
          /\ ms_chain' = Append(ms_chain, <<"stage", a>>)
      BY <1>0, <1>1, <2>c DEF Spool!Ask, Spool!Put, Spool!Wait, Turns, SpoolTypes, Files, FileOf,
           InTurn
    <3> QED BY <1>0, <3>1, TurnsJoined
  <2>3. Files'
    <3> SUFFICES ASSUME NEW b \in Artifact PROVE FileOf(b)'
      BY DEF Files
    <3>1. CASE b = a
      BY <1>0, <1>1, <2>c, <3>1 DEF Spool!Ask, Spool!Put, Spool!Wait, Files, FileOf, SpoolTypes,
           Turns, InTurn
    <3>2. CASE b # a
      BY <1>0, <1>1, <2>c, <3>2 DEF Spool!Ask, Spool!Put, Spool!Wait, Files, FileOf, SpoolTypes,
           Turns, InTurn
    <3> QED BY <3>1, <3>2
  <2>4. Quota'
    BY <1>0, <1>1, <2>c, <2>1, QuotaKept DEF Spool!Ask, Spool!Put, Spool!Wait, Spool!Units,
         Spool!Staged, SpoolTypes, Files, FileOf, Turns, Quota
  <2> QED BY <2>1, <2>2, <2>3, <2>4 DEF SpoolInv
<1>2. ASSUME NEW a \in Artifact, Spool!ReadSource(a) PROVE SpoolInv'
  <2>1. CASE ms_row' = Spool!Put(ms_row, a, "over") /\ Spool!Done
               /\ ms_step' = Spool!Put(ms_step, a, "idle") /\ UNCHANGED ms_noted
    <3>c. /\ ms_chain' \in Seq({"stage", "release"} \X Artifact)
          /\ ms_chain[1] = <<"stage", a>> /\ 1 \in 1..Len(ms_chain)
          /\ \A i \in 1..Len(ms_chain') :
               /\ i + 1 \in 1..Len(ms_chain) /\ ms_chain'[i] = ms_chain[i + 1]
               /\ ms_chain[i + 1][2] # a
          /\ \A b \in Artifact \ {a} : Waits("release", b) => Waits("release", b)'
      BY <1>0, <1>2, <2>1, Passing DEF Spool!ReadSource, Spool!Put, Spool!Done, Spool!HasTurn
    <3>1. SpoolTypes'
      BY <1>0, <1>2, <2>1, <3>c DEF Spool!ReadSource, Spool!Put, Spool!Done, Spool!HasTurn,
           SpoolTypes, Spool!SpoolAssumption
    <3>2. Turns'
      <4>1. /\ ms_chain # <<>> /\ Head(ms_chain) = <<"stage", a>> /\ ms_chain' = Tail(ms_chain)
            /\ \A b \in Artifact \ {a} : ms_row'[b] = ms_row[b] /\ ms_step'[b] = ms_step[b]
            /\ ms_step'[a] = "idle" /\ ms_up'
        BY <1>0, <1>2, <2>1, <3>c DEF Spool!ReadSource, Spool!Put, Spool!Done, Spool!HasTurn, Turns,
             SpoolTypes, Files, FileOf, InTurn
      <4> QED BY <1>0, <4>1, TurnsPassed
    <3>3. Files'
      <4> SUFFICES ASSUME NEW b \in Artifact PROVE FileOf(b)'
        BY DEF Files
      <4>1. CASE b = a
        BY <1>0, <1>2, <2>1, <3>c, <4>1 DEF Spool!ReadSource, Spool!Put, Spool!Done, Spool!HasTurn,
             Files, FileOf, SpoolTypes, Turns, InTurn
      <4>2. CASE b # a
        BY <1>0, <1>2, <2>1, <3>c, <4>2 DEF Spool!ReadSource, Spool!Put, Spool!Done, Spool!HasTurn,
             Files, FileOf, SpoolTypes, Turns, InTurn
      <4> QED BY <4>1, <4>2
    <3>4. Quota'
      BY <1>0, <1>2, <2>1, <3>c, <3>1, QuotaKept DEF Spool!ReadSource, Spool!Put, Spool!Done,
           Spool!HasTurn, Spool!Units, Spool!Staged, SpoolTypes, Files, FileOf, Turns, Quota
    <3> QED BY <3>1, <3>2, <3>3, <3>4 DEF SpoolInv
  <2>2. CASE UNCHANGED <<ms_row, ms_chain>>
               /\ (\E n \in 1..MaxArtifact : ms_noted' = Spool!Put(ms_noted, a, n))
                    /\ ms_step' = Spool!Put(ms_step, a, "measure")
    <3>c. ms_chain' = ms_chain /\ \A b \in Artifact : Waits("release", b) => Waits("release", b)'
      BY <1>0, <1>2, <2>2 DEF Spool!ReadSource, Spool!Put, Spool!Done, Spool!HasTurn, Waits
    <3>1. SpoolTypes'
      BY <1>0, <1>2, <2>2, <3>c, SMTT(30) DEF Spool!ReadSource, Spool!Put, Spool!Done,
           Spool!HasTurn, SpoolTypes, Spool!SpoolAssumption
    <3>2. Turns'
      BY <1>0, <1>2, <2>2, <3>c, <3>1, TurnsStay DEF Spool!ReadSource, Spool!Put, Spool!Done,
           Spool!HasTurn, Turns, SpoolTypes, Files, FileOf, InTurn
    <3>3. Files'
      <4> SUFFICES ASSUME NEW b \in Artifact PROVE FileOf(b)'
        BY DEF Files
      <4>1. CASE b = a
        BY <1>0, <1>2, <2>2, <3>c, <4>1 DEF Spool!ReadSource, Spool!Put, Spool!Done, Spool!HasTurn,
             Files, FileOf, SpoolTypes, Turns, InTurn
      <4>2. CASE b # a
        BY <1>0, <1>2, <2>2, <3>c, <4>2 DEF Spool!ReadSource, Spool!Put, Spool!Done, Spool!HasTurn,
             Files, FileOf, SpoolTypes, Turns, InTurn
      <4> QED BY <4>1, <4>2
    <3>4. Quota'
      BY <1>0, <1>2, <2>2, <3>c, <3>1, QuotaKept DEF Spool!ReadSource, Spool!Put, Spool!Done,
           Spool!HasTurn, Spool!Units, Spool!Staged, SpoolTypes, Files, FileOf, Turns, Quota
    <3> QED BY <3>1, <3>2, <3>3, <3>4 DEF SpoolInv
  <2> QED BY <1>0, <1>2, <2>1, <2>2 DEF Spool!ReadSource, Spool!SpoolAssumption
<1>3. ASSUME NEW a \in Artifact, Spool!Measure(a) PROVE SpoolInv'
  <2>1. CASE ms_row' = Spool!Put(ms_row, a, "over") /\ Spool!Done
               /\ ms_step' = Spool!Put(ms_step, a, "idle")
    <3>c. /\ ms_chain' \in Seq({"stage", "release"} \X Artifact)
          /\ ms_chain[1] = <<"stage", a>> /\ 1 \in 1..Len(ms_chain)
          /\ \A i \in 1..Len(ms_chain') :
               /\ i + 1 \in 1..Len(ms_chain) /\ ms_chain'[i] = ms_chain[i + 1]
               /\ ms_chain[i + 1][2] # a
          /\ \A b \in Artifact \ {a} : Waits("release", b) => Waits("release", b)'
      BY <1>0, <1>3, <2>1, Passing DEF Spool!Measure, Spool!Put, Spool!Done, Spool!HasTurn
    <3>1. SpoolTypes'
      BY <1>0, <1>3, <2>1, <3>c DEF Spool!Measure, Spool!Put, Spool!Done, Spool!HasTurn, SpoolTypes,
           Spool!SpoolAssumption
    <3>2. Turns'
      <4>1. /\ ms_chain # <<>> /\ Head(ms_chain) = <<"stage", a>> /\ ms_chain' = Tail(ms_chain)
            /\ \A b \in Artifact \ {a} : ms_row'[b] = ms_row[b] /\ ms_step'[b] = ms_step[b]
            /\ ms_step'[a] = "idle" /\ ms_up'
        BY <1>0, <1>3, <2>1, <3>c DEF Spool!Measure, Spool!Put, Spool!Done, Spool!HasTurn, Turns,
             SpoolTypes, Files, FileOf, InTurn
      <4> QED BY <1>0, <4>1, TurnsPassed
    <3>3. Files'
      <4> SUFFICES ASSUME NEW b \in Artifact PROVE FileOf(b)'
        BY DEF Files
      <4>1. CASE b = a
        BY <1>0, <1>3, <2>1, <3>c, <4>1 DEF Spool!Measure, Spool!Put, Spool!Done, Spool!HasTurn,
             Files, FileOf, SpoolTypes, Turns, InTurn
      <4>2. CASE b # a
        BY <1>0, <1>3, <2>1, <3>c, <4>2 DEF Spool!Measure, Spool!Put, Spool!Done, Spool!HasTurn,
             Files, FileOf, SpoolTypes, Turns, InTurn
      <4> QED BY <4>1, <4>2
    <3>4. Quota'
      BY <1>0, <1>3, <2>1, <3>c, <3>1, QuotaKept DEF Spool!Measure, Spool!Put, Spool!Done,
           Spool!HasTurn, Spool!Units, Spool!Staged, SpoolTypes, Files, FileOf, Turns, Quota
    <3> QED BY <3>1, <3>2, <3>3, <3>4 DEF SpoolInv
  <2>2. CASE UNCHANGED <<ms_row, ms_chain>> /\ ms_step' = Spool!Put(ms_step, a, "make")
               /\ ~Spool!Exceeds(a)
    <3>c. ms_chain' = ms_chain /\ \A b \in Artifact : Waits("release", b) => Waits("release", b)'
      BY <1>0, <1>3, <2>2 DEF Spool!Measure, Spool!Put, Spool!Done, Spool!HasTurn, Waits
    <3>1. SpoolTypes'
      BY <1>0, <1>3, <2>2, <3>c DEF Spool!Measure, Spool!Put, Spool!Done, Spool!HasTurn, SpoolTypes,
           Spool!SpoolAssumption
    <3>2. Turns'
      BY <1>0, <1>3, <2>2, <3>c, <3>1, TurnsStay DEF Spool!Measure, Spool!Put, Spool!Done,
           Spool!HasTurn, Turns, SpoolTypes, Files, FileOf, InTurn
    <3>3. Files'
      <4> SUFFICES ASSUME NEW b \in Artifact PROVE FileOf(b)'
        BY DEF Files
      <4>1. CASE b = a
        BY <1>0, <1>3, <2>2, <3>c, <4>1 DEF Spool!Measure, Spool!Put, Spool!Done, Spool!HasTurn,
             Files, FileOf, SpoolTypes, Turns, InTurn
      <4>2. CASE b # a
        BY <1>0, <1>3, <2>2, <3>c, <4>2 DEF Spool!Measure, Spool!Put, Spool!Done, Spool!HasTurn,
             Files, FileOf, SpoolTypes, Turns, InTurn
      <4> QED BY <4>1, <4>2
    <3>4. Quota'
      BY <1>0, <1>3, <2>2, <3>c, <3>1, QuotaKept DEF Spool!Measure, Spool!Put, Spool!Done,
           Spool!HasTurn, Spool!Units, Spool!Staged, SpoolTypes, Files, FileOf, Turns, Quota
    <3> QED BY <3>1, <3>2, <3>3, <3>4 DEF SpoolInv
  <2> QED BY <1>0, <1>3, <2>1, <2>2 DEF Spool!Measure, Spool!SpoolAssumption
<1>4. ASSUME NEW a \in Artifact, Spool!Make(a) PROVE SpoolInv'
  <2>c. ms_chain' = ms_chain /\ \A b \in Artifact : Waits("release", b) => Waits("release", b)'
    BY <1>0, <1>4 DEF Spool!Make, Spool!Put, Spool!HasTurn, Waits
  <2>1. SpoolTypes'
    BY <1>0, <1>4, <2>c DEF Spool!Make, Spool!Put, Spool!HasTurn, SpoolTypes, Spool!SpoolAssumption
  <2>2. Turns'
    BY <1>0, <1>4, <2>c, <2>1, TurnsStay DEF Spool!Make, Spool!Put, Spool!HasTurn, Turns,
         SpoolTypes, Files, FileOf, InTurn
  <2>3. Files'
    <3> SUFFICES ASSUME NEW b \in Artifact PROVE FileOf(b)'
      BY DEF Files
    <3>1. CASE b = a
      BY <1>0, <1>4, <2>c, <3>1 DEF Spool!Make, Spool!Put, Spool!HasTurn, Files, FileOf, SpoolTypes,
           Turns, InTurn
    <3>2. CASE b # a
      BY <1>0, <1>4, <2>c, <3>2 DEF Spool!Make, Spool!Put, Spool!HasTurn, Files, FileOf, SpoolTypes,
           Turns, InTurn
    <3> QED BY <3>1, <3>2
  <2>4. Quota'
    BY <1>0, <1>4, <2>c, <2>1, QuotaKept DEF Spool!Make, Spool!Put, Spool!HasTurn, Spool!Units,
         Spool!Staged, SpoolTypes, Files, FileOf, Turns, Quota
  <2> QED BY <2>1, <2>2, <2>3, <2>4 DEF SpoolInv
<1>5. ASSUME NEW a \in Artifact, Spool!Write(a) PROVE SpoolInv'
  <2>1. CASE /\ ms_bytes' = Spool!Put(ms_bytes, a, ms_noted[a])
                  /\ ms_step' = Spool!Put(ms_step, a, "rename")
             /\ UNCHANGED <<ms_chain, ms_entry, ms_row, ms_faults>>
    <3>c. ms_chain' = ms_chain /\ \A b \in Artifact : Waits("release", b) => Waits("release", b)'
      BY <1>0, <1>5, <2>1 DEF Spool!Write, Spool!Put, Spool!Done, Spool!HasTurn, Spool!Fault, Waits
    <3>1. SpoolTypes'
      BY <1>0, <1>5, <2>1, <3>c DEF Spool!Write, Spool!Put, Spool!Done, Spool!HasTurn, Spool!Fault,
           SpoolTypes, Spool!SpoolAssumption
    <3>2. Turns'
      BY <1>0, <1>5, <2>1, <3>c, <3>1, TurnsStay DEF Spool!Write, Spool!Put, Spool!Done,
           Spool!HasTurn, Spool!Fault, Turns, SpoolTypes, Files, FileOf, InTurn
    <3>3. Files'
      <4> SUFFICES ASSUME NEW b \in Artifact PROVE FileOf(b)'
        BY DEF Files
      <4>1. CASE b = a
        BY <1>0, <1>5, <2>1, <3>c, <4>1 DEF Spool!Write, Spool!Put, Spool!Done, Spool!HasTurn,
             Spool!Fault, Files, FileOf, SpoolTypes, Turns, InTurn
      <4>2. CASE b # a
        BY <1>0, <1>5, <2>1, <3>c, <4>2 DEF Spool!Write, Spool!Put, Spool!Done, Spool!HasTurn,
             Spool!Fault, Files, FileOf, SpoolTypes, Turns, InTurn
      <4> QED BY <4>1, <4>2
    <3>4. Quota'
      BY <1>0, <1>5, <2>1, <3>c, <3>1, QuotaKept DEF Spool!Write, Spool!Put, Spool!Done,
           Spool!HasTurn, Spool!Fault, Spool!Units, Spool!Staged, SpoolTypes, Files, FileOf, Turns,
             Quota
    <3> QED BY <3>1, <3>2, <3>3, <3>4 DEF SpoolInv
  <2>2. CASE /\ Spool!Fault /\ ms_entry' = Spool!Put(ms_entry, a, "none")
                  /\ ms_step' = Spool!Put(ms_step, a, "idle")
             /\ ms_row' = Spool!Put(ms_row, a, "over") /\ Spool!Done /\ UNCHANGED ms_bytes
    <3>c. /\ ms_chain' \in Seq({"stage", "release"} \X Artifact)
          /\ ms_chain[1] = <<"stage", a>> /\ 1 \in 1..Len(ms_chain)
          /\ \A i \in 1..Len(ms_chain') :
               /\ i + 1 \in 1..Len(ms_chain) /\ ms_chain'[i] = ms_chain[i + 1]
               /\ ms_chain[i + 1][2] # a
          /\ \A b \in Artifact \ {a} : Waits("release", b) => Waits("release", b)'
      BY <1>0, <1>5, <2>2, Passing DEF Spool!Write, Spool!Put, Spool!Done, Spool!HasTurn,
           Spool!Fault
    <3>1. SpoolTypes'
      <4>1. ms_faults' \in Nat /\ ms_up' = ms_up /\ ms_whole' = ms_whole /\ ms_noted' = ms_noted
              /\ ms_sent' = ms_sent
        BY <1>0, <1>5, <2>2 DEF Spool!Write, Spool!Fault, SpoolTypes, Spool!SpoolAssumption
      <4>2. /\ ms_step' \in [Artifact -> {"idle", "read", "measure", "make", "write", "rename"}]
            /\ ms_entry' \in [Artifact -> {"none", "staging", "staged"}]
            /\ ms_row' \in [Artifact -> {"none", "asked", "staged", "queued", "over"}]
            /\ ms_bytes' = ms_bytes /\ ms_upload' = ms_upload
        BY <1>0, <1>5, <2>2 DEF Spool!Write, Spool!Put, SpoolTypes
      <4> QED BY <1>0, <3>c, <4>1, <4>2 DEF SpoolTypes
    <3>2. Turns'
      <4>1. /\ ms_chain # <<>> /\ Head(ms_chain) = <<"stage", a>> /\ ms_chain' = Tail(ms_chain)
            /\ \A b \in Artifact \ {a} : ms_row'[b] = ms_row[b] /\ ms_step'[b] = ms_step[b]
            /\ ms_step'[a] = "idle" /\ ms_up'
        BY <1>0, <1>5, <2>2, <3>c DEF Spool!Write, Spool!Put, Spool!Done, Spool!HasTurn,
             Spool!Fault, Turns, SpoolTypes, Files, FileOf, InTurn
      <4> QED BY <1>0, <4>1, TurnsPassed
    <3>3. Files'
      <4> SUFFICES ASSUME NEW b \in Artifact PROVE FileOf(b)'
        BY DEF Files
      <4>1. CASE b = a
        BY <1>0, <1>5, <2>2, <3>c, <4>1 DEF Spool!Write, Spool!Put, Spool!Done, Spool!HasTurn,
             Spool!Fault, Files, FileOf, SpoolTypes, Turns, InTurn
      <4>2. CASE b # a
        BY <1>0, <1>5, <2>2, <3>c, <4>2 DEF Spool!Write, Spool!Put, Spool!Done, Spool!HasTurn,
             Spool!Fault, Files, FileOf, SpoolTypes, Turns, InTurn
      <4> QED BY <4>1, <4>2
    <3>4. Quota'
      BY <1>0, <1>5, <2>2, <3>c, <3>1, QuotaKept DEF Spool!Write, Spool!Put, Spool!Done,
           Spool!HasTurn, Spool!Fault, Spool!Units, Spool!Staged, SpoolTypes, Files, FileOf, Turns,
             Quota
    <3> QED BY <3>1, <3>2, <3>3, <3>4 DEF SpoolInv
  <2> QED BY <1>0, <1>5, <2>1, <2>2 DEF Spool!Write, Spool!SpoolAssumption
<1>6. ASSUME NEW a \in Artifact, Spool!Rename(a) PROVE SpoolInv'
  <2>c. /\ ms_chain' \in Seq({"stage", "release"} \X Artifact)
        /\ ms_chain[1] = <<"stage", a>> /\ 1 \in 1..Len(ms_chain)
        /\ \A i \in 1..Len(ms_chain') :
             /\ i + 1 \in 1..Len(ms_chain) /\ ms_chain'[i] = ms_chain[i + 1]
             /\ ms_chain[i + 1][2] # a
        /\ \A b \in Artifact \ {a} : Waits("release", b) => Waits("release", b)'
    BY <1>0, <1>6, Passing DEF Spool!Rename, Spool!Put, Spool!Done, Spool!HasTurn
  <2>1. SpoolTypes'
    BY <1>0, <1>6, <2>c DEF Spool!Rename, Spool!Put, Spool!Done, Spool!HasTurn, SpoolTypes,
         Spool!SpoolAssumption
  <2>2. Turns'
    <3>1. /\ ms_chain # <<>> /\ Head(ms_chain) = <<"stage", a>> /\ ms_chain' = Tail(ms_chain)
          /\ \A b \in Artifact \ {a} : ms_row'[b] = ms_row[b] /\ ms_step'[b] = ms_step[b]
          /\ ms_step'[a] = "idle" /\ ms_up'
      BY <1>0, <1>6, <2>c DEF Spool!Rename, Spool!Put, Spool!Done, Spool!HasTurn, Turns, SpoolTypes,
           Files, FileOf, InTurn
    <3> QED BY <1>0, <3>1, TurnsPassed
  <2>3. Files'
    <3> SUFFICES ASSUME NEW b \in Artifact PROVE FileOf(b)'
      BY DEF Files
    <3>1. CASE b = a
      BY <1>0, <1>6, <2>c, <3>1 DEF Spool!Rename, Spool!Put, Spool!Done, Spool!HasTurn, Files,
           FileOf, SpoolTypes, Turns, InTurn
    <3>2. CASE b # a
      BY <1>0, <1>6, <2>c, <3>2 DEF Spool!Rename, Spool!Put, Spool!Done, Spool!HasTurn, Files,
           FileOf, SpoolTypes, Turns, InTurn
    <3> QED BY <3>1, <3>2
  <2>4. Quota'
    <3> DEFINE New == {a} \X (1..ms_noted[a])
    <3>1. ms_step[a] = "rename" /\ ms_entry[a] = "staging" /\ ms_bytes[a] = ms_noted[a]
            /\ ~Spool!Exceeds(a)
      BY <1>0, <1>6 DEF Spool!Rename, Files, FileOf, Quota
    <3>2. ms_noted[a] \in 0..MaxArtifact /\ ms_noted[a] \in Nat /\ MaxArtifact \in Nat
      BY <1>0 DEF SpoolTypes, Spool!SpoolAssumption
    <3>3. Spool!Staged' = Spool!Staged \cup {a} /\ ms_bytes' = ms_bytes /\ ms_noted' = ms_noted
      BY <1>0, <1>6 DEF Spool!Rename, Spool!Put, Spool!Staged, SpoolTypes
    <3>4. Spool!Units' \subseteq Spool!Units \cup New
      <4> SUFFICES ASSUME NEW b \in Spool!Staged', NEW n \in 1..MaxArtifact, n <= ms_bytes'[b]
                   PROVE  <<b, n>> \in Spool!Units \cup New
        BY DEF Spool!Units
      <4>1. CASE b = a
        <5>1. n \in 1..ms_noted[a]
          BY <3>1, <3>2, <3>3, <4>1
        <5> QED BY <4>1, <5>1
      <4>2. CASE b # a
        BY <3>3, <4>2 DEF Spool!Units
      <4> QED BY <4>1, <4>2
    <3>5. IsFiniteSet(1..ms_noted[a]) /\ Cardinality(1..ms_noted[a]) = ms_noted[a]
      <4>1. 1 \in Int /\ ms_noted[a] \in Int
        BY <3>2
      <4>2. /\ IsFiniteSet(1..ms_noted[a])
            /\ Cardinality(1..ms_noted[a]) = IF 1 > ms_noted[a] THEN 0 ELSE ms_noted[a] - 1 + 1
        BY <4>1, FS_Interval, Zenon
      <4> QED BY <3>2, <4>2
    <3>6. IsFiniteSet({a}) /\ Cardinality({a}) = 1
      BY FS_Singleton
    <3>7. IsFiniteSet(New) /\ Cardinality(New) = ms_noted[a]
      <4>1. IsFiniteSet({a} \X (1..ms_noted[a]))
            /\ Cardinality({a} \X (1..ms_noted[a])) = Cardinality({a}) * Cardinality(1..ms_noted[a])
        BY <3>5, <3>6, FS_Product
      <4> QED BY <4>1, <3>5, <3>6, <3>2
    <3>8. IsFiniteSet(Spool!Units) /\ Cardinality(Spool!Units) \in Nat /\ MaxTotal \in Nat
      BY <1>0, FS_CardinalityType DEF Quota, Spool!SpoolAssumption
    <3>9. /\ IsFiniteSet(Spool!Units \cup New)
          /\ Cardinality(Spool!Units \cup New) =
               Cardinality(Spool!Units) + Cardinality(New) - Cardinality(Spool!Units \cap New)
      BY <3>7, <3>8, FS_Union
    <3>10. Cardinality(Spool!Units \cap New) \in Nat
      BY <3>7, FS_Intersection, FS_CardinalityType
    <3>11. Cardinality(Spool!Units \cup New) <= Cardinality(Spool!Units) + ms_noted[a]
      BY <3>2, <3>7, <3>8, <3>9, <3>10
    <3>12. IsFiniteSet(Spool!Units')
             /\ Cardinality(Spool!Units') <= Cardinality(Spool!Units \cup New)
      BY <3>4, <3>9, FS_Subset
    <3>13. Cardinality(Spool!Units') \in Nat /\ Cardinality(Spool!Units \cup New) \in Nat
      BY <3>9, <3>12, FS_CardinalityType
    <3>14. Cardinality(Spool!Units) + ms_noted[a] <= MaxTotal
      BY SameCount, <3>1, <3>2, <3>8 DEF Spool!Exceeds, Spool!CurrentBytes
    <3>15. Cardinality(Spool!Units') <= MaxTotal
      BY <3>2, <3>8, <3>11, <3>12, <3>13, <3>14
    <3>16. \A b \in Artifact : ms_step'[b] \notin {"make", "write", "rename"}
      BY <1>0, <1>6 DEF Spool!Rename, Spool!HasTurn, Spool!Put, Turns, InTurn, SpoolTypes
    <3> QED BY SameCount, <3>12, <3>13, <3>15, <3>16 DEF Quota, Spool!CurrentBytes
  <2> QED BY <2>1, <2>2, <2>3, <2>4 DEF SpoolInv
<1>7. ASSUME NEW a \in Artifact, Spool!Enqueue(a) PROVE SpoolInv'
  <2>1. CASE ms_row' = Spool!Put(ms_row, a, "queued") /\ UNCHANGED <<ms_chain, ms_faults>>
    <3>c. ms_chain' = ms_chain /\ \A b \in Artifact : Waits("release", b) => Waits("release", b)'
      BY <1>0, <1>7, <2>1 DEF Spool!Enqueue, Spool!Put, Spool!Wait, Spool!Fault, Waits
    <3>1. SpoolTypes'
      BY <1>0, <1>7, <2>1, <3>c DEF Spool!Enqueue, Spool!Put, Spool!Wait, Spool!Fault, SpoolTypes,
           Spool!SpoolAssumption
    <3>2. Turns'
      BY <1>0, <1>7, <2>1, <3>c, <3>1, TurnsStay DEF Spool!Enqueue, Spool!Put, Spool!Wait,
           Spool!Fault, Turns, SpoolTypes, Files, FileOf, InTurn
    <3>3. Files'
      <4> SUFFICES ASSUME NEW b \in Artifact PROVE FileOf(b)'
        BY DEF Files
      <4>1. CASE b = a
        BY <1>0, <1>7, <2>1, <3>c, <4>1 DEF Spool!Enqueue, Spool!Put, Spool!Wait, Spool!Fault,
             Files, FileOf, SpoolTypes, Turns, InTurn
      <4>2. CASE b # a
        BY <1>0, <1>7, <2>1, <3>c, <4>2 DEF Spool!Enqueue, Spool!Put, Spool!Wait, Spool!Fault,
             Files, FileOf, SpoolTypes, Turns, InTurn
      <4> QED BY <4>1, <4>2
    <3>4. Quota'
      BY <1>0, <1>7, <2>1, <3>c, <3>1, QuotaKept DEF Spool!Enqueue, Spool!Put, Spool!Wait,
           Spool!Fault, Spool!Units, Spool!Staged, SpoolTypes, Files, FileOf, Turns, Quota
    <3> QED BY <3>1, <3>2, <3>3, <3>4 DEF SpoolInv
  <2>2. CASE Spool!Fault /\ ms_row' = Spool!Put(ms_row, a, "over") /\ Spool!Wait("release", a)
    <3>c. /\ ms_chain' \in Seq({"stage", "release"} \X Artifact) /\ ms_chain' # <<>>
          /\ Len(ms_chain') = Len(ms_chain) + 1 /\ Len(ms_chain) \in Nat
          /\ ms_chain'[Len(ms_chain) + 1] = <<"release", a>>
          /\ \A i \in 1..Len(ms_chain) : ms_chain'[i] = ms_chain[i]
          /\ \A b \in Artifact : Waits("release", b) => Waits("release", b)'
          /\ "release" = "release" => Waits("release", a)'
      BY <1>0, <1>7, <2>2, Waiting DEF Spool!Enqueue, Spool!Put, Spool!Wait, Spool!Fault
    <3>1. SpoolTypes'
      <4>1. ms_faults' \in Nat /\ ms_step' = ms_step /\ ms_entry' = ms_entry /\ ms_sent' = ms_sent
        BY <1>0, <1>7, <2>2 DEF Spool!Enqueue, Spool!Fault, SpoolTypes, Spool!SpoolAssumption
      <4>2. /\ ms_row' \in [Artifact -> {"none", "asked", "staged", "queued", "over"}]
            /\ ms_bytes' = ms_bytes /\ ms_upload' = ms_upload /\ ms_noted' = ms_noted
        BY <1>0, <1>7, <2>2 DEF Spool!Enqueue, Spool!Put, SpoolTypes
      <4> QED BY <1>0, <3>c, <4>1, <4>2 DEF SpoolTypes
    <3>2. Turns'
      <4>1. /\ ms_row[a] \notin {"asked", "over"} /\ ms_up /\ ms_up' /\ ms_step'[a] \notin InTurn
            /\ ms_step'[a] = "idle"
            /\ ms_row'[a] = "over"
            /\ \A b \in Artifact \ {a} : ms_row'[b] = ms_row[b] /\ ms_step'[b] = ms_step[b]
            /\ ms_chain' = Append(ms_chain, <<"release", a>>)
        BY <1>0, <1>7, <2>2, <3>c DEF Spool!Enqueue, Spool!Put, Spool!Wait, Spool!Fault, Turns,
             SpoolTypes, Files, FileOf, InTurn
      <4> QED BY <1>0, <4>1, TurnsJoined
    <3>3. Files'
      <4> SUFFICES ASSUME NEW b \in Artifact PROVE FileOf(b)'
        BY DEF Files
      <4>1. CASE b = a
        BY <1>0, <1>7, <2>2, <3>c, <4>1 DEF Spool!Enqueue, Spool!Put, Spool!Wait, Spool!Fault,
             Files, FileOf, SpoolTypes, Turns, InTurn
      <4>2. CASE b # a
        BY <1>0, <1>7, <2>2, <3>c, <4>2 DEF Spool!Enqueue, Spool!Put, Spool!Wait, Spool!Fault,
             Files, FileOf, SpoolTypes, Turns, InTurn
      <4> QED BY <4>1, <4>2
    <3>4. Quota'
      BY <1>0, <1>7, <2>2, <3>c, <3>1, QuotaKept DEF Spool!Enqueue, Spool!Put, Spool!Wait,
           Spool!Fault, Spool!Units, Spool!Staged, SpoolTypes, Files, FileOf, Turns, Quota
    <3> QED BY <3>1, <3>2, <3>3, <3>4 DEF SpoolInv
  <2> QED BY <1>0, <1>7, <2>1, <2>2 DEF Spool!Enqueue, Spool!SpoolAssumption
<1>8. ASSUME NEW a \in Artifact, Spool!Materialize(a) PROVE SpoolInv'
  <2>c. ms_chain' = ms_chain /\ \A b \in Artifact : Waits("release", b) => Waits("release", b)'
    BY <1>0, <1>8 DEF Spool!Materialize, Spool!Put, Waits
  <2>1. SpoolTypes'
    BY <1>0, <1>8, <2>c DEF Spool!Materialize, Spool!Put, SpoolTypes, Spool!SpoolAssumption
  <2>2. Turns'
    BY <1>0, <1>8, <2>c, <2>1, TurnsStay DEF Spool!Materialize, Spool!Put, Turns, SpoolTypes, Files,
         FileOf, InTurn
  <2>3. Files'
    <3> SUFFICES ASSUME NEW b \in Artifact PROVE FileOf(b)'
      BY DEF Files
    <3>1. CASE b = a
      BY <1>0, <1>8, <2>c, <3>1 DEF Spool!Materialize, Spool!Put, Files, FileOf, SpoolTypes, Turns,
           InTurn
    <3>2. CASE b # a
      BY <1>0, <1>8, <2>c, <3>2 DEF Spool!Materialize, Spool!Put, Files, FileOf, SpoolTypes, Turns,
           InTurn
    <3> QED BY <3>1, <3>2
  <2>4. Quota'
    BY <1>0, <1>8, <2>c, <2>1, QuotaKept DEF Spool!Materialize, Spool!Put, Spool!Units,
         Spool!Staged, SpoolTypes, Files, FileOf, Turns, Quota
  <2> QED BY <2>1, <2>2, <2>3, <2>4 DEF SpoolInv
<1>9. ASSUME NEW a \in Artifact, Spool!Upload(a) PROVE SpoolInv'
  <2>c. /\ ms_chain' \in Seq({"stage", "release"} \X Artifact) /\ ms_chain' # <<>>
        /\ Len(ms_chain') = Len(ms_chain) + 1 /\ Len(ms_chain) \in Nat
        /\ ms_chain'[Len(ms_chain) + 1] = <<"release", a>>
        /\ \A i \in 1..Len(ms_chain) : ms_chain'[i] = ms_chain[i]
        /\ \A b \in Artifact : Waits("release", b) => Waits("release", b)'
        /\ "release" = "release" => Waits("release", a)'
    BY <1>0, <1>9, Waiting DEF Spool!Upload, Spool!Put, Spool!Wait, Spool!Loads, Spool!Intact
  <2>1. SpoolTypes'
    BY <1>0, <1>9, <2>c DEF Spool!Upload, Spool!Put, Spool!Wait, Spool!Loads, Spool!Intact,
         SpoolTypes, Spool!SpoolAssumption
  <2>2. Turns'
    <3>1. /\ ms_row[a] \notin {"asked", "over"} /\ ms_up /\ ms_up' /\ ms_step'[a] \notin InTurn
          /\ ms_step'[a] = "idle"
          /\ ms_row'[a] = "over"
          /\ \A b \in Artifact \ {a} : ms_row'[b] = ms_row[b] /\ ms_step'[b] = ms_step[b]
          /\ ms_chain' = Append(ms_chain, <<"release", a>>)
      BY <1>0, <1>9, <2>c DEF Spool!Upload, Spool!Put, Spool!Wait, Spool!Loads, Spool!Intact, Turns,
           SpoolTypes, Files, FileOf, InTurn
    <3> QED BY <1>0, <3>1, TurnsJoined
  <2>3. Files'
    <3> SUFFICES ASSUME NEW b \in Artifact PROVE FileOf(b)'
      BY DEF Files
    <3>1. CASE b = a
      BY <1>0, <1>9, <2>c, <3>1 DEF Spool!Upload, Spool!Put, Spool!Wait, Spool!Loads, Spool!Intact,
           Files, FileOf, SpoolTypes, Turns, InTurn
    <3>2. CASE b # a
      BY <1>0, <1>9, <2>c, <3>2 DEF Spool!Upload, Spool!Put, Spool!Wait, Spool!Loads, Spool!Intact,
           Files, FileOf, SpoolTypes, Turns, InTurn
    <3> QED BY <3>1, <3>2
  <2>4. Quota'
    BY <1>0, <1>9, <2>c, <2>1, QuotaKept DEF Spool!Upload, Spool!Put, Spool!Wait, Spool!Loads,
         Spool!Intact, Spool!Units, Spool!Staged, SpoolTypes, Files, FileOf, Turns, Quota
  <2> QED BY <2>1, <2>2, <2>3, <2>4 DEF SpoolInv
<1>10. ASSUME NEW a \in Artifact, Spool!Again(a) PROVE SpoolInv'
  <2>c. ms_chain' = ms_chain /\ \A b \in Artifact : Waits("release", b) => Waits("release", b)'
    BY <1>0, <1>10 DEF Spool!Again, Spool!Put, Spool!Fault, Waits
  <2>1. SpoolTypes'
    BY <1>0, <1>10, <2>c DEF Spool!Again, Spool!Put, Spool!Fault, SpoolTypes, Spool!SpoolAssumption
  <2>2. Turns'
    BY <1>0, <1>10, <2>c, <2>1, TurnsStay DEF Spool!Again, Spool!Put, Spool!Fault, Turns,
         SpoolTypes, Files, FileOf, InTurn
  <2>3. Files'
    <3> SUFFICES ASSUME NEW b \in Artifact PROVE FileOf(b)'
      BY DEF Files
    <3>1. CASE b = a
      BY <1>0, <1>10, <2>c, <3>1 DEF Spool!Again, Spool!Put, Spool!Fault, Files, FileOf, SpoolTypes,
           Turns, InTurn
    <3>2. CASE b # a
      BY <1>0, <1>10, <2>c, <3>2 DEF Spool!Again, Spool!Put, Spool!Fault, Files, FileOf, SpoolTypes,
           Turns, InTurn
    <3> QED BY <3>1, <3>2
  <2>4. Quota'
    BY <1>0, <1>10, <2>c, <2>1, QuotaKept DEF Spool!Again, Spool!Put, Spool!Fault, Spool!Units,
         Spool!Staged, SpoolTypes, Files, FileOf, Turns, Quota
  <2> QED BY <2>1, <2>2, <2>3, <2>4 DEF SpoolInv
<1>11. ASSUME NEW a \in Artifact, Spool!GiveUp(a) PROVE SpoolInv'
  <2>c. /\ ms_chain' \in Seq({"stage", "release"} \X Artifact) /\ ms_chain' # <<>>
        /\ Len(ms_chain') = Len(ms_chain) + 1 /\ Len(ms_chain) \in Nat
        /\ ms_chain'[Len(ms_chain) + 1] = <<"release", a>>
        /\ \A i \in 1..Len(ms_chain) : ms_chain'[i] = ms_chain[i]
        /\ \A b \in Artifact : Waits("release", b) => Waits("release", b)'
        /\ "release" = "release" => Waits("release", a)'
    BY <1>0, <1>11, Waiting DEF Spool!GiveUp, Spool!Put, Spool!Wait, Spool!Fault
  <2>1. SpoolTypes'
    BY <1>0, <1>11, <2>c, SMTT(30) DEF Spool!GiveUp, Spool!Put, Spool!Wait, Spool!Fault, SpoolTypes,
         Spool!SpoolAssumption
  <2>2. Turns'
    <3>1. /\ ms_row[a] \notin {"asked", "over"} /\ ms_up /\ ms_up' /\ ms_step'[a] \notin InTurn
          /\ ms_step'[a] = "idle"
          /\ ms_row'[a] = "over"
          /\ \A b \in Artifact \ {a} : ms_row'[b] = ms_row[b] /\ ms_step'[b] = ms_step[b]
          /\ ms_chain' = Append(ms_chain, <<"release", a>>)
      BY <1>0, <1>11, <2>c DEF Spool!GiveUp, Spool!Put, Spool!Wait, Spool!Fault, Turns, SpoolTypes,
           Files, FileOf, InTurn
    <3> QED BY <1>0, <3>1, TurnsJoined
  <2>3. Files'
    <3> SUFFICES ASSUME NEW b \in Artifact PROVE FileOf(b)'
      BY DEF Files
    <3>1. CASE b = a
      BY <1>0, <1>11, <2>c, <3>1 DEF Spool!GiveUp, Spool!Put, Spool!Wait, Spool!Fault, Files,
           FileOf, SpoolTypes, Turns, InTurn
    <3>2. CASE b # a
      BY <1>0, <1>11, <2>c, <3>2 DEF Spool!GiveUp, Spool!Put, Spool!Wait, Spool!Fault, Files,
           FileOf, SpoolTypes, Turns, InTurn
    <3> QED BY <3>1, <3>2
  <2>4. Quota'
    BY <1>0, <1>11, <2>c, <2>1, QuotaKept DEF Spool!GiveUp, Spool!Put, Spool!Wait, Spool!Fault,
         Spool!Units, Spool!Staged, SpoolTypes, Files, FileOf, Turns, Quota
  <2> QED BY <2>1, <2>2, <2>3, <2>4 DEF SpoolInv
<1>12. ASSUME NEW a \in Artifact, Spool!Release(a) PROVE SpoolInv'
  <2>c. /\ ms_chain' \in Seq({"stage", "release"} \X Artifact)
        /\ ms_chain[1] = <<"release", a>> /\ 1 \in 1..Len(ms_chain)
        /\ \A i \in 1..Len(ms_chain') :
             /\ i + 1 \in 1..Len(ms_chain) /\ ms_chain'[i] = ms_chain[i + 1]
             /\ ms_chain[i + 1][2] # a
        /\ \A b \in Artifact \ {a} : Waits("release", b) => Waits("release", b)'
    BY <1>0, <1>12, Passing DEF Spool!Release, Spool!Put, Spool!Done, Spool!HasTurn
  <2>1. SpoolTypes'
    BY <1>0, <1>12, <2>c DEF Spool!Release, Spool!Put, Spool!Done, Spool!HasTurn, SpoolTypes,
         Spool!SpoolAssumption
  <2>r. ms_row[a] = "over" /\ ms_step[a] = "idle" /\ ms_up
    <3>1. ms_up /\ ms_chain[1] = <<"release", a>> /\ 1 \in 1..Len(ms_chain)
      BY <1>12, <2>c DEF Spool!Release, Spool!HasTurn
    <3>2. ms_row[a] = "over"
      BY <1>0, <3>1 DEF Turns
    <3> QED BY <1>0, <3>1, <3>2 DEF Turns
  <2>2. Turns'
    <3>1. /\ ms_chain # <<>> /\ Head(ms_chain) = <<"release", a>> /\ ms_chain' = Tail(ms_chain)
          /\ \A b \in Artifact \ {a} : ms_row'[b] = ms_row[b] /\ ms_step'[b] = ms_step[b]
          /\ ms_step'[a] = "idle" /\ ms_up'
      BY <1>0, <1>12, <2>c, <2>r DEF Spool!Release, Spool!Put, Spool!Done, Spool!HasTurn, SpoolTypes
    <3> QED BY <1>0, <3>1, TurnsPassed
  <2>3. Files'
    <3> SUFFICES ASSUME NEW b \in Artifact PROVE FileOf(b)'
      BY DEF Files
    <3>1. CASE b = a
      BY <1>0, <1>12, <2>r, <3>1 DEF Spool!Release, Spool!Put, Files, FileOf, SpoolTypes
    <3>2. CASE b # a
      BY <1>0, <1>12, <2>c, <3>2 DEF Spool!Release, Spool!Put, Spool!Done, Spool!HasTurn, Files,
           FileOf, SpoolTypes, Turns, InTurn
    <3> QED BY <3>1, <3>2
  <2>4. Quota'
    BY <1>0, <1>12, <2>c, <2>1, QuotaKept DEF Spool!Release, Spool!Put, Spool!Done, Spool!HasTurn,
         Spool!Units, Spool!Staged, SpoolTypes, Files, FileOf, Turns, Quota
  <2> QED BY <2>1, <2>2, <2>3, <2>4 DEF SpoolInv
<1>13. ASSUME NEW a \in Artifact, Spool!Change(a) PROVE SpoolInv'
  <2>c. ms_chain' = ms_chain /\ \A b \in Artifact : Waits("release", b) => Waits("release", b)'
    BY <1>0, <1>13 DEF Spool!Change, Spool!Put, Spool!Fault, Waits
  <2>1. SpoolTypes'
    BY <1>0, <1>13, <2>c DEF Spool!Change, Spool!Put, Spool!Fault, SpoolTypes, Spool!SpoolAssumption
  <2>2. Turns'
    BY <1>0, <1>13, <2>c, <2>1, TurnsStay DEF Spool!Change, Spool!Put, Spool!Fault, Turns,
         SpoolTypes, Files, FileOf, InTurn
  <2>3. Files'
    <3> SUFFICES ASSUME NEW b \in Artifact PROVE FileOf(b)'
      BY DEF Files
    <3>1. CASE b = a
      BY <1>0, <1>13, <2>c, <3>1 DEF Spool!Change, Spool!Put, Spool!Fault, Files, FileOf,
           SpoolTypes, Turns, InTurn
    <3>2. CASE b # a
      BY <1>0, <1>13, <2>c, <3>2 DEF Spool!Change, Spool!Put, Spool!Fault, Files, FileOf,
           SpoolTypes, Turns, InTurn
    <3> QED BY <3>1, <3>2
  <2>4. Quota'
    BY <1>0, <1>13, <2>c, <2>1, QuotaKept DEF Spool!Change, Spool!Put, Spool!Fault, Spool!Units,
         Spool!Staged, SpoolTypes, Files, FileOf, Turns, Quota
  <2> QED BY <2>1, <2>2, <2>3, <2>4 DEF SpoolInv
<1>14. CASE Spool!Crash
  <2>1. SpoolTypes'
    BY <1>0, <1>14 DEF Spool!Crash, Spool!Fault, SpoolTypes
  <2>2. Turns'
    BY <1>0, <1>14 DEF Spool!Crash, Turns, InTurn
  <2>3. Files'
    BY <1>0, <1>14 DEF Spool!Crash, Files, FileOf, SpoolTypes
  <2>4. Quota'
    BY <1>0, <1>14, <2>1, QuotaKept DEF Spool!Crash, Spool!Units, Spool!Staged
  <2> QED BY <2>1, <2>2, <2>3, <2>4 DEF SpoolInv
<1>15. CASE Spool!Start
  <2>1. SpoolTypes'
    BY <1>0, <1>15 DEF Spool!Start, SpoolTypes
  <2>2. Turns'
    BY <1>0, <1>15 DEF Spool!Start, Turns, InTurn
  <2>3. Files'
    <3> SUFFICES ASSUME NEW b \in Artifact PROVE FileOf(b)'
      BY DEF Files
    <3>1. ms_step[b] = "idle" /\ ms_row[b] # "asked"
      BY <1>0, <1>15 DEF Spool!Start, Files, FileOf, Turns, SpoolTypes
    <3>2. ms_entry'[b] = IF ms_entry[b] = "staged" /\ ms_row[b] = "queued" THEN "staged" ELSE "none"
      BY <1>15 DEF Spool!Start, Spool!Referenced
    <3>3. ms_row[b] = "queued" => ms_entry[b] = "staged"
      BY <1>0 DEF Files, FileOf
    <3>4. ms_row[b] # "staged"
      BY <1>0, <1>15 DEF Spool!Start, Files, FileOf
    <3>5. ms_entry[b] # "none" => ms_entry[b] = "staged" \/ ms_entry[b] = "staging"
      BY <1>0 DEF SpoolTypes
    <3>6. FileOf(b)
      BY <1>0 DEF Files
    <3>7. ms_step'[b] = "idle" /\ ms_row'[b] = ms_row[b] /\ ms_upload'[b] = ms_upload[b] /\ ms_up'
      BY <1>15, <3>1 DEF Spool!Start
    <3>8. ms_entry'[b] # "staging" /\ (ms_row[b] = "queued" => ms_entry'[b] = "staged")
          /\ (ms_row[b] # "queued" => ms_entry'[b] = "none")
      BY <3>2, <3>3
    <3> QED BY <3>1, <3>4, <3>6, <3>7, <3>8 DEF FileOf
  <2>4. Quota'
    BY <1>0, <1>15, <2>1, QuotaKept DEF Spool!Start, Spool!Units, Spool!Staged, Turns, Files,
         FileOf, Quota
  <2> QED BY <2>1, <2>2, <2>3, <2>4 DEF SpoolInv
<1>16. CASE UNCHANGED Spool!vars
  <2>1. SpoolTypes'
    BY <1>0, <1>16 DEF Spool!vars, SpoolTypes
  <2>4. Turns'
    BY <1>0, <1>16 DEF Spool!vars, Turns, InTurn
  <2>2. Files'
    BY <1>0, <1>16 DEF Spool!vars, Files, FileOf, Waits
  <2>3. Quota'
    BY <1>0, <1>16, QuotaKept DEF Spool!vars, Spool!Units, Spool!Staged, Quota
  <2> QED BY <2>1, <2>2, <2>3, <2>4 DEF SpoolInv
<1> QED BY <1>1, <1>2, <1>3, <1>4, <1>5, <1>6, <1>7, <1>8, <1>9, <1>10, <1>11, <1>12, <1>13,
  <1>14, <1>15, <1>16 DEF Spool!Next

(* The invariant of the spool holds in every state.                        *)
LEMMA SpoolInvariant == Spool!SpoolAssumption /\ Spool!Spec => []SpoolInv
<1> SUFFICES ASSUME Spool!SpoolAssumption PROVE Spool!Spec => []SpoolInv
  OBVIOUS
<1> QED BY SpoolInit, SpoolMoves, PTL DEF Spool!Spec

(* It gives what is promised of the spool.                                 *)
LEMMA SpoolMeans == SpoolInv => Spool!TypeOK /\ Spool!WithinTotal /\ Spool!SentAsStaged
  /\ Spool!FilesAccounted
BY DEF SpoolInv, SpoolTypes, Files, FileOf, Quota, Waits, Spool!TypeOK, Spool!WithinTotal,
     Spool!SentAsStaged, Spool!FilesAccounted

-----------------------------------------------------------------------------
(* Media in                                                                *)

(* The values of the inbound media's variables.                            *)
InboundTypes ==
  /\ im_folder \subseteq Message /\ im_old \subseteq im_late /\ im_late \subseteq Message
  /\ im_step \in [Message -> {"new", "making", "loading", "run", "release", "over"}]
  /\ im_bytes \in [Message -> 0..MaxBytes] /\ im_parts \in [Message -> Nat]
  /\ im_proc \in [Gateway -> {"down", "cleaning", "up", "failed"}]
  /\ im_list \in [Gateway -> SUBSET Message] /\ im_doomed \in [Gateway -> SUBSET im_late]
  /\ im_crashes \in Nat

(* What a clean-up has yet to look at it has not found old; a process that *)
(* is up is done with it, one that is down has none.                       *)
CleanupApart ==
  /\ \A p \in Gateway : im_list[p] \cap im_doomed[p] = {}
  /\ \A p \in Gateway : im_proc[p] = "up" => im_list[p] = {}
  /\ \A p \in Gateway : im_proc[p] = "down" => im_list[p] = {} /\ im_doomed[p] = {}

(* Who loads or runs has its folder, unless it is old enough for a clean-  *)
(* up to take it.                                                          *)
FoldersKept ==
  \A m \in Message : im_step[m] \in {"loading", "run"} => m \in im_folder \/ m \in im_late

(* Another process is there to take a folder away, or was.                 *)
Disturbed(p) == (\E q \in Gateway \ {p} : im_proc[q] # "down") \/ im_crashes > 0

(* A start fails, or is going to, only on a folder another gateway         *)
(* removed.                                                                *)
TakenByOthers ==
  \A p \in Gateway :
    im_proc[p] = "failed" \/ (\E m \in im_list[p] : m \notin im_folder) => Disturbed(p)

(* The inductive invariant of the inbound media.                           *)
InboundInv == InboundTypes /\ CleanupApart /\ FoldersKept /\ TakenByOthers

(* No message and no gateway yet.                                          *)
LEMMA InboundInit == Inbound!InboundAssumption /\ Inbound!Init => InboundInv
BY DEF Inbound!InboundAssumption, Inbound!Init, InboundInv, InboundTypes, CleanupApart, FoldersKept,
     TakenByOthers

(* Every step of a gateway keeps it.                                       *)
LEMMA InboundMoves == Inbound!InboundAssumption /\ InboundInv /\ [Inbound!Next]_(Inbound!vars)
  => InboundInv'
<1> SUFFICES ASSUME Inbound!InboundAssumption, InboundInv,
                      [Inbound!Next]_(Inbound!vars) PROVE InboundInv'
  OBVIOUS
<1> USE DEF InboundInv, InboundTypes, CleanupApart, FoldersKept, TakenByOthers, Disturbed,
      Inbound!Put
<1>1. ASSUME NEW p \in Gateway, Inbound!Start(p) PROVE InboundInv'
  BY <1>1 DEF Inbound!Start
<1>2. ASSUME NEW p \in Gateway, Inbound!Ready(p) PROVE InboundInv'
  BY <1>2 DEF Inbound!Ready
<1>3. ASSUME NEW p \in Gateway, Inbound!Crash(p) PROVE InboundInv'
  BY <1>3 DEF Inbound!Crash
<1>4. ASSUME NEW p \in Gateway, NEW m \in Message, Inbound!Stat(p, m) PROVE InboundInv'
  BY <1>4 DEF Inbound!Stat
<1>5. ASSUME NEW p \in Gateway, NEW m \in Message, Inbound!Remove(p, m) PROVE InboundInv'
  BY <1>5 DEF Inbound!Remove
<1>6. ASSUME NEW m \in Message, Inbound!Make(m) PROVE InboundInv'
  BY <1>6 DEF Inbound!Make
<1>7. ASSUME NEW m \in Message, Inbound!Load(m) PROVE InboundInv'
  BY <1>7 DEF Inbound!Load, Inbound!InboundAssumption
<1>8. ASSUME NEW m \in Message, Inbound!Run(m) \/ Inbound!Over(m) PROVE InboundInv'
  BY <1>8 DEF Inbound!Run, Inbound!Over
<1>9. ASSUME NEW m \in Message, Inbound!Release(m) PROVE InboundInv'
  BY <1>9 DEF Inbound!Release, Inbound!InboundAssumption
<1>10. ASSUME NEW m \in Message, Inbound!Age(m) PROVE InboundInv'
  BY <1>10 DEF Inbound!Age
<1>11. CASE UNCHANGED Inbound!vars
  BY <1>11 DEF Inbound!vars
<1> QED BY <1>1, <1>2, <1>3, <1>4, <1>5, <1>6, <1>7, <1>8, <1>9, <1>10, <1>11 DEF Inbound!Next

(* The invariant of the inbound media holds in every state.                *)
LEMMA InboundInvariant == Inbound!InboundAssumption /\ Inbound!Spec => []InboundInv
<1> SUFFICES ASSUME Inbound!InboundAssumption PROVE Inbound!Spec => []InboundInv
  OBVIOUS
<1> QED BY InboundInit, InboundMoves, PTL DEF Inbound!Spec

-----------------------------------------------------------------------------
(* The reply                                                               *)

(* The texts a mutable reply shows before its last one, and the last ones. *)
Updates == [text : SUBSET Nat, final : {"partial", "note"}]
Closing == [text : SUBSET Nat, final : {"answer", "stopped", "failed"}]

(* The values of the reply's variables.                                    *)
ReplyTypes ==
  /\ rp_spoken \in Nat /\ rp_text \subseteq 1..rp_spoken
  /\ rp_pending \in Updates \cup {Answer!None} /\ rp_last \in Closing \cup {Answer!None}
  /\ rp_flight \in Seq(Updates) /\ rp_rows \in Seq(Updates \cup Closing)
  /\ rp_head \in {"store", "dispatch"}
  /\ rp_step \in {"open", "run", "close", "final", "sent", "over", "crashed"}
  /\ rp_stop \in {"no", "asked"} /\ rp_stops \in Nat /\ rp_faults \in Nat
  /\ rp_card \in {"none", "stored", "sent", "cancelled"}

(* The steps of handle, and what is behind each.                           *)
Phases ==
  /\ rp_step = "open" => rp_rows = <<>> /\ rp_flight = <<>> /\ rp_text = {}
       /\ rp_pending = Answer!None
  /\ rp_step \in {"open", "run"} => ~rp_closed /\ rp_card = "none"
  /\ rp_step \in {"close", "final", "sent", "over"} => rp_closed /\ rp_last \in Closing
  /\ rp_step \in {"final", "sent", "over"} => rp_flight = <<>>
  /\ rp_step \in {"final", "sent"} => rp_rows # <<>> /\ rp_rows[Len(rp_rows)] = rp_last
  /\ rp_step \in {"over", "crashed"} \/ rp_broken => rp_faults > 0
  /\ rp_closed => ~rp_timer /\ rp_pending = Answer!None
  /\ rp_flight = <<>> => rp_head = "store"
  /\ rp_card = "stored" => rp_step \in {"close", "final"}
  /\ rp_card = "stored" \/ rp_step = "final" => rp_last.final = "answer"
  /\ rp_card = "sent" => rp_rows # <<>> /\ rp_rows[Len(rp_rows)].final = "answer"

(* The texts of what has been sent, is being sent and is to be sent grow.  *)
Grows(s) ==
  \A i, j \in 1..Len(s) :
    i < j /\ s[j].final \in {"partial", "answer"} => s[i].text \subseteq s[j].text

(* A text is shown again with what came after it, in the rows stored, in   *)
(* those under way and in what waits for the timer.                        *)
TextsGrow ==
  /\ Grows(rp_rows) /\ Grows(rp_flight)
  /\ \A i \in 1..Len(rp_rows), k \in 1..Len(rp_flight) :
       (k > 1 \/ rp_head = "store") /\ rp_flight[k].final = "partial"
         => rp_rows[i].text \subseteq rp_flight[k].text
  /\ rp_pending.text \subseteq rp_text
       /\ (rp_pending.final = "partial" => rp_pending.text = rp_text)
  /\ \A k \in 1..Len(rp_flight) : rp_flight[k].text \subseteq rp_text
  /\ \A i \in 1..Len(rp_rows) : rp_rows[i].final \in {"partial", "note"}
       => rp_rows[i].text \subseteq rp_text
  /\ rp_last.final = "answer" => rp_text \subseteq rp_last.text

(* No stop, nothing passed over.                                           *)
TextWhole ==
  /\ rp_stop = "asked" => rp_stops > 0
  /\ rp_stops = 0 => rp_text = 1..rp_spoken
  /\ rp_stops = 0 /\ rp_last.final = "answer" => rp_last.text = 1..rp_spoken
  /\ rp_last # Answer!None => rp_step \notin {"open", "run"}

(* The final text is the last of the rows.                                 *)
FinalsLast ==
  \A i \in 1..Len(rp_rows) : rp_rows[i].final \notin {"partial", "note"} =>
    /\ i = Len(rp_rows) /\ rp_rows[i] = rp_last /\ rp_step \in {"final", "sent", "over"}

(* The inductive invariant of the reply.                                   *)
ReplyInv == ReplyTypes /\ Phases /\ TextsGrow /\ TextWhole /\ FinalsLast

(* What the texts of Reply are.                                            *)
LEMMA Kinds ==
  /\ \A t : t \subseteq Nat => Answer!Partial(t) \in Updates
  /\ Answer!Note \in Updates
  /\ \A k \in {"answer", "stopped", "failed"}, t \in SUBSET Nat : Answer!Final(k, t) \in Closing
  /\ \A u \in Updates : u.final \in {"partial", "note"} /\ u.text \subseteq Nat
  /\ \A c \in Closing : c.final \in {"answer", "stopped", "failed"} /\ c.text \subseteq Nat
  /\ Answer!None.final = "none" /\ Answer!None.text = {}
  /\ \A t : Answer!Partial(t).final = "partial" /\ Answer!Partial(t).text = t
  /\ Answer!Note.final = "note" /\ Answer!Note.text = {}
  /\ \A k, t : Answer!Final(k, t).final = k /\ Answer!Final(k, t).text = t
BY DEF Answer!Partial, Answer!Note, Answer!Final, Updates, Closing, Answer!None

(* One more text that has all that was shown before.                       *)
LEMMA GrowsByOne ==
  ASSUME NEW S, NEW s \in Seq(S), Grows(s), NEW r,
         Len(r) = Len(s) + 1, \A i \in 1..Len(s) : r[i] = s[i],
         r[Len(s) + 1].final \in {"partial", "answer"} =>
           \A i \in 1..Len(s) : s[i].text \subseteq r[Len(s) + 1].text
  PROVE  Grows(r)
<1> SUFFICES ASSUME NEW i \in 1..Len(r), NEW j \in 1..Len(r), i < j,
                    r[j].final \in {"partial", "answer"}
             PROVE  r[i].text \subseteq r[j].text
  BY DEF Grows
<1>1. i \in 1..Len(s) /\ r[i] = s[i]
  OBVIOUS
<1>2. CASE j = Len(s) + 1
  BY <1>1, <1>2
<1>3. CASE j # Len(s) + 1
  <2>1. j \in 1..Len(s) /\ r[j] = s[j]
    BY <1>3
  <2> QED BY <1>1, <2>1 DEF Grows
<1> QED BY <1>2, <1>3

(* A reply that is not open yet.                                           *)
LEMMA ReplyInit == Answer!ReplyAssumption /\ Answer!Init => ReplyInv
<1> SUFFICES ASSUME Answer!ReplyAssumption, Answer!Init PROVE ReplyInv
  OBVIOUS
<1>1. ReplyTypes
  BY DEF Answer!Init, ReplyTypes
<1>2. Phases /\ TextWhole /\ FinalsLast
  BY Kinds DEF Answer!Init, Phases, TextWhole, FinalsLast, Answer!None
<1>3. TextsGrow
  BY Kinds DEF Answer!Init, TextsGrow, Grows
<1> QED BY <1>1, <1>2, <1>3 DEF ReplyInv

(* Every step of handle, of the timer and of the outbox keeps the order    *)
(* and the texts of the rows.                                              *)
LEMMA ReplyMoves == Answer!ReplyAssumption /\ ReplyInv /\ [Answer!Next]_(Answer!vars) => ReplyInv'
<1> SUFFICES ASSUME Answer!ReplyAssumption, ReplyInv, [Answer!Next]_(Answer!vars) PROVE ReplyInv'
  OBVIOUS
<1>0. ReplyTypes /\ Phases /\ TextsGrow /\ TextWhole /\ FinalsLast
  BY DEF ReplyInv
<1>a. 1..rp_spoken \subseteq Nat /\ rp_text \subseteq Nat /\ rp_spoken \in Nat
        /\ rp_text \subseteq 1..rp_spoken
  BY <1>0 DEF ReplyTypes
<1>b. /\ rp_pending \in Updates \cup {Answer!None} /\ rp_last \in Closing \cup {Answer!None}
      /\ rp_flight \in Seq(Updates) /\ rp_rows \in Seq(Updates \cup Closing)
      /\ Len(rp_flight) \in Nat /\ Len(rp_rows) \in Nat
  BY <1>0 DEF ReplyTypes
<1>1. CASE Answer!Open
  <2>0. \/ /\ rp_rows' = <<Answer!Partial({})>> /\ rp_step' = "run" /\ rp_closed' = rp_closed
          /\ rp_pending' = rp_pending /\ rp_timer' = rp_timer /\ rp_last' = rp_last
               /\ rp_faults' = rp_faults
       \/ /\ rp_rows' = rp_rows /\ rp_closed' /\ rp_pending' = Answer!None /\ rp_timer' = FALSE
               /\ rp_step' = "close"
          /\ rp_last' = Answer!Final("failed", {}) /\ rp_last' \in Closing
               /\ rp_faults' = rp_faults + 1
    BY <1>0, <1>a, <1>1, Kinds DEF Answer!Open, Answer!Close, Answer!Fault, Phases
  <2>a. Answer!Partial({}) \in Updates /\ <<Answer!Partial({})>> \in Seq(Updates)
    BY Kinds
  <2>1. rp_pending' \in Updates \cup {Answer!None} /\ rp_last' \in Closing \cup {Answer!None}
    BY <1>0, <1>a, <1>b, <1>1, <2>0, <2>a, Kinds DEF Answer!Open, ReplyTypes, Phases
  <2>2. rp_flight' \in Seq(Updates)
    BY <1>0, <1>a, <1>b, <1>1, <2>0, <2>a, Kinds DEF Answer!Open, ReplyTypes, Phases
  <2>b. <<Answer!Partial({})>> \in Seq(Updates \cup Closing)
    BY <2>a
  <2>3. rp_rows' \in Seq(Updates \cup Closing)
    BY <1>b, <2>0, <2>b
  <2>4. ReplyTypes'
    BY <1>0, <1>a, <1>b, <1>1, <2>0, <2>a, Kinds, <2>1, <2>2, <2>3 DEF Answer!Open, ReplyTypes,
         Phases, TextWhole
  <2>5. Phases'
    BY <1>0, <1>a, <1>b, <1>1, <2>0, <2>a, Kinds DEF Answer!Open, ReplyTypes, Phases, TextsGrow
  <2>6. TextsGrow'
    BY <1>0, <1>a, <1>b, <1>1, <2>0, <2>a, Kinds DEF Answer!Open, ReplyTypes, Phases, TextsGrow,
         Grows
  <2>7. TextWhole'
    BY <1>0, <1>a, <1>b, <1>1, <2>0, <2>a, Kinds DEF Answer!Open, ReplyTypes, Phases, TextWhole
  <2>8. FinalsLast'
    BY <1>0, <1>a, <1>b, <1>1, <2>0, <2>a, Kinds DEF Answer!Open, ReplyTypes, Phases, FinalsLast
  <2> QED BY <2>4, <2>5, <2>6, <2>7, <2>8 DEF ReplyInv
<1>2. CASE Answer!Delta
  <2>a. /\ rp_text \cup {rp_spoken + 1} \subseteq Nat
             /\ rp_text \cup {rp_spoken + 1} \subseteq 1..(rp_spoken + 1)
        /\ rp_spoken + 1 \in Nat
    BY <1>a
  <2>b. Answer!Partial(rp_text \cup {rp_spoken + 1}) \in Updates
    BY <2>a, Kinds
  <2>0. \/ rp_stop = "asked" /\ rp_text' = rp_text /\ rp_pending' = rp_pending
             /\ rp_timer' = rp_timer
       \/ /\ rp_stop = "no" /\ rp_text' = rp_text \cup {rp_spoken + 1}
               /\ rp_pending' = Answer!Partial(rp_text \cup {rp_spoken + 1})
          /\ rp_timer' = TRUE /\ rp_pending' \in Updates
    BY <1>0, <1>2, <2>b DEF Answer!Delta, Answer!Update, Phases, ReplyTypes
  <2>1. rp_pending' \in Updates \cup {Answer!None} /\ rp_last' \in Closing \cup {Answer!None}
    BY <1>0, <1>a, <1>b, <1>2, <2>0, <2>a, Kinds DEF Answer!Delta, Answer!Update, Answer!Fault,
         Answer!Awaited, ReplyTypes, Phases
  <2>2. rp_flight' \in Seq(Updates)
    BY <1>0, <1>a, <1>b, <1>2, <2>0, <2>a, Kinds DEF Answer!Delta, Answer!Update, Answer!Fault,
         Answer!Awaited, ReplyTypes, Phases
  <2>3. rp_rows' \in Seq(Updates \cup Closing)
    BY <1>0, <1>a, <1>b, <1>2, <2>0, <2>a, Kinds DEF Answer!Delta, Answer!Update, Answer!Fault,
         Answer!Awaited, ReplyTypes, Phases
  <2>4. ReplyTypes'
    BY <1>0, <1>a, <1>b, <1>2, <2>0, <2>a, Kinds, <2>1, <2>2, <2>3 DEF Answer!Delta, Answer!Update,
         Answer!Fault, Answer!Awaited, ReplyTypes, Phases, TextWhole
  <2>5. Phases'
    BY <1>0, <1>a, <1>b, <1>2, <2>0, <2>a, Kinds DEF Answer!Delta, Answer!Update, Answer!Fault,
         Answer!Awaited, ReplyTypes, Phases, TextsGrow
  <2>c. /\ rp_rows' = rp_rows /\ rp_flight' = rp_flight /\ rp_head' = rp_head
             /\ rp_last' = rp_last /\ rp_last = Answer!None
        /\ rp_text \subseteq rp_text' /\ rp_stop' = rp_stop /\ rp_stops' = rp_stops
             /\ rp_step' = rp_step
        /\ rp_spoken' = rp_spoken + 1 /\ rp_step = "run"
    BY <1>0, <1>2, <2>0 DEF Answer!Delta, TextWhole
  <2>6. TextsGrow'
    <3>1. /\ rp_pending'.text \subseteq rp_text'
          /\ rp_pending'.final = "partial" => rp_pending'.text = rp_text'
      <4>1. rp_pending.text \subseteq rp_text
              /\ (rp_pending.final = "partial" => rp_pending.text = rp_text)
        BY <1>0 DEF TextsGrow
      <4>2. CASE rp_pending' = rp_pending /\ rp_text' = rp_text
        BY <4>1, <4>2
      <4>3. CASE rp_text' = rp_text \cup {rp_spoken + 1}
                   /\ rp_pending' = Answer!Partial(rp_text \cup {rp_spoken + 1})
        <5>1. rp_pending'.text = rp_text'
          BY <4>3, Kinds
        <5> QED BY <5>1
      <4> QED BY <2>0, <4>2, <4>3
    <3> QED BY <1>0, <2>c, <3>1, Kinds DEF TextsGrow, Grows
  <2>7. TextWhole'
    <3>1. rp_stop = "no" => rp_text' = rp_text \cup {rp_spoken + 1}
      BY <2>0
    <3>2. rp_stops = 0 => rp_stop = "no" /\ rp_text = 1..rp_spoken
      BY <1>0 DEF TextWhole, ReplyTypes
    <3>3. (1..rp_spoken) \cup {rp_spoken + 1} = 1..(rp_spoken + 1)
      BY <1>a
    <3> QED BY <1>0, <2>c, <3>1, <3>2, <3>3, Kinds DEF TextWhole
  <2>8. FinalsLast'
    BY <1>0, <1>a, <1>b, <1>2, <2>0, <2>a, Kinds DEF Answer!Delta, Answer!Update, Answer!Fault,
         Answer!Awaited, ReplyTypes, Phases, FinalsLast
  <2> QED BY <2>4, <2>5, <2>6, <2>7, <2>8 DEF ReplyInv
<1>3. CASE Answer!Waits
  <2>1. rp_pending' \in Updates \cup {Answer!None} /\ rp_last' \in Closing \cup {Answer!None}
    BY <1>0, <1>a, <1>b, <1>3, Kinds DEF Answer!Waits, Answer!Update, Answer!Fault, Answer!Awaited,
         ReplyTypes, Phases
  <2>2. rp_flight' \in Seq(Updates)
    BY <1>0, <1>a, <1>b, <1>3, Kinds DEF Answer!Waits, Answer!Update, Answer!Fault, Answer!Awaited,
         ReplyTypes, Phases
  <2>3. rp_rows' \in Seq(Updates \cup Closing)
    BY <1>0, <1>a, <1>b, <1>3, Kinds DEF Answer!Waits, Answer!Update, Answer!Fault, Answer!Awaited,
         ReplyTypes, Phases
  <2>4. ReplyTypes'
    BY <1>0, <1>a, <1>b, <1>3, Kinds, <2>1, <2>2, <2>3 DEF Answer!Waits, Answer!Update,
         Answer!Fault, Answer!Awaited, ReplyTypes, Phases, TextWhole
  <2>5. Phases'
    BY <1>0, <1>a, <1>b, <1>3, Kinds DEF Answer!Waits, Answer!Update, Answer!Fault, Answer!Awaited,
         ReplyTypes, Phases, TextsGrow
  <2>6. TextsGrow'
    BY <1>0, <1>a, <1>b, <1>3, Kinds DEF Answer!Waits, Answer!Update, Answer!Fault, Answer!Awaited,
         ReplyTypes, Phases, TextsGrow, Grows
  <2>7. TextWhole'
    BY <1>0, <1>a, <1>b, <1>3, Kinds DEF Answer!Waits, Answer!Update, Answer!Fault, Answer!Awaited,
         ReplyTypes, Phases, TextWhole
  <2>8. FinalsLast'
    BY <1>0, <1>a, <1>b, <1>3, Kinds DEF Answer!Waits, Answer!Update, Answer!Fault, Answer!Awaited,
         ReplyTypes, Phases, FinalsLast
  <2> QED BY <2>4, <2>5, <2>6, <2>7, <2>8 DEF ReplyInv
<1>4. CASE Answer!Completed
  <2>a. PICK t \in {rp_text, 1..rp_spoken} : Answer!Answer(t)
    BY <1>4 DEF Answer!Completed
  <2>b. /\ Answer!Final("answer", t) \in Closing /\ Answer!Final("answer", t).text = t
        /\ Answer!Final("failed", {}) \in Closing /\ Answer!Final("failed", {}).final = "failed"
    <3>1. t \in SUBSET Nat
      <4>1. rp_text \in SUBSET Nat /\ 1..rp_spoken \in SUBSET Nat
        BY <1>a
      <4> QED BY <2>a, <4>1, Zenon
    <3>2. {} \in SUBSET Nat
      OBVIOUS
    <3>3. Answer!Final("answer", t) \in Closing /\ Answer!Final("failed", {}) \in Closing
      BY <3>1, <3>2, Kinds, Zenon
    <3>4. /\ Answer!Final("answer", t).text = t
          /\ Answer!Final("failed", {}).final = "failed"
      BY DEF Answer!Final
    <3> QED BY <3>3, <3>4
  <2>d. /\ ~rp_closed /\ rp_closed' = TRUE /\ rp_pending' = Answer!None /\ rp_timer' = FALSE
             /\ rp_step' = "close"
        /\ \/ rp_last' = Answer!Final("answer", t) /\ rp_faults' = rp_faults
                /\ rp_card' \in {rp_card, "stored"}
           \/ rp_last' = Answer!Final("failed", {}) /\ rp_faults' = rp_faults + 1
                /\ rp_card' = rp_card
    BY <1>0, <1>4, <2>a DEF Answer!Completed, Answer!Answer, Answer!Close, Answer!Fault, Phases
  <2>0. /\ rp_last' \in Closing
        /\ rp_last'.final = "answer" => rp_last'.text \in {rp_text, 1..rp_spoken}
        /\ rp_card' # rp_card => rp_card' = "stored" /\ rp_last'.final = "answer"
        /\ rp_faults' = rp_faults \/ rp_faults' = rp_faults + 1
    BY <2>a, <2>b, <2>d, Kinds
  <2>1. rp_pending' \in Updates \cup {Answer!None} /\ rp_last' \in Closing \cup {Answer!None}
    BY <1>0, <1>a, <1>b, <1>4, <2>0, <2>d, Kinds DEF Answer!Completed, ReplyTypes, Phases
  <2>2. rp_flight' \in Seq(Updates)
    BY <1>0, <1>a, <1>b, <1>4, <2>0, <2>d, Kinds DEF Answer!Completed, ReplyTypes, Phases
  <2>3. rp_rows' \in Seq(Updates \cup Closing)
    BY <1>0, <1>a, <1>b, <1>4, <2>0, <2>d, Kinds DEF Answer!Completed, ReplyTypes, Phases
  <2>4. ReplyTypes'
    BY <1>0, <1>a, <1>b, <1>4, <2>0, <2>d, Kinds, <2>1, <2>2, <2>3 DEF Answer!Completed, ReplyTypes,
         Phases, TextWhole
  <2>5. Phases'
    BY <1>0, <1>a, <1>b, <1>4, <2>0, <2>d, Kinds DEF Answer!Completed, ReplyTypes, Phases, TextsGrow
  <2>6. TextsGrow'
    BY <1>0, <1>a, <1>b, <1>4, <2>0, <2>d, Kinds DEF Answer!Completed, ReplyTypes, Phases,
         TextsGrow, Grows
  <2>7. TextWhole'
    BY <1>0, <1>a, <1>b, <1>4, <2>0, <2>d, Kinds DEF Answer!Completed, ReplyTypes, Phases, TextWhole
  <2>8. FinalsLast'
    BY <1>0, <1>a, <1>b, <1>4, <2>0, <2>d, Kinds DEF Answer!Completed, ReplyTypes, Phases,
         FinalsLast
  <2> QED BY <2>4, <2>5, <2>6, <2>7, <2>8 DEF ReplyInv
<1>5. CASE Answer!Ended
  <2>b. /\ Answer!Final("answer", rp_text) \in Closing
             /\ Answer!Final("answer", rp_text).text = rp_text
        /\ Answer!Final("failed", {}) \in Closing /\ Answer!Final("failed", {}).final = "failed"
        /\ Answer!Final("stopped", {}) \in Closing /\ Answer!Final("stopped", {}).final = "stopped"
    BY <1>a, Kinds
  <2>d. /\ ~rp_closed /\ rp_closed' = TRUE /\ rp_pending' = Answer!None /\ rp_timer' = FALSE
             /\ rp_step' = "close"
        /\ \/ rp_last' = Answer!Final("answer", rp_text) /\ rp_faults' = rp_faults
                /\ rp_card' \in {rp_card, "stored"}
           \/ rp_last' = Answer!Final("failed", {}) /\ rp_faults' = rp_faults + 1
                /\ rp_card' = rp_card
           \/ rp_last' = Answer!Final("stopped", {}) /\ rp_faults' = rp_faults /\ rp_card' = rp_card
    BY <1>0, <1>5 DEF Answer!Ended, Answer!Answer, Answer!Close, Answer!Fault, Phases
  <2>0. /\ rp_last' \in Closing
        /\ rp_last'.final = "answer" => rp_last'.text \in {rp_text, 1..rp_spoken}
        /\ rp_card' # rp_card => rp_card' = "stored" /\ rp_last'.final = "answer"
        /\ rp_faults' = rp_faults \/ rp_faults' = rp_faults + 1
    BY <2>b, <2>d, Kinds
  <2>1. rp_pending' \in Updates \cup {Answer!None} /\ rp_last' \in Closing \cup {Answer!None}
    BY <1>0, <1>a, <1>b, <1>5, <2>0, <2>d, Kinds DEF Answer!Ended, ReplyTypes, Phases
  <2>2. rp_flight' \in Seq(Updates)
    BY <1>0, <1>a, <1>b, <1>5, <2>0, <2>d, Kinds DEF Answer!Ended, ReplyTypes, Phases
  <2>3. rp_rows' \in Seq(Updates \cup Closing)
    BY <1>0, <1>a, <1>b, <1>5, <2>0, <2>d, Kinds DEF Answer!Ended, ReplyTypes, Phases
  <2>4. ReplyTypes'
    BY <1>0, <1>a, <1>b, <1>5, <2>0, <2>d, Kinds, <2>1, <2>2, <2>3 DEF Answer!Ended, ReplyTypes,
         Phases, TextWhole
  <2>5. Phases'
    BY <1>0, <1>a, <1>b, <1>5, <2>0, <2>d, Kinds DEF Answer!Ended, ReplyTypes, Phases, TextsGrow
  <2>6. TextsGrow'
    BY <1>0, <1>a, <1>b, <1>5, <2>0, <2>d, Kinds DEF Answer!Ended, ReplyTypes, Phases, TextsGrow,
         Grows
  <2>7. TextWhole'
    BY <1>0, <1>a, <1>b, <1>5, <2>0, <2>d, Kinds DEF Answer!Ended, ReplyTypes, Phases, TextWhole
  <2>8. FinalsLast'
    BY <1>0, <1>a, <1>b, <1>5, <2>0, <2>d, Kinds DEF Answer!Ended, ReplyTypes, Phases, FinalsLast
  <2> QED BY <2>4, <2>5, <2>6, <2>7, <2>8 DEF ReplyInv
<1>6. CASE Answer!Failed
  <2>b. /\ Answer!Final("failed", {}) \in Closing /\ Answer!Final("failed", {}).final = "failed"
        /\ Answer!Final("stopped", {}) \in Closing /\ Answer!Final("stopped", {}).final = "stopped"
    BY <1>a, Kinds
  <2>d. /\ ~rp_closed /\ rp_closed' = TRUE /\ rp_pending' = Answer!None /\ rp_timer' = FALSE
             /\ rp_step' = "close"
        /\ rp_last' \in {Answer!Final("failed", {}), Answer!Final("stopped", {})}
        /\ rp_card' = rp_card /\ rp_faults' = rp_faults
    BY <1>0, <1>6 DEF Answer!Failed, Answer!Answer, Answer!Close, Answer!Fault, Phases
  <2>0. /\ rp_last' \in Closing
        /\ rp_last'.final = "answer" => rp_last'.text \in {rp_text, 1..rp_spoken}
        /\ rp_card' # rp_card => rp_card' = "stored" /\ rp_last'.final = "answer"
        /\ rp_faults' = rp_faults \/ rp_faults' = rp_faults + 1
    BY <2>b, <2>d, Kinds
  <2>1. rp_pending' \in Updates \cup {Answer!None} /\ rp_last' \in Closing \cup {Answer!None}
    BY <1>0, <1>a, <1>b, <1>6, <2>0, <2>d, Kinds DEF Answer!Failed, ReplyTypes, Phases
  <2>2. rp_flight' \in Seq(Updates)
    BY <1>0, <1>a, <1>b, <1>6, <2>0, <2>d, Kinds DEF Answer!Failed, ReplyTypes, Phases
  <2>3. rp_rows' \in Seq(Updates \cup Closing)
    BY <1>0, <1>a, <1>b, <1>6, <2>0, <2>d, Kinds DEF Answer!Failed, ReplyTypes, Phases
  <2>4. ReplyTypes'
    BY <1>0, <1>a, <1>b, <1>6, <2>0, <2>d, Kinds, <2>1, <2>2, <2>3 DEF Answer!Failed, ReplyTypes,
         Phases, TextWhole
  <2>5. Phases'
    BY <1>0, <1>a, <1>b, <1>6, <2>0, <2>d, Kinds DEF Answer!Failed, ReplyTypes, Phases, TextsGrow
  <2>6. TextsGrow'
    BY <1>0, <1>a, <1>b, <1>6, <2>0, <2>d, Kinds DEF Answer!Failed, ReplyTypes, Phases, TextsGrow,
         Grows
  <2>7. TextWhole'
    BY <1>0, <1>a, <1>b, <1>6, <2>0, <2>d, Kinds DEF Answer!Failed, ReplyTypes, Phases, TextWhole
  <2>8. FinalsLast'
    BY <1>0, <1>a, <1>b, <1>6, <2>0, <2>d, Kinds DEF Answer!Failed, ReplyTypes, Phases, FinalsLast
  <2> QED BY <2>4, <2>5, <2>6, <2>7, <2>8 DEF ReplyInv
<1>7. CASE Answer!Flush
  <2>a. ~rp_closed /\ \A i \in 1..Len(rp_rows) : rp_rows[i].text \subseteq rp_text
    BY <1>0, <1>7 DEF Answer!Flush, Phases, TextsGrow, FinalsLast
  <2>0. \/ rp_flight' = rp_flight
       \/ /\ rp_pending \in Updates /\ rp_flight' = Append(rp_flight, rp_pending)
               /\ rp_flight' \in Seq(Updates)
          /\ Len(rp_flight') = Len(rp_flight) + 1 /\ rp_flight'[Len(rp_flight) + 1] = rp_pending
          /\ \A i \in 1..Len(rp_flight) : rp_flight'[i] = rp_flight[i]
    BY <1>b, <1>7, Behind DEF Answer!Flush
  <2>1. rp_pending' \in Updates \cup {Answer!None} /\ rp_last' \in Closing \cup {Answer!None}
    BY <1>0, <1>a, <1>b, <1>7, <2>0, <2>a, Kinds DEF Answer!Flush, Answer!Update, Answer!Fault,
         Answer!Awaited, ReplyTypes, Phases
  <2>2. rp_flight' \in Seq(Updates)
    BY <1>0, <1>a, <1>b, <1>7, <2>0, <2>a, Kinds DEF Answer!Flush, Answer!Update, Answer!Fault,
         Answer!Awaited, ReplyTypes, Phases
  <2>3. rp_rows' \in Seq(Updates \cup Closing)
    BY <1>0, <1>a, <1>b, <1>7, <2>0, <2>a, Kinds DEF Answer!Flush, Answer!Update, Answer!Fault,
         Answer!Awaited, ReplyTypes, Phases
  <2>4. ReplyTypes'
    BY <1>0, <1>a, <1>b, <1>7, <2>0, <2>a, Kinds, <2>1, <2>2, <2>3 DEF Answer!Flush, Answer!Update,
         Answer!Fault, Answer!Awaited, ReplyTypes, Phases, TextWhole
  <2>5. Phases'
    BY <1>0, <1>a, <1>b, <1>7, <2>0, <2>a, Kinds DEF Answer!Flush, Answer!Update, Answer!Fault,
         Answer!Awaited, ReplyTypes, Phases, TextsGrow
  <2>b. /\ rp_rows' = rp_rows /\ rp_text' = rp_text /\ rp_head' = rp_head /\ rp_last' = rp_last
             /\ rp_pending' = Answer!None
    BY <1>7 DEF Answer!Flush
  <2>c. rp_pending.text \subseteq rp_text
          /\ (rp_pending.final = "partial" => rp_pending.text = rp_text)
    BY <1>0 DEF TextsGrow
  <2>6. TextsGrow'
    <3>1. CASE rp_flight' = rp_flight
      BY <1>0, <2>b, <3>1, Kinds DEF TextsGrow, Grows
    <3>2. CASE rp_flight' # rp_flight
      <4>1. /\ Len(rp_flight') = Len(rp_flight) + 1 /\ rp_flight'[Len(rp_flight) + 1] = rp_pending
            /\ \A i \in 1..Len(rp_flight) : rp_flight'[i] = rp_flight[i]
            /\ rp_pending \in Updates
        BY <2>0, <3>2
      <4>2. /\ Grows(rp_flight)
            /\ rp_pending.final \in {"partial", "answer"} =>
                 \A i \in 1..Len(rp_flight) : rp_flight[i].text \subseteq rp_pending.text
        BY <1>0, <2>c, <4>1, Kinds DEF TextsGrow
      <4>3. Grows(rp_flight')
        BY <1>b, <4>1, <4>2, GrowsByOne
      <4>4. \A k \in 1..Len(rp_flight') : k \in 1..Len(rp_flight) \/ k = Len(rp_flight) + 1
        BY <1>b, <4>1
      <4>5. \A k \in 1..Len(rp_flight') : rp_flight'[k].text \subseteq rp_text
        BY <1>0, <2>c, <4>1, <4>4 DEF TextsGrow
      <4>6. \A i \in 1..Len(rp_rows) :
              rp_pending.final = "partial" => rp_rows[i].text \subseteq rp_pending.text
        <5>1. \A i \in 1..Len(rp_rows) :
                rp_rows[i].final \in {"partial", "note"} => rp_rows[i].text \subseteq rp_text
          BY <1>0 DEF TextsGrow
        <5>2. \A i \in 1..Len(rp_rows) : rp_rows[i].final \in {"partial", "note"}
          BY <1>0, <1>b, <1>7, <2>a, <3>2 DEF Answer!Flush, FinalsLast, Phases
        <5> QED BY <2>c, <5>1, <5>2
      <4>7. \A i \in 1..Len(rp_rows), k \in 1..Len(rp_flight') :
              (k > 1 \/ rp_head = "store") /\ rp_flight'[k].final = "partial"
                => rp_rows[i].text \subseteq rp_flight'[k].text
        BY <1>0, <4>1, <4>4, <4>6 DEF TextsGrow
      <4>8. Answer!None.text = {} /\ Answer!None.final # "partial"
        BY Kinds
      <4> QED BY <1>0, <2>b, <4>3, <4>5, <4>7, <4>8 DEF TextsGrow
    <3> QED BY <3>1, <3>2
  <2>7. TextWhole'
    BY <1>0, <1>a, <1>b, <1>7, <2>0, <2>a, Kinds DEF Answer!Flush, Answer!Update, Answer!Fault,
         Answer!Awaited, ReplyTypes, Phases, TextWhole
  <2>8. FinalsLast'
    BY <1>0, <1>a, <1>b, <1>7, <2>0, <2>a, Kinds DEF Answer!Flush, Answer!Update, Answer!Fault,
         Answer!Awaited, ReplyTypes, Phases, FinalsLast
  <2> QED BY <2>4, <2>5, <2>6, <2>7, <2>8 DEF ReplyInv
<1>8. CASE Answer!Store
  <2>a. /\ rp_flight[1] \in Updates /\ Head(rp_flight) = rp_flight[1]
             /\ Len(rp_flight) \in Nat \ {0}
        /\ rp_flight[1].final \in {"partial", "note"} /\ rp_flight # <<>> /\ rp_head = "store"
    BY <1>b, <1>8, AfterTheFirst, Kinds DEF Answer!Store
  <2>b. /\ rp_step \notin {"final", "sent", "over"}
        /\ \A i \in 1..Len(rp_rows) : rp_rows[i].final \in {"partial", "note"}
    BY <1>0, <1>8 DEF Answer!Store, Phases, FinalsLast
  <2>c. rp_card # "sent"
    BY <1>0, <1>b, <2>b DEF Phases
  <2>d. /\ rp_pending' = rp_pending /\ rp_last' = rp_last /\ rp_text' = rp_text
             /\ rp_spoken' = rp_spoken /\ rp_stop' = rp_stop
        /\ rp_stops' = rp_stops /\ rp_card' = rp_card /\ rp_closed' = rp_closed
             /\ rp_timer' = rp_timer
    BY <1>8 DEF Answer!Store
  <2>1. CASE rp_rows' = Append(rp_rows, rp_flight[1]) /\ rp_head' = "dispatch"
             /\ UNCHANGED <<rp_flight, rp_broken, rp_step, rp_faults>>
    <3>1. /\ rp_rows' \in Seq(Updates \cup Closing) /\ rp_rows' # <<>>
          /\ Len(rp_rows') = Len(rp_rows) + 1 /\ rp_rows'[Len(rp_rows) + 1] = rp_flight[1]
          /\ \A i \in 1..Len(rp_rows) : rp_rows'[i] = rp_rows[i]
      BY <1>b, <2>1, <2>a, Behind
    <3>2. ReplyTypes'
      BY <1>0, <2>1, <2>d, <3>1 DEF ReplyTypes
    <3>3. Phases'
      BY <1>0, <2>1, <2>a, <2>b, <2>c, <2>d, <3>1 DEF Phases
    <3>4. TextsGrow'
      <4>1. Grows(rp_rows')
        <5>1. \A i \in 1..Len(rp_rows) : rp_flight[1].final = "partial"
                => rp_rows[i].text \subseteq rp_flight[1].text
          BY <1>0, <2>a DEF TextsGrow
        <5>2. rp_rows \in Seq(Updates \cup Closing) /\ Grows(rp_rows)
          BY <1>0, <1>b DEF TextsGrow
        <5>3. rp_rows'[Len(rp_rows) + 1].final \in {"partial", "answer"} =>
                \A i \in 1..Len(rp_rows) : rp_rows[i].text \subseteq rp_rows'[Len(rp_rows) + 1].text
          BY <2>a, <3>1, <5>1
        <5> QED BY <3>1, <5>2, <5>3, GrowsByOne
      <4>2. \A i \in 1..Len(rp_rows'), k \in 1..Len(rp_flight') :
              k > 1 /\ rp_flight'[k].final = "partial"
                => rp_rows'[i].text \subseteq rp_flight'[k].text
        <5> SUFFICES ASSUME NEW i \in 1..Len(rp_rows'), NEW k \in 1..Len(rp_flight'),
                            k > 1, rp_flight'[k].final = "partial"
                     PROVE  rp_rows'[i].text \subseteq rp_flight'[k].text
          OBVIOUS
        <5>1. rp_flight' = rp_flight /\ k \in 1..Len(rp_flight) /\ 1 \in 1..Len(rp_flight)
          BY <2>1, <2>a
        <5>2. CASE i \in 1..Len(rp_rows)
          BY <1>0, <3>1, <5>1, <5>2 DEF TextsGrow
        <5>3. CASE i = Len(rp_rows) + 1
          <6>1. rp_flight[1].text \subseteq rp_flight[k].text
            BY <1>0, <5>1 DEF TextsGrow, Grows
          <6> QED BY <3>1, <5>1, <5>3, <6>1
        <5>4. i \in 1..Len(rp_rows) \/ i = Len(rp_rows) + 1
          BY <1>b, <3>1
        <5> QED BY <5>2, <5>3, <5>4
      <4>3. \A i \in 1..Len(rp_rows') :
              rp_rows'[i].final \in {"partial", "note"} => rp_rows'[i].text \subseteq rp_text
        BY <1>0, <1>b, <2>a, <3>1 DEF TextsGrow
      <4> QED BY <1>0, <2>1, <2>d, <4>1, <4>2, <4>3 DEF TextsGrow
    <3>5. TextWhole'
      BY <1>0, <2>1, <2>d DEF TextWhole
    <3>6. FinalsLast'
      BY <1>b, <2>a, <2>b, <3>1 DEF FinalsLast
    <3> QED BY <3>2, <3>3, <3>4, <3>5, <3>6 DEF ReplyInv
  <2>2. CASE Answer!Fault /\ rp_broken' = TRUE /\ rp_flight' = <<>>
             /\ rp_step' = (IF rp_step = "close" THEN rp_step ELSE "crashed")
                  /\ UNCHANGED <<rp_rows, rp_head>>
    <3>1. rp_faults' \in Nat /\ rp_faults' > 0
      BY <1>0, <2>2 DEF Answer!Fault, ReplyTypes
    <3>2. ReplyTypes'
      BY <1>0, <2>2, <2>d, <3>1 DEF ReplyTypes
    <3>3. Phases'
      BY <1>0, <2>2, <2>a, <2>b, <2>c, <2>d, <3>1 DEF Phases
    <3>4. TextsGrow'
      BY <1>0, <2>2, <2>d DEF TextsGrow, Grows
    <3>5. TextWhole'
      BY <1>0, <2>2, <2>d DEF TextWhole
    <3>6. FinalsLast'
      BY <2>2, <2>b DEF FinalsLast
    <3> QED BY <3>2, <3>3, <3>4, <3>5, <3>6 DEF ReplyInv
  <2> QED BY <1>8, <2>1, <2>2, <2>a DEF Answer!Store
<1>9. CASE Answer!Dispatched
  <2>0. /\ Tail(rp_flight) \in Seq(Updates) /\ Len(Tail(rp_flight)) = Len(rp_flight) - 1
        /\ \A i \in 1..Len(Tail(rp_flight)) : Tail(rp_flight)[i] = rp_flight[i + 1]
        /\ rp_flight' = Tail(rp_flight)
    BY <1>b, <1>9, AfterTheFirst DEF Answer!Dispatched
  <2>1. rp_pending' \in Updates \cup {Answer!None} /\ rp_last' \in Closing \cup {Answer!None}
    BY <1>0, <1>a, <1>b, <1>9, <2>0, Kinds DEF Answer!Dispatched, Answer!Update, Answer!Fault,
         Answer!Awaited, ReplyTypes, Phases
  <2>2. rp_flight' \in Seq(Updates)
    BY <1>0, <1>a, <1>b, <1>9, <2>0, Kinds DEF Answer!Dispatched, Answer!Update, Answer!Fault,
         Answer!Awaited, ReplyTypes, Phases
  <2>3. rp_rows' \in Seq(Updates \cup Closing)
    BY <1>0, <1>a, <1>b, <1>9, <2>0, Kinds DEF Answer!Dispatched, Answer!Update, Answer!Fault,
         Answer!Awaited, ReplyTypes, Phases
  <2>4. ReplyTypes'
    BY <1>0, <1>a, <1>b, <1>9, <2>0, Kinds, <2>1, <2>2, <2>3 DEF Answer!Dispatched, Answer!Update,
         Answer!Fault, Answer!Awaited, ReplyTypes, Phases, TextWhole
  <2>5. Phases'
    BY <1>0, <1>a, <1>b, <1>9, <2>0, Kinds DEF Answer!Dispatched, Answer!Update, Answer!Fault,
         Answer!Awaited, ReplyTypes, Phases, TextsGrow
  <2>6. TextsGrow'
    BY <1>0, <1>a, <1>b, <1>9, <2>0, Kinds DEF Answer!Dispatched, Answer!Update, Answer!Fault,
         Answer!Awaited, ReplyTypes, Phases, TextsGrow, Grows
  <2>7. TextWhole'
    BY <1>0, <1>a, <1>b, <1>9, <2>0, Kinds DEF Answer!Dispatched, Answer!Update, Answer!Fault,
         Answer!Awaited, ReplyTypes, Phases, TextWhole
  <2>8. FinalsLast'
    BY <1>0, <1>a, <1>b, <1>9, <2>0, Kinds DEF Answer!Dispatched, Answer!Update, Answer!Fault,
         Answer!Awaited, ReplyTypes, Phases, FinalsLast
  <2> QED BY <2>4, <2>5, <2>6, <2>7, <2>8 DEF ReplyInv
<1>10. CASE Answer!Finish
  <2>a. rp_last \in Closing /\ rp_closed /\ rp_last.final \in {"answer", "stopped", "failed"}
    BY <1>0, <1>10, Kinds DEF Answer!Finish, Phases
  <2>b. rp_flight = <<>> /\ \A i \in 1..Len(rp_rows) : rp_rows[i].final \in {"partial", "note"}
    BY <1>0, <1>10 DEF Answer!Finish, Phases, FinalsLast, Answer!Awaited
  <2>c. /\ rp_step = "close" /\ rp_card # "sent"
    <3>1. rp_card = "sent" => Len(rp_rows) \in 1..Len(rp_rows)
            /\ rp_rows[Len(rp_rows)].final = "answer"
      BY <1>0, <1>b DEF Phases
    <3> QED BY <1>10, <2>b, <3>1 DEF Answer!Finish
  <2>d. /\ rp_pending' = rp_pending /\ rp_last' = rp_last /\ rp_text' = rp_text
             /\ rp_spoken' = rp_spoken /\ rp_stop' = rp_stop
        /\ rp_stops' = rp_stops /\ rp_flight' = rp_flight /\ rp_head' = rp_head
             /\ rp_broken' = rp_broken
        /\ rp_closed' = rp_closed /\ rp_timer' = rp_timer
    BY <1>10 DEF Answer!Finish
  <2>1. CASE rp_rows' = Append(rp_rows, rp_last) /\ UNCHANGED <<rp_faults, rp_card>>
             /\ rp_step' = (IF rp_card = "stored" THEN "final" ELSE "sent")
    <3>1. /\ rp_rows' \in Seq(Updates \cup Closing) /\ rp_rows' # <<>>
          /\ Len(rp_rows') = Len(rp_rows) + 1 /\ rp_rows'[Len(rp_rows) + 1] = rp_last
          /\ \A i \in 1..Len(rp_rows) : rp_rows'[i] = rp_rows[i]
      BY <1>b, <2>1, <2>a, Behind
    <3>2. ReplyTypes'
      BY <1>0, <2>1, <2>d, <3>1 DEF ReplyTypes
    <3>3. Phases'
      BY <1>0, <1>b, <2>1, <2>a, <2>b, <2>c, <2>d, <3>1 DEF Phases
    <3>4. TextsGrow'
      <4>0. /\ Grows(rp_rows)
            /\ rp_last.final \in {"partial", "answer"} =>
                 \A i \in 1..Len(rp_rows) : rp_rows[i].text \subseteq rp_last.text
        BY <1>0, <2>a, <2>b DEF TextsGrow
      <4>1. Grows(rp_rows')
        BY <1>b, <3>1, <4>0, GrowsByOne
      <4>2. \A i \in 1..Len(rp_rows') :
              rp_rows'[i].final \in {"partial", "note"} => rp_rows'[i].text \subseteq rp_text
        BY <1>0, <1>b, <2>a, <3>1 DEF TextsGrow
      <4> QED BY <1>0, <2>b, <2>d, <4>1, <4>2 DEF TextsGrow
    <3>5. TextWhole'
      BY <1>0, <2>1, <2>c, <2>d DEF TextWhole
    <3>6. FinalsLast'
      BY <1>b, <2>1, <2>b, <2>d, <3>1 DEF FinalsLast
    <3> QED BY <3>2, <3>3, <3>4, <3>5, <3>6 DEF ReplyInv
  <2>2. CASE /\ rp_broken \/ rp_faults < MaxFaults
             /\ rp_faults' = (IF rp_broken THEN rp_faults ELSE rp_faults + 1)
             /\ rp_card' = (IF rp_card = "stored" THEN "cancelled" ELSE rp_card)
             /\ rp_step' = "over" /\ UNCHANGED rp_rows
    <3>1. rp_faults' \in Nat /\ rp_faults' > 0
      BY <1>0, <2>2 DEF Phases, ReplyTypes
    <3>2. ReplyTypes'
      BY <1>0, <2>2, <2>d, <3>1 DEF ReplyTypes
    <3>3. Phases'
      BY <1>0, <2>2, <2>a, <2>b, <2>c, <2>d, <3>1 DEF Phases
    <3>4. TextsGrow'
      BY <1>0, <2>2, <2>d DEF TextsGrow, Grows
    <3>5. TextWhole'
      BY <1>0, <2>2, <2>c, <2>d DEF TextWhole
    <3>6. FinalsLast'
      BY <2>2, <2>b DEF FinalsLast
    <3> QED BY <3>2, <3>3, <3>4, <3>5, <3>6 DEF ReplyInv
  <2> QED BY <1>10, <2>1, <2>2 DEF Answer!Finish
<1>11. CASE Answer!SendCard
  <2>a. rp_rows # <<>> /\ rp_rows[Len(rp_rows)] = rp_last /\ rp_last.final = "answer"
          /\ rp_faults \in Nat
    BY <1>0, <1>11 DEF Answer!SendCard, Phases, ReplyTypes
  <2>1. rp_pending' \in Updates \cup {Answer!None} /\ rp_last' \in Closing \cup {Answer!None}
    BY <1>0, <1>a, <1>b, <1>11, <2>a, Kinds DEF Answer!SendCard, Answer!Update, Answer!Fault,
         Answer!Awaited, ReplyTypes, Phases
  <2>2. rp_flight' \in Seq(Updates)
    BY <1>0, <1>a, <1>b, <1>11, <2>a, Kinds DEF Answer!SendCard, Answer!Update, Answer!Fault,
         Answer!Awaited, ReplyTypes, Phases
  <2>3. rp_rows' \in Seq(Updates \cup Closing)
    BY <1>0, <1>a, <1>b, <1>11, <2>a, Kinds DEF Answer!SendCard, Answer!Update, Answer!Fault,
         Answer!Awaited, ReplyTypes, Phases
  <2>4. ReplyTypes'
    BY <1>0, <1>a, <1>b, <1>11, <2>a, Kinds, <2>1, <2>2, <2>3 DEF Answer!SendCard, Answer!Update,
         Answer!Fault, Answer!Awaited, ReplyTypes, Phases, TextWhole
  <2>5. Phases'
    BY <1>0, <1>a, <1>b, <1>11, <2>a, Kinds DEF Answer!SendCard, Answer!Update, Answer!Fault,
         Answer!Awaited, ReplyTypes, Phases, TextsGrow
  <2>6. TextsGrow'
    BY <1>0, <1>a, <1>b, <1>11, <2>a, Kinds DEF Answer!SendCard, Answer!Update, Answer!Fault,
         Answer!Awaited, ReplyTypes, Phases, TextsGrow, Grows
  <2>7. TextWhole'
    BY <1>0, <1>a, <1>b, <1>11, <2>a, Kinds DEF Answer!SendCard, Answer!Update, Answer!Fault,
         Answer!Awaited, ReplyTypes, Phases, TextWhole
  <2>8. FinalsLast'
    BY <1>0, <1>a, <1>b, <1>11, <2>a, Kinds DEF Answer!SendCard, Answer!Update, Answer!Fault,
         Answer!Awaited, ReplyTypes, Phases, FinalsLast
  <2> QED BY <2>4, <2>5, <2>6, <2>7, <2>8 DEF ReplyInv
<1>12. CASE Answer!AskStop
  <2>1. rp_pending' \in Updates \cup {Answer!None} /\ rp_last' \in Closing \cup {Answer!None}
    BY <1>0, <1>a, <1>b, <1>12, Kinds DEF Answer!AskStop, Answer!Update, Answer!Fault,
         Answer!Awaited, ReplyTypes, Phases
  <2>2. rp_flight' \in Seq(Updates)
    BY <1>0, <1>a, <1>b, <1>12, Kinds DEF Answer!AskStop, Answer!Update, Answer!Fault,
         Answer!Awaited, ReplyTypes, Phases
  <2>3. rp_rows' \in Seq(Updates \cup Closing)
    BY <1>0, <1>a, <1>b, <1>12, Kinds DEF Answer!AskStop, Answer!Update, Answer!Fault,
         Answer!Awaited, ReplyTypes, Phases
  <2>4. ReplyTypes'
    BY <1>0, <1>a, <1>b, <1>12, Kinds, <2>1, <2>2, <2>3 DEF Answer!AskStop, Answer!Update,
         Answer!Fault, Answer!Awaited, ReplyTypes, Phases, TextWhole
  <2>5. Phases'
    BY <1>0, <1>a, <1>b, <1>12, Kinds DEF Answer!AskStop, Answer!Update, Answer!Fault,
         Answer!Awaited, ReplyTypes, Phases, TextsGrow
  <2>6. TextsGrow'
    BY <1>0, <1>a, <1>b, <1>12, Kinds DEF Answer!AskStop, Answer!Update, Answer!Fault,
         Answer!Awaited, ReplyTypes, Phases, TextsGrow, Grows
  <2>7. TextWhole'
    BY <1>0, <1>a, <1>b, <1>12, Kinds DEF Answer!AskStop, Answer!Update, Answer!Fault,
         Answer!Awaited, ReplyTypes, Phases, TextWhole
  <2>8. FinalsLast'
    BY <1>0, <1>a, <1>b, <1>12, Kinds DEF Answer!AskStop, Answer!Update, Answer!Fault,
         Answer!Awaited, ReplyTypes, Phases, FinalsLast
  <2> QED BY <2>4, <2>5, <2>6, <2>7, <2>8 DEF ReplyInv
<1>13. CASE Answer!StopFails
  <2>1. rp_pending' \in Updates \cup {Answer!None} /\ rp_last' \in Closing \cup {Answer!None}
    BY <1>0, <1>a, <1>b, <1>13, Kinds DEF Answer!StopFails, Answer!Update, Answer!Fault,
         Answer!Awaited, ReplyTypes, Phases
  <2>2. rp_flight' \in Seq(Updates)
    BY <1>0, <1>a, <1>b, <1>13, Kinds DEF Answer!StopFails, Answer!Update, Answer!Fault,
         Answer!Awaited, ReplyTypes, Phases
  <2>3. rp_rows' \in Seq(Updates \cup Closing)
    BY <1>0, <1>a, <1>b, <1>13, Kinds DEF Answer!StopFails, Answer!Update, Answer!Fault,
         Answer!Awaited, ReplyTypes, Phases
  <2>4. ReplyTypes'
    BY <1>0, <1>a, <1>b, <1>13, Kinds, <2>1, <2>2, <2>3 DEF Answer!StopFails, Answer!Update,
         Answer!Fault, Answer!Awaited, ReplyTypes, Phases, TextWhole
  <2>5. Phases'
    BY <1>0, <1>a, <1>b, <1>13, Kinds DEF Answer!StopFails, Answer!Update, Answer!Fault,
         Answer!Awaited, ReplyTypes, Phases, TextsGrow
  <2>6. TextsGrow'
    BY <1>0, <1>a, <1>b, <1>13, Kinds DEF Answer!StopFails, Answer!Update, Answer!Fault,
         Answer!Awaited, ReplyTypes, Phases, TextsGrow, Grows
  <2>7. TextWhole'
    BY <1>0, <1>a, <1>b, <1>13, Kinds DEF Answer!StopFails, Answer!Update, Answer!Fault,
         Answer!Awaited, ReplyTypes, Phases, TextWhole
  <2>8. FinalsLast'
    BY <1>0, <1>a, <1>b, <1>13, Kinds DEF Answer!StopFails, Answer!Update, Answer!Fault,
         Answer!Awaited, ReplyTypes, Phases, FinalsLast
  <2> QED BY <2>4, <2>5, <2>6, <2>7, <2>8 DEF ReplyInv
<1>14. CASE UNCHANGED Answer!vars
  BY <1>0, <1>14 DEF Answer!vars, ReplyInv, ReplyTypes, Phases, TextsGrow, TextWhole, FinalsLast,
       Grows
<1> QED BY <1>1, <1>2, <1>3, <1>4, <1>5, <1>6, <1>7, <1>8, <1>9, <1>10, <1>11, <1>12, <1>13,
      <1>14 DEF Answer!Next

(* The invariant of the reply holds in every state.                        *)
LEMMA ReplyInvariant == Answer!ReplyAssumption /\ Answer!Spec => []ReplyInv
<1> SUFFICES ASSUME Answer!ReplyAssumption PROVE Answer!Spec => []ReplyInv
  OBVIOUS
<1> QED BY ReplyInit, ReplyMoves, PTL DEF Answer!Spec

(* It gives what is promised of the reply.                                 *)
LEMMA ReplyMeans ==
  ReplyInv => Answer!TypeOK /\ Answer!FinalIsLast /\ Answer!AnswerIsWhole
    /\ Answer!EveryReplyCloses /\ Answer!OpenCardsAreSent
<1> SUFFICES ASSUME ReplyInv
             PROVE  Answer!TypeOK /\ Answer!FinalIsLast /\ Answer!AnswerIsWhole
                      /\ Answer!EveryReplyCloses /\ Answer!OpenCardsAreSent
  OBVIOUS
<1>0. ReplyTypes /\ Phases /\ TextsGrow /\ TextWhole /\ FinalsLast /\ Len(rp_rows) \in Nat
  BY DEF ReplyInv, ReplyTypes
<1>1. Answer!TypeOK
  BY <1>0 DEF Answer!TypeOK, ReplyTypes
<1>2. Answer!FinalIsLast
  BY <1>0 DEF Answer!FinalIsLast, Answer!Finals, FinalsLast, TextsGrow, Grows
<1>3. Answer!AnswerIsWhole
  BY <1>0 DEF Answer!AnswerIsWhole, Answer!Finals, FinalsLast, TextWhole
<1>4. rp_step \in {"final", "sent"} => Len(rp_rows) \in Answer!Finals
  BY <1>0, Kinds DEF Answer!Finals, Phases, ReplyTypes
<1>5. Answer!EveryReplyCloses
  BY <1>0, <1>4 DEF Answer!EveryReplyCloses, Phases
<1>6. Answer!OpenCardsAreSent
  BY <1>0 DEF Answer!OpenCardsAreSent, Answer!Finals, Phases, ReplyTypes
<1> QED BY <1>1, <1>2, <1>3, <1>5, <1>6

-----------------------------------------------------------------------------
(* The dialogue: its invariant                                             *)

(* The steps of a question that is not answered for good.                  *)
Underway == {"asked", "open", "answered", "refused"}

(* The request Codex' questions are put as: the form of all, or the        *)
(* question at hand.                                                       *)
AskedBy(qs, at) ==
  IF at.mode = "form" THEN Talk!CodexRequest(qs) ELSE Talk!CodexQuestion(qs[at.at], at.at)

(* The values of the dialogue's variables, as far as they are needed.      *)
TalkTypes ==
  /\ Talk!TypeOK
  /\ \E S : dg_meant \in Seq(S)
  /\ DOMAIN dg_pending = {"mode", "at"}
  /\ dg_presses \in Nat

(* Nothing is asked yet.                                                   *)
TalkStarts ==
  dg_step = "idle" =>
    /\ dg_asker = "none" /\ dg_pending = Talk!NoPending /\ dg_said = Talk!Nothing /\ dg_meant = <<>>
    /\ dg_notice = "" /\ dg_result = Talk!NoResult

(* The request under way is what its adapter makes of the question, or     *)
(* what the host sent.                                                     *)
TalkOrigin ==
  dg_step \in Underway =>
    /\ dg_asker = "codex" =>
         /\ dg_question \in Questions /\ Talk!Parsed(dg_question)
         /\ \A k \in DOMAIN dg_question : ~dg_question[k].secret
         /\ dg_pending.mode = Talk!Mode(dg_question) /\ dg_pending.at \in 1..Len(dg_question)
         /\ dg_pending.mode # "sequential" => dg_pending.at = 1
         /\ dg_request = AskedBy(dg_question, dg_pending)
    /\ dg_asker = "pi" =>
         dg_question \in Dialogs /\ Talk!PiAsks(dg_question)
           /\ dg_request = Talk!PiRequest(dg_question)
         /\ dg_pending = Talk!NoPending
    /\ dg_asker = "offer" => dg_request \in Offers /\ dg_pending = Talk!NoPending
    /\ dg_asker # "none" /\ dg_pending.at \in Nat \ {0}

(* What is open was taken by the gateway, and its card is what the gateway *)
(* makes of it.                                                            *)
TalkShown ==
  dg_step \in {"open", "answered"} =>
    /\ Talk!Valid(dg_request)
    /\ dg_request.kind # "text-input" => dg_card = Talk!Presentation(dg_request)

(* The answers collected so far are those the human gave, question by      *)
(* question.                                                               *)
TalkSaid ==
  dg_step \in Underway /\ dg_asker = "codex" =>
    /\ DOMAIN dg_said = {dg_question[k].id : k \in 1..(dg_pending.at - 1)}
    /\ \A k \in 1..(dg_pending.at - 1) : dg_said[dg_question[k].id] = dg_meant[k]

(* The result is what the human picked or typed, field by field; only a    *)
(* confirmation is cancelled, by its second button.                        *)
TalkMeant ==
  /\ dg_step \in Underway \ {"answered"} => Len(dg_meant) = dg_pending.at - 1
  /\ dg_step = "answered" =>
       /\ dg_result.status = "expired" => Len(dg_meant) = dg_pending.at - 1
       /\ dg_result.status = "cancelled" =>
            /\ dg_request.kind = "confirm" /\ Len(dg_meant) = dg_pending.at
            /\ dg_meant[dg_pending.at] = {Talk!Label(dg_request,
                                                     dg_request.fields[1].options[2].label)}
       /\ dg_result.status = "submitted" =>
            /\ Len(dg_meant) = dg_pending.at - 1 + Len(dg_request.fields)
            /\ \A f \in DOMAIN dg_request.fields :
                 Talk!TextsOf(dg_request, dg_result.values, f) = dg_meant[dg_pending.at - 1 + f]
            /\ dg_request.kind \notin {"multi-select", "text-input"} =>
                 \A f \in DOMAIN dg_request.fields : \E i \in DOMAIN dg_request.fields[f].options :
                   dg_result.values[dg_request.fields[f].id] =
                      {dg_request.fields[f].options[i].value}
       /\ dg_result.status # "none"

(* A card that is open gives no verdict.                                   *)
TalkNotices == dg_step = "open" => dg_notice \in {"", "result"}

(* Whoever asked has heard what was meant.                                 *)
TalkOver ==
  dg_step = "over" =>
    Talk!CodexHearsWhatWasMeant /\ Talk!PiHearsWhatWasMeant /\ Talk!ResultIsWhatWasMeant

(* The inductive invariant of the dialogue.                                *)
TalkInv ==
  /\ TalkTypes /\ TalkStarts /\ TalkOrigin /\ TalkShown /\ TalkSaid /\ TalkMeant
  /\ TalkNotices /\ TalkOver /\ Talk!QuestionsAreShown /\ Talk!NoticesAreTrue

-----------------------------------------------------------------------------
(* The dialogue: what an adapter asks, the gateway takes                   *)

(* cardExcerpt: a text cut is a text, no longer than its limit.            *)
LEMMA CutLen ==
  ASSUME NEW t, Talk!IsText(t), NEW max \in Nat
  PROVE  /\ Talk!IsText(Talk!Excerpt(t, max))
         /\ Talk!Excerpt(t, max).len = IF t.len <= max THEN t.len ELSE max
BY DEF Talk!Excerpt, Talk!IsText

(* A word of the code is a text.                                           *)
LEMMA WordIsText ==
  ASSUME NEW w, NEW n \in Nat
  PROVE  Talk!IsText(Talk!Word(w, n)) /\ Talk!Word(w, n).len = n
BY DEF Talk!Word, Talk!IsText

(* So is the absent one,                                                   *)
LEMMA NoTextIsText == Talk!IsText(Talk!NoText)
BY WordIsText DEF Talk!NoText

(* which cutting leaves absent.                                            *)
LEMMA NoTextUncut == ASSUME NEW max \in Nat PROVE Talk!Excerpt(Talk!NoText, max) = Talk!NoText
<1>1. Talk!NoText.len = 0
  BY WordIsText DEF Talk!NoText
<1> QED BY <1>1 DEF Talk!Excerpt

(* The limits in order, which is all that the proofs use of them.          *)
LEMMA Limits ==
  /\ Talk!TitleLimit \in Nat /\ Talk!BodyLimit \in Nat /\ Talk!OptionLimit \in Nat
       /\ Talk!CardLimit \in Nat
  /\ 40 <= Talk!OptionLimit /\ Talk!OptionLimit <= Talk!TitleLimit /\ 40 <= Talk!TitleLimit
       /\ 40 <= Talk!CardLimit
BY DEF Talk!TitleLimit, Talk!BodyLimit, Talk!OptionLimit, Talk!CardLimit

(* The labels a request may have.                                          *)
LEMMA Longests == Talk!Longest("confirm") = 40 /\ \A k : k # "confirm"
  => Talk!Longest(k) = Talk!OptionLimit
BY DEF Talk!Longest

(* The options a request may have.                                         *)
LEMMA MostOptions ==
  /\ Talk!Most("form") = 10 /\ Talk!Most("confirm") = 2 /\ Talk!Most("actions") = 6
  /\ Talk!Most("single-select") = 20 /\ Talk!Most("multi-select") = 20
BY DEF Talk!Most

(* The types of a question of Codex.                                       *)
IsQuestion(q) == Talk!IsText(q.header) /\ Talk!IsText(q.prompt) /\ Talk!IsTexts(q.options)

(* The field a question becomes.                                           *)
LEMMA CodexFieldIs ==
  ASSUME NEW q, IsQuestion(q), NEW k
  PROVE  LET F == Talk!CodexField(q, k) IN
         /\ F.id = <<"question", k>> /\ F.label = q.header /\ Talk!IsText(F.label)
         /\ Talk!IsSeq(F.options) /\ Len(F.options) = Len(q.options)
         /\ \A i \in DOMAIN F.options :
              /\ i \in DOMAIN q.options
              /\ F.options[i].value = <<"option", k, i>>
              /\ F.options[i].label = q.options[i]
              /\ Talk!IsText(F.options[i].label)
BY DEF Talk!CodexField, Talk!FieldOf, Talk!Option, Talk!IsSeq, IsQuestion, Talk!IsTexts

(* The options of a well put question are taken.                           *)
LEMMA CodexOptionsOk ==
  ASSUME NEW q, IsQuestion(q), NEW k, Talk!WellPut(q), Talk!Closed(q), NEW most \in Nat, most >= 10
  PROVE  Talk!OptionsOk(Talk!CodexField(q, k).options, most, Talk!OptionLimit)
<1> DEFINE os == Talk!CodexField(q, k).options
<1>1. Talk!IsSeq(os) /\ Len(os) = Len(q.options) /\ DOMAIN os = DOMAIN q.options
  BY CodexFieldIs DEF Talk!IsSeq, IsQuestion, Talk!IsTexts
<1>2. \A i \in DOMAIN os : os[i].label = q.options[i]
  BY CodexFieldIs
<1>3. \A i \in DOMAIN os : os[i].value = <<"option", k, i>>
  BY CodexFieldIs
<1> HIDE DEF os
<1>4. Len(q.options) \in 1..10
  BY DEF Talk!WellPut, Talk!Closed
<1>5. Len(os) \in 1..most
  <2>1. \A n \in 1..10 : n \in 1..most
    OBVIOUS
  <2> QED BY <1>1, <1>4, <2>1
<1>6. \A i \in DOMAIN os : os[i].label.len \in 1..Talk!OptionLimit
  <2>1. \A i \in DOMAIN q.options : q.options[i].len \in 1..Talk!OptionLimit
    BY DEF Talk!WellPut
  <2> QED BY <1>1, <1>2, <2>1
<1>7. Talk!Unique([i \in DOMAIN os |-> os[i].value])
  BY <1>3 DEF Talk!Unique
<1>8. Talk!OptionsOk(os, most, Talk!OptionLimit)
  BY <1>5, <1>6, <1>7 DEF Talk!OptionsOk
<1> QED BY <1>8 DEF os

(* A well put question is taken, from a card or typed.                     *)
LEMMA CodexQuestionOk ==
  ASSUME NEW q, IsQuestion(q), NEW k, Talk!WellPut(q)
  PROVE  Talk!IsRequest(Talk!CodexQuestion(q, k)) /\ Talk!Valid(Talk!CodexQuestion(q, k))
<1> DEFINE F == Talk!CodexField(q, k)
<1>0. Talk!IsText(q.header) /\ Talk!IsText(q.prompt) /\ Talk!IsText(Talk!NoText)
  BY NoTextIsText DEF IsQuestion
<1>1. CASE Talk!Closed(q)
  <2>1. Talk!CodexQuestion(q, k) = Talk!Ask("single-select", q.header, q.prompt, <<F>>)
    BY <1>1 DEF Talk!CodexQuestion
  <2>2. Talk!OptionsOk(F.options, 20, Talk!OptionLimit)
    BY <1>1, CodexOptionsOk
  <2>3. Talk!IsText(F.label) /\ Talk!IsSeq(F.options)
          /\ \A i \in DOMAIN F.options : Talk!IsText(F.options[i].label)
    BY CodexFieldIs
  <2> HIDE DEF F
  <2> DEFINE r == Talk!CodexQuestion(q, k)
  <2>4. /\ r.kind = "single-select" /\ r.title = q.header /\ r.body = q.prompt /\ r.fields = <<F>>
        /\ r.min = 0 /\ r.max = 0
    BY <2>1 DEF Talk!Ask, Talk!NoRequest
  <2> HIDE DEF r
  <2>5. DOMAIN r.fields = {1} /\ r.fields[1] = F /\ Len(r.fields) = 1 /\ Talk!IsSeq(r.fields)
    BY <2>4 DEF Talk!IsSeq
  <2>6. Talk!IsRequest(r)
    BY <2>3, <2>4, <2>5, <1>0 DEF Talk!IsRequest
  <2>7. r.title.len \in 1..Talk!TitleLimit /\ r.body.len \in 1..Talk!BodyLimit
    BY <2>4, Limits DEF Talk!WellPut
  <2>8. \A f \in DOMAIN r.fields : Talk!OptionsOk(r.fields[f].options, Talk!Most(r.kind),
                                                  Talk!Longest(r.kind))
    BY <2>2, <2>4, <2>5, MostOptions, Longests
  <2>9. Talk!Valid(r)
    BY <2>4, <2>7, <2>8 DEF Talk!Valid
  <2> QED BY <2>6, <2>9 DEF r
<1>2. CASE ~Talk!Closed(q)
  <2> DEFINE r == Talk!CodexQuestion(q, k)
             G == Talk!FieldOf(<<"question", k>>, Talk!NoText, <<>>)
  <2>1. r = Talk!Ask("text-input", q.header, q.prompt, <<G>>)
    BY <1>2 DEF Talk!CodexQuestion
  <2>2. G.label = Talk!NoText /\ G.options = <<>>
    BY DEF Talk!FieldOf
  <2> HIDE DEF r, G
  <2>4. /\ r.kind = "text-input" /\ r.title = q.header /\ r.body = q.prompt /\ r.fields = <<G>>
        /\ r.min = 0 /\ r.max = 0
    BY <2>1 DEF Talk!Ask, Talk!NoRequest
  <2>5. DOMAIN r.fields = {1} /\ r.fields[1] = G /\ Len(r.fields) = 1 /\ Talk!IsSeq(r.fields)
    BY <2>4 DEF Talk!IsSeq
  <2>6. Talk!IsRequest(r)
    BY <2>2, <2>4, <2>5, <1>0 DEF Talk!IsRequest, Talk!IsSeq
  <2>7. Talk!Valid(r)
    <3>1. r.title.len \in 1..Talk!TitleLimit /\ r.body.len \in 1..Talk!BodyLimit
      BY <2>4, Limits DEF Talk!WellPut
    <3> QED BY <2>4, <3>1 DEF Talk!Valid
  <2> QED BY <2>6, <2>7 DEF r
<1> QED BY <1>1, <1>2

(* What the Codex adapter asks of well put questions is taken: one by one, *)
(* or as a form.                                                           *)
LEMMA CodexRequestsOk ==
  ASSUME NEW qs, Talk!IsSeq(qs), \A k \in DOMAIN qs : IsQuestion(qs[k]), Talk!Parsed(qs), NEW at,
           at.mode = Talk!Mode(qs), at.at \in 1..Len(qs)
  PROVE  Talk!IsRequest(AskedBy(qs, at)) /\ Talk!Valid(AskedBy(qs, at))
<1>1. \A k \in DOMAIN qs : IsQuestion(qs[k]) /\ Talk!WellPut(qs[k])
  BY DEF Talk!Parsed
<1>2. CASE at.mode # "form"
  <2>1. AskedBy(qs, at) = Talk!CodexQuestion(qs[at.at], at.at) /\ at.at \in DOMAIN qs
    BY <1>2 DEF AskedBy
  <2> QED BY <2>1, <1>1, CodexQuestionOk
<1>3. CASE at.mode = "form"
  <2> DEFINE r == AskedBy(qs, at)
  <2>1. r = Talk!Ask("form", Talk!Word("codex", 12), qs[1].prompt,
                     [k \in DOMAIN qs |-> Talk!CodexField(qs[k], k)])
    BY <1>3 DEF AskedBy, Talk!CodexRequest
  <2>2. Len(qs) > 1 /\ Talk!FitsForm(qs)
    BY <1>3 DEF Talk!Mode
  <2>3. Len(qs) \in 2..3 /\ 1 \in DOMAIN qs
    <3>1. Len(qs) \in 1..3
      BY DEF Talk!Parsed
    <3>2. DOMAIN qs = 1..Len(qs)
      BY DEF Talk!IsSeq
    <3> QED BY <2>2, <3>1, <3>2
  <2> HIDE DEF r
  <2>4. /\ r.kind = "form" /\ r.title = Talk!Word("codex", 12) /\ r.body = qs[1].prompt
        /\ r.fields = [k \in DOMAIN qs |-> Talk!CodexField(qs[k], k)]
        /\ r.min = 0 /\ r.max = 0
    BY <2>1 DEF Talk!Ask, Talk!NoRequest
  <2>5. DOMAIN r.fields = DOMAIN qs /\ Len(r.fields) = Len(qs) /\ Talk!IsSeq(r.fields)
        /\ \A f \in DOMAIN r.fields : r.fields[f] = Talk!CodexField(qs[f], f)
    BY <2>4 DEF Talk!IsSeq
  <2>6. \A f \in DOMAIN r.fields :
          /\ r.fields[f].id = <<"question", f>> /\ r.fields[f].label = qs[f].header
          /\ Talk!IsText(r.fields[f].label) /\ Talk!IsSeq(r.fields[f].options)
          /\ \A i \in DOMAIN r.fields[f].options : Talk!IsText(r.fields[f].options[i].label)
    BY <2>5, <1>1, CodexFieldIs
  <2>7. \A f \in DOMAIN r.fields : Talk!OptionsOk(r.fields[f].options, Talk!Most(r.kind),
                                                  Talk!Longest(r.kind))
    <3>1. \A k \in DOMAIN qs : Talk!Closed(qs[k])
      BY <2>2 DEF Talk!FitsForm
    <3>2. \A k \in DOMAIN qs : Talk!OptionsOk(Talk!CodexField(qs[k], k).options, 10,
                                              Talk!OptionLimit)
      BY <3>1, <1>1, CodexOptionsOk
    <3> QED BY <3>2, <2>4, <2>5, MostOptions, Longests
  <2>8. Talk!IsText(r.body) /\ r.body.len \in 1..Talk!BodyLimit
    <3>1. Talk!IsText(qs[1].prompt)
      BY <1>1, <2>3 DEF IsQuestion
    <3>2. qs[1].prompt.len \in 1..Talk!BodyLimit
      BY <1>1, <2>3 DEF Talk!WellPut
    <3> QED BY <3>1, <3>2, <2>4
  <2>9. Talk!IsText(r.title) /\ r.title.len = 12
    BY <2>4, WordIsText
  <2>10. Talk!IsRequest(r)
    <3>1. r.kind = "form" /\ {r.min, r.max} \subseteq Nat
      BY <2>4
    <3> QED BY <3>1, <2>5, <2>6, <2>8, <2>9 DEF Talk!IsRequest
  <2>11. \A f \in DOMAIN r.fields : r.fields[f].label.len \in 1..Talk!OptionLimit
    BY <2>5, <2>6, <1>1 DEF Talk!WellPut
  <2>12. Talk!Unique([f \in DOMAIN r.fields |-> r.fields[f].id])
    BY <2>6 DEF Talk!Unique
  <2>13. Len(r.fields) \in 1..3
    BY <2>3, <2>5
  <2>14. Talk!Valid(r)
    <3>1. r.kind = "form"
      BY <2>4
    <3>2. r.title.len \in 1..Talk!TitleLimit
      BY <2>9, Limits
    <3> QED BY <3>1, <3>2, <2>7, <2>8, <2>9, <2>11, <2>12, <2>13 DEF Talk!Valid
  <2> QED BY <2>10, <2>14 DEF r
<1> QED BY <1>2, <1>3

(* Every rank of a set of indices is that of one of them: the CHOOSE of    *)
(* PiOptions finds an option.                                              *)
LEMMA RankOfEach ==
  ASSUME NEW n \in Nat, NEW kept, kept \subseteq 1..n
  PROVE  /\ Cardinality(kept) \in Nat
         /\ \A m \in 1..Cardinality(kept) :
              \E i \in kept : Cardinality({j \in kept : j <= i}) = m
<1> DEFINE below(i) == {j \in kept : j <= i}
           rank == [i \in kept |-> Cardinality(below(i))]
<1>1. IsFiniteSet(1..n)
  <2>1. 1 \in Int /\ n \in Int
    OBVIOUS
  <2> QED BY <2>1, FS_Interval, Zenon
<1>2. IsFiniteSet(kept) /\ Cardinality(kept) \in Nat
  BY <1>1, FS_Subset, FS_CardinalityType
<1>3. \A i \in kept : IsFiniteSet(below(i)) /\ Cardinality(below(i)) \in 1..Cardinality(kept)
  <2> SUFFICES ASSUME NEW i \in kept
               PROVE  IsFiniteSet(below(i)) /\ Cardinality(below(i)) \in 1..Cardinality(kept)
    OBVIOUS
  <2>1. below(i) \in SUBSET kept /\ i \in below(i)
    OBVIOUS
  <2> HIDE DEF below
  <2>2. IsFiniteSet(below(i)) /\ Cardinality(below(i)) <= Cardinality(kept)
    BY <2>1, <1>2, FS_Subset
  <2>3. Cardinality(below(i)) \in Nat /\ Cardinality(below(i)) # 0
    BY <2>1, <2>2, FS_CardinalityType, FS_EmptySet
  <2> QED BY <1>2, <2>2, <2>3
<1>4. \A i, k \in kept : i < k => Cardinality(below(i)) # Cardinality(below(k))
  <2> SUFFICES ASSUME NEW i \in kept, NEW k \in kept, i < k
               PROVE  Cardinality(below(i)) # Cardinality(below(k))
    OBVIOUS
  <2>0. \A j \in kept : j \in Int
    OBVIOUS
  <2>1. below(i) \in SUBSET below(k)
    <3>1. \A j \in kept : j <= i => j <= k
      BY <2>0
    <3> QED BY <3>1
  <2>2. k \in below(k) /\ k \notin below(i)
    BY <2>0
  <2> HIDE DEF below
  <2>3. IsFiniteSet(below(k))
    BY <1>3
  <2> QED BY <2>1, <2>2, <2>3, FS_Subset
<1>5. rank \in [kept -> 1..Cardinality(kept)] /\ \A i \in kept : rank[i] = Cardinality(below(i))
  BY <1>3
<1>6. \A i, k \in kept : rank[i] = rank[k] => i = k
  <2>1. \A i, k \in kept : i < k \/ k < i \/ i = k
    OBVIOUS
  <2> HIDE DEF rank, below
  <2> QED BY <2>1, <1>4, <1>5
<1> HIDE DEF rank
<1>7. rank \in Injection(kept, 1..Cardinality(kept))
  BY <1>5, <1>6 DEF Injection, IsInjective
<1>8. IsFiniteSet(1..Cardinality(kept)) /\ Cardinality(1..Cardinality(kept)) = Cardinality(kept)
  <2>1. 1 \in Int /\ Cardinality(kept) \in Int
    BY <1>2
  <2>2. /\ IsFiniteSet(1..Cardinality(kept))
        /\ Cardinality(1..Cardinality(kept)) =
             IF 1 > Cardinality(kept) THEN 0 ELSE Cardinality(kept) - 1 + 1
    BY <2>1, FS_Interval, Zenon
  <2> QED BY <1>2, <2>2
<1>9. rank \in Surjection(kept, 1..Cardinality(kept))
  BY <1>7, <1>8, FS_Injection
<1>10. \A m \in 1..Cardinality(kept) : \E i \in kept : rank[i] = m
  BY <1>9 DEF Surjection
<1> QED BY <1>2, <1>5, <1>10

(* The options of a dialog that are not blank.                             *)
LEMMA PiOptionsAre ==
  ASSUME NEW d, Talk!IsTexts(d.options)
  PROVE  /\ Talk!IsSeq(Talk!PiOptions(d))
         /\ \A i \in DOMAIN Talk!PiOptions(d) : Talk!IsText(Talk!PiOptions(d)[i])
              /\ Talk!PiOptions(d)[i].len > 0
<1> DEFINE kept == {i \in DOMAIN d.options : d.options[i].len > 0}
           n == Cardinality(kept)
           os == Talk!PiOptions(d)
           at(m) == CHOOSE i \in kept : Cardinality({j \in kept : j <= i}) = m
<1>1. Len(d.options) \in Nat /\ kept \subseteq 1..Len(d.options)
  BY DEF Talk!IsTexts, Talk!IsSeq
<1>2. \A i \in kept : Talk!IsText(d.options[i]) /\ d.options[i].len > 0
  BY DEF Talk!IsTexts
<1>3. os = [m \in 1..n |-> d.options[at(m)]]
  BY DEF Talk!PiOptions, Talk!Cardinality, Cardinality
<1> HIDE DEF kept, os
<1>4. n \in Nat /\ \A m \in 1..n : \E i \in kept : Cardinality({j \in kept : j <= i}) = m
  BY <1>1, RankOfEach
<1>5. \A m \in 1..n : at(m) \in kept
  BY <1>4
<1> HIDE DEF n, at
<1>6. DOMAIN os = 1..n /\ Talk!IsSeq(os)
  BY <1>3, <1>4 DEF Talk!IsSeq
<1>7. \A i \in DOMAIN os : Talk!IsText(os[i]) /\ os[i].len > 0
  BY <1>2, <1>3, <1>5, <1>6
<1> QED BY <1>6, <1>7 DEF os

(* A title is taken, unless the extension sends a blank one.               *)
LEMMA PiTitle ==
  ASSUME NEW t, Talk!IsText(t), NEW w, NEW n \in 1..10
  PROVE  LET e == Talk!Excerpt(Talk!Either(t, Talk!Word(w, n)), Talk!TitleLimit) IN
         Talk!IsText(e) /\ (e.len \in 1..Talk!TitleLimit \/ (t.len = 0 /\ t # Talk!NoText))
<1> DEFINE u == Talk!Either(t, Talk!Word(w, n))
<1>1. Talk!IsText(u) /\ (u.len > 0 \/ (t.len = 0 /\ t # Talk!NoText))
  BY WordIsText DEF Talk!Either, Talk!IsText
<1> HIDE DEF u
<1>2. u.len \in Nat /\ Talk!TitleLimit \in Nat /\ 40 <= Talk!TitleLimit
  BY <1>1, Limits DEF Talk!IsText
<1>3. /\ Talk!IsText(Talk!Excerpt(u, Talk!TitleLimit))
      /\ Talk!Excerpt(u, Talk!TitleLimit).len =
            IF u.len <= Talk!TitleLimit THEN u.len ELSE Talk!TitleLimit
  BY <1>1, <1>2, CutLen
<1>4. u.len > 0 => Talk!Excerpt(u, Talk!TitleLimit).len \in 1..Talk!TitleLimit
  BY <1>2, <1>3
<1> QED BY <1>1, <1>3, <1>4 DEF u

(* The request a dialog becomes, method by method.                         *)
LEMMA PiRequestIs ==
  ASSUME NEW d
  PROVE  /\ d.method = "confirm" =>
              Talk!PiRequest(d) = Talk!Ask("confirm",
                 Talk!Excerpt(Talk!Either(d.title, Talk!Word("confirm", 4)), Talk!TitleLimit),
                Talk!NoText, <<Talk!FieldOf("confirmation", Talk!NoText,
                       <<Talk!Option("confirmed", Talk!Yes), Talk!Option("cancelled", Talk!No)>>)>>)
         /\ d.method = "select" =>
              Talk!PiRequest(d) = Talk!Ask("single-select",
                 Talk!Excerpt(Talk!Either(d.title, Talk!Word("select", 3)), Talk!TitleLimit),
                Talk!NoText, <<Talk!FieldOf("selection", Talk!NoText,
                                            [i \in DOMAIN Talk!PiOptions(d) |->
                 Talk!Option(<<"pi-option", i>>,
                             Talk!Excerpt(Talk!PiOptions(d)[i], Talk!OptionLimit))])>>)
         /\ d.method \in {"input", "editor"} =>
              Talk!PiRequest(d) = Talk!Ask("text-input",
                 Talk!Excerpt(Talk!Either(d.title, Talk!Word("input", 5)), Talk!TitleLimit),
                Talk!NoText, <<Talk!FieldOf("value", Talk!NoText, <<>>)>>)
BY DEF Talk!PiRequest

(* The parts of a request.                                                 *)
LEMMA AskIs ==
  ASSUME NEW kind, NEW title, NEW body, NEW fields
  PROVE  LET r == Talk!Ask(kind, title, body, fields) IN
         /\ r.kind = kind /\ r.title = title /\ r.body = body /\ r.fields = fields
         /\ r.min = 0 /\ r.max = 0
BY DEF Talk!Ask, Talk!NoRequest

(* A confirmation is taken if its title is.                                *)
LEMMA ConfirmOk ==
  ASSUME NEW title, Talk!IsText(title)
  PROVE  LET F == Talk!FieldOf("confirmation", Talk!NoText, <<Talk!Option("confirmed", Talk!Yes),
                                                              Talk!Option("cancelled", Talk!No)>>)
             r == Talk!Ask("confirm", title, Talk!NoText, <<F>>)
         IN  Talk!IsRequest(r) /\ (title.len \in 1..Talk!TitleLimit => Talk!Valid(r))
<1> DEFINE os == <<Talk!Option("confirmed", Talk!Yes), Talk!Option("cancelled", Talk!No)>>
           F == Talk!FieldOf("confirmation", Talk!NoText, os)
           r == Talk!Ask("confirm", title, Talk!NoText, <<F>>)
<1>1. /\ r.kind = "confirm" /\ r.title = title /\ r.body = Talk!NoText /\ r.fields = <<F>>
      /\ r.min = 0 /\ r.max = 0
  BY AskIs
<1>2. F.options = os /\ F.label = Talk!NoText
  BY DEF Talk!FieldOf
<1>3. /\ Len(os) = 2 /\ DOMAIN os = 1..2
      /\ os[1].label = Talk!Yes /\ os[2].label = Talk!No
      /\ os[1].value = "confirmed" /\ os[2].value = "cancelled"
  BY DEF Talk!Option
<1> HIDE DEF os, F, r
<1>4. \A i \in DOMAIN os : Talk!IsText(os[i].label) /\ os[i].label.len \in 1..40
  <2>1. Talk!IsText(Talk!Yes) /\ Talk!Yes.len = 2 /\ Talk!IsText(Talk!No) /\ Talk!No.len = 2
    BY WordIsText DEF Talk!Yes, Talk!No
  <2>2. \A i \in DOMAIN os : i = 1 \/ i = 2
    BY <1>3
  <2> QED BY <1>3, <2>1, <2>2
<1>5. DOMAIN r.fields = {1} /\ r.fields[1] = F /\ Len(r.fields) = 1 /\ Talk!IsSeq(r.fields)
  BY <1>1 DEF Talk!IsSeq
<1>6. Talk!IsRequest(r)
  <2>1. Talk!IsSeq(os)
    BY <1>3 DEF Talk!IsSeq
  <2> QED BY <1>1, <1>2, <1>3, <1>4, <1>5, <2>1, NoTextIsText DEF Talk!IsRequest
<1>7. Talk!OptionsOk(os, Talk!Most("confirm"), Talk!Longest("confirm"))
  <2>1. Talk!Unique([i \in DOMAIN os |-> os[i].value])
    <3>1. \A i \in DOMAIN os : i = 1 \/ i = 2
      BY <1>3
    <3> QED BY <1>3, <3>1 DEF Talk!Unique
  <2>2. Len(os) \in 1..Talk!Most("confirm")
    BY <1>3, MostOptions
  <2> QED BY <1>4, <2>1, <2>2, Longests DEF Talk!OptionsOk
<1>8. title.len \in 1..Talk!TitleLimit => Talk!Valid(r)
  BY <1>1, <1>2, <1>5, <1>7 DEF Talk!Valid
<1> QED BY <1>6, <1>8 DEF r, F, os

(* So is a selection of one to twenty options,                             *)
LEMMA SelectOk ==
  ASSUME NEW title, Talk!IsText(title), NEW d, Talk!IsTexts(d.options),
           Len(Talk!PiOptions(d)) \in 1..20
  PROVE  LET F == Talk!FieldOf("selection", Talk!NoText, [i \in DOMAIN Talk!PiOptions(d) |->
                 Talk!Option(<<"pi-option", i>>,
                             Talk!Excerpt(Talk!PiOptions(d)[i], Talk!OptionLimit))])
             r == Talk!Ask("single-select", title, Talk!NoText, <<F>>)
         IN  Talk!IsRequest(r) /\ (title.len \in 1..Talk!TitleLimit => Talk!Valid(r))
<1> DEFINE ts == Talk!PiOptions(d)
           os == [i \in DOMAIN ts |-> Talk!Option(<<"pi-option", i>>,
                                                  Talk!Excerpt(ts[i], Talk!OptionLimit))]
           F == Talk!FieldOf("selection", Talk!NoText, os)
           r == Talk!Ask("single-select", title, Talk!NoText, <<F>>)
<1>0. Talk!IsSeq(ts) /\ Len(ts) \in 1..20 /\ \A i \in DOMAIN ts : Talk!IsText(ts[i])
        /\ ts[i].len > 0
  BY PiOptionsAre
<1> HIDE DEF ts
<1>1. /\ r.kind = "single-select" /\ r.title = title /\ r.body = Talk!NoText /\ r.fields = <<F>>
      /\ r.min = 0 /\ r.max = 0
  BY AskIs
<1>2. F.options = os /\ F.label = Talk!NoText
  BY DEF Talk!FieldOf
<1>3. /\ DOMAIN os = DOMAIN ts
      /\ \A i \in DOMAIN os : os[i].label = Talk!Excerpt(ts[i], Talk!OptionLimit)
           /\ os[i].value = <<"pi-option", i>>
  BY DEF Talk!Option
<1> HIDE DEF os, F, r
<1>4. Talk!IsSeq(os) /\ Len(os) = Len(ts)
  BY <1>0, <1>3 DEF Talk!IsSeq
<1>5. \A i \in DOMAIN os : Talk!IsText(os[i].label) /\ os[i].label.len \in 1..Talk!OptionLimit
  <2> SUFFICES ASSUME NEW i \in DOMAIN os
               PROVE  Talk!IsText(os[i].label) /\ os[i].label.len \in 1..Talk!OptionLimit
    OBVIOUS
  <2>1. Talk!IsText(ts[i]) /\ ts[i].len > 0 /\ os[i].label = Talk!Excerpt(ts[i], Talk!OptionLimit)
    BY <1>0, <1>3
  <2>2. Talk!OptionLimit \in Nat /\ 40 <= Talk!OptionLimit
    BY Limits
  <2>3. /\ Talk!IsText(os[i].label)
        /\ os[i].label.len = IF ts[i].len <= Talk!OptionLimit THEN ts[i].len ELSE Talk!OptionLimit
    BY <2>1, <2>2, CutLen
  <2>4. ts[i].len \in Nat
    BY <2>1 DEF Talk!IsText
  <2> QED BY <2>1, <2>2, <2>3, <2>4
<1>6. DOMAIN r.fields = {1} /\ r.fields[1] = F /\ Len(r.fields) = 1 /\ Talk!IsSeq(r.fields)
  BY <1>1 DEF Talk!IsSeq
<1>7. Talk!IsRequest(r)
  BY <1>1, <1>2, <1>4, <1>5, <1>6, NoTextIsText DEF Talk!IsRequest
<1>8. Talk!OptionsOk(os, Talk!Most("single-select"), Talk!Longest("single-select"))
  <2>1. Talk!Unique([i \in DOMAIN os |-> os[i].value])
    BY <1>3 DEF Talk!Unique
  <2>2. Len(os) \in 1..Talk!Most("single-select")
    BY <1>0, <1>4, MostOptions
  <2> QED BY <1>5, <2>1, <2>2, Longests DEF Talk!OptionsOk
<1>9. title.len \in 1..Talk!TitleLimit => Talk!Valid(r)
  BY <1>1, <1>2, <1>6, <1>8 DEF Talk!Valid
<1> QED BY <1>7, <1>9 DEF r, F, os, ts

(* and a text.                                                             *)
LEMMA InputOk ==
  ASSUME NEW title, Talk!IsText(title)
  PROVE  LET r == Talk!Ask("text-input", title, Talk!NoText,
                           <<Talk!FieldOf("value", Talk!NoText, <<>>)>>)
         IN  Talk!IsRequest(r) /\ (title.len \in 1..Talk!TitleLimit => Talk!Valid(r))
<1> DEFINE F == Talk!FieldOf("value", Talk!NoText, <<>>)
           r == Talk!Ask("text-input", title, Talk!NoText, <<F>>)
<1>1. /\ r.kind = "text-input" /\ r.title = title /\ r.body = Talk!NoText /\ r.fields = <<F>>
      /\ r.min = 0 /\ r.max = 0
  BY AskIs
<1>2. F.options = <<>> /\ F.label = Talk!NoText
  BY DEF Talk!FieldOf
<1> HIDE DEF F, r
<1>5. DOMAIN r.fields = {1} /\ r.fields[1] = F /\ Len(r.fields) = 1 /\ Talk!IsSeq(r.fields)
  BY <1>1 DEF Talk!IsSeq
<1>6. Talk!IsRequest(r)
  BY <1>1, <1>2, <1>5, NoTextIsText DEF Talk!IsRequest, Talk!IsSeq
<1>7. title.len \in 1..Talk!TitleLimit => Talk!Valid(r)
  BY <1>1, <1>5 DEF Talk!Valid
<1> QED BY <1>6, <1>7 DEF r, F

(* The types of a dialog of Pi.                                            *)
IsDialog(d) ==
  /\ d.method \in {"confirm", "select", "input", "editor"}
  /\ Talk!IsText(d.title) /\ Talk!IsTexts(d.options)

(* What the Pi adapter asks is taken, but for a blank title.               *)
LEMMA PiRequestsOk ==
  ASSUME NEW d, IsDialog(d), Talk!PiAsks(d)
  PROVE  /\ Talk!IsRequest(Talk!PiRequest(d))
         /\ Talk!Valid(Talk!PiRequest(d)) \/ (d.title.len = 0 /\ d.title # Talk!NoText)
<1>1. CASE d.method = "confirm"
  <2>0. Talk!IsText(d.title) /\ 4 \in 1..10
    BY DEF IsDialog
  <2>1. LET e == Talk!Excerpt(Talk!Either(d.title, Talk!Word("confirm", 4)), Talk!TitleLimit) IN
         Talk!IsText(e)
           /\ (e.len \in 1..Talk!TitleLimit \/ (d.title.len = 0 /\ d.title # Talk!NoText))
    BY <2>0, PiTitle
  <2> QED BY <1>1, <2>1, ConfirmOk, PiRequestIs
<1>2. CASE d.method = "select"
  <2>0. Talk!IsText(d.title) /\ 3 \in 1..10
    BY DEF IsDialog
  <2>1. LET e == Talk!Excerpt(Talk!Either(d.title, Talk!Word("select", 3)), Talk!TitleLimit) IN
         Talk!IsText(e)
           /\ (e.len \in 1..Talk!TitleLimit \/ (d.title.len = 0 /\ d.title # Talk!NoText))
    BY <2>0, PiTitle
  <2>2. Talk!IsTexts(d.options) /\ Len(Talk!PiOptions(d)) \in 1..20
    BY <1>2 DEF IsDialog, Talk!PiAsks
  <2> QED BY <1>2, <2>1, <2>2, SelectOk, PiRequestIs
<1>3. CASE d.method \in {"input", "editor"}
  <2>0. Talk!IsText(d.title) /\ 5 \in 1..10
    BY DEF IsDialog
  <2>1. LET e == Talk!Excerpt(Talk!Either(d.title, Talk!Word("input", 5)), Talk!TitleLimit) IN
         Talk!IsText(e)
           /\ (e.len \in 1..Talk!TitleLimit \/ (d.title.len = 0 /\ d.title # Talk!NoText))
    BY <2>0, PiTitle
  <2> QED BY <1>3, <2>1, InputOk, PiRequestIs
<1> QED BY <1>1, <1>2, <1>3 DEF IsDialog

-----------------------------------------------------------------------------
(* The dialogue: what the gateway takes can be shown, and answered         *)

(* The requests that are shown as a card.                                  *)
CardKinds == {"confirm", "actions", "single-select", "multi-select", "form"}

(* An index found in an id is the id's,                                    *)
LEMMA IndexIs ==
  ASSUME NEW prefix, NEW n \in Nat, NEW id
  PROVE  /\ Talk!Index(id, prefix, n) \in 0..n
         /\ Talk!Index(id, prefix, n) # 0 => id = <<prefix, Talk!Index(id, prefix, n) - 1>>
<1>1. CASE id \in {<<prefix, i>> : i \in 0..(n - 1)}
  <2>1. PICK i \in 0..(n - 1) : id = <<prefix, i>>
    BY <1>1
  <2>2. Talk!Index(id, prefix, n) = i + 1
    BY <1>1, <2>1 DEF Talk!Index
  <2> QED BY <2>1, <2>2
<1>2. CASE ~(id \in {<<prefix, i>> : i \in 0..(n - 1)})
  BY <1>2 DEF Talk!Index
<1> QED BY <1>1, <1>2

(* and is found again.                                                     *)
LEMMA IndexOf ==
  ASSUME NEW prefix, NEW n \in Nat, NEW i \in 1..n
  PROVE  Talk!Index(<<prefix, i - 1>>, prefix, n) = i
<1>1. <<prefix, i - 1>> \in {<<prefix, k>> : k \in 0..(n - 1)}
  OBVIOUS
<1>2. <<prefix, i - 1>>[2] = i - 1
  OBVIOUS
<1> QED BY <1>1, <1>2 DEF Talk!Index

(* The ids of a card, kind by kind.                                        *)
LEMMA IdIs ==
  ASSUME NEW r, r.kind \in CardKinds, NEW i
  PROVE  /\ r.kind = "confirm" => Talk!Id(r, i) = IF i = 1 THEN <<"confirm">> ELSE <<"cancel">>
         /\ r.kind = "actions" => Talk!Id(r, i) = <<"action", i - 1>>
         /\ r.kind \notin {"confirm", "actions"} => Talk!Id(r, i) = <<"option", i - 1>>
BY DEF Talk!Id, CardKinds

(* The option an id names, kind by kind.                                   *)
LEMMA PlaceIs ==
  ASSUME NEW r, r.kind \in CardKinds, NEW id, NEW n
  PROVE  /\ r.kind = "confirm" => Talk!Place(r, id, n) =
              IF id = <<"confirm">> THEN 1 ELSE IF id = <<"cancel">> THEN 2 ELSE 0
         /\ r.kind = "actions" => Talk!Place(r, id, n) = Talk!Index(id, "action", n)
         /\ r.kind \notin {"confirm", "actions"}
              => Talk!Place(r, id, n) = Talk!Index(id, "option", n)
BY DEF Talk!Place, CardKinds

(* The id of an option names it,                                           *)
LEMMA PlaceOfId ==
  ASSUME NEW r, r.kind \in CardKinds, NEW n \in Nat, r.kind = "confirm" => n = 2, NEW i \in 1..n
  PROVE  Talk!Place(r, Talk!Id(r, i), n) = i
<1>1. CASE r.kind = "confirm"
  <2>1. <<"confirm">> # <<"cancel">>
    OBVIOUS
  <2>2. i = 1 \/ i = 2
    BY <1>1
  <2> QED BY <1>1, <2>1, <2>2, IdIs, PlaceIs
<1>2. CASE r.kind = "actions"
  BY <1>2, IdIs, PlaceIs, IndexOf
<1>3. CASE r.kind \notin {"confirm", "actions"}
  BY <1>3, IdIs, PlaceIs, IndexOf
<1> QED BY <1>1, <1>2, <1>3

(* and an id that names one is its id.                                     *)
LEMMA IdOfPlace ==
  ASSUME NEW r, r.kind \in CardKinds, NEW n \in Nat, r.kind = "confirm" => n = 2, NEW id
  PROVE  /\ Talk!Place(r, id, n) \in 0..n
         /\ Talk!Place(r, id, n) # 0 => id = Talk!Id(r, Talk!Place(r, id, n))
<1>1. CASE r.kind = "confirm"
  BY <1>1, IdIs, PlaceIs
<1>2. CASE r.kind = "actions"
  BY <1>2, IdIs, PlaceIs, IndexIs
<1>3. CASE r.kind \notin {"confirm", "actions"}
  BY <1>3, IdIs, PlaceIs, IndexIs
<1> QED BY <1>1, <1>2, <1>3

(* The parts of a card.                                                    *)
LEMMA CardIs ==
  ASSUME NEW r
  PROVE  LET c == Talk!Presentation(r) IN
         /\ c.kind = Talk!CardKind(r) /\ c.title = Talk!Excerpt(r.title, 26)
              /\ c.body = Talk!Excerpt(r.body, Talk!CardLimit)
         /\ DOMAIN c.fields = DOMAIN r.fields
         /\ \A f \in DOMAIN r.fields :
              /\ c.fields[f].key = Talk!Key(r, f)
                   /\ c.fields[f].label = Talk!Excerpt(r.fields[f].label, 13)
              /\ DOMAIN c.fields[f].options = DOMAIN r.fields[f].options
              /\ \A i \in DOMAIN r.fields[f].options :
                   /\ c.fields[f].options[i].id = Talk!Id(r, i)
                   /\ c.fields[f].options[i].text = Talk!Label(r, r.fields[f].options[i].label)
BY DEF Talk!Presentation

(* The card of a request.                                                  *)
LEMMA CardKindIs ==
  ASSUME NEW r, r.kind \in CardKinds
  PROVE  /\ r.kind \in {"confirm", "actions"} => Talk!CardKind(r) = "buttons"
         /\ r.kind = "form" => Talk!CardKind(r) = "form"
         /\ r.kind \in {"single-select", "multi-select"} => Talk!CardKind(r) = "vote"
BY DEF Talk!CardKind, CardKinds

(* The fields of a card have different keys.                               *)
LEMMA KeysDiffer ==
  ASSUME NEW r, Talk!IsRequest(r), NEW f \in DOMAIN r.fields, NEW g \in DOMAIN r.fields,
         Talk!Key(r, f) = Talk!Key(r, g)
  PROVE  f = g
<1>1. CASE r.kind = "form"
  <2>1. f \in Nat /\ g \in Nat
    BY DEF Talk!IsRequest, Talk!IsSeq
  <2>2. Talk!Key(r, f) = <<"field", f - 1>> /\ Talk!Key(r, g) = <<"field", g - 1>>
    BY <1>1 DEF Talk!Key
  <2>3. f - 1 = g - 1
    <3>1. \A a, b : <<"field", a>> = <<"field", b>> => a = b
      OBVIOUS
    <3> QED BY <2>2, <3>1
  <2> QED BY <2>1, <2>3
<1>2. CASE r.kind # "form"
  BY <1>2 DEF Talk!IsRequest, Talk!IsSeq
<1> QED BY <1>1, <1>2

(* The transport can show the card of every request the gateway takes.     *)
LEMMA CardRenders ==
  ASSUME NEW r, Talk!IsRequest(r), Talk!Valid(r), r.kind # "text-input"
  PROVE  Talk!Renders(Talk!Presentation(r))
<1> DEFINE c == Talk!Presentation(r)
<1>1. /\ c.kind = Talk!CardKind(r) /\ c.title = Talk!Excerpt(r.title, 26)
           /\ c.body = Talk!Excerpt(r.body, Talk!CardLimit)
      /\ DOMAIN c.fields = DOMAIN r.fields
  BY CardIs
<1>2. \A f \in DOMAIN r.fields :
        c.fields[f].key = Talk!Key(r, f) /\ c.fields[f].label = Talk!Excerpt(r.fields[f].label, 13)
  BY CardIs
<1>3. \A f \in DOMAIN r.fields :
        DOMAIN c.fields[f].options = DOMAIN r.fields[f].options
  BY CardIs
<1>4. \A f \in DOMAIN r.fields : \A i \in DOMAIN r.fields[f].options :
        /\ c.fields[f].options[i].id = Talk!Id(r, i)
        /\ c.fields[f].options[i].text = Talk!Label(r, r.fields[f].options[i].label)
  BY CardIs
<1> HIDE DEF c
<1>5. r.kind \in CardKinds
  BY DEF Talk!IsRequest, CardKinds
<1>6. c.title.len \in 1..26
  <2>1. Talk!IsText(r.title) /\ r.title.len >= 1
    BY DEF Talk!IsRequest, Talk!Valid
  <2>2. c.title.len = IF r.title.len <= 26 THEN r.title.len ELSE 26
    BY <1>1, <2>1, CutLen
  <2> QED BY <2>1, <2>2 DEF Talk!IsText
<1>7. c.body # Talk!NoText => c.body.len \in 1..Talk!CardLimit
  <2> SUFFICES ASSUME c.body # Talk!NoText
               PROVE  c.body.len \in 1..Talk!CardLimit
    OBVIOUS
  <2>1. Talk!IsText(r.body) /\ Talk!CardLimit \in Nat /\ 40 <= Talk!CardLimit
    BY Limits DEF Talk!IsRequest
  <2>2. r.body # Talk!NoText
    <3>1. Talk!Excerpt(Talk!NoText, Talk!CardLimit) = Talk!NoText
      BY <2>1, NoTextUncut
    <3> QED BY <1>1, <3>1
  <2>3. r.body.len >= 1
    BY <2>2 DEF Talk!Valid
  <2>4. c.body.len = IF r.body.len <= Talk!CardLimit THEN r.body.len ELSE Talk!CardLimit
    <3>1. Talk!Excerpt(r.body, Talk!CardLimit).len =
            IF r.body.len <= Talk!CardLimit THEN r.body.len ELSE Talk!CardLimit
      BY <2>1, CutLen
    <3> QED BY <1>1, <3>1
  <2> QED BY <2>1, <2>3, <2>4 DEF Talk!IsText
<1>8. Len(c.fields) \in 1..(IF c.kind = "form" THEN 3 ELSE 1)
  <2>1. Len(c.fields) = Len(r.fields)
    BY <1>1 DEF Talk!IsRequest, Talk!IsSeq
  <2>2. CASE r.kind = "form"
    BY <1>1, <1>5, <2>1, <2>2, CardKindIs DEF Talk!Valid
  <2>3. CASE r.kind # "form"
    <3>1. Len(r.fields) = 1 /\ c.kind # "form"
      BY <1>1, <1>5, <2>3, CardKindIs DEF Talk!IsRequest, CardKinds
    <3> QED BY <2>1, <3>1
  <2> QED BY <2>2, <2>3
<1>9. Talk!Unique([f \in DOMAIN c.fields |-> c.fields[f].key])
  BY <1>1, <1>2, KeysDiffer DEF Talk!Unique
<1>10. ASSUME NEW f \in DOMAIN c.fields
       PROVE  /\ Len(c.fields[f].options) \in 1..(CASE c.kind = "buttons" -> 6 [] c.kind = "vote" -> 20
                                                    [] OTHER -> 10)
              /\ Talk!Unique([i \in DOMAIN c.fields[f].options |-> c.fields[f].options[i].id])
              /\ \A i \in DOMAIN c.fields[f].options :
                   c.fields[f].options[i].text.len \in 1..(IF c.kind = "vote" THEN Talk!OptionLimit ELSE 10)
              /\ c.kind = "form" => c.fields[f].label.len \in 1..13
  <2> DEFINE os == r.fields[f].options
             cs == c.fields[f].options
  <2>1. /\ Talk!IsSeq(os) /\ (r.kind = "confirm" => Len(os) = 2)
        /\ \A i \in DOMAIN os : Talk!IsText(os[i].label)
    BY <1>1 DEF Talk!IsRequest
  <2>2. Talk!OptionsOk(os, Talk!Most(r.kind), Talk!Longest(r.kind))
    BY <1>1 DEF Talk!Valid
  <2>3. DOMAIN cs = DOMAIN os
    BY <1>1, <1>3
  <2>4. \A i \in DOMAIN os : cs[i].id = Talk!Id(r, i) /\ cs[i].text = Talk!Label(r, os[i].label)
    BY <1>1, <1>4
  <2>5. Talk!IsText(r.fields[f].label) /\ c.fields[f].label = Talk!Excerpt(r.fields[f].label, 13)
    BY <1>1, <1>2 DEF Talk!IsRequest
  <2> HIDE DEF os, cs
  <2>6. Len(cs) = Len(os) /\ Len(os) \in Nat /\ DOMAIN os = 1..Len(os)
    BY <2>1, <2>3 DEF Talk!IsSeq
  <2>7. Len(os) \in 1..Talk!Most(r.kind)
    BY <2>2 DEF Talk!OptionsOk
  <2>8. Len(cs) \in 1..(CASE c.kind = "buttons" -> 6 [] c.kind = "vote" -> 20 [] OTHER -> 10)
    <3>1. CASE r.kind \in {"confirm", "actions"}
      <4>0. Talk!Most(r.kind) \in Nat /\ Talk!Most(r.kind) <= 6
        BY <3>1, MostOptions
      <4>1. Len(cs) \in 1..6
        <5>1. \A n, m : m \in Nat /\ m <= 6 /\ n \in 1..m => n \in 1..6
          OBVIOUS
        <5> QED BY <4>0, <2>6, <2>7, <5>1
      <4>2. c.kind = "buttons"
        BY <1>1, <1>5, <3>1, CardKindIs
      <4> QED BY <4>1, <4>2
    <3>2. CASE r.kind \in {"single-select", "multi-select"}
      <4>1. Len(cs) \in 1..20 /\ c.kind = "vote"
        BY <1>1, <1>5, <3>2, <2>6, <2>7, MostOptions, CardKindIs
      <4> QED BY <4>1
    <3>3. CASE r.kind = "form"
      <4>1. Len(cs) \in 1..10 /\ c.kind = "form"
        BY <1>1, <1>5, <3>3, <2>6, <2>7, MostOptions, CardKindIs
      <4> QED BY <4>1
    <3> QED BY <1>5, <3>1, <3>2, <3>3 DEF CardKinds
  <2>9. Talk!Unique([i \in DOMAIN cs |-> cs[i].id])
    <3>1. \A i \in DOMAIN os : Talk!Place(r, Talk!Id(r, i), Len(os)) = i
      BY <1>5, <2>1, <2>6, PlaceOfId
    <3> QED BY <2>3, <2>4, <3>1 DEF Talk!Unique
  <2>10. ASSUME NEW i \in DOMAIN cs
         PROVE  cs[i].text.len \in 1..(IF c.kind = "vote" THEN Talk!OptionLimit ELSE 10)
    <3>1. Talk!IsText(os[i].label) /\ os[i].label.len \in 1..Talk!Longest(r.kind)
      BY <2>1, <2>2, <2>3 DEF Talk!OptionsOk
    <3>2. cs[i].text = Talk!Label(r, os[i].label)
      BY <2>3, <2>4
    <3>3. CASE Talk!CardKind(r) = "vote"
      <4>1. r.kind # "confirm"
        BY <1>5, <3>3, CardKindIs
      <4> QED BY <1>1, <3>1, <3>2, <3>3, <4>1, Longests DEF Talk!Label
    <3>4. CASE Talk!CardKind(r) # "vote"
      <4>1. cs[i].text = Talk!Excerpt(os[i].label, 10)
        BY <3>2, <3>4 DEF Talk!Label
      <4>2. cs[i].text.len = IF os[i].label.len <= 10 THEN os[i].label.len ELSE 10
        <5>1. Talk!IsText(os[i].label) /\ 10 \in Nat
          BY <3>1
        <5> QED BY <5>1, <4>1, CutLen
      <4>3. os[i].label.len \in Nat /\ os[i].label.len >= 1
        BY <3>1 DEF Talk!IsText
      <4> QED BY <1>1, <3>4, <4>2, <4>3
    <3> QED BY <3>3, <3>4
  <2>11. c.kind = "form" => c.fields[f].label.len \in 1..13
    <3> SUFFICES ASSUME c.kind = "form"
                 PROVE  c.fields[f].label.len \in 1..13
      OBVIOUS
    <3>1. r.kind = "form"
      BY <1>1, <1>5, CardKindIs DEF CardKinds
    <3>2. r.fields[f].label.len >= 1
      BY <1>1, <3>1 DEF Talk!Valid
    <3>3. c.fields[f].label.len = IF r.fields[f].label.len <= 13 THEN r.fields[f].label.len ELSE 13
      BY <2>5, CutLen
    <3> QED BY <2>5, <3>2, <3>3 DEF Talk!IsText
  <2> QED BY <2>8, <2>9, <2>10, <2>11 DEF cs
<1> QED BY <1>6, <1>7, <1>8, <1>9, <1>10 DEF Talk!Renders, c

(* What a press picks that names options only: an option is picked as its  *)
(* id is named.                                                            *)
LEMMA PickedIs ==
  ASSUME NEW r, Talk!IsRequest(r), r.kind \in CardKinds, NEW p, NEW f \in DOMAIN r.fields,
         0 \notin Talk!Picked(r, p, f)
  PROVE  /\ Talk!Picked(r, p, f) \subseteq DOMAIN r.fields[f].options
         /\ IsFiniteSet(Talk!Picked(r, p, f))
         /\ \A i \in DOMAIN r.fields[f].options : i \in Talk!Picked(r, p, f)
               <=> Talk!Id(r, i) \in Talk!Named(r, p, f)
<1> DEFINE os == r.fields[f].options
           n  == Len(os)
           P  == Talk!Picked(r, p, f)
           N  == Talk!Named(r, p, f)
<1>1. n \in Nat /\ DOMAIN os = 1..n /\ (r.kind = "confirm" => n = 2)
  BY DEF Talk!IsRequest, Talk!IsSeq
<1>2. P = {Talk!Place(r, id, n) : id \in N}
  BY DEF Talk!Picked
<1> HIDE DEF n, P, N
<1>3. \A id \in N : Talk!Place(r, id, n) \in 1..n /\ id = Talk!Id(r, Talk!Place(r, id, n))
  <2> SUFFICES ASSUME NEW id \in N
               PROVE  Talk!Place(r, id, n) \in 1..n /\ id = Talk!Id(r, Talk!Place(r, id, n))
    OBVIOUS
  <2>1. Talk!Place(r, id, n) \in 0..n
          /\ (Talk!Place(r, id, n) # 0 => id = Talk!Id(r, Talk!Place(r, id, n)))
    BY <1>1, IdOfPlace
  <2>2. Talk!Place(r, id, n) # 0
    BY <1>2 DEF P
  <2> QED BY <1>1, <2>1, <2>2
<1>4. \A i \in 1..n : Talk!Place(r, Talk!Id(r, i), n) = i
  BY <1>1, PlaceOfId
<1>5. P \subseteq 1..n
  BY <1>2, <1>3
<1>6. IsFiniteSet(1..n)
  <2>1. 1 \in Int /\ n \in Int
    BY <1>1
  <2> QED BY <2>1, FS_Interval, Zenon
<1>7. IsFiniteSet(P)
  BY <1>5, <1>6, FS_Subset
<1>8. \A i \in 1..n : i \in P <=> Talk!Id(r, i) \in N
  BY <1>2, <1>3, <1>4
<1> QED BY <1>1, <1>5, <1>7, <1>8 DEF P, N

(* The values of the options picked.                                       *)
PickedValues(r, p, f) == {r.fields[f].options[i].value : i \in Talk!Picked(r, p, f)}

(* They are the values of the result.                                      *)
LEMMA ValuesAre ==
  ASSUME NEW r, Talk!IsRequest(r), Talk!Valid(r), r.kind \in CardKinds, NEW p,
           NEW f \in DOMAIN r.fields
  PROVE  Talk!Values(r, p)[r.fields[f].id] = PickedValues(r, p, f)
<1>1. \A g \in DOMAIN r.fields : r.fields[g].id = r.fields[f].id => g = f
  <2>1. CASE r.kind = "form"
    BY <2>1 DEF Talk!Valid, Talk!Unique
  <2>2. CASE r.kind # "form"
    BY <2>2 DEF Talk!IsRequest, Talk!IsSeq
  <2> QED BY <2>1, <2>2
<1>2. (CHOOSE g \in DOMAIN r.fields : r.fields[g].id = r.fields[f].id) = f
  BY <1>1
<1> QED BY <1>2 DEF Talk!Values, PickedValues

(* And the texts of these values are those of the options picked.          *)
LEMMA TextsAre ==
  ASSUME NEW r, Talk!IsRequest(r), Talk!Valid(r), r.kind \in CardKinds, NEW p,
           NEW f \in DOMAIN r.fields,
         0 \notin Talk!Picked(r, p, f)
  PROVE  Talk!TextsOf(r, Talk!Values(r, p), f) = {Talk!Label(r, r.fields[f].options[i].label)
                                                  : i \in Talk!Picked(r, p, f)}
<1> DEFINE os == r.fields[f].options
           P  == Talk!Picked(r, p, f)
           V  == Talk!Values(r, p)[r.fields[f].id]
<1>1. V = {os[i].value : i \in P} /\ P \subseteq DOMAIN os
  <2>1. V = {os[i].value : i \in P}
    <3>1. V = PickedValues(r, p, f)
      BY ValuesAre
    <3> QED BY <3>1 DEF PickedValues
  <2>2. P \subseteq DOMAIN os
    BY PickedIs
  <2> QED BY <2>1, <2>2
<1>2. Talk!Unique([i \in DOMAIN os |-> os[i].value])
  BY DEF Talk!Valid, Talk!OptionsOk, CardKinds
<1>3. Talk!TextsOf(r, Talk!Values(r, p), f) = {Talk!Label(r, os[i].label)
                                               : i \in {i \in DOMAIN os : os[i].value \in V}}
  BY DEF Talk!TextsOf, CardKinds
<1> HIDE DEF os, P, V
<1>4. \A i, j \in DOMAIN os : os[i].value = os[j].value => i = j
  BY <1>2 DEF Talk!Unique
<1>5. {i \in DOMAIN os : os[i].value \in V} = P
  BY <1>1, <1>4
<1> QED BY <1>3, <1>5 DEF os, P

(* Cardinality is in Dialogue what it is here.                             *)
LEMMA TalkCount == \A S : Talk!Cardinality(S) = Cardinality(S)
BY DEF Talk!Cardinality, Cardinality

(* One option is picked where one can be.                                  *)
LEMMA PickedOne ==
  ASSUME NEW r, Talk!IsRequest(r), r.kind \in CardKinds \ {"multi-select"}, NEW p, Talk!Fits(r, p),
         NEW f \in DOMAIN r.fields
  PROVE  \E i \in DOMAIN r.fields[f].options : Talk!Picked(r, p, f) = {i}
<1>1. 0 \notin Talk!Picked(r, p, f) /\ Cardinality(Talk!Picked(r, p, f)) = 1
  BY TalkCount DEF Talk!Fits
<1>2. IsFiniteSet(Talk!Picked(r, p, f)) /\ Talk!Picked(r, p, f) \subseteq DOMAIN r.fields[f].options
  BY <1>1, PickedIs
<1>3. PICK i : Talk!Picked(r, p, f) = {i}
  BY <1>1, <1>2, FS_Singleton
<1> QED BY <1>2, <1>3

(* The id of an option is not that of a field left out.                    *)
LEMMA NotBlankId ==
  ASSUME NEW r, r.kind \in CardKinds, r.kind \notin {"confirm", "actions"}, NEW i
  PROVE  Talk!Id(r, i) # <<>>
<1>1. <<"option", i - 1>> # <<>>
  OBVIOUS
<1> QED BY <1>1, IdIs

(* What the human reads of the options pressed is what the gateway picks.  *)
LEMMA ReadingIs ==
  ASSUME NEW r, Talk!IsRequest(r), r.kind \in CardKinds, dg_card = Talk!Presentation(r), NEW p,
           Talk!Fits(r, p)
  PROVE  /\ Talk!Reading(p) = [f \in DOMAIN r.fields |-> Talk!Reading(p)[f]]
         /\ \A f \in DOMAIN r.fields : Talk!Reading(p)[f] =
              {Talk!Label(r, r.fields[f].options[i].label) : i \in Talk!Picked(r, p, f)}
<1>1. dg_card.kind = Talk!CardKind(r) /\ DOMAIN dg_card.fields = DOMAIN r.fields
  BY CardIs
<1>2. Talk!Reading(p) = [f \in DOMAIN r.fields |-> Talk!Reading(p)[f]]
  BY <1>1 DEF Talk!Reading
<1>3. ASSUME NEW f \in DOMAIN r.fields
      PROVE  Talk!Reading(p)[f] = {Talk!Label(r, r.fields[f].options[i].label)
                                   : i \in Talk!Picked(r, p, f)}
  <2> DEFINE os == r.fields[f].options
             cs == dg_card.fields[f].options
             N  == Talk!Named(r, p, f)
             P  == Talk!Picked(r, p, f)
             shown == {i \in DOMAIN cs :
               IF dg_card.kind = "buttons" THEN cs[i].id = p.action
               ELSE /\ Talk!Selects(p, dg_card.fields[f].key)
                 /\ cs[i].id \in Talk!Selection(p, dg_card.fields[f].key)}
  <2>1. dg_card.fields[f].key = Talk!Key(r, f) /\ DOMAIN cs = DOMAIN os
    BY CardIs
  <2>2. \A i \in DOMAIN os : cs[i].id = Talk!Id(r, i) /\ cs[i].text = Talk!Label(r, os[i].label)
    BY CardIs
  <2>3. Talk!Reading(p)[f] = {cs[i].text : i \in shown}
    BY <1>1 DEF Talk!Reading
  <2>4. P \subseteq DOMAIN os /\ \A i \in DOMAIN os : i \in P <=> Talk!Id(r, i) \in N
    BY PickedIs DEF Talk!Fits
  <2>5. shown = P
    <3>1. \A i \in DOMAIN os : i \in shown <=> Talk!Id(r, i) \in N
      <4>1. CASE r.kind \in {"confirm", "actions"}
        <5>1. dg_card.kind = "buttons" /\ N = {p.action}
          BY <1>1, <4>1, CardKindIs DEF Talk!Named
        <5> HIDE DEF N
        <5> QED BY <5>1, <2>1, <2>2
      <4>2. CASE r.kind \notin {"confirm", "actions"}
        <5>1. dg_card.kind # "buttons"
          BY <1>1, <4>2, CardKindIs DEF CardKinds
        <5>2. N = IF Talk!Selects(p, Talk!Key(r, f)) THEN Talk!Selection(p, Talk!Key(r, f))
                  ELSE {<<>>}
          BY <4>2 DEF Talk!Named
        <5>3. \A i : Talk!Id(r, i) # <<>>
          BY <4>2, NotBlankId
        <5> HIDE DEF N
        <5> QED BY <5>1, <5>2, <5>3, <2>1, <2>2
      <4> QED BY <4>1, <4>2
    <3>2. shown \subseteq DOMAIN os
      BY <2>1
    <3> HIDE DEF shown, P, N, os
    <3> QED BY <3>1, <3>2, <2>4
  <2> HIDE DEF shown
  <2>6. {cs[i].text : i \in P} = {Talk!Label(r, os[i].label) : i \in P}
    BY <2>2, <2>4
  <2> QED BY <2>3, <2>5, <2>6
<1> QED BY <1>2, <1>3

(* The result of a press: a cancelled confirmation, or the values of the   *)
(* texts picked.                                                           *)
LEMMA ResultIs ==
  ASSUME NEW r, Talk!IsRequest(r), Talk!Valid(r), r.kind \in CardKinds, NEW p, Talk!Fits(r, p)
  PROVE  LET res == Talk!ResultOf(r, p) IN
         /\ res.status \in {"submitted", "cancelled"}
         /\ res.status = "cancelled" => r.kind = "confirm" /\ Talk!Picked(r, p, 1) = {2}
         /\ res.status = "submitted" =>
              /\ \A f \in DOMAIN r.fields : Talk!TextsOf(r, res.values, f) =
                   {Talk!Label(r, r.fields[f].options[i].label) : i \in Talk!Picked(r, p, f)}
              /\ r.kind # "multi-select" =>
                   \A f \in DOMAIN r.fields : \E i \in DOMAIN r.fields[f].options :
                     res.values[r.fields[f].id] = {r.fields[f].options[i].value}
<1> DEFINE res == Talk!ResultOf(r, p)
<1>1. /\ res.status \in {"submitted", "cancelled"}
      /\ res.status = "cancelled" => r.kind = "confirm" /\ Talk!Picked(r, p, 1) = {2}
      /\ res.status = "submitted" => res.values = Talk!Values(r, p)
  BY DEF Talk!ResultOf
<1> HIDE DEF res
<1>2. \A f \in DOMAIN r.fields : 0 \notin Talk!Picked(r, p, f)
  BY DEF Talk!Fits
<1>3. \A f \in DOMAIN r.fields : Talk!TextsOf(r, Talk!Values(r, p), f) =
                   {Talk!Label(r, r.fields[f].options[i].label) : i \in Talk!Picked(r, p, f)}
  BY <1>2, TextsAre
<1>4. ASSUME r.kind # "multi-select", NEW f \in DOMAIN r.fields
      PROVE  \E i \in DOMAIN r.fields[f].options :
                     Talk!Values(r, p)[r.fields[f].id] = {r.fields[f].options[i].value}
  <2>1. Talk!Values(r, p)[r.fields[f].id] = {r.fields[f].options[i].value
                                             : i \in Talk!Picked(r, p, f)}
    <3>1. Talk!Values(r, p)[r.fields[f].id] = PickedValues(r, p, f)
      BY ValuesAre
    <3> QED BY <3>1 DEF PickedValues
  <2>2. PICK i \in DOMAIN r.fields[f].options : Talk!Picked(r, p, f) = {i}
    BY <1>4, PickedOne
  <2> QED BY <2>1, <2>2
<1> QED BY <1>1, <1>3, <1>4 DEF res

(* A press of a row of options of every field is taken, if there are as    *)
(* many as the request wants.                                              *)
LEMMA PressFits ==
  ASSUME NEW r, Talk!IsRequest(r), Talk!Valid(r), r.kind \in CardKinds,
         NEW n \in IF r.kind = "multi-select" THEN r.min..r.max ELSE {1},
         NEW from \in [DOMAIN r.fields -> Nat \ {0}],
         \A f \in DOMAIN r.fields : from[f] + n <= Len(r.fields[f].options) + 1
  PROVE  Talk!Fits(r, Talk!PressOf(Talk!Presentation(r), from, n))
<1> DEFINE c == Talk!Presentation(r)
           p == Talk!PressOf(c, from, n)
<1>0. n \in Nat /\ \A f \in DOMAIN r.fields : from[f] \in Nat \ {0}
  BY DEF Talk!IsRequest
<1>1. /\ DOMAIN c.fields = DOMAIN r.fields /\ c.kind = Talk!CardKind(r)
      /\ \A f \in DOMAIN r.fields : c.fields[f].key = Talk!Key(r, f)
  BY CardIs
<1>2. \A f \in DOMAIN r.fields : \A i \in DOMAIN r.fields[f].options :
        c.fields[f].options[i].id = Talk!Id(r, i)
  BY CardIs
<1>3. /\ c.kind = "buttons" => p.action = c.fields[1].options[from[1]].id
      /\ DOMAIN p.items = DOMAIN c.fields
      /\ \A f \in DOMAIN c.fields : p.items[f].key = c.fields[f].key
      /\ \A f \in DOMAIN c.fields : p.items[f].ids =
                                 [i \in 1..n |-> c.fields[f].options[from[f] + i - 1].id]
  BY DEF Talk!PressOf
<1> HIDE DEF c, p
<1>4. ASSUME NEW f \in DOMAIN r.fields
      PROVE  /\ 0 \notin Talk!Picked(r, p, f) /\ Cardinality(Talk!Picked(r, p, f)) = n
  <2> DEFINE os == r.fields[f].options
             from_f == from[f]
             m == Len(os)
  <2>1. m \in Nat /\ DOMAIN os = 1..m /\ (r.kind = "confirm" => m = 2)
    BY DEF Talk!IsRequest, Talk!IsSeq
  <2>2. from_f \in Nat \ {0} /\ from_f + n <= m + 1
    BY <1>0
  <2>3. \A i \in 1..n : from_f + i - 1 \in 1..m
    BY <1>0, <2>1, <2>2
  <2>4. \A i \in 1..m : c.fields[f].options[i].id = Talk!Id(r, i)
          /\ Talk!Place(r, Talk!Id(r, i), m) = i
    BY <1>2, <2>1, PlaceOfId
  <2>5. Talk!Picked(r, p, f) = {Talk!Place(r, id, m) : id \in Talk!Named(r, p, f)}
    BY DEF Talk!Picked
  <2> HIDE DEF m, from_f
  <2>6. Talk!Named(r, p, f) = {Talk!Id(r, from_f + i - 1) : i \in 1..n}
    <3>1. CASE r.kind \in {"confirm", "actions"}
      <4>1. n = 1 /\ f = 1
        BY <3>1 DEF Talk!IsRequest, Talk!IsSeq
      <4>2. p.action = c.fields[1].options[from[1]].id
        BY <3>1, <1>1, <1>3, CardKindIs
      <4>3. from_f \in 1..m
        BY <4>1, <2>1, <2>2
      <4>4. p.action = Talk!Id(r, from_f)
        BY <4>1, <4>2, <4>3, <2>4 DEF from_f
      <4>5. Talk!Named(r, p, f) = {p.action}
        BY <3>1 DEF Talk!Named
      <4>6. from_f + 1 - 1 = from_f
        BY <2>2
      <4> QED BY <4>1, <4>4, <4>5, <4>6
    <3>2. CASE r.kind \notin {"confirm", "actions"}
      <4> DEFINE key == Talk!Key(r, f)
      <4>1. f \in DOMAIN p.items /\ p.items[f].key = key
        BY <1>1, <1>3
      <4>2. \A g \in DOMAIN p.items : p.items[g].key = key => g = f
        BY <1>1, <1>3, KeysDiffer
      <4>3. f \in Nat /\ f >= 1 /\ DOMAIN p.items = 1..Len(r.fields)
        BY <1>1, <1>3 DEF Talk!IsRequest, Talk!IsSeq
      <4>4. \A j \in 1..(f - 1) : p.items[j].key # key
        <5> SUFFICES ASSUME NEW j \in 1..(f - 1) PROVE p.items[j].key # key
          OBVIOUS
        <5>1. j \in 1..Len(r.fields) /\ j # f
          BY <4>1, <4>3 DEF Talk!IsRequest, Talk!IsSeq
        <5> QED BY <5>1, <4>2, <4>3
      <4> HIDE DEF key
      <4>5. (CHOOSE i \in DOMAIN p.items :
                 p.items[i].key = key /\ \A j \in 1..(i - 1) : p.items[j].key # key) = f
        BY <4>1, <4>2, <4>4
      <4>6. Talk!Selects(p, key) /\ Talk!Selection(p, key) = Talk!ToSet(p.items[f].ids)
        BY <4>1, <4>5 DEF Talk!Selects, Talk!Selection
      <4> DEFINE ids == p.items[f].ids
      <4>7. ids = [i \in 1..n |-> c.fields[f].options[from_f + i - 1].id]
        BY <1>1, <1>3 DEF from_f
      <4> HIDE DEF ids
      <4>8. DOMAIN ids = 1..n /\ \A i \in 1..n : ids[i] = Talk!Id(r, from_f + i - 1)
        BY <4>7, <2>3, <2>4
      <4>9. Talk!ToSet(ids) = {ids[i] : i \in DOMAIN ids}
        BY DEF Talk!ToSet
      <4>10. Talk!ToSet(ids) = {Talk!Id(r, from_f + i - 1) : i \in 1..n}
        BY <4>8, <4>9
      <4> QED BY <3>2, <4>6, <4>10 DEF Talk!Named, key, ids
    <3> QED BY <3>1, <3>2
  <2>7. Talk!Picked(r, p, f) = {from_f + i - 1 : i \in 1..n}
    BY <2>3, <2>4, <2>5, <2>6
  <2>8. Talk!Picked(r, p, f) = from_f..(from_f + n - 1)
    <3>1. \A k \in from_f..(from_f + n - 1) : k - from_f + 1 \in 1..n
            /\ from_f + (k - from_f + 1) - 1 = k
      BY <1>0, <2>2
    <3>2. \A i \in 1..n : from_f + i - 1 \in from_f..(from_f + n - 1)
      BY <1>0, <2>2
    <3> QED BY <2>7, <3>1, <3>2
  <2>9. Cardinality(Talk!Picked(r, p, f)) = n
    <3>1. from_f \in Int /\ from_f + n - 1 \in Int
      BY <1>0, <2>2
    <3>2. Cardinality(from_f..(from_f + n - 1)) =
            IF from_f > from_f + n - 1 THEN 0 ELSE (from_f + n - 1) - from_f + 1
      BY <3>1, FS_Interval, Zenon
    <3> QED BY <1>0, <2>2, <2>8, <3>2
  <2>10. 0 \notin Talk!Picked(r, p, f)
    BY <2>2, <2>8
  <2> QED BY <2>9, <2>10
<1> QED BY <1>4, TalkCount DEF Talk!Fits, p, c

-----------------------------------------------------------------------------
(* The dialogue: what is answered is what was asked                        *)

(* The ways of the Codex adapter to put its questions.                     *)
LEMMA ModeIs ==
  ASSUME NEW qs, Talk!IsSeq(qs), Talk!Parsed(qs)
  PROVE  /\ Talk!Mode(qs) \in {"single", "form", "sequential"}
         /\ Talk!Mode(qs) = "single" => Len(qs) = 1
         /\ Talk!Mode(qs) = "form" => Talk!FitsForm(qs)
BY DEF Talk!Mode

(* The request of one question.                                            *)
LEMMA CodexQuestionIs ==
  ASSUME NEW q, NEW k
  PROVE  /\ Talk!Closed(q)
              => Talk!CodexQuestion(q, k) = Talk!Ask("single-select", q.header, q.prompt,
                                                     <<Talk!CodexField(q, k)>>)
         /\ ~Talk!Closed(q) => Talk!CodexQuestion(q, k) =
              Talk!Ask("text-input", q.header, q.prompt,
                       <<Talk!FieldOf(<<"question", k>>, Talk!NoText, <<>>)>>)
BY DEF Talk!CodexQuestion

(* The question a field of the request is.                                 *)
Asked(at, f) == IF at.mode = "form" THEN f ELSE at.at

(* An option is found again by its value.                                  *)
LEMMA CodexSelected ==
  ASSUME NEW q, IsQuestion(q), NEW k, NEW i \in DOMAIN q.options
  PROVE  Talk!Selected(q, k, <<"option", k, i>>) = q.options[i]
<1>1. \A j : <<"option", k, i>> = <<"option", k, j>> => i = j
  OBVIOUS
<1>2. (CHOOSE j \in DOMAIN q.options : <<"option", k, i>> = <<"option", k, j>>) = i
  BY <1>1
<1> QED BY <1>2 DEF Talk!Selected

(* The answer to a question is the text picked in its field, if the card   *)
(* shows it whole,                                                         *)
LEMMA CodexFieldAnswer ==
  ASSUME NEW q, IsQuestion(q), Talk!WellPut(q), Talk!Closed(q), NEW k, NEW r, r.kind # "text-input",
           NEW f,
         r.fields[f] = Talk!CodexField(q, k),
           \A t : (\E i \in DOMAIN q.options : t = q.options[i]) => Talk!Label(r, t) = t,
         NEW values, \E i \in DOMAIN r.fields[f].options :
           values[r.fields[f].id] = {r.fields[f].options[i].value}
  PROVE  Talk!AnswerTo(q, k, r, values) = Talk!TextsOf(r, values, f)
<1> DEFINE os == r.fields[f].options
           V  == values[<<"question", k>>]
<1>1. /\ r.fields[f].id = <<"question", k>>
      /\ \A i \in DOMAIN os : i \in DOMAIN q.options /\ os[i].value = <<"option", k, i>>
           /\ os[i].label = q.options[i]
  BY CodexFieldIs
<1>2. PICK i \in DOMAIN os : V = {os[i].value}
  BY <1>1
<1>3. Talk!AnswerTo(q, k, r, values) = {Talk!Selected(q, k, v) : v \in V}
  BY DEF Talk!AnswerTo
<1>4. Talk!TextsOf(r, values, f) = {Talk!Label(r, os[j].label)
                                    : j \in {j \in DOMAIN os : os[j].value \in V}}
  BY <1>1 DEF Talk!TextsOf
<1> HIDE DEF os, V
<1>5. V = {<<"option", k, i>>} /\ i \in DOMAIN q.options
  BY <1>1, <1>2
<1>6. Talk!AnswerTo(q, k, r, values) = {q.options[i]}
  <2>1. Talk!Selected(q, k, <<"option", k, i>>) = q.options[i]
    BY <1>5, CodexSelected
  <2> QED BY <1>3, <1>5, <2>1
<1>7. {j \in DOMAIN os : os[j].value \in V} = {i}
  <2>1. \A j \in DOMAIN os : <<"option", k, j>> = <<"option", k, i>> => j = i
    OBVIOUS
  <2> QED BY <1>1, <1>2, <1>5, <2>1
<1>8. Talk!TextsOf(r, values, f) = {Talk!Label(r, os[i].label)}
  BY <1>4, <1>7
<1>9. Talk!Label(r, os[i].label) = q.options[i]
  BY <1>1, <1>2, <1>5
<1> QED BY <1>6, <1>8, <1>9

(* as a vote does,                                                         *)
LEMMA CodexOneAnswer ==
  ASSUME NEW q, IsQuestion(q), Talk!WellPut(q), NEW k, NEW r, r = Talk!CodexQuestion(q, k),
         NEW f \in DOMAIN r.fields, NEW values,
         r.kind # "text-input" => \E i \in DOMAIN r.fields[f].options :
           values[r.fields[f].id] = {r.fields[f].options[i].value}
  PROVE  Talk!AnswerTo(q, k, r, values) = Talk!TextsOf(r, values, f)
<1>1. CASE Talk!Closed(q)
  <2>1. r = Talk!Ask("single-select", q.header, q.prompt, <<Talk!CodexField(q, k)>>)
    BY <1>1, CodexQuestionIs
  <2>2. r.kind = "single-select" /\ r.fields = <<Talk!CodexField(q, k)>>
    BY <2>1, AskIs
  <2>3. r.fields[f] = Talk!CodexField(q, k) /\ r.kind # "text-input"
    BY <2>2
  <2>4. \A t : Talk!Label(r, t) = t
    <3>1. Talk!CardKind(r) = "vote"
      BY <2>2, CardKindIs DEF CardKinds
    <3> QED BY <3>1 DEF Talk!Label
  <2>5. \E i \in DOMAIN r.fields[f].options :
          values[r.fields[f].id] = {r.fields[f].options[i].value}
    BY <2>3
  <2> QED BY <1>1, <2>3, <2>4, <2>5, CodexFieldAnswer
<1>2. CASE ~Talk!Closed(q)
  <2>1. r = Talk!Ask("text-input", q.header, q.prompt,
                     <<Talk!FieldOf(<<"question", k>>, Talk!NoText, <<>>)>>)
    BY <1>2, CodexQuestionIs
  <2>2. r.kind = "text-input" /\ r.fields = <<Talk!FieldOf(<<"question", k>>, Talk!NoText, <<>>)>>
    BY <2>1, AskIs
  <2>3. r.fields[f].id = <<"question", k>>
    BY <2>2 DEF Talk!FieldOf
  <2> QED BY <2>2, <2>3 DEF Talk!AnswerTo, Talk!TextsOf
<1> QED BY <1>1, <1>2

(* and a form the adapter has chosen.                                      *)
LEMMA CodexAnswer ==
  ASSUME NEW qs, Talk!IsSeq(qs), \A k \in DOMAIN qs : IsQuestion(qs[k]), Talk!Parsed(qs),
         NEW at, at.mode = Talk!Mode(qs), at.at \in 1..Len(qs),
         NEW r, r = AskedBy(qs, at), NEW f \in DOMAIN r.fields, NEW values,
         r.kind # "text-input" => \E i \in DOMAIN r.fields[f].options :
           values[r.fields[f].id] = {r.fields[f].options[i].value}
  PROVE  Talk!AnswerTo(qs[Asked(at, f)], Asked(at, f), r, values) = Talk!TextsOf(r, values, f)
<1>1. \A k \in DOMAIN qs : IsQuestion(qs[k]) /\ Talk!WellPut(qs[k])
  BY DEF Talk!Parsed
<1>2. CASE at.mode = "form"
  <2>1. Talk!FitsForm(qs)
    BY <1>2, ModeIs
  <2>2. r = Talk!Ask("form", Talk!Word("codex", 12), qs[1].prompt,
                     [k \in DOMAIN qs |-> Talk!CodexField(qs[k], k)])
    BY <1>2 DEF AskedBy, Talk!CodexRequest
  <2>3. r.kind = "form" /\ r.fields = [k \in DOMAIN qs |-> Talk!CodexField(qs[k], k)]
    BY <2>2, AskIs
  <2>4. f \in DOMAIN qs /\ r.fields[f] = Talk!CodexField(qs[f], f) /\ Asked(at, f) = f
    BY <1>2, <2>3 DEF Asked
  <2>5. Talk!Closed(qs[f]) /\ \A i \in DOMAIN qs[f].options : qs[f].options[i].len <= 10
    BY <2>1, <2>4 DEF Talk!FitsForm
  <2>6. \A t : (\E i \in DOMAIN qs[f].options : t = qs[f].options[i]) => Talk!Label(r, t) = t
    BY <2>5 DEF Talk!Label, Talk!Excerpt
  <2>7. r.kind # "text-input"
    BY <2>3
  <2>8. IsQuestion(qs[f]) /\ Talk!WellPut(qs[f])
    BY <1>1, <2>4
  <2>9. \E i \in DOMAIN r.fields[f].options :
          values[r.fields[f].id] = {r.fields[f].options[i].value}
    BY <2>7
  <2> DEFINE q == qs[f]
  <2>10. /\ IsQuestion(q) /\ Talk!WellPut(q) /\ Talk!Closed(q)
              /\ r.fields[f] = Talk!CodexField(q, f)
         /\ \A t : (\E i \in DOMAIN q.options : t = q.options[i]) => Talk!Label(r, t) = t
    BY <2>4, <2>5, <2>6, <2>8
  <2> HIDE DEF q
  <2>11. Talk!AnswerTo(q, f, r, values) = Talk!TextsOf(r, values, f)
    BY <2>7, <2>9, <2>10, CodexFieldAnswer
  <2> QED BY <2>4, <2>11 DEF q
<1>3. CASE at.mode # "form"
  <2> DEFINE k == at.at
             q == qs[k]
  <2>1. r = Talk!CodexQuestion(q, k) /\ Asked(at, f) = k /\ k \in DOMAIN qs
    BY <1>3 DEF AskedBy, Asked, Talk!IsSeq
  <2>2. IsQuestion(q) /\ Talk!WellPut(q)
    BY <1>1, <2>1
  <2> HIDE DEF q, k
  <2>3. Talk!AnswerTo(q, k, r, values) = Talk!TextsOf(r, values, f)
    BY <2>1, <2>2, CodexOneAnswer
  <2> QED BY <2>1, <2>3 DEF q
<1> QED BY <1>2, <1>3

(* A row of answers behind others.                                         *)
LEMMA Joined ==
  ASSUME NEW S, NEW m \in Seq(S), NEW n \in Nat, NEW g, g = [f \in 1..n |-> g[f]]
  PROVE  /\ \E T : m \o g \in Seq(T)
         /\ Len(m \o g) = Len(m) + n
         /\ \A i \in 1..Len(m) : (m \o g)[i] = m[i]
         /\ \A f \in 1..n : (m \o g)[Len(m) + f] = g[f]
<1> DEFINE T == S \union {g[f] : f \in 1..n}
<1>1. m \in Seq(T)
  OBVIOUS
<1>2. g \in Seq(T) /\ Len(g) = n
  OBVIOUS
<1> HIDE DEF T
<1>3. m \o g \in Seq(T) /\ Len(m \o g) = Len(m) + n
  BY <1>1, <1>2
<1>4. \A i \in 1..Len(m) : (m \o g)[i] = m[i]
  BY <1>1, <1>2
<1>5. \A f \in 1..n : (m \o g)[Len(m) + f] = g[f]
  BY <1>1, <1>2
<1> QED BY <1>3, <1>4, <1>5

(* One answer behind others.                                               *)
LEMMA Longer ==
  ASSUME NEW S, NEW m \in Seq(S), NEW e
  PROVE  /\ \E T : Append(m, e) \in Seq(T)
         /\ Len(Append(m, e)) = Len(m) + 1
         /\ \A i \in 1..Len(m) : Append(m, e)[i] = m[i]
         /\ Append(m, e)[Len(m) + 1] = e
<1>1. m \in Seq(S \union {e})
  OBVIOUS
<1>2. Append(m, e) \in Seq(S \union {e})
  BY <1>1
<1> QED BY <1>1, <1>2

(* What is asked is a request the types allow, and all but a request of    *)
(* the host and a dialog with a blank title are well formed.               *)
LEMMA RequestKnown ==
  ASSUME Talk!DialogueAssumption, Talk!TypeOK, TalkOrigin, dg_step \in Underway
  PROVE  /\ Talk!IsRequest(dg_request)
         /\ ~Talk!Valid(dg_request) => dg_asker = "offer" \/
              (dg_asker = "pi" /\ dg_question.title.len = 0 /\ dg_question.title # Talk!NoText)
<1>0. dg_asker \in {"codex", "pi", "offer"}
  BY DEF Talk!TypeOK, TalkOrigin
<1>1. CASE dg_asker = "codex"
  <2>1. /\ dg_question \in Questions /\ Talk!Parsed(dg_question)
             /\ dg_pending.mode = Talk!Mode(dg_question)
        /\ dg_pending.at \in 1..Len(dg_question) /\ dg_request = AskedBy(dg_question, dg_pending)
    BY <1>1 DEF TalkOrigin
  <2>2. Talk!IsSeq(dg_question) /\ \A k \in DOMAIN dg_question : IsQuestion(dg_question[k])
    BY <2>1 DEF Talk!DialogueAssumption, IsQuestion
  <2> QED BY <2>1, <2>2, CodexRequestsOk
<1>2. CASE dg_asker = "pi"
  <2>1. dg_question \in Dialogs /\ Talk!PiAsks(dg_question)
          /\ dg_request = Talk!PiRequest(dg_question)
    BY <1>2 DEF TalkOrigin
  <2>2. IsDialog(dg_question)
    BY <2>1 DEF Talk!DialogueAssumption, IsDialog
  <2> QED BY <1>2, <2>1, <2>2, PiRequestsOk
<1>3. CASE dg_asker = "offer"
  <2>1. dg_request \in Offers
    BY <1>3 DEF TalkOrigin
  <2>2. \A r \in Offers : Talk!IsRequest(r)
    BY DEF Talk!DialogueAssumption
  <2> QED BY <1>3, <2>1, <2>2
<1> QED BY <1>0, <1>1, <1>2, <1>3

-----------------------------------------------------------------------------
(* The dialogue: its steps                                                 *)

(* No question of Codex is at hand,                                        *)
LEMMA NoPendingAt ==
  Talk!NoPending.at = 1 /\ Talk!NoPending.mode = "none" /\ DOMAIN Talk!NoPending = {"mode", "at"}
BY DEF Talk!NoPending

(* and there is no result.                                                 *)
LEMMA NoResultYet == Talk!NoResult.status = "none"
BY DEF Talk!NoResult

(* The questions of a dialogue are asked one by one or all at once.        *)
LEMMA CodexKnown ==
  ASSUME Talk!DialogueAssumption, TalkOrigin, dg_step \in Underway, dg_asker = "codex"
  PROVE  /\ Talk!IsSeq(dg_question) /\ \A k \in DOMAIN dg_question : IsQuestion(dg_question[k])
         /\ Talk!Parsed(dg_question) /\ dg_pending.mode = Talk!Mode(dg_question)
         /\ dg_pending.at \in 1..Len(dg_question) /\ Len(dg_question) \in 1..3
         /\ DOMAIN dg_question = 1..Len(dg_question)
         /\ dg_request = AskedBy(dg_question, dg_pending)
         /\ dg_pending.mode = "form" => /\ dg_request.kind = "form" /\ dg_pending.at = 1
                                     /\ DOMAIN dg_request.fields = DOMAIN dg_question
         /\ dg_pending.mode # "form" => /\ dg_request.kind # "form" /\ DOMAIN dg_request.fields = {1}
<1>1. /\ dg_question \in Questions /\ Talk!Parsed(dg_question)
           /\ dg_pending.mode = Talk!Mode(dg_question)
      /\ dg_pending.at \in 1..Len(dg_question) /\ dg_request = AskedBy(dg_question, dg_pending)
      /\ dg_pending.mode # "sequential" => dg_pending.at = 1
  BY DEF TalkOrigin
<1>2. Talk!IsSeq(dg_question) /\ \A k \in DOMAIN dg_question : IsQuestion(dg_question[k])
  BY <1>1 DEF Talk!DialogueAssumption, IsQuestion
<1>3. Len(dg_question) \in 1..3 /\ DOMAIN dg_question = 1..Len(dg_question)
  BY <1>1, <1>2 DEF Talk!Parsed, Talk!IsSeq
<1>4. CASE dg_pending.mode = "form"
  <2>1. dg_request = Talk!Ask("form", Talk!Word("codex", 12), dg_question[1].prompt,
                      [k \in DOMAIN dg_question |-> Talk!CodexField(dg_question[k], k)])
    BY <1>1, <1>4 DEF AskedBy, Talk!CodexRequest
  <2>2. dg_request.kind = "form"
        /\ dg_request.fields = [k \in DOMAIN dg_question |-> Talk!CodexField(dg_question[k], k)]
    BY <2>1, AskIs
  <2>3. DOMAIN dg_request.fields = DOMAIN dg_question
    BY <2>2
  <2>4. dg_pending.at = 1
    BY <1>1, <1>4
  <2> QED BY <1>1, <1>2, <1>3, <1>4, <2>2, <2>3, <2>4
<1>5. CASE dg_pending.mode # "form"
  <2> DEFINE k == dg_pending.at
             q == dg_question[k]
  <2>1. dg_request = Talk!CodexQuestion(q, k)
    BY <1>1, <1>5 DEF AskedBy
  <2>4. dg_request.kind # "form" /\ DOMAIN dg_request.fields = {1}
    <3>0. \A x : DOMAIN <<x>> = {1}
      OBVIOUS
    <3>1. CASE Talk!Closed(q)
      <4>1. dg_request = Talk!Ask("single-select", q.header, q.prompt, <<Talk!CodexField(q, k)>>)
        BY <2>1, <3>1, CodexQuestionIs
      <4> HIDE DEF q, k
      <4>2. dg_request.kind = "single-select" /\ dg_request.fields = <<Talk!CodexField(q, k)>>
        BY <4>1, AskIs
      <4> QED BY <3>0, <4>2
    <3>2. CASE ~Talk!Closed(q)
      <4>1. dg_request = Talk!Ask("text-input", q.header, q.prompt,
                                  <<Talk!FieldOf(<<"question", k>>, Talk!NoText, <<>>)>>)
        BY <2>1, <3>2, CodexQuestionIs
      <4> HIDE DEF q, k
      <4>2. dg_request.kind = "text-input"
              /\ dg_request.fields = <<Talk!FieldOf(<<"question", k>>, Talk!NoText, <<>>)>>
        BY <4>1, AskIs
      <4> QED BY <3>0, <4>2
    <3> QED BY <3>1, <3>2
  <2> QED BY <1>1, <1>2, <1>3, <1>5, <2>4
<1> QED BY <1>4, <1>5

(* No dialogue has more than three answers.                                *)
LEMMA FieldsFit ==
  ASSUME Talk!DialogueAssumption, Talk!TypeOK, TalkOrigin, dg_step \in Underway,
           Talk!Valid(dg_request)
  PROVE  /\ Talk!IsRequest(dg_request) /\ Len(dg_request.fields) \in Nat
         /\ DOMAIN dg_request.fields = 1..Len(dg_request.fields)
         /\ dg_pending.at \in Nat \ {0} /\ dg_pending.at - 1 + Len(dg_request.fields) <= 3
         /\ dg_request.kind # "form" => Len(dg_request.fields) = 1 /\ DOMAIN dg_request.fields = {1}
         /\ dg_asker # "codex" => dg_pending.at = 1
<1>1. Talk!IsRequest(dg_request)
  BY RequestKnown
<1>2. Len(dg_request.fields) \in Nat /\ DOMAIN dg_request.fields = 1..Len(dg_request.fields)
  BY <1>1 DEF Talk!IsRequest, Talk!IsSeq
<1>3. dg_request.kind # "form" => Len(dg_request.fields) = 1 /\ DOMAIN dg_request.fields = {1}
  <2>1. dg_request.kind # "form" => Len(dg_request.fields) = 1
    BY <1>1 DEF Talk!IsRequest
  <2>2. Len(dg_request.fields) = 1 => DOMAIN dg_request.fields = {1}
    <3>1. 1..1 = {1}
      OBVIOUS
    <3> QED BY <1>2, <3>1
  <2> QED BY <2>1, <2>2
<1>4. dg_request.kind = "form" => Len(dg_request.fields) \in 1..3
  BY DEF Talk!Valid
<1>5. Len(dg_request.fields) \in 0..3
  BY <1>2, <1>3, <1>4
<1>6. CASE dg_asker = "codex"
  <2>1. dg_pending.at \in 1..3 /\ (dg_pending.at = 1 \/ dg_request.kind # "form")
    <3>1. dg_pending.at \in 1..Len(dg_question) /\ Len(dg_question) \in 1..3
          /\ (dg_pending.mode = "form" => dg_pending.at = 1)
          /\ (dg_pending.mode # "form" => dg_request.kind # "form")
      BY <1>6, CodexKnown
    <3>2. \A n \in 1..3 : \A a \in 1..n : a \in 1..3
      OBVIOUS
    <3> QED BY <3>1, <3>2
  <2>2. dg_pending.at - 1 + Len(dg_request.fields) <= 3
    <3>1. CASE dg_pending.at = 1
      <4>1. \A n \in 0..3 : 1 - 1 + n <= 3
        OBVIOUS
      <4> QED BY <1>5, <3>1, <4>1
    <3>2. CASE dg_request.kind # "form"
      <4>1. Len(dg_request.fields) = 1
        BY <1>3, <3>2
      <4> QED BY <2>1, <4>1
    <3> QED BY <2>1, <3>1, <3>2
  <2>3. dg_pending.at \in Nat \ {0}
    BY <2>1
  <2> QED BY <1>1, <1>2, <1>3, <1>6, <2>2, <2>3
<1>7. CASE dg_asker # "codex"
  <2>1. dg_pending = Talk!NoPending
    BY <1>7 DEF TalkOrigin, Talk!TypeOK
  <2>2. dg_pending.at = 1
    BY <2>1, NoPendingAt
  <2>3. dg_pending.at - 1 + Len(dg_request.fields) <= 3
    <3>1. \A n \in 0..3 : 1 - 1 + n <= 3
      OBVIOUS
    <3> QED BY <1>5, <2>2, <3>1
  <2> QED BY <1>1, <1>2, <1>3, <1>7, <2>2, <2>3
<1> QED BY <1>6, <1>7

(* Nothing was picked or typed.                                            *)
LEMMA NoneMeant ==
  ASSUME NEW m, m = <<>> PROVE Len(m) = 0 /\ Len(m) <= 3 /\ m \in Seq({})
<1>1. <<>> \in Seq({}) /\ Len(<<>>) = 0
  OBVIOUS
<1>2. Len(m) = 0
  BY <1>1, Zenon
<1>3. m \in Seq({})
  BY <1>1, Zenon
<1> QED BY <1>2, <1>3

(* The first request of a dialogue with Codex.                             *)
LEMMA AskedFirst ==
  ASSUME NEW qs, NEW at, at.mode = Talk!Mode(qs), at.at = 1
  PROVE  Talk!CodexRequest(qs) = AskedBy(qs, at)
<1>1. CASE Talk!Mode(qs) = "form"
  BY <1>1 DEF AskedBy
<1>2. CASE Talk!Mode(qs) # "form"
  <2>1. AskedBy(qs, at) = Talk!CodexQuestion(qs[1], 1)
    BY <1>2 DEF AskedBy
  <2>2. Talk!CodexRequest(qs) = Talk!CodexQuestion(qs[1], 1)
    BY <1>2 DEF Talk!CodexRequest
  <2> QED BY <2>1, <2>2
<1> QED BY <1>1, <1>2

(* A dialogue before its question.                                         *)
LEMMA TalkStart == ASSUME Talk!DialogueAssumption, Talk!Init PROVE TalkInv
<1>0. Talk!DialogueAssumption /\ Talk!Init
  OBVIOUS
<1>1. TalkTypes
  <2>0. dg_meant = <<>>
    BY <1>0 DEF Talk!Init
  <2>1. dg_meant \in Seq({}) /\ Len(dg_meant) <= 3
    BY <2>0, NoneMeant
  <2>2. dg_presses = 0 /\ MaxPresses \in Nat
    BY <1>0 DEF Talk!Init, Talk!DialogueAssumption
  <2>3. dg_pending.mode = "none" /\ dg_result.status = "none"
    <3>1. dg_pending = Talk!NoPending /\ dg_result = Talk!NoResult
      BY <1>0 DEF Talk!Init
    <3> QED BY <3>1, NoPendingAt, NoResultYet
  <2>5. dg_presses \in 0..MaxPresses
    BY <2>2
  <2>4. Talk!TypeOK
    BY <1>0, <2>1, <2>3, <2>5 DEF Talk!Init, Talk!TypeOK
  <2>6. DOMAIN dg_pending = {"mode", "at"}
    <3>1. dg_pending = Talk!NoPending
      BY <1>0 DEF Talk!Init
    <3> QED BY <3>1, NoPendingAt
  <2> QED BY <2>1, <2>2, <2>4, <2>6 DEF TalkTypes
<1> QED BY <1>0, <1>1 DEF Talk!Init, TalkInv, TalkStarts, TalkOrigin, TalkShown, TalkSaid,
      TalkMeant,
      TalkNotices, TalkOver, Talk!QuestionsAreShown, Talk!NoticesAreTrue, Underway

(* item/tool/requestUserInput                                              *)
LEMMA AskCodexKeeps == ASSUME Talk!DialogueAssumption, TalkInv, Talk!AskCodex PROVE TalkInv'
<1>0. /\ Talk!DialogueAssumption /\ Talk!AskCodex /\ Talk!TypeOK /\ dg_meant = <<>>
           /\ dg_said = Talk!Nothing /\ dg_notice = ""
      /\ dg_pending = Talk!NoPending /\ dg_result = Talk!NoResult /\ dg_presses \in Nat
  BY DEF TalkInv, TalkTypes, TalkStarts, Talk!AskCodex
<1>1. /\ dg_meant' = <<>> /\ dg_said' = Talk!Nothing /\ dg_notice' = ""
           /\ dg_result' = Talk!NoResult
      /\ dg_asker' = "codex" /\ dg_presses' = dg_presses /\ dg_presses' \in Nat
      /\ dg_step' \in {"asked", "over"}
  BY <1>0 DEF Talk!AskCodex
<1>2. PICK qs \in Questions :
        /\ dg_question' = qs
        /\ IF Talk!Parsed(qs) /\ \A k \in DOMAIN qs : ~qs[k].secret
           THEN /\ dg_step' = "asked" /\ dg_request' = Talk!CodexRequest(qs)
                /\ dg_pending' = [mode |-> Talk!Mode(qs), at |-> 1] /\ UNCHANGED dg_reply
           ELSE dg_step' = "over" /\ dg_reply' = "answers" /\ UNCHANGED <<dg_request, dg_pending>>
  BY <1>0 DEF Talk!AskCodex
<1>3. Talk!IsSeq(qs) /\ \A k \in DOMAIN qs : IsQuestion(qs[k])
  BY <1>0 DEF Talk!DialogueAssumption, IsQuestion
<1>4. dg_step' = "asked" =>
        /\ Talk!Parsed(qs) /\ (\A k \in DOMAIN qs : ~qs[k].secret)
             /\ dg_request' = Talk!CodexRequest(qs)
        /\ dg_pending'.mode = Talk!Mode(qs) /\ dg_pending'.at = 1
  BY <1>2
<1>5. dg_step' = "asked" => 1 \in 1..Len(qs) /\ Talk!Mode(qs) \in {"single", "form", "sequential"}
  <2> SUFFICES ASSUME dg_step' = "asked"
               PROVE  1 \in 1..Len(qs) /\ Talk!Mode(qs) \in {"single", "form", "sequential"}
    OBVIOUS
  <2>1. Len(qs) \in 1..3
    BY <1>4 DEF Talk!Parsed
  <2>2. Talk!Mode(qs) \in {"single", "form", "sequential"}
    BY <1>3, <1>4, ModeIs
  <2> QED BY <2>1, <2>2
<1>6. TalkTypes'
  <2>1. <<>> \in Seq({}) /\ Len(<<>>) = 0
    OBVIOUS
  <2>2. dg_pending'.mode \in {"none", "single", "form", "sequential"}
    BY <1>0, <1>1, <1>2, <1>4, <1>5, NoPendingAt
  <2>3. dg_result'.status = "none" /\ dg_presses' \in 0..MaxPresses
    BY <1>0, <1>1 DEF Talk!NoResult, Talk!TypeOK
  <2>4. Len(dg_meant') <= 3 /\ dg_meant' \in Seq({})
    BY <1>1, NoneMeant
  <2>5. Talk!TypeOK'
    BY <1>1, <2>2, <2>3, <2>4 DEF Talk!TypeOK
  <2>6. DOMAIN dg_pending' = {"mode", "at"}
    <3>1. CASE dg_pending' = dg_pending
      BY <1>0, <3>1, NoPendingAt
    <3>2. CASE dg_pending' = [mode |-> Talk!Mode(qs), at |-> 1]
      BY <3>2
    <3> QED BY <1>2, <3>1, <3>2
  <2> QED BY <1>1, <2>4, <2>5, <2>6 DEF TalkTypes
<1>7. TalkOrigin'
  <2>1. ASSUME dg_step' = "asked"
        PROVE  dg_request' = AskedBy(qs, dg_pending')
    <3>1. dg_request' = Talk!CodexRequest(qs) /\ dg_pending'.mode = Talk!Mode(qs)
            /\ dg_pending'.at = 1
      BY <1>4, <2>1
    <3> DEFINE at == dg_pending'
    <3>2. at.mode = Talk!Mode(qs) /\ at.at = 1
      BY <3>1
    <3> HIDE DEF at
    <3>3. Talk!CodexRequest(qs) = AskedBy(qs, at)
      BY <3>2, AskedFirst
    <3> QED BY <3>1, <3>3 DEF at
  <2>2. dg_step' = "asked" =>
          /\ dg_question' = qs /\ Talk!Parsed(qs) /\ (\A k \in DOMAIN qs : ~qs[k].secret)
          /\ dg_pending'.mode = Talk!Mode(qs) /\ dg_pending'.at = 1 /\ 1 \in 1..Len(qs)
          /\ dg_request' = AskedBy(qs, dg_pending')
    BY <1>2, <1>4, <1>5, <2>1
  <2>3. dg_asker' = "codex" /\ (dg_step' \in Underway => dg_step' = "asked") /\ qs \in Questions
    BY <1>1 DEF Underway
  <2>4. 1 \in Nat \ {0}
    OBVIOUS
  <2> QED BY <2>2, <2>3, <2>4 DEF TalkOrigin
<1>8. TalkSaid'
  <2>1. DOMAIN Talk!Nothing = {} /\ 1..(1 - 1) = {}
    BY DEF Talk!Nothing
  <2> QED BY <1>1, <1>4, <2>1 DEF TalkSaid, Underway
<1>9. TalkMeant'
  <2>1. Len(<<>>) = 1 - 1
    OBVIOUS
  <2> QED BY <1>1, <1>4, <2>1 DEF TalkMeant, Underway
<1>10. TalkOver'
  BY <1>1 DEF TalkOver, Talk!CodexHearsWhatWasMeant, Talk!PiHearsWhatWasMeant,
       Talk!ResultIsWhatWasMeant
<1>11. TalkStarts' /\ TalkShown' /\ TalkNotices' /\ Talk!QuestionsAreShown' /\ Talk!NoticesAreTrue'
  BY <1>1 DEF TalkStarts, TalkShown, TalkNotices, Talk!QuestionsAreShown, Talk!NoticesAreTrue
<1> QED BY <1>6, <1>7, <1>8, <1>9, <1>10, <1>11 DEF TalkInv

(* extension_ui_request                                                    *)
LEMMA AskPiKeeps == ASSUME Talk!DialogueAssumption, TalkInv, Talk!AskPi PROVE TalkInv'
<1>0. /\ Talk!DialogueAssumption /\ Talk!AskPi /\ Talk!TypeOK /\ dg_meant = <<>>
           /\ dg_said = Talk!Nothing /\ dg_notice = ""
      /\ dg_pending = Talk!NoPending /\ dg_result = Talk!NoResult /\ dg_presses \in Nat
  BY DEF TalkInv, TalkTypes, TalkStarts, Talk!AskPi
<1>1. /\ dg_meant' = <<>> /\ dg_said' = Talk!Nothing /\ dg_notice' = ""
           /\ dg_result' = Talk!NoResult
      /\ dg_asker' = "pi" /\ dg_presses' = dg_presses /\ dg_presses' \in Nat
      /\ dg_pending' = Talk!NoPending /\ dg_step' \in {"asked", "over"}
      /\ (dg_step' = "over" => dg_reply' = "cancelled")
      /\ (dg_step' = "asked" =>
            dg_question' \in Dialogs /\ Talk!PiAsks(dg_question')
              /\ dg_request' = Talk!PiRequest(dg_question'))
  BY <1>0 DEF Talk!AskPi
<1>2. <<>> \in Seq({}) /\ Len(<<>>) = 0 /\ Len(<<>>) = 1 - 1
  OBVIOUS
<1>3. TalkTypes'
  <2>1. dg_result'.status = "none" /\ dg_presses' \in 0..MaxPresses /\ dg_pending'.mode = "none"
    BY <1>0, <1>1, NoPendingAt DEF Talk!NoResult, Talk!TypeOK
  <2>2. Len(dg_meant') <= 3 /\ dg_meant' \in Seq({})
    BY <1>1, NoneMeant
  <2>3. Talk!TypeOK'
    BY <1>1, <2>1, <2>2 DEF Talk!TypeOK
  <2>4. DOMAIN dg_pending' = {"mode", "at"}
    BY <1>1, NoPendingAt
  <2> QED BY <1>1, <2>2, <2>3, <2>4 DEF TalkTypes
<1>4. TalkOrigin'
  <2>1. dg_pending'.at \in Nat \ {0}
    <3>1. dg_pending'.at = 1
      BY <1>1, NoPendingAt
    <3> QED BY <3>1
  <2> QED BY <1>1, <2>1 DEF TalkOrigin, Underway
<1>5. TalkMeant'
  <2>1. Len(dg_meant') = dg_pending'.at - 1
    BY <1>1, <1>2, NoPendingAt
  <2> QED BY <1>1, <2>1 DEF TalkMeant, Underway
<1>6. TalkOver'
  <2>1. <<>> # <<{Talk!Yes}>>
    OBVIOUS
  <2> QED BY <1>1, <2>1 DEF TalkOver, Talk!CodexHearsWhatWasMeant, Talk!PiHearsWhatWasMeant,
        Talk!ResultIsWhatWasMeant
<1>7. /\ TalkStarts' /\ TalkShown' /\ TalkSaid' /\ TalkNotices' /\ Talk!QuestionsAreShown'
      /\ Talk!NoticesAreTrue'
  BY <1>1 DEF TalkStarts, TalkShown, TalkSaid, TalkNotices, Talk!QuestionsAreShown,
       Talk!NoticesAreTrue
<1> QED BY <1>3, <1>4, <1>5, <1>6, <1>7 DEF TalkInv

(* A request of the host.                                                  *)
LEMMA AskOfferKeeps == ASSUME Talk!DialogueAssumption, TalkInv, Talk!AskOffer PROVE TalkInv'
<1>0. /\ Talk!DialogueAssumption /\ Talk!AskOffer /\ Talk!TypeOK /\ dg_meant = <<>>
           /\ dg_said = Talk!Nothing /\ dg_notice = ""
      /\ dg_pending = Talk!NoPending /\ dg_result = Talk!NoResult /\ dg_presses \in Nat
  BY DEF TalkInv, TalkTypes, TalkStarts, Talk!AskOffer
<1>1. /\ dg_meant' = <<>> /\ dg_said' = Talk!Nothing /\ dg_notice' = ""
           /\ dg_result' = Talk!NoResult
      /\ dg_asker' = "offer" /\ dg_presses' = dg_presses /\ dg_presses' \in Nat
      /\ dg_pending' = Talk!NoPending /\ dg_step' = "asked" /\ dg_request' \in Offers
  BY <1>0 DEF Talk!AskOffer
<1>2. <<>> \in Seq({}) /\ Len(<<>>) = 0 /\ Len(<<>>) = 1 - 1
  OBVIOUS
<1>3. TalkTypes'
  <2>1. dg_result'.status = "none" /\ dg_presses' \in 0..MaxPresses /\ dg_pending'.mode = "none"
    BY <1>0, <1>1, NoPendingAt DEF Talk!NoResult, Talk!TypeOK
  <2>2. Len(dg_meant') <= 3 /\ dg_meant' \in Seq({})
    BY <1>1, NoneMeant
  <2>3. Talk!TypeOK'
    BY <1>1, <2>1, <2>2 DEF Talk!TypeOK
  <2>4. DOMAIN dg_pending' = {"mode", "at"}
    BY <1>1, NoPendingAt
  <2> QED BY <1>1, <2>2, <2>3, <2>4 DEF TalkTypes
<1>4. TalkOrigin'
  <2>1. dg_pending'.at \in Nat \ {0}
    <3>1. dg_pending'.at = 1
      BY <1>1, NoPendingAt
    <3> QED BY <3>1
  <2> QED BY <1>1, <2>1 DEF TalkOrigin, Underway
<1>5. TalkMeant'
  <2>1. Len(dg_meant') = dg_pending'.at - 1
    BY <1>1, <1>2, NoPendingAt
  <2> QED BY <1>1, <2>1 DEF TalkMeant, Underway
<1>7. /\ TalkStarts' /\ TalkShown' /\ TalkSaid' /\ TalkNotices' /\ TalkOver'
           /\ Talk!QuestionsAreShown'
      /\ Talk!NoticesAreTrue'
  BY <1>1 DEF TalkStarts, TalkShown, TalkSaid, TalkNotices, TalkOver, Talk!QuestionsAreShown,
       Talk!NoticesAreTrue
<1> QED BY <1>3, <1>4, <1>5, <1>7 DEF TalkInv

(* The card is sent.                                                       *)
LEMMA ShowKeeps == ASSUME Talk!DialogueAssumption, TalkInv, Talk!Show PROVE TalkInv'
<1>0. /\ Talk!DialogueAssumption /\ Talk!Show /\ TalkInv /\ Talk!TypeOK /\ TalkOrigin
           /\ dg_step = "asked" /\ dg_step \in Underway
  BY DEF TalkInv, TalkTypes, Talk!Show, Underway
<1>1. /\ UNCHANGED <<dg_asker, dg_question, dg_pending, dg_request, dg_result, dg_reply, dg_said,
           dg_meant, dg_presses>>
      /\ dg_notice' = "" /\ dg_step' \in {"refused", "unsent", "open"}
      /\ dg_step' # "refused" => Talk!Valid(dg_request)
      /\ dg_step' = "refused" => ~Talk!Valid(dg_request)
      /\ dg_step' = "unsent" => dg_request.kind # "text-input"
           /\ ~Talk!Renders(Talk!Presentation(dg_request))
      /\ dg_step' = "open"
           => (dg_request.kind # "text-input" => dg_card' = Talk!Presentation(dg_request))
  BY <1>0 DEF Talk!Show
<1>2. Talk!IsRequest(dg_request) /\ (~Talk!Valid(dg_request) => dg_asker = "offer" \/
              (dg_asker = "pi" /\ dg_question.title.len = 0 /\ dg_question.title # Talk!NoText))
  BY <1>0, RequestKnown
<1>3. dg_step' # "unsent"
  BY <1>1, <1>2, CardRenders
<1>4. dg_step' \in {"refused", "open"} /\ dg_step' \in Underway /\ dg_step' # "answered"
  BY <1>1, <1>3 DEF Underway
<1>5. TalkTypes'
  BY <1>0, <1>1, <1>4 DEF TalkInv, TalkTypes, Talk!TypeOK
<1>6. TalkOrigin'
  BY <1>0, <1>1, <1>4 DEF TalkOrigin
<1>7. TalkShown'
  BY <1>1, <1>4 DEF TalkShown
<1>8. TalkSaid'
  BY <1>0, <1>1, <1>4 DEF TalkInv, TalkSaid
<1>9. TalkMeant'
  <2>1. Len(dg_meant) = dg_pending.at - 1
    BY <1>0 DEF TalkInv, TalkMeant
  <2> QED BY <1>1, <1>4, <2>1 DEF TalkMeant
<1>10. Talk!QuestionsAreShown'
  BY <1>1, <1>2, <1>3 DEF Talk!QuestionsAreShown
<1>11. TalkStarts' /\ TalkNotices' /\ TalkOver' /\ Talk!NoticesAreTrue'
  BY <1>1, <1>4 DEF TalkStarts, TalkNotices, TalkOver, Talk!NoticesAreTrue
<1> QED BY <1>5, <1>6, <1>7, <1>8, <1>9, <1>10, <1>11 DEF TalkInv

(* Nobody answers.                                                         *)
LEMMA ExpireKeeps == ASSUME Talk!DialogueAssumption, TalkInv, Talk!Expire PROVE TalkInv'
<1>0. /\ Talk!DialogueAssumption /\ Talk!Expire /\ TalkInv /\ dg_step = "open"
           /\ dg_step \in Underway
  BY DEF TalkInv, Talk!Expire, Underway
<1>1. /\ UNCHANGED <<dg_asker, dg_question, dg_pending, dg_request, dg_card, dg_reply, dg_said,
           dg_notice, dg_meant, dg_presses>>
      /\ dg_step' = "answered" /\ dg_step' \in Underway /\ dg_result'.status = "expired"
  BY <1>0 DEF Talk!Expire, Underway
<1>5. TalkTypes'
  BY <1>0, <1>1 DEF TalkInv, TalkTypes, Talk!TypeOK
<1>6. TalkOrigin' /\ TalkShown' /\ TalkSaid'
  BY <1>0, <1>1 DEF TalkInv, TalkOrigin, TalkShown, TalkSaid
<1>9. TalkMeant'
  <2>1. Len(dg_meant) = dg_pending.at - 1
    BY <1>0 DEF TalkInv, TalkMeant
  <2> QED BY <1>1, <2>1 DEF TalkMeant
<1>10. Talk!NoticesAreTrue'
  <2>1. dg_notice \in {"", "result"}
    BY <1>0 DEF TalkInv, TalkNotices
  <2> QED BY <1>1, <2>1 DEF Talk!NoticesAreTrue
<1>11. TalkStarts' /\ TalkNotices' /\ TalkOver' /\ Talk!QuestionsAreShown'
  BY <1>1 DEF TalkStarts, TalkNotices, TalkOver, Talk!QuestionsAreShown
<1> QED BY <1>5, <1>6, <1>9, <1>10, <1>11 DEF TalkInv

(* What the card says after a press is true of the press.                  *)
LEMMA UpdateIs ==
  ASSUME NEW r, Talk!IsRequest(r), r.kind \in CardKinds, NEW p, Talk!Fits(r, p)
  PROVE  LET u == Talk!Updated(r, p) IN
         /\ u \in {"result", "submitted", "approved", "denied", "unsent"}
         /\ u = "submitted" => Talk!ResultOf(r, p).status # "cancelled"
         /\ u \in {"approved", "denied"} =>
              \E f \in DOMAIN r.fields :
                \/ r.fields[f].label.says = u
                \/ \E i \in DOMAIN r.fields[f].options : r.fields[f].options[i].label.says = u
<1> DEFINE u == Talk!Updated(r, p)
<1>1. /\ u \in {"result", "submitted", "approved", "denied", "unsent"}
      /\ u # "result" => Talk!ResultOf(r, p).status # "cancelled" /\ u = Talk!Title(r, p)
  BY DEF Talk!Updated, Talk!Title
<1>2. /\ Talk!Title(r, p) = "approved" => Talk!Says(r, p, "approved")
      /\ Talk!Title(r, p) = "denied" => Talk!Says(r, p, "denied")
  BY DEF Talk!Title
<1> HIDE DEF u
<1>3. u \in {"approved", "denied"} => Talk!Says(r, p, u)
  BY <1>1, <1>2
<1>4. ASSUME NEW f \in DOMAIN r.fields
      PROVE  Talk!Picked(r, p, f) \subseteq DOMAIN r.fields[f].options
  <2>1. 0 \notin Talk!Picked(r, p, f)
    BY DEF Talk!Fits
  <2> QED BY <2>1, PickedIs
<1>5. u \in {"approved", "denied"} =>
        \E f \in DOMAIN r.fields :
          \/ r.fields[f].label.says = u
          \/ \E i \in DOMAIN r.fields[f].options : r.fields[f].options[i].label.says = u
  BY <1>3, <1>4 DEF Talk!Says
<1> QED BY <1>1, <1>5 DEF u

(* handleRuntimeInteraction: what is picked is what was read, or nothing   *)
(* is answered.                                                            *)
LEMMA PressKeeps ==
  ASSUME Talk!DialogueAssumption, TalkInv, NEW p, Talk!Press(p) PROVE TalkInv'
<1>0. /\ Talk!DialogueAssumption /\ TalkInv /\ Talk!Press(p) /\ Talk!TypeOK /\ TalkOrigin
      /\ dg_step = "open" /\ dg_step \in Underway /\ dg_request.kind # "text-input"
  BY DEF TalkInv, TalkTypes, Talk!Press, Underway
<1>1. UNCHANGED <<dg_asker, dg_question, dg_pending, dg_request, dg_card, dg_reply, dg_said>>
  BY <1>0 DEF Talk!Press
<1>2. CASE ~Talk!Fits(dg_request, p)
  <2>1. /\ UNCHANGED <<dg_result, dg_step, dg_meant>> /\ dg_notice' = "result"
        /\ dg_presses < MaxPresses /\ dg_presses' = dg_presses + 1
    BY <1>0, <1>2 DEF Talk!Press
  <2>2. TalkTypes'
    <3>1. dg_presses \in Nat /\ MaxPresses \in Nat
      BY <1>0 DEF TalkInv, TalkTypes, Talk!DialogueAssumption
    <3>2. dg_presses' \in Nat /\ dg_presses' \in 0..MaxPresses
      BY <2>1, <3>1
    <3>3. Talk!TypeOK'
      BY <1>0, <1>1, <2>1, <3>2 DEF Talk!TypeOK
    <3> QED BY <1>0, <1>1, <2>1, <3>2, <3>3 DEF TalkInv, TalkTypes
  <2>3. TalkOrigin' /\ TalkShown' /\ TalkSaid' /\ TalkMeant' /\ TalkNotices'
    BY <1>0, <1>1, <2>1 DEF TalkInv, TalkOrigin, TalkShown, TalkSaid, TalkMeant, TalkNotices
  <2>4. TalkStarts' /\ TalkOver' /\ Talk!QuestionsAreShown' /\ Talk!NoticesAreTrue'
    BY <1>0, <2>1 DEF TalkStarts, TalkOver, Talk!QuestionsAreShown, Talk!NoticesAreTrue
  <2> QED BY <2>2, <2>3, <2>4 DEF TalkInv
<1>3. CASE Talk!Fits(dg_request, p)
  <2> DEFINE n == Len(dg_request.fields)
             at == dg_pending.at
             res == Talk!ResultOf(dg_request, p)
             os(f) == dg_request.fields[f].options
  <2>1. /\ dg_step' = "answered" /\ dg_step' \in Underway /\ dg_result' = res
        /\ dg_notice' = Talk!Updated(dg_request, p) /\ dg_meant' = dg_meant \o Talk!Reading(p)
             /\ dg_presses' = dg_presses
    BY <1>0, <1>3 DEF Talk!Press, Underway
  <2>2. Talk!Valid(dg_request) /\ dg_card = Talk!Presentation(dg_request)
    BY <1>0 DEF TalkInv, TalkShown
  <2>3. /\ Talk!IsRequest(dg_request) /\ n \in Nat /\ DOMAIN dg_request.fields = 1..n
        /\ at \in Nat \ {0} /\ at - 1 + n <= 3
        /\ dg_request.kind # "form" => n = 1 /\ DOMAIN dg_request.fields = {1}
    BY <1>0, <2>2, FieldsFit
  <2>4. dg_request.kind \in CardKinds
    BY <1>0, <2>3 DEF Talk!IsRequest, CardKinds
  <2>5. Len(dg_meant) = at - 1
    BY <1>0 DEF TalkInv, TalkMeant, Underway
  <2>6. /\ Talk!Reading(p) = [f \in DOMAIN dg_request.fields |-> Talk!Reading(p)[f]]
        /\ \A f \in DOMAIN dg_request.fields : Talk!Reading(p)[f] =
             {Talk!Label(dg_request, os(f)[i].label) : i \in Talk!Picked(dg_request, p, f)}
    BY <1>3, <2>2, <2>3, <2>4, ReadingIs
  <2>7. PICK S : dg_meant \in Seq(S)
    BY <1>0 DEF TalkInv, TalkTypes
  <2> DEFINE old == dg_meant
  <2>17. old \in Seq(S)
    BY <2>7
  <2>8. /\ \E T : dg_meant' \in Seq(T)
        /\ Len(dg_meant') = at - 1 + n
        /\ \A k \in 1..(at - 1) : dg_meant'[k] = dg_meant[k]
        /\ \A f \in 1..n : dg_meant'[at - 1 + f] = Talk!Reading(p)[f]
    <3> DEFINE g == Talk!Reading(p)
    <3>1. g = [f \in 1..n |-> g[f]] /\ n \in Nat
      BY <2>3, <2>6
    <3> HIDE DEF g, n, old
    <3>2. /\ \E T : old \o g \in Seq(T)
          /\ Len(old \o g) = Len(old) + n
          /\ \A i \in 1..Len(old) : (old \o g)[i] = old[i]
          /\ \A f \in 1..n : (old \o g)[Len(old) + f] = g[f]
      BY <2>17, <3>1, Joined, SMTT(30)
    <3>3. dg_meant' = old \o g
      BY <2>1 DEF g, old
    <3> HIDE DEF at
    <3> QED BY <2>5, <3>2, <3>3 DEF g, old
  <2>9. /\ res.status \in {"submitted", "cancelled"}
        /\ res.status = "cancelled" => dg_request.kind = "confirm"
             /\ Talk!Picked(dg_request, p, 1) = {2}
        /\ res.status = "submitted" =>
             \A f \in DOMAIN dg_request.fields : Talk!TextsOf(dg_request, res.values, f) =
                   {Talk!Label(dg_request, os(f)[i].label) : i \in Talk!Picked(dg_request, p, f)}
        /\ res.status = "submitted" /\ dg_request.kind # "multi-select" =>
             \A f \in DOMAIN dg_request.fields : \E i \in DOMAIN os(f) :
                     res.values[dg_request.fields[f].id] = {os(f)[i].value}
    BY <1>3, <2>2, <2>3, <2>4, ResultIs
  <2>10. /\ dg_notice' \in {"result", "submitted", "approved", "denied", "unsent"}
         /\ dg_notice' = "submitted" => res.status # "cancelled"
         /\ dg_notice' \in {"approved", "denied"} =>
              \E f \in DOMAIN dg_request.fields :
                \/ dg_request.fields[f].label.says = dg_notice'
                \/ \E i \in DOMAIN os(f) : os(f)[i].label.says = dg_notice'
    BY <1>3, <2>1, <2>3, <2>4, UpdateIs
  <2> HIDE DEF res, os, n, at
  <2>11. TalkTypes'
    <3>1. dg_presses' \in Nat /\ dg_presses' \in 0..MaxPresses
      BY <1>0, <2>1 DEF TalkInv, TalkTypes, Talk!TypeOK
    <3>2. Len(dg_meant') <= 3
      BY <2>3, <2>8
    <3>3. dg_result'.status \in {"submitted", "cancelled"}
      BY <2>1, <2>9
    <3>4. Talk!TypeOK'
      BY <1>0, <1>1, <2>1, <2>10, <3>1, <3>2, <3>3 DEF Talk!TypeOK
    <3>5. DOMAIN dg_pending' = {"mode", "at"}
      BY <1>0, <1>1 DEF TalkInv, TalkTypes
    <3> QED BY <2>8, <3>1, <3>4, <3>5 DEF TalkTypes
  <2>12. TalkOrigin' /\ TalkShown'
    BY <1>0, <1>1, <2>1 DEF TalkInv, TalkOrigin, TalkShown
  <2>13. TalkSaid'
    <3>1. dg_asker = "codex" =>
            /\ DOMAIN dg_said = {dg_question[k].id : k \in 1..(at - 1)}
            /\ \A k \in 1..(at - 1) : dg_said[dg_question[k].id] = dg_meant'[k]
      BY <1>0, <2>8 DEF TalkInv, TalkSaid, at
    <3> QED BY <1>1, <3>1 DEF TalkSaid, at
  <2>14. TalkMeant'
    <3>1. CASE res.status = "cancelled"
      <4>1. dg_request.kind = "confirm" /\ Talk!Picked(dg_request, p, 1) = {2}
        BY <2>9, <3>1
      <4>2. n = 1 /\ 1 \in DOMAIN dg_request.fields /\ 1 \in 1..n
        BY <2>3, <4>1
      <4>3. Talk!Reading(p)[1] = {Talk!Label(dg_request, os(1)[2].label)}
        <5>1. Talk!Reading(p)[1] = {Talk!Label(dg_request, os(1)[i].label) : i \in {2}}
          BY <2>6, <4>1, <4>2 DEF os
        <5> QED BY <5>1
      <4>4. Len(dg_meant') = at /\ dg_meant'[at] = {Talk!Label(dg_request, os(1)[2].label)}
        <5>1. at - 1 + 1 = at
          BY <2>3
        <5> QED BY <2>8, <4>2, <4>3, <5>1
      <4> QED BY <1>1, <2>1, <3>1, <4>1, <4>4 DEF TalkMeant, Underway, os, at
    <3>2. CASE res.status = "submitted"
      <4>1. \A f \in DOMAIN dg_request.fields : Talk!TextsOf(dg_request, res.values,
                                                             f) = dg_meant'[at - 1 + f]
        BY <2>3, <2>6, <2>8, <2>9, <3>2 DEF os
      <4>2. Len(dg_meant') = at - 1 + Len(dg_request.fields)
        BY <2>8 DEF n
      <4>3. dg_request.kind # "multi-select" =>
             \A f \in DOMAIN dg_request.fields : \E i \in DOMAIN os(f) :
                     res.values[dg_request.fields[f].id] = {os(f)[i].value}
        BY <2>9, <3>2
      <4> QED BY <1>1, <2>1, <3>2, <4>1, <4>2, <4>3 DEF TalkMeant, Underway, os, at
    <3> QED BY <2>9, <3>1, <3>2
  <2>15. Talk!NoticesAreTrue'
    <3>1. dg_notice' = "submitted" => dg_result'.status = "submitted"
      BY <2>1, <2>9, <2>10
    <3> QED BY <1>1, <2>10, <3>1 DEF Talk!NoticesAreTrue, os
  <2>16. TalkStarts' /\ TalkNotices' /\ TalkOver' /\ Talk!QuestionsAreShown'
    BY <2>1 DEF TalkStarts, TalkNotices, TalkOver, Talk!QuestionsAreShown
  <2> QED BY <2>11, <2>12, <2>13, <2>14, <2>15, <2>16 DEF TalkInv
<1> QED BY <1>2, <1>3

(* tryHandleTextInteraction                                                *)
LEMMA TypeKeeps ==
  ASSUME Talk!DialogueAssumption, TalkInv, NEW t \in Typed, Talk!Type(t) PROVE TalkInv'
<1>0. /\ Talk!DialogueAssumption /\ TalkInv /\ Talk!Type(t) /\ Talk!TypeOK /\ TalkOrigin
      /\ dg_step = "open" /\ dg_step \in Underway /\ dg_request.kind = "text-input"
  BY DEF TalkInv, TalkTypes, Talk!Type, Underway
<1>1. UNCHANGED <<dg_asker, dg_question, dg_pending, dg_request, dg_card, dg_reply, dg_said,
        dg_notice>>
  BY <1>0 DEF Talk!Type
<1>2. CASE ~(t.len \in 1..MaxText)
  <2>1. /\ UNCHANGED <<dg_result, dg_step, dg_meant>>
        /\ dg_presses < MaxPresses /\ dg_presses' = dg_presses + 1
    BY <1>0, <1>2 DEF Talk!Type
  <2>2. TalkTypes'
    <3>1. dg_presses \in Nat /\ MaxPresses \in Nat
      BY <1>0 DEF TalkInv, TalkTypes, Talk!DialogueAssumption
    <3>2. dg_presses' \in Nat /\ dg_presses' \in 0..MaxPresses
      BY <2>1, <3>1
    <3>3. Talk!TypeOK'
      BY <1>0, <1>1, <2>1, <3>2 DEF Talk!TypeOK
    <3> QED BY <1>0, <1>1, <2>1, <3>2, <3>3 DEF TalkInv, TalkTypes
  <2>3. TalkOrigin' /\ TalkShown' /\ TalkSaid' /\ TalkMeant' /\ TalkNotices'
    BY <1>0, <1>1, <2>1 DEF TalkInv, TalkOrigin, TalkShown, TalkSaid, TalkMeant, TalkNotices
  <2>4. TalkStarts' /\ TalkOver' /\ Talk!QuestionsAreShown' /\ Talk!NoticesAreTrue'
    BY <1>0, <1>1, <2>1 DEF TalkInv, TalkStarts, TalkOver, Talk!QuestionsAreShown,
         Talk!NoticesAreTrue
  <2> QED BY <2>2, <2>3, <2>4 DEF TalkInv
<1>3. CASE t.len \in 1..MaxText
  <2> DEFINE at == dg_pending.at
  <2>1. /\ dg_step' = "answered" /\ dg_step' \in Underway /\ dg_presses' = dg_presses
        /\ dg_meant' = Append(dg_meant, {t}) /\ dg_result'.status = "submitted"
        /\ dg_result'.values[dg_request.fields[1].id] = {t}
    BY <1>0, <1>3 DEF Talk!Type, Underway
  <2>2. Talk!Valid(dg_request)
    BY <1>0 DEF TalkInv, TalkShown
  <2>3. /\ at \in Nat \ {0} /\ at - 1 + 1 <= 3 /\ Len(dg_request.fields) = 1
        /\ DOMAIN dg_request.fields = {1}
    BY <1>0, <2>2, FieldsFit
  <2>5. Len(dg_meant) = at - 1
    BY <1>0 DEF TalkInv, TalkMeant, Underway
  <2>7. PICK S : dg_meant \in Seq(S)
    BY <1>0 DEF TalkInv, TalkTypes
  <2>8. /\ \E T : dg_meant' \in Seq(T)
        /\ Len(dg_meant') = at - 1 + 1
        /\ \A k \in 1..(at - 1) : dg_meant'[k] = dg_meant[k]
        /\ dg_meant'[at - 1 + 1] = {t}
    <3> DEFINE e == {t}
    <3> HIDE DEF e
    <3>1. /\ \E T : Append(dg_meant, e) \in Seq(T)
          /\ Len(Append(dg_meant, e)) = Len(dg_meant) + 1
          /\ \A i \in 1..Len(dg_meant) : Append(dg_meant, e)[i] = dg_meant[i]
          /\ Append(dg_meant, e)[Len(dg_meant) + 1] = e
      BY <2>7, Longer
    <3>2. dg_meant' = Append(dg_meant, e)
      BY <2>1 DEF e
    <3> HIDE DEF at
    <3> QED BY <2>5, <3>1, <3>2 DEF e
  <2> HIDE DEF at
  <2>11. TalkTypes'
    <3>1. dg_presses' \in Nat /\ dg_presses' \in 0..MaxPresses
      BY <1>0, <2>1 DEF TalkInv, TalkTypes, Talk!TypeOK
    <3>2. Len(dg_meant') <= 3
      BY <2>3, <2>8
    <3>4. Talk!TypeOK'
      BY <1>0, <1>1, <2>1, <3>1, <3>2 DEF Talk!TypeOK
    <3>5. DOMAIN dg_pending' = {"mode", "at"}
      BY <1>0, <1>1 DEF TalkInv, TalkTypes
    <3> QED BY <2>8, <3>1, <3>4, <3>5 DEF TalkTypes
  <2>12. TalkOrigin' /\ TalkShown'
    BY <1>0, <1>1, <2>1 DEF TalkInv, TalkOrigin, TalkShown
  <2>13. TalkSaid'
    <3>1. dg_asker = "codex" =>
            /\ DOMAIN dg_said = {dg_question[k].id : k \in 1..(at - 1)}
            /\ \A k \in 1..(at - 1) : dg_said[dg_question[k].id] = dg_meant'[k]
      BY <1>0, <2>8 DEF TalkInv, TalkSaid, at
    <3> QED BY <1>1, <3>1 DEF TalkSaid, at
  <2>14. TalkMeant'
    <3>1. \A f \in DOMAIN dg_request.fields : Talk!TextsOf(dg_request, dg_result'.values,
                                                           f) = dg_meant'[at - 1 + f]
      BY <1>0, <2>1, <2>3, <2>8 DEF Talk!TextsOf
    <3> QED BY <1>0, <1>1, <2>1, <2>3, <2>8, <3>1 DEF TalkMeant, Underway, at
  <2>15. Talk!NoticesAreTrue'
    <3>1. dg_notice \in {"", "result"}
      BY <1>0 DEF TalkInv, TalkNotices
    <3> QED BY <1>1, <3>1 DEF Talk!NoticesAreTrue
  <2>16. TalkStarts' /\ TalkNotices' /\ TalkOver' /\ Talk!QuestionsAreShown'
    BY <2>1 DEF TalkStarts, TalkNotices, TalkOver, Talk!QuestionsAreShown
  <2> QED BY <2>11, <2>12, <2>13, <2>14, <2>15, <2>16 DEF TalkInv
<1> QED BY <1>2, <1>3

(* An answer is added to the others.                                       *)
LEMMA WithIs ==
  ASSUME NEW f, NEW id, NEW a
  PROVE  /\ DOMAIN Talk!With(f, id, a) = DOMAIN f \union {id}
         /\ Talk!With(f, id, a)[id] = a
         /\ \A x \in DOMAIN f : x # id => Talk!With(f, id, a)[x] = f[x]
BY DEF Talk!With

(* Codex' answer to each question of a submitted request is what was       *)
(* picked or typed for it.                                                 *)
LEMMA AnswersOfFields ==
  ASSUME Talk!DialogueAssumption, TalkInv, dg_step = "answered", dg_asker = "codex",
         dg_result.status = "submitted", NEW f \in DOMAIN dg_request.fields
  PROVE  Talk!AnswerTo(dg_question[Asked(dg_pending, f)], Asked(dg_pending, f), dg_request,
                       dg_result.values) =
           dg_meant[dg_pending.at - 1 + f]
<1>0. Talk!DialogueAssumption /\ TalkInv /\ Talk!TypeOK /\ TalkOrigin /\ dg_step \in Underway
  BY DEF TalkInv, TalkTypes, Underway
<1>1. /\ Talk!IsSeq(dg_question) /\ \A k \in DOMAIN dg_question : IsQuestion(dg_question[k])
      /\ Talk!Parsed(dg_question) /\ dg_pending.mode = Talk!Mode(dg_question)
      /\ dg_pending.at \in 1..Len(dg_question) /\ dg_request = AskedBy(dg_question, dg_pending)
  BY <1>0, CodexKnown
<1>2. Talk!Valid(dg_request) /\ Talk!IsRequest(dg_request)
  BY <1>0, RequestKnown DEF TalkInv, TalkShown
<1>3. dg_request.kind # "multi-select"
  <2>1. CASE dg_pending.mode = "form"
    <3>1. dg_request.kind = "form"
      BY <1>0, <2>1, CodexKnown
    <3> QED BY <3>1
  <2>2. CASE dg_pending.mode # "form"
    <3> DEFINE k == dg_pending.at
               q == dg_question[k]
    <3>1. dg_request = Talk!CodexQuestion(q, k)
      BY <1>1, <2>2 DEF AskedBy
    <3>2. CASE Talk!Closed(q)
      <4>1. dg_request = Talk!Ask("single-select", q.header, q.prompt, <<Talk!CodexField(q, k)>>)
        BY <3>1, <3>2, CodexQuestionIs
      <4> HIDE DEF q, k
      <4>2. dg_request.kind = "single-select"
        BY <4>1, AskIs
      <4> QED BY <4>2
    <3>3. CASE ~Talk!Closed(q)
      <4>1. dg_request = Talk!Ask("text-input", q.header, q.prompt,
                                  <<Talk!FieldOf(<<"question", k>>, Talk!NoText, <<>>)>>)
        BY <3>1, <3>3, CodexQuestionIs
      <4> HIDE DEF q, k
      <4>2. dg_request.kind = "text-input"
        BY <4>1, AskIs
      <4> QED BY <4>2
    <3> QED BY <3>2, <3>3
  <2> QED BY <2>1, <2>2
<1>4. /\ Talk!TextsOf(dg_request, dg_result.values, f) = dg_meant[dg_pending.at - 1 + f]
      /\ dg_request.kind # "text-input" => \E i \in DOMAIN dg_request.fields[f].options :
           dg_result.values[dg_request.fields[f].id] = {dg_request.fields[f].options[i].value}
  BY <1>0, <1>3 DEF TalkInv, TalkMeant
<1> DEFINE values == dg_result.values
           at == dg_pending
           qs == dg_question
           r == dg_request
<1>5. /\ Talk!IsSeq(qs) /\ \A k \in DOMAIN qs : IsQuestion(qs[k])
      /\ Talk!Parsed(qs) /\ at.mode = Talk!Mode(qs) /\ at.at \in 1..Len(qs) /\ r = AskedBy(qs, at)
      /\ f \in DOMAIN r.fields
      /\ r.kind # "text-input" => \E i \in DOMAIN r.fields[f].options :
           values[r.fields[f].id] = {r.fields[f].options[i].value}
  BY <1>1, <1>4
<1> HIDE DEF values, at, qs, r
<1>6. Talk!AnswerTo(qs[Asked(at, f)], Asked(at, f), r, values) = Talk!TextsOf(r, values, f)
  BY <1>5, CodexAnswer
<1> QED BY <1>4, <1>6 DEF values, at, qs, r

(* Who has heard an answer asks no more.                                   *)
LEMMA OverKeeps ==
  ASSUME Talk!DialogueAssumption, TalkInv, dg_step' = "over", TalkOver', Talk!TypeOK',
         UNCHANGED <<dg_pending, dg_result, dg_notice, dg_meant, dg_presses>>
  PROVE  TalkInv'
<1>1. TalkTypes'
  BY DEF TalkInv, TalkTypes
<1>2. /\ TalkStarts' /\ TalkOrigin' /\ TalkShown' /\ TalkSaid' /\ TalkMeant' /\ TalkNotices'
      /\ Talk!QuestionsAreShown'
  BY DEF TalkStarts, TalkOrigin, TalkShown, TalkSaid, TalkMeant, TalkNotices,
         Talk!QuestionsAreShown, Underway
<1>3. Talk!NoticesAreTrue'
  BY DEF TalkInv, Talk!NoticesAreTrue
<1> QED BY <1>1, <1>2, <1>3 DEF TalkInv

(* resumeInteraction of the Codex adapter: the answer, the answers of a    *)
(* form, or one more answer and the next question.                         *)
LEMMA ResumeCodexKeeps == ASSUME Talk!DialogueAssumption, TalkInv, Talk!ResumeCodex PROVE TalkInv'
<1>0. /\ Talk!DialogueAssumption /\ TalkInv /\ Talk!ResumeCodex /\ Talk!TypeOK /\ TalkOrigin
      /\ dg_step = "answered" /\ dg_step \in Underway /\ dg_asker = "codex"
  BY DEF TalkInv, TalkTypes, Talk!ResumeCodex, Underway
<1>1. UNCHANGED <<dg_asker, dg_question, dg_card, dg_result, dg_notice, dg_meant, dg_presses>>
  BY <1>0 DEF Talk!ResumeCodex
<1>2. /\ Talk!Parsed(dg_question) /\ dg_pending.mode = Talk!Mode(dg_question)
           /\ Talk!IsSeq(dg_question)
      /\ dg_pending.at \in 1..Len(dg_question) /\ Len(dg_question) \in 1..3
      /\ DOMAIN dg_question = 1..Len(dg_question)
      /\ dg_pending.mode = "form" => /\ dg_request.kind = "form" /\ dg_pending.at = 1
                                  /\ DOMAIN dg_request.fields = DOMAIN dg_question
      /\ dg_pending.mode # "form" => DOMAIN dg_request.fields = {1}
  BY <1>0, CodexKnown
<1>3. \A j, k \in DOMAIN dg_question : dg_question[j].id = dg_question[k].id => j = k
  BY <1>2 DEF Talk!Parsed, Talk!Unique
<1>4. dg_pending.mode \in {"single", "form", "sequential"}
        /\ (dg_pending.mode = "single" => Len(dg_question) = 1)
  BY <1>2, ModeIs
<1>5. CASE dg_result.status # "submitted"
  <2>1. dg_said' = Talk!Nothing /\ dg_step' = "over" /\ UNCHANGED dg_pending
    BY <1>0, <1>5 DEF Talk!ResumeCodex
  <2>2. Talk!TypeOK'
    BY <1>0, <1>1, <2>1 DEF Talk!TypeOK
  <2>3. TalkOver'
    BY <1>0, <1>1, <2>1 DEF TalkOver, Talk!CodexHearsWhatWasMeant, Talk!PiHearsWhatWasMeant,
         Talk!ResultIsWhatWasMeant
  <2> QED BY <1>0, <1>1, <2>1, <2>2, <2>3, OverKeeps
<1>6. CASE dg_result.status = "submitted" /\ dg_pending.mode = "form"
  <2>1. /\ dg_said' = [id \in {dg_question[k].id : k \in DOMAIN dg_question} |->
                        LET k == CHOOSE k \in DOMAIN dg_question : dg_question[k].id = id
                        IN  Talk!AnswerTo(dg_question[k], k, dg_request, dg_result.values)]
        /\ dg_step' = "over" /\ UNCHANGED dg_pending
    BY <1>0, <1>6 DEF Talk!ResumeCodex
  <2>2. DOMAIN dg_said' = {dg_question[k].id : k \in DOMAIN dg_question}
    BY <2>1
  <2>3. ASSUME NEW k \in DOMAIN dg_question
        PROVE  dg_said'[dg_question[k].id] = dg_meant[k]
    <3> DEFINE c == CHOOSE j \in DOMAIN dg_question : dg_question[j].id = dg_question[k].id
    <3>1. c = k
      BY <1>3
    <3>2. dg_said'[dg_question[k].id] = Talk!AnswerTo(dg_question[c], c, dg_request,
                                                      dg_result.values)
      BY <2>1
    <3> HIDE DEF c
    <3>3. k \in DOMAIN dg_request.fields /\ Asked(dg_pending, k) = k /\ dg_pending.at = 1
      BY <1>2, <1>6 DEF Asked
    <3>4. Talk!AnswerTo(dg_question[k], k, dg_request,
                        dg_result.values) = dg_meant[dg_pending.at - 1 + k]
      BY <1>0, <1>6, <3>3, AnswersOfFields
    <3>5. dg_pending.at - 1 + k = k
      BY <1>2, <3>3
    <3> QED BY <3>1, <3>2, <3>4, <3>5
  <2>4. Talk!TypeOK'
    BY <1>0, <1>1, <2>1 DEF Talk!TypeOK
  <2>5. TalkOver'
    BY <1>0, <1>1, <2>2, <2>3 DEF TalkOver, Talk!CodexHearsWhatWasMeant, Talk!PiHearsWhatWasMeant,
         Talk!ResultIsWhatWasMeant
  <2> QED BY <1>0, <1>1, <2>1, <2>4, <2>5, OverKeeps
<1>7. CASE dg_result.status = "submitted" /\ dg_pending.mode # "form"
  <2> DEFINE at == dg_pending.at
             a == Talk!AnswerTo(dg_question[at], at, dg_request, dg_result.values)
             more == dg_pending.mode = "sequential" /\ at < Len(dg_question)
  <2>1. /\ dg_said' = Talk!With(dg_said, dg_question[at].id, a)
        /\ more => /\ dg_pending' = [dg_pending EXCEPT !.at = at + 1]
                   /\ dg_request' = Talk!CodexQuestion(dg_question[at + 1], at + 1)
                   /\ dg_step' = "asked"
        /\ ~more => dg_step' = "over" /\ UNCHANGED <<dg_request, dg_pending>>
    BY <1>0, <1>7 DEF Talk!ResumeCodex
  <2>2. a = dg_meant[at]
    <3>1. 1 \in DOMAIN dg_request.fields /\ Asked(dg_pending, 1) = at
      BY <1>2, <1>7 DEF Asked
    <3>2. a = dg_meant[at - 1 + 1]
      BY <1>0, <1>7, <3>1, AnswersOfFields
    <3>3. at - 1 + 1 = at
      BY <1>2
    <3> QED BY <3>2, <3>3
  <2>3. /\ DOMAIN dg_said = {dg_question[k].id : k \in 1..(at - 1)}
        /\ \A k \in 1..(at - 1) : dg_said[dg_question[k].id] = dg_meant[k]
    BY <1>0 DEF TalkInv, TalkSaid
  <2> HIDE DEF a
  <2>4. at \in 1..Len(dg_question) /\ Len(dg_question) \in 1..3 /\ at \in DOMAIN dg_question
        /\ at \in Nat /\ Len(dg_question) \in Nat
    BY <1>2
  <2> HIDE DEF at
  <2>5. \A k \in 1..(at - 1) : k \in DOMAIN dg_question /\ k # at /\ k \in 1..at
    <3>1. \A n \in 1..3 : \A m \in 1..n : \A k \in 1..(m - 1) : k \in 1..n /\ k # m /\ k \in 1..m
      OBVIOUS
    <3> QED BY <1>2, <2>4, <3>1
  <2>6. \A k \in 1..at : k = at \/ k \in 1..(at - 1)
    BY <2>4
  <2> DEFINE id == dg_question[at].id
             w == Talk!With(dg_said, id, a)
  <2> HIDE DEF id
  <2>12. /\ DOMAIN w = DOMAIN dg_said \union {id} /\ w[id] = a
         /\ \A x \in DOMAIN dg_said : x # id => w[x] = dg_said[x]
    BY DEF Talk!With
  <2> HIDE DEF w
  <2>13. dg_said' = w
    BY <2>1 DEF w, id
  <2>11. /\ DOMAIN dg_said' = DOMAIN dg_said \union {dg_question[at].id}
         /\ dg_said'[dg_question[at].id] = a
         /\ \A x \in DOMAIN dg_said : x # dg_question[at].id => dg_said'[x] = dg_said[x]
    BY <2>12, <2>13 DEF id
  <2>7. DOMAIN dg_said' = {dg_question[k].id : k \in 1..at}
    <3>1. DOMAIN dg_said' = DOMAIN dg_said \union {dg_question[at].id}
      BY <2>11
    <3>2. at \in 1..at
      BY <2>4
    <3> QED BY <2>3, <2>5, <2>6, <3>1, <3>2
  <2>8. \A k \in 1..at : dg_said'[dg_question[k].id] = dg_meant[k]
    <3>1. dg_said'[dg_question[at].id] = dg_meant[at]
      BY <2>2, <2>11
    <3>2. ASSUME NEW k \in 1..(at - 1)
          PROVE  dg_said'[dg_question[k].id] = dg_meant[k]
      <4>1. dg_question[k].id # dg_question[at].id
        BY <1>3, <2>4, <2>5
      <4>2. dg_question[k].id \in DOMAIN dg_said
        BY <2>3
      <4>3. dg_said'[dg_question[k].id] = dg_said[dg_question[k].id]
        BY <2>11, <4>1, <4>2
      <4> QED BY <2>3, <4>3
    <3> QED BY <2>6, <3>1, <3>2
  <2>9. CASE more
    <3>1. /\ dg_pending'.at = at + 1 /\ dg_pending'.mode = "sequential" /\ dg_step' = "asked"
          /\ dg_request' = Talk!CodexQuestion(dg_question[at + 1], at + 1)
      <4>1. dg_pending' = [dg_pending EXCEPT !.at = at + 1] /\ dg_pending.mode = "sequential"
        BY <2>1, <2>9
      <4>2. DOMAIN dg_pending = {"mode", "at"}
        BY <1>0 DEF TalkInv, TalkTypes, Talk!TypeOK
      <4> QED BY <2>1, <2>9, <4>1, <4>2
    <3>0. dg_pending'.at \in Nat \ {0} /\ dg_pending'.at \in 1..Len(dg_question)
            /\ dg_pending'.at - 1 = at
      <4>1. at < Len(dg_question)
        BY <2>9
      <4>2. \A n \in 1..3 : \A m \in 1..n : m < n => m + 1 \in Nat \ {0} /\ m + 1 \in 1..n
              /\ m + 1 - 1 = m
        OBVIOUS
      <4> QED BY <2>4, <3>1, <4>1, <4>2
    <3>2. TalkTypes'
      <4>1. Talk!TypeOK'
        BY <1>0, <1>1, <3>1 DEF Talk!TypeOK
      <4>2. DOMAIN dg_pending' = {"mode", "at"}
        <5>1. dg_pending' = [dg_pending EXCEPT !.at = at + 1]
          BY <2>1, <2>9
        <5>2. DOMAIN dg_pending = {"mode", "at"}
          BY <1>0 DEF TalkInv, TalkTypes
        <5> QED BY <5>1, <5>2
      <4> QED BY <1>0, <1>1, <4>1, <4>2 DEF TalkInv, TalkTypes
    <3>3. TalkOrigin'
      <4>1. dg_request' = AskedBy(dg_question, dg_pending')
        BY <3>1 DEF AskedBy
      <4>2. /\ dg_question \in Questions /\ dg_pending.mode = "sequential"
            /\ \A k \in DOMAIN dg_question : ~dg_question[k].secret
        BY <1>0, <2>9 DEF TalkOrigin
      <4> QED BY <1>0, <1>1, <1>2, <3>0, <3>1, <4>1, <4>2 DEF TalkOrigin
    <3>4. TalkSaid'
      <4>1. /\ DOMAIN dg_said' = {dg_question'[k].id : k \in 1..(dg_pending'.at - 1)}
            /\ \A k \in 1..(dg_pending'.at - 1) : dg_said'[dg_question'[k].id] = dg_meant'[k]
        BY <1>1, <2>7, <2>8, <3>0
      <4> QED BY <4>1 DEF TalkSaid
    <3>5. TalkMeant'
      <4>1. Len(dg_request.fields) = 1
        <5>1. Talk!Valid(dg_request) /\ dg_request.kind # "form"
          <6>1. dg_request.kind # "form"
            BY <1>0, <1>7, CodexKnown
          <6> QED BY <1>0, <6>1 DEF TalkInv, TalkShown
        <5> QED BY <1>0, <5>1, FieldsFit
      <4>2. Len(dg_meant) = at - 1 + 1
        BY <1>0, <1>7, <4>1 DEF TalkInv, TalkMeant, at
      <4>3. Len(dg_meant') = dg_pending'.at - 1
        BY <1>1, <2>4, <3>0, <4>2
      <4> QED BY <3>1, <4>3 DEF TalkMeant
    <3>6. /\ TalkStarts' /\ TalkShown' /\ TalkNotices' /\ TalkOver' /\ Talk!QuestionsAreShown'
      BY <3>1 DEF TalkStarts, TalkShown, TalkNotices, TalkOver, Talk!QuestionsAreShown
    <3>7. Talk!NoticesAreTrue'
      BY <1>0, <1>1, <3>1 DEF TalkInv, Talk!NoticesAreTrue
    <3> QED BY <3>2, <3>3, <3>4, <3>5, <3>6, <3>7 DEF TalkInv
  <2>10. CASE ~more
    <3>1. at = Len(dg_question)
      <4>1. dg_pending.mode = "single" \/ ~(at < Len(dg_question))
        BY <1>4, <1>7, <2>10, Zenon
      <4>2. \A n \in 1..3 : \A m \in 1..n : n = 1 \/ ~(m < n) => m = n
        OBVIOUS
      <4> QED BY <1>2, <1>4, <2>4, <4>1, <4>2
    <3>2. dg_step' = "over" /\ UNCHANGED dg_pending
      BY <2>1, <2>10
    <3>3. Talk!TypeOK'
      BY <1>0, <1>1, <3>2 DEF Talk!TypeOK
    <3>4. DOMAIN dg_question = 1..at
      BY <1>2, <3>1
    <3>5. TalkOver'
      BY <1>0, <1>1, <2>7, <2>8, <3>4 DEF TalkOver, Talk!CodexHearsWhatWasMeant,
           Talk!PiHearsWhatWasMeant, Talk!ResultIsWhatWasMeant
    <3> QED BY <1>0, <1>1, <3>2, <3>3, <3>5, OverKeeps
  <2> QED BY <2>9, <2>10
<1> QED BY <1>5, <1>6, <1>7

(* The two buttons of a confirmation,                                      *)
LEMMA PiConfirm ==
  ASSUME NEW d, d.method = "confirm"
  PROVE  LET r == Talk!PiRequest(d) IN
         /\ r.kind = "confirm" /\ r.fields[1].id = "confirmation"
         /\ DOMAIN r.fields[1].options = 1..2
         /\ r.fields[1].options[1].value = "confirmed"
              /\ Talk!Label(r, r.fields[1].options[1].label) = Talk!Yes
         /\ r.fields[1].options[2].value = "cancelled"
              /\ Talk!Label(r, r.fields[1].options[2].label) = Talk!No
<1> DEFINE title == Talk!Excerpt(Talk!Either(d.title, Talk!Word("confirm", 4)), Talk!TitleLimit)
           os == <<Talk!Option("confirmed", Talk!Yes), Talk!Option("cancelled", Talk!No)>>
           F == Talk!FieldOf("confirmation", Talk!NoText, os)
           r == Talk!PiRequest(d)
<1>1. r = Talk!Ask("confirm", title, Talk!NoText, <<F>>)
  BY PiRequestIs
<1> HIDE DEF title, r
<1>2. F.id = "confirmation" /\ F.options = os
  BY DEF Talk!FieldOf
<1>3. /\ DOMAIN os = 1..2 /\ os[1].label = Talk!Yes /\ os[2].label = Talk!No
      /\ os[1].value = "confirmed" /\ os[2].value = "cancelled"
  BY DEF Talk!Option
<1> HIDE DEF F, os
<1>4. r.kind = "confirm" /\ r.fields = <<F>>
  BY <1>1, AskIs
<1>5. r.fields[1] = F
  BY <1>4
<1>6. Talk!Label(r, Talk!Yes) = Talk!Yes /\ Talk!Label(r, Talk!No) = Talk!No
  <2>1. Talk!Yes.len = 2 /\ Talk!No.len = 2
    BY WordIsText DEF Talk!Yes, Talk!No
  <2> QED BY <2>1 DEF Talk!Label, Talk!Excerpt
<1> QED BY <1>2, <1>3, <1>4, <1>5, <1>6 DEF r

(* the options of a selection,                                             *)
LEMMA PiSelect ==
  ASSUME NEW d, d.method = "select"
  PROVE  LET r == Talk!PiRequest(d) IN
         /\ r.kind = "single-select" /\ r.fields[1].id = "selection"
         /\ DOMAIN r.fields[1].options = DOMAIN Talk!PiOptions(d)
         /\ \A i \in DOMAIN Talk!PiOptions(d) :
              /\ r.fields[1].options[i].value = <<"pi-option", i>>
              /\ Talk!Label(r, r.fields[1].options[i].label) = Talk!Excerpt(Talk!PiOptions(d)[i],
                                                                            Talk!OptionLimit)
<1> DEFINE title == Talk!Excerpt(Talk!Either(d.title, Talk!Word("select", 3)), Talk!TitleLimit)
           ts == Talk!PiOptions(d)
           os == [i \in DOMAIN ts |-> Talk!Option(<<"pi-option", i>>,
                                                  Talk!Excerpt(ts[i], Talk!OptionLimit))]
           F == Talk!FieldOf("selection", Talk!NoText, os)
           r == Talk!PiRequest(d)
<1>1. r = Talk!Ask("single-select", title, Talk!NoText, <<F>>)
  BY PiRequestIs
<1> HIDE DEF title, ts, r
<1>2. F.id = "selection" /\ F.options = os
  BY DEF Talk!FieldOf
<1>3. /\ DOMAIN os = DOMAIN ts
      /\ \A i \in DOMAIN ts : os[i].value = <<"pi-option", i>>
           /\ os[i].label = Talk!Excerpt(ts[i], Talk!OptionLimit)
  BY DEF Talk!Option
<1> HIDE DEF F, os
<1>4. r.kind = "single-select" /\ r.fields = <<F>>
  BY <1>1, AskIs
<1>5. r.fields[1] = F
  BY <1>4
<1>6. \A t : Talk!Label(r, t) = t
  <2>1. Talk!CardKind(r) = "vote"
    BY <1>4, CardKindIs DEF CardKinds
  <2> QED BY <2>1 DEF Talk!Label
<1> QED BY <1>2, <1>3, <1>4, <1>5, <1>6 DEF r, ts

(* and the field of a text.                                                *)
LEMMA PiInput ==
  ASSUME NEW d, d.method \in {"input", "editor"}
  PROVE  LET r == Talk!PiRequest(d) IN r.kind = "text-input" /\ r.fields[1].id = "value"
<1> DEFINE title == Talk!Excerpt(Talk!Either(d.title, Talk!Word("input", 5)), Talk!TitleLimit)
           F == Talk!FieldOf("value", Talk!NoText, <<>>)
           r == Talk!PiRequest(d)
<1>1. r = Talk!Ask("text-input", title, Talk!NoText, <<F>>)
  BY PiRequestIs
<1> HIDE DEF title, r
<1>2. F.id = "value"
  BY DEF Talk!FieldOf
<1> HIDE DEF F
<1>4. r.kind = "text-input" /\ r.fields = <<F>>
  BY <1>1, AskIs
<1>5. r.fields[1] = F
  BY <1>4
<1> QED BY <1>2, <1>4, <1>5 DEF r

(* The two buttons differ.                                                 *)
LEMMA YesIsNotNo == Talk!Yes # Talk!No
<1>1. Talk!Yes.word = "yes" /\ Talk!No.word = "no"
  BY DEF Talk!Yes, Talk!No, Talk!Word
<1> QED BY <1>1

(* What a dialog returns.                                                  *)
LEMMA PiStatusIs ==
  ASSUME NEW d, NEW res
  PROVE  /\ d.method = "confirm" /\ res.status = "expired" => Talk!PiStatus(d, res) = "cancelled"
         /\ d.method = "confirm" /\ res.status = "cancelled" => Talk!PiStatus(d, res) = "declined"
         /\ d.method = "confirm" /\ res.status = "submitted" =>
              Talk!PiStatus(d, res) = IF "confirmed" \in res.values["confirmation"]
                                 THEN "confirmed" ELSE "declined"
         /\ d.method # "confirm" =>
              Talk!PiStatus(d, res) = IF res.status = "submitted" THEN "value" ELSE "cancelled"
BY DEF Talk!PiStatus

(* One answer is all there is.                                             *)
LEMMA One ==
  ASSUME NEW S, NEW m \in Seq(S), Len(m) = 1 PROVE m = <<m[1]>>
OBVIOUS

(* resumeInteraction of the Pi adapter, method by method and result by     *)
(* result.                                                                 *)
LEMMA ResumePiKeeps == ASSUME Talk!DialogueAssumption, TalkInv, Talk!ResumePi PROVE TalkInv'
<1> DEFINE d == dg_question
           r == dg_request
           res == dg_result
<1>0. /\ Talk!DialogueAssumption /\ TalkInv /\ Talk!ResumePi /\ Talk!TypeOK /\ TalkOrigin
      /\ dg_step = "answered" /\ dg_step \in Underway /\ dg_asker = "pi"
  BY DEF TalkInv, TalkTypes, Talk!ResumePi, Underway
<1>1. /\ UNCHANGED <<dg_asker, dg_question, dg_pending, dg_request, dg_card, dg_result, dg_notice,
           dg_meant, dg_presses>>
      /\ dg_reply' = Talk!PiStatus(d, res) /\ dg_said' = Talk!PiValue(d, res) /\ dg_step' = "over"
  BY <1>0 DEF Talk!ResumePi
<1>2. /\ d \in Dialogs /\ r = Talk!PiRequest(d) /\ dg_pending = Talk!NoPending
  BY <1>0 DEF TalkOrigin
<1>3. d.method \in {"confirm", "select", "input", "editor"}
  BY <1>0, <1>2 DEF Talk!DialogueAssumption
<1>4. Talk!Valid(r)
  BY <1>0 DEF TalkInv, TalkShown
<1>5. /\ dg_pending.at = 1 /\ DOMAIN r.fields = 1..Len(r.fields)
      /\ r.kind # "form" => Len(r.fields) = 1 /\ DOMAIN r.fields = {1}
  BY <1>0, <1>4, FieldsFit
<1>6. r.kind # "form"
  BY <1>2, <1>3, PiConfirm, PiSelect, PiInput
<1>7. /\ Len(r.fields) = 1 /\ DOMAIN r.fields = {1} /\ dg_pending.at = 1
      /\ 1 - 1 = 0 /\ 1 - 1 + 1 = 1
  BY <1>5, <1>6
<1>8. PICK S : dg_meant \in Seq(S)
  BY <1>0 DEF TalkInv, TalkTypes
<1>9. /\ res.status \in {"submitted", "cancelled", "expired"}
      /\ res.status = "expired" => Len(dg_meant) = 0
      /\ res.status = "cancelled" =>
           /\ r.kind = "confirm" /\ Len(dg_meant) = 1
           /\ dg_meant[1] = {Talk!Label(r, r.fields[1].options[2].label)}
      /\ res.status = "submitted" => Len(dg_meant) = 1
           /\ Talk!TextsOf(r, res.values, 1) = dg_meant[1]
      /\ res.status = "submitted" /\ r.kind \notin {"multi-select", "text-input"} =>
           \E i \in DOMAIN r.fields[1].options :
             res.values[r.fields[1].id] = {r.fields[1].options[i].value}
  <2>1. res.status \in {"submitted", "cancelled", "expired"}
    BY <1>0 DEF TalkInv, TalkMeant, Talk!TypeOK
  <2>2. \A f \in DOMAIN r.fields : f = 1
    BY <1>7
  <2> QED BY <1>0, <1>7, <2>1 DEF TalkInv, TalkMeant
<1>10. Len(dg_meant) = 0 => \A x : dg_meant # <<x>>
  <2>1. \A x : Len(<<x>>) = 1
    OBVIOUS
  <2> QED BY <2>1
<1>11. Len(dg_meant) = 1 => dg_meant = <<dg_meant[1]>>
  BY <1>8, One
<1>12. Talk!PiHearsWhatWasMeant'
  <2>1. CASE d.method = "confirm"
    <3> DEFINE os == r.fields[1].options
    <3>1. /\ r.kind = "confirm" /\ r.fields[1].id = "confirmation" /\ DOMAIN os = 1..2
          /\ os[1].value = "confirmed" /\ Talk!Label(r, os[1].label) = Talk!Yes
          /\ os[2].value = "cancelled" /\ Talk!Label(r, os[2].label) = Talk!No
      BY <1>2, <2>1, PiConfirm
    <3> HIDE DEF r, d, res
    <3>2. dg_reply' # "value" /\ (dg_reply' = "confirmed" <=> dg_meant = <<{Talk!Yes}>>)
      <4>1. CASE res.status = "expired"
        BY <1>1, <1>9, <1>10, <2>1, <4>1, PiStatusIs
      <4>2. CASE res.status = "cancelled"
        <5>1. dg_meant = <<{Talk!No}>> /\ {Talk!No} # {Talk!Yes}
          BY <1>9, <1>11, <3>1, <4>2, YesIsNotNo
        <5>2. <<{Talk!No}>> # <<{Talk!Yes}>>
          BY <5>1
        <5>3. dg_reply' = "declined"
          BY <1>1, <2>1, <4>2, PiStatusIs
        <5> QED BY <5>1, <5>2, <5>3
      <4>3. CASE res.status = "submitted"
        <5>1. PICK i \in DOMAIN os : res.values["confirmation"] = {os[i].value}
          BY <1>9, <3>1, <4>3
        <5>2. dg_meant = <<dg_meant[1]>>
              /\ dg_meant[1] = {Talk!Label(r, os[j].label)
                                : j \in {j \in DOMAIN os : os[j].value \in {os[i].value}}}
          <6>1. Talk!TextsOf(r, res.values, 1) =
                 {Talk!Label(r, os[j].label) : j \in
                     {j \in DOMAIN os : os[j].value \in res.values["confirmation"]}}
            BY <3>1 DEF Talk!TextsOf
          <6> QED BY <1>9, <1>11, <4>3, <5>1, <6>1
        <5>3. \A j \in DOMAIN os : j = 1 \/ j = 2
          BY <3>1
        <5> HIDE DEF os
        <5>4. dg_meant[1] = {Talk!Label(r, os[i].label)}
          <6>1. \A j \in DOMAIN os : os[j].value = os[i].value <=> j = i
            BY <3>1, <5>3
          <6> QED BY <5>2, <6>1
        <5>5. i = 1 \/ i = 2
          BY <5>3
        <5>6. CASE i = 1
          BY <1>1, <2>1, <3>1, <4>3, <5>1, <5>2, <5>4, <5>6, PiStatusIs
        <5>7. CASE i = 2
          <6>1. dg_meant = <<{Talk!No}>> /\ {Talk!No} # {Talk!Yes}
            BY <3>1, <5>2, <5>4, <5>7, YesIsNotNo
          <6>2. <<{Talk!No}>> # <<{Talk!Yes}>>
            BY <6>1
          <6>3. dg_reply' = "declined"
            BY <1>1, <2>1, <3>1, <4>3, <5>1, <5>7, PiStatusIs
          <6> QED BY <6>1, <6>2, <6>3
        <5> QED BY <5>5, <5>6, <5>7
      <4> QED BY <1>9, <4>1, <4>2, <4>3
    <3> QED BY <1>1, <2>1, <3>2 DEF Talk!PiHearsWhatWasMeant, d
  <2>2. CASE d.method # "confirm" /\ res.status # "submitted"
    <3>1. /\ dg_reply' = "cancelled"
      BY <1>1, <2>2, PiStatusIs
    <3> QED BY <1>1, <2>2, <3>1 DEF Talk!PiHearsWhatWasMeant
  <2>3. CASE d.method = "select" /\ res.status = "submitted"
    <3> DEFINE os == r.fields[1].options
               ts == Talk!PiOptions(d)
    <3>1. /\ r.kind = "single-select" /\ r.fields[1].id = "selection" /\ DOMAIN os = DOMAIN ts
          /\ \A i \in DOMAIN ts : /\ os[i].value = <<"pi-option", i>>
                                  /\ Talk!Label(r, os[i].label) = Talk!Excerpt(ts[i],
                                                                               Talk!OptionLimit)
      BY <1>2, <2>3, PiSelect
    <3>2. dg_reply' = "value"
      BY <1>1, <2>3, PiStatusIs
    <3>3. dg_said' = [x \in {"value"} |->
             {ts[CHOOSE i \in DOMAIN ts : v = <<"pi-option", i>>] : v \in res.values["selection"]}]
      BY <1>1, <2>3, <3>2 DEF Talk!PiValue
    <3>4. PICK i \in DOMAIN os : res.values["selection"] = {os[i].value}
      BY <1>9, <2>3, <3>1
    <3>5. dg_meant = <<dg_meant[1]>> /\ dg_meant[1] =
            {Talk!Label(r, os[j].label) : j \in {j \in DOMAIN os
                                                 : os[j].value \in res.values["selection"]}}
      <4>1. Talk!TextsOf(r, res.values, 1) =
             {Talk!Label(r, os[j].label) : j \in {j \in DOMAIN os
                                                  : os[j].value \in res.values["selection"]}}
        BY <3>1 DEF Talk!TextsOf
      <4> QED BY <1>9, <1>11, <2>3, <4>1
    <3> HIDE DEF os, ts, r, d, res
    <3>6. \A j, k : <<"pi-option", j>> = <<"pi-option", k>> => j = k
      OBVIOUS
    <3>7. dg_meant[1] = {Talk!Label(r, os[i].label)}
      <4>1. \A j \in DOMAIN os : os[j].value = os[i].value <=> j = i
        BY <3>1, <3>6
      <4> QED BY <3>4, <3>5, <4>1
    <3>8. dg_said'["value"] = {ts[i]}
      <4>1. (CHOOSE j \in DOMAIN ts : os[i].value = <<"pi-option", j>>) = i
        BY <3>1, <3>6
      <4>2. dg_said'["value"] = {ts[CHOOSE j \in DOMAIN ts : v = <<"pi-option", j>>]
                                 : v \in {os[i].value}}
        BY <3>3, <3>4
      <4> QED BY <4>1, <4>2
    <3>9. dg_meant = <<{Talk!Excerpt(t, Talk!OptionLimit) : t \in dg_said'["value"]}>>
      <4>1. {Talk!Excerpt(t, Talk!OptionLimit) : t \in dg_said'["value"]} =
             {Talk!Excerpt(ts[i], Talk!OptionLimit)}
        BY <3>8
      <4>2. Talk!Label(r, os[i].label) = Talk!Excerpt(ts[i], Talk!OptionLimit)
        BY <3>1
      <4> QED BY <3>5, <3>7, <4>1, <4>2
    <3> QED BY <1>1, <2>3, <3>2, <3>9 DEF Talk!PiHearsWhatWasMeant, d
  <2>4. CASE d.method \in {"input", "editor"} /\ res.status = "submitted"
    <3>1. r.kind = "text-input" /\ r.fields[1].id = "value"
      BY <1>2, <2>4, PiInput
    <3>2. dg_reply' = "value"
      BY <1>1, <2>4, PiStatusIs
    <3>3. dg_said' = res.values
      BY <1>1, <2>4, <3>2 DEF Talk!PiValue
    <3>4. dg_meant = <<dg_said'["value"]>>
      <4>1. Talk!TextsOf(r, res.values, 1) = res.values["value"]
        BY <3>1 DEF Talk!TextsOf
      <4> QED BY <1>9, <1>11, <2>4, <3>3, <4>1
    <3> QED BY <1>1, <2>4, <3>2, <3>4 DEF Talk!PiHearsWhatWasMeant
  <2> QED BY <1>3, <2>1, <2>2, <2>3, <2>4
<1>13. Talk!TypeOK'
  BY <1>0, <1>1 DEF Talk!TypeOK
<1>14. TalkOver'
  BY <1>0, <1>1, <1>12 DEF TalkOver, Talk!CodexHearsWhatWasMeant, Talk!ResultIsWhatWasMeant
<1> QED BY <1>0, <1>1, <1>13, <1>14, OverKeeps

(* continueInteraction                                                     *)
LEMMA ResumeOfferKeeps == ASSUME Talk!DialogueAssumption, TalkInv, Talk!ResumeOffer PROVE TalkInv'
<1>0. /\ Talk!DialogueAssumption /\ TalkInv /\ Talk!ResumeOffer /\ Talk!TypeOK /\ TalkOrigin
      /\ dg_step = "answered" /\ dg_step \in Underway /\ dg_asker = "offer"
  BY DEF TalkInv, TalkTypes, Talk!ResumeOffer, Underway
<1>1. /\ UNCHANGED <<dg_asker, dg_question, dg_pending, dg_request, dg_card, dg_result, dg_notice,
           dg_meant, dg_presses>>
      /\ dg_reply' = dg_result.status /\ dg_said' = dg_result.values /\ dg_step' = "over"
  BY <1>0 DEF Talk!ResumeOffer
<1>2. Talk!Valid(dg_request)
  BY <1>0 DEF TalkInv, TalkShown
<1>3. dg_pending.at = 1 /\ DOMAIN dg_request.fields = 1..Len(dg_request.fields)
        /\ Len(dg_request.fields) \in Nat
  BY <1>0, <1>2, FieldsFit
<1>4. dg_result.status = "submitted" =>
        \A f \in DOMAIN dg_request.fields : Talk!TextsOf(dg_request, dg_result.values,
                                                         f) = dg_meant[1 - 1 + f]
  BY <1>0, <1>3 DEF TalkInv, TalkMeant
<1>5. \A f \in DOMAIN dg_request.fields : 1 - 1 + f = f
  BY <1>3
<1>6. dg_result.status = "submitted" =>
        \A f \in DOMAIN dg_request.fields : Talk!TextsOf(dg_request, dg_result.values,
                                                         f) = dg_meant[f]
  BY <1>4, <1>5
<1>7. Talk!ResultIsWhatWasMeant'
  BY <1>1, <1>6 DEF Talk!ResultIsWhatWasMeant, Talk!TextsOf
<1>13. Talk!TypeOK'
  BY <1>0, <1>1 DEF Talk!TypeOK
<1>14. TalkOver'
  BY <1>0, <1>1, <1>7 DEF TalkOver, Talk!CodexHearsWhatWasMeant, Talk!PiHearsWhatWasMeant
<1> QED BY <1>0, <1>1, <1>13, <1>14, OverKeeps

(* Every step of a dialogue keeps the invariant.                           *)
LEMMA TalkKeeps == ASSUME Talk!DialogueAssumption, TalkInv, [Talk!Next]_(Talk!vars) PROVE TalkInv'
<1>1. CASE Talk!AskCodex \/ Talk!AskPi \/ Talk!AskOffer
  BY <1>1, AskCodexKeeps, AskPiKeeps, AskOfferKeeps
<1>2. CASE Talk!Show \/ Talk!Expire
  BY <1>2, ShowKeeps, ExpireKeeps
<1>3. CASE \E p \in Presses : Talk!Press(p)
  BY <1>3, PressKeeps
<1>4. CASE \E t \in Typed : Talk!Type(t)
  BY <1>4, TypeKeeps
<1>5. CASE Talk!ResumeCodex \/ Talk!ResumePi \/ Talk!ResumeOffer
  BY <1>5, ResumeCodexKeeps, ResumePiKeeps, ResumeOfferKeeps
<1>6. CASE UNCHANGED Talk!vars
  <2>1. TalkStarts' /\ TalkOrigin' /\ TalkShown' /\ TalkSaid'
    BY <1>6 DEF TalkInv, Talk!vars, TalkStarts, TalkOrigin, TalkShown, TalkSaid
  <2>4. TalkTypes'
    <3>1. Talk!TypeOK'
      BY <1>6, ZenonT(40) DEF TalkInv, Talk!vars, TalkTypes, Talk!TypeOK
    <3> QED BY <1>6, <3>1 DEF TalkInv, Talk!vars, TalkTypes
  <2>2. TalkMeant' /\ TalkNotices' /\ Talk!QuestionsAreShown' /\ Talk!NoticesAreTrue'
    BY <1>6, ZenonT(40) DEF TalkInv, Talk!vars, TalkMeant, TalkNotices, Talk!QuestionsAreShown,
         Talk!NoticesAreTrue, Talk!TextsOf
  <2>3. TalkOver'
    BY <1>6 DEF TalkInv, Talk!vars, TalkOver, Talk!CodexHearsWhatWasMeant, Talk!PiHearsWhatWasMeant,
                Talk!ResultIsWhatWasMeant, Talk!TextsOf
  <2> QED BY <2>1, <2>2, <2>3, <2>4 DEF TalkInv
<1> QED BY <1>1, <1>2, <1>3, <1>4, <1>5, <1>6 DEF Talk!Next

(* It gives what is promised of the dialogue.                              *)
LEMMA TalkGives ==
  ASSUME Talk!DialogueAssumption, TalkInv
  PROVE  /\ Talk!TypeOK /\ Talk!CodexHearsWhatWasMeant /\ Talk!PiHearsWhatWasMeant
              /\ Talk!ResultIsWhatWasMeant
         /\ Talk!SecretsAreNotAsked /\ Talk!QuestionsAreShown /\ Talk!CardsCanBeAnswered
              /\ Talk!NoticesAreTrue
<1>1. Talk!TypeOK /\ Talk!QuestionsAreShown /\ Talk!NoticesAreTrue
  BY DEF TalkInv, TalkTypes
<1>2. Talk!CodexHearsWhatWasMeant /\ Talk!PiHearsWhatWasMeant /\ Talk!ResultIsWhatWasMeant
  BY DEF TalkInv, TalkOver, Talk!CodexHearsWhatWasMeant, Talk!PiHearsWhatWasMeant,
       Talk!ResultIsWhatWasMeant
<1>3. Talk!SecretsAreNotAsked
  BY DEF TalkInv, TalkOrigin, Talk!SecretsAreNotAsked, Underway
<1>4. Talk!CardsCanBeAnswered
  <2> SUFFICES ASSUME dg_step = "open", dg_request.kind # "text-input",
        NEW from \in [DOMAIN dg_card.fields -> UNION {DOMAIN dg_card.fields[f].options :
                                                f \in DOMAIN dg_card.fields}],
        NEW n \in IF dg_request.kind = "multi-select" THEN dg_request.min..dg_request.max ELSE {1},
        \A f \in DOMAIN dg_card.fields : from[f] + n <= Len(dg_card.fields[f].options) + 1
      PROVE  Talk!Fits(dg_request, Talk!PressOf(dg_card, from, n))
    BY DEF Talk!CardsCanBeAnswered
  <2>1. dg_step \in Underway /\ Talk!TypeOK /\ TalkOrigin /\ Talk!Valid(dg_request)
          /\ dg_card = Talk!Presentation(dg_request)
    BY <1>1 DEF TalkInv, TalkShown, Underway
  <2>2. Talk!IsRequest(dg_request)
    BY <2>1, RequestKnown
  <2>3. dg_request.kind \in CardKinds
    BY <2>2 DEF Talk!IsRequest, CardKinds
  <2> DEFINE r == dg_request
  <2> HIDE DEF r
  <2>4. /\ DOMAIN dg_card.fields = DOMAIN r.fields
        /\ \A f \in DOMAIN r.fields : DOMAIN dg_card.fields[f].options = DOMAIN r.fields[f].options
    <3>1. dg_card = Talk!Presentation(r)
      BY <2>1 DEF r
    <3> QED BY <3>1, CardIs
  <2>5. \A f \in DOMAIN r.fields : Talk!IsSeq(r.fields[f].options)
    BY <2>2 DEF Talk!IsRequest, r
  <2>6. \A f \in DOMAIN r.fields : Len(dg_card.fields[f].options) = Len(r.fields[f].options)
    <3> SUFFICES ASSUME NEW f \in DOMAIN r.fields
                 PROVE  Len(dg_card.fields[f].options) = Len(r.fields[f].options)
      OBVIOUS
    <3>1. /\ DOMAIN dg_card.fields[f].options = 1..Len(r.fields[f].options)
          /\ Len(r.fields[f].options) \in Nat
      BY <2>4, <2>5 DEF Talk!IsSeq
    <3>2. DOMAIN dg_card.fields[f].options = DOMAIN r.fields[f].options
      BY <2>4
    <3>3. dg_card.fields[f].options =
            [i \in DOMAIN r.fields[f].options |->
               [id |-> Talk!Id(r, i), text |-> Talk!Label(r, r.fields[f].options[i].label)]]
      BY <2>1 DEF Talk!Presentation, r
    <3> QED BY <3>1, <3>3
  <2>7. from \in [DOMAIN r.fields -> Nat \ {0}]
    <3>1. UNION {DOMAIN dg_card.fields[f].options : f \in DOMAIN dg_card.fields} \subseteq Nat \ {0}
      <4>1. ASSUME NEW f \in DOMAIN r.fields
            PROVE  DOMAIN dg_card.fields[f].options \subseteq Nat \ {0}
        <5>1. \A m \in Nat : 1..m \subseteq Nat \ {0}
          OBVIOUS
        <5>2. DOMAIN dg_card.fields[f].options = 1..Len(r.fields[f].options)
                /\ Len(r.fields[f].options) \in Nat
          BY <2>4, <2>5 DEF Talk!IsSeq
        <5> QED BY <5>1, <5>2
      <4> QED BY <2>4, <4>1
    <3> QED BY <2>4, <3>1
  <2>8. \A f \in DOMAIN r.fields : from[f] + n <= Len(r.fields[f].options) + 1
    BY <2>4, <2>6
  <2>9. Talk!Fits(r, Talk!PressOf(Talk!Presentation(r), from, n))
    <3>1. Talk!IsRequest(r) /\ Talk!Valid(r) /\ r.kind \in CardKinds
      BY <2>1, <2>2, <2>3 DEF r
    <3>2. n \in IF r.kind = "multi-select" THEN r.min..r.max ELSE {1}
      BY DEF r
    <3> QED BY <2>7, <2>8, <3>1, <3>2, PressFits
  <2> QED BY <2>1, <2>9 DEF r
<1> QED BY <1>1, <1>2, <1>3, <1>4

(* The invariant of the dialogue holds in every state.                     *)
LEMMA DialogueInvariant == Talk!DialogueAssumption /\ Talk!Spec => []TalkInv
<1> SUFFICES ASSUME Talk!DialogueAssumption PROVE Talk!Spec => []TalkInv
  OBVIOUS
<1>1. Talk!Init => TalkInv
  BY TalkStart
<1>2. TalkInv /\ [Talk!Next]_(Talk!vars) => TalkInv'
  BY TalkKeeps
<1> QED BY <1>1, <1>2, PTL DEF Talk!Spec

-----------------------------------------------------------------------------
(* The parts together                                                      *)

(* A behaviour of the parts is one of each part, which moves or stutters.  *)
LEMMA PartsRunsProcess == PartsSpec => Spec
<1>1. PartsInit => Init
  BY DEF PartsInit
<1>2. [PartsNext]_partsVars => [Next]_vars
  BY DEF PartsNext, partsVars, ProcessStep, SpoolStep, InboundStep, ReplyStep, TalkStep, vars
<1> QED BY <1>1, <1>2, PTL DEF PartsSpec, Spec

(* The same of the media spool,                                            *)
LEMMA PartsRunsSpool == PartsSpec => Spool!Spec
<1>1. PartsInit => Spool!Init
  BY DEF PartsInit
<1>2. [PartsNext]_partsVars => [Spool!Next]_(Spool!vars)
  BY DEF PartsNext, partsVars, ProcessStep, SpoolStep, InboundStep, ReplyStep, TalkStep, spoolVars,
       Spool!vars
<1> QED BY <1>1, <1>2, PTL DEF PartsSpec, Spool!Spec

(* of the inbound media,                                                   *)
LEMMA PartsRunsInbound == PartsSpec => Inbound!Spec
<1>1. PartsInit => Inbound!Init
  BY DEF PartsInit
<1>2. [PartsNext]_partsVars => [Inbound!Next]_(Inbound!vars)
  BY DEF PartsNext, partsVars, ProcessStep, SpoolStep, InboundStep, ReplyStep, TalkStep,
       inboundVars, Inbound!vars
<1> QED BY <1>1, <1>2, PTL DEF PartsSpec, Inbound!Spec

(* of the reply,                                                           *)
LEMMA PartsRunsReply == PartsSpec => Answer!Spec
<1>1. PartsInit => Answer!Init
  BY DEF PartsInit
<1>2. [PartsNext]_partsVars => [Answer!Next]_(Answer!vars)
  BY DEF PartsNext, partsVars, ProcessStep, SpoolStep, InboundStep, ReplyStep, TalkStep, replyVars,
       Answer!vars
<1> QED BY <1>1, <1>2, PTL DEF PartsSpec, Answer!Spec

(* and of the dialogue.                                                    *)
LEMMA PartsRunsTalk == PartsSpec => Talk!Spec
<1>1. PartsInit => Talk!Init
  BY DEF PartsInit
<1>2. [PartsNext]_partsVars => [Talk!Next]_(Talk!vars)
  BY DEF PartsNext, partsVars, ProcessStep, SpoolStep, InboundStep, ReplyStep, TalkStep, talkVars,
       Talk!vars
<1> QED BY <1>1, <1>2, PTL DEF PartsSpec, Talk!Spec

(* The invariant of the inbound media gives what is promised of it.        *)
LEMMA InboundMeans == InboundInv => Inbound!RunsFindTheirFiles /\ Inbound!StartsFailForOthers
BY DEF InboundInv, InboundTypes, CleanupApart, FoldersKept, TakenByOthers, Disturbed,
       Inbound!RunsFindTheirFiles, Inbound!StartsFailForOthers

(* MediaSpool and InboundMedia, for any number of artifacts, messages and  *)
(* gateways, any limits and any number of faults: the quota holds, what is *)
(* uploaded is what was staged, no file is lost or left, a run finds its   *)
(* files, and a start fails on another gateway's work only.                *)
THEOREM PartsMediaKept == PartsSpec => []MediaKept
<1>1. SpoolInv /\ InboundInv => MediaKept
  BY SpoolMeans, InboundMeans DEF MediaKept
<1>2. Spool!SpoolAssumption /\ Inbound!InboundAssumption
  BY PartsAssumption
<1> QED BY <1>1, <1>2, PartsRunsSpool, PartsRunsInbound, SpoolInvariant, InboundInvariant, PTL

(* MutableReply and the end of handle, for any number of deltas, stops and *)
(* faults: the final text is sent, is whole, and is the last one; a card   *)
(* that is stored has its answer sent before it.                           *)
THEOREM PartsRepliesClose == PartsSpec => []RepliesClose
<1>1. ReplyInv => RepliesClose
  BY ReplyMeans DEF RepliesClose
<1>2. Answer!ReplyAssumption
  BY PartsAssumption
<1> QED BY <1>1, <1>2, PartsRunsReply, ReplyInvariant, PTL

(* The Codex and Pi adapters, the gateway's interactions and the           *)
(* transport's cards, for any questions, dialogs, requests and presses of  *)
(* their types: an agent hears the texts the human picked or typed, a      *)
(* question an adapter puts can be shown and answered, no secret is asked, *)
(* and a card's verdict is in the words of the choice.                     *)
THEOREM PartsAnswersAreMeant == PartsSpec => []AnswersAreMeant
<1>1. Talk!DialogueAssumption
  BY PartsAssumption
<1>2. TalkInv => AnswersAreMeant
  BY <1>1, TalkGives DEF AnswersAreMeant
<1> QED BY <1>1, <1>2, PartsRunsTalk, DialogueInvariant, PTL

(* Every part keeps its types.                                             *)
THEOREM PartsAreTyped == PartsSpec => []PartsTypeOK
<1>1. ConflictInv /\ SpoolInv /\ ReplyInv /\ TalkInv => PartsTypeOK
  BY PartsAssumption, TalkGives, SpoolMeans, ReplyMeans DEF PartsTypeOK, ConflictInv, ProcessInv
<1>2. Spool!SpoolAssumption /\ Answer!ReplyAssumption /\ Talk!DialogueAssumption
  BY PartsAssumption
<1> QED BY <1>1, <1>2, PartsRunsProcess, PartsRunsSpool, PartsRunsReply, PartsRunsTalk,
       ProcessInvariant, SpoolInvariant, ReplyInvariant, DialogueInvariant, PTL
================================================================================
